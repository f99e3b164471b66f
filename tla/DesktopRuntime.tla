--------------------------- MODULE DesktopRuntime ---------------------------
(***************************************************************************)
(* The desktop runtime (desktop_runtime.c): every pointer and keyboard     *)
(* event of the host is routed to the shell, the built-in dialogs, NixInfo *)
(* or the Wayland clients.  rt is the runtime's state: the record of       *)
(* ApplicationHost, the dialogs, the gestures in progress, and what the    *)
(* Wayland server (wayland_server.c) holds of the keyboard and the         *)
(* pointer.  hand is what the host reports to be held down.                *)
(*                                                                         *)
(* A Wayland client is what its toplevel windows do: they map with the     *)
(* server's own menu or one of their own, unmap, and turn fullscreen.      *)
(* What the server refuses the runtime is part of rt: the close or resize  *)
(* of a window that is deaf, the focus of an X window the X server does    *)
(* not show any more, a motion over a grab without contents.  A failed     *)
(* handler, like a wish to quit, ends the session.                         *)
(***************************************************************************)
EXTENDS ApplicationHost, TLC

CONSTANTS
    Keys,               \* the keys of the keyboard, some of them the menu's
    Buttons,            \* the buttons of the pointer, "left" among them
    CaptureCapacity,    \* NIXBENCH_SHELL_KEY_CAPTURE_CAPACITY
    Themes              \* which of FALSE (fixed menu bar) and TRUE (floating menu, dock) are run

VARIABLES rt, hand

vars == <<rt, hand>>

Dialogs == {"about", "settings", "wallpaper"}
WaylandSources == {"wayland", "own"}
MenuKeys == {"FK10", "LEFT", "RTRN", "ESC"}

ASSUME RuntimeAssumption ==
    /\ CaptureCapacity \in Nat
    /\ "left" \in Buttons /\ Themes \subseteq BOOLEAN

NoControls == [settings |-> "none", wallpaper |-> "none"]

\* nb_desktop_runtime_create: NixInfo is started before the Wayland server is.
Created(floating) ==
    SyncFocus(Start(HostInit(floating))) @@
    [dialog |-> [n \in Dialogs |-> None], pressed |-> NoControls,
     dock_dragging |-> FALSE, dock_moved |-> FALSE, context_down |-> FALSE,
     kb_focused |-> FALSE, captured |-> {}, quit |-> FALSE,
     kfocus |-> None, keys |-> {}, grab |-> None, buttons |-> {},
     deaf |-> {}, hidden |-> {}, blank |-> FALSE]

Init ==
    /\ \E floating \in Themes : rt = Created(floating)
    /\ hand = [keys |-> {}, buttons |-> {}]

Running == Ok(rt) /\ ~rt.quit

(***************************************************************************)
(* The Wayland server's keyboard and pointer, as the runtime uses them.    *)
(***************************************************************************)
WaylandWindows(r) == {w \in Open(r.shell) : r.shell.windows[w].source \in WaylandSources}
Owned(r, w) == IF w \in WaylandWindows(r) THEN w ELSE None
Grabbed(r) == r.grab # None /\ r.buttons # {}
Hover(r, target) == IF target.part = "content" THEN Owned(r, target.window) ELSE None

ServerPress(r, hover, b) ==
    LET target == IF r.grab # None THEN r.grab ELSE hover
    IN  IF b \in r.buttons \/ target = None THEN r
        ELSE [r EXCEPT !.buttons = @ \cup {b}, !.grab = IF r.buttons = {} THEN target ELSE @]

ServerRelease(r, b) ==
    LET left == r.buttons \ {b}
    IN  [r EXCEPT !.buttons = left, !.grab = IF left = {} THEN None ELSE @,
                  !.blank = @ /\ left # {}]

\* nb_wayland_server_pointer_motion: the grab goes on without contents to point at.
ServerMotion(r) == IF r.blank THEN Fail(r, "refused") ELSE r

\* nb_wayland_server_request_close and _window_resized of a window that is the server's.
AskClient(r, w) == IF w \in r.deaf THEN Fail(r, "refused") ELSE r

ForwardKey(r, key, down) == [r EXCEPT !.keys = IF down THEN @ \cup {key} ELSE @ \ {key}]

\* focus_native_window: the X server refuses a window it does not show, and
\* once it is dead, any change from a window of its own.
FocusRefused(r, old, new) == old # new /\ (new \in r.hidden \/ old \in r.hidden \cap r.deaf)

\* keyboard_change_focus: the focus has moved by the time the X server refuses.
ChangeFocus(r, new) ==
    LET moved == [r EXCEPT !.kfocus = new]
    IN  IF FocusRefused(r, r.kfocus, new) THEN Fail(moved, "refused") ELSE moved

\* sync_application_focus: NixInfo, then the Wayland server.
FocusWayland(r) ==
    IF ~Ok(r) THEN r
    ELSE ChangeFocus(r, IF r.kb_focused THEN Owned(r, r.shell.active) ELSE None)

Sync(r) == FocusWayland(SyncFocus(r))

HasKeyboardTarget(r) == r.kb_focused /\ Owned(r, r.shell.active) # None

(***************************************************************************)
(* The dialogs and the actions of the shell.                               *)
(***************************************************************************)
Activated(r, w) ==
    IF CanActivate(r.shell, w)
    THEN Sync([r EXCEPT !.shell = ActivateWindow(@, w)])
    ELSE Fail(r, "minimized")

Shown(r, name, w) == [r EXCEPT !.dialog[name] = w, !.shell = OpenWindow(@, w, name, {"close"})]

Show(r, name) ==
    IF r.dialog[name] \in Open(r.shell) THEN Activated(r, r.dialog[name])
    ELSE IF ~CanOpenWindow(r.shell, name, {"close"}) THEN Fail(r, "full")
    ELSE Sync(Shown(r, name, FreshWindow(r)))

Close(r, name) ==
    Sync([r EXCEPT !.dialog[name] = None,
                   !.shell = DestroyWindow(@, r.dialog[name]),
                   !.pressed = IF name \in DOMAIN r.pressed
                               THEN [r.pressed EXCEPT ![name] = "none"] ELSE @])

OpenNixInfo(r) ==
    IF ~r.running THEN Start(r)
    ELSE IF r.windows = <<>> THEN Restart(r)
    ELSE Activated(r, Last(r.windows).window)

DesktopCommand(r, command) ==
    CASE command \in {"about", "settings"} -> Show(r, command)
      [] command = "nixinfo" -> OpenNixInfo(r)
      [] command = "quit" -> [r EXCEPT !.quit = TRUE]
      [] OTHER -> r

\* The dialogs an action closes: by the gadget of the window, or by its menu.
ClosedDialogs(r, a) ==
    {n \in Dialogs : r.dialog[n] = a.window
        /\ (a.type = "close requested" \/ (a.type = "menu command" /\ a.source = n))}

\* What the server passes on to the client: a close by the gadget or by the
\* server's own menu, and a new size; a failed command of another menu is ignored.
AsksClient(a) ==
    \/ a.type \in {"close requested", "window resized"}
    \/ a.type = "menu command" /\ a.source = "wayland" /\ a.command = "close"

\* What is left of an action the application host did not want.
ApplyUnhandled(r, a) ==
    LET closed == {n \in ClosedDialogs(r, a) : r.dialog[n] # None}
    IN  IF closed # {} THEN Close(r, CHOOSE n \in closed : TRUE)
        ELSE CASE a.type = "minimize toggled" /\ a.window \in Open(r.shell) ->
                    Sync([r EXCEPT !.shell = ToggleMinimized(@, a.window)])
               [] a.type = "maximize toggled" /\ CanToggleMaximized(r.shell, a.window) ->
                    AskClient(r, a.window)
               [] \/ a.type = "minimize toggled" /\ a.window \notin Open(r.shell)
                  \/ a.type = "maximize toggled" /\ ~CanToggleMaximized(r.shell, a.window) ->
                    Fail(r, "window")
               [] AsksClient(a) -> AskClient(r, a.window)
               [] a.type = "menu command" /\ a.source = "desktop" -> DesktopCommand(r, a.command)
               [] OTHER -> r

Dispatched(r, a, handled) ==
    IF ~Ok(r) THEN r ELSE IF handled THEN Sync(r) ELSE ApplyUnhandled(r, a)

\* apply_shell_action: the launcher's commands come first, whatever menu they are in.
ApplyAction(r, a) ==
    IF a.type = "menu command" /\ a.command \in LauncherCommands
    THEN IF a.command = "pins" THEN Show(r, "settings") ELSE r
    ELSE Dispatched(Dispatch(r, a), a, IsForApplication(r, a))

(***************************************************************************)
(* The pointer.                                                            *)
(***************************************************************************)
\* The controls under a point on the content of a dialog.
ControlsAt(r, target) ==
    CASE target.part = "content" /\ target.window = r.dialog["settings"] -> {"none", "pin", "choose"}
      [] target.part = "content" /\ target.window = r.dialog["wallpaper"] -> {"none", "done"}
      [] OTHER -> {"none"}

PressedControls(r, target, control) ==
    [n \in {"settings", "wallpaper"} |->
        IF target.part = "content" /\ target.window = r.dialog[n] THEN control ELSE "none"]

\* The client under the pointer gets the press if the shell made no gesture of it.
ClientPress(r, hover) == IF Ok(r) /\ r.shell.owner = "none" THEN ServerPress(r, hover, "left") ELSE r

LeftPress(r, p, control) ==
    IF Grabbed(r) THEN ServerPress(r, Hover(r, Target(r.shell, p)), "left")
    ELSE IF r.shell.floating /\ p.dock
    THEN [r EXCEPT !.dock_dragging = TRUE, !.dock_moved = FALSE]
    ELSE ClientPress(Sync([r EXCEPT !.pressed = PressedControls(r, Target(r.shell, p), control),
                                    !.shell = ShellPress(@, p)]),
                     Hover(r, Target(r.shell, p)))

DockRelease(r, p) ==
    LET dropped == [r EXCEPT !.dock_dragging = FALSE]
    IN  IF ~r.dock_moved /\ p.dock /\ p.button # None
        THEN ApplyAction(dropped, [NoAction EXCEPT !.type = "minimize toggled", !.window = p.button])
        ELSE dropped

ApplySettings(r, control) ==
    CASE control = "choose" -> Show(r, "wallpaper")
      [] control = "pin" -> [r EXCEPT !.shell = SetOverlay(@)]

\* A control acts when it was pressed, is released, and its dialog is still there.
Chosen(r, name, target, was, control) ==
    Ok(r) /\ was # "none" /\ was = control /\ target.part = "content"
        /\ target.window = r.dialog[name] /\ r.dialog[name] \in Open(r.shell)

Settings(r, target, was, control) ==
    IF Chosen(r, "settings", target, was.settings, control) THEN ApplySettings(r, control) ELSE r

Wallpaper(r, target, was, control) ==
    IF Chosen(r, "wallpaper", target, was.wallpaper, control) THEN Close(r, "wallpaper") ELSE r

\* Without a grab, a dock or a shell's gesture the release is nobody's.
ShellReleased(r, p) ==
    ApplyAction([r EXCEPT !.shell = ShellRelease(@, p)], ShellReleaseAction(r.shell, p))

LeftReleased(r, p, control, was, target) ==
    IF Grabbed(r) THEN ServerRelease(r, "left")
    ELSE IF r.dock_dragging THEN DockRelease(r, p)
    ELSE Wallpaper(Settings(ShellReleased(r, p), target, was, control), target, was, control)

LeftRelease(r, p, control) ==
    LeftReleased([r EXCEPT !.pressed = NoControls], p, control, r.pressed, Target(r.shell, p))

ForContextMenu(r, b, target) ==
    r.shell.floating /\ b = "right" /\ (r.context_down \/ target.window = None)

RaisedFor(r, hover) == IF ~Grabbed(r) /\ hover # None THEN Activated(r, hover) ELSE r
PressOk(r, hover, b) == IF Ok(r) THEN ServerPress(r, hover, b) ELSE r

OtherPress(r, p, b) ==
    IF ForContextMenu(r, b, Target(r.shell, p))
    THEN Sync([r EXCEPT !.context_down = TRUE, !.shell = OpenContextMenu(@, p)])
    ELSE IF r.shell.owner # "none" THEN r
    ELSE PressOk(RaisedFor(r, Hover(r, Target(r.shell, p))), Hover(r, Target(r.shell, p)), b)

OtherRelease(r, p, b) ==
    IF ForContextMenu(r, b, Target(r.shell, p)) THEN [r EXCEPT !.context_down = FALSE]
    ELSE IF r.shell.owner # "none" THEN r
    ELSE ServerRelease(r, b)

\* (Definitions named Mutant... are faults the properties must find.)
MutantCancelPointer(r) ==
    [r EXCEPT !.pressed.settings = "none", !.dock_dragging = FALSE, !.context_down = FALSE,
              !.shell = PointerCancel(@)]

CancelPointer(r) ==
    [r EXCEPT !.pressed.settings = "none", !.dock_dragging = FALSE, !.context_down = FALSE,
              !.shell = PointerCancel(@), !.buttons = {}, !.grab = None, !.blank = FALSE]

CancelKeyboard(r) == [r EXCEPT !.kb_focused = FALSE, !.captured = {}, !.keys = {}, !.kfocus = None]

(***************************************************************************)
(* The keyboard.                                                           *)
(***************************************************************************)
Capture(r, key) ==
    IF Cardinality(r.captured) < CaptureCapacity THEN [r EXCEPT !.captured = @ \cup {key}] ELSE r

InMenuContext(r, key) == MenuIsOpen(r.shell) \/ (key = "FK10" /\ ~HasKeyboardTarget(r))

\* hot is the command of the item that is hot, "none" if there is none.
MenuKeyPress(r, key, hot) ==
    ApplyAction([r EXCEPT !.shell = MenuKey(@, key, hot)], MenuKeyAction(r.shell, key, hot))

KeyPress(r, key, hot) ==
    CASE InMenuContext(r, key) /\ key \in MenuKeys -> MenuKeyPress(Capture(r, key), key, hot)
      [] InMenuContext(r, key) /\ key \notin MenuKeys -> Capture(r, key)
      [] ~InMenuContext(r, key) /\ key = "ESC" /\ ~HasKeyboardTarget(r) -> [r EXCEPT !.quit = TRUE]
      [] OTHER -> ForwardKey(r, key, TRUE)

KeyRepeat(r, key) ==
    IF MenuIsOpen(r.shell) /\ key = "LEFT" /\ key \in r.captured
    THEN MenuKeyPress(r, key, "none") ELSE r

KeyRelease(r, key) ==
    IF key \in r.captured THEN [r EXCEPT !.captured = @ \ {key}] ELSE ForwardKey(r, key, FALSE)

(***************************************************************************)
(* The events of the host.                                                 *)
(***************************************************************************)
\* Only a press of a minimized window's button and a drag of the dock remember
\* motion, and only a grab without contents refuses it.
Motion ==
    /\ Running
    /\ rt.shell.owner = "minimized" \/ rt.dock_dragging \/ rt.blank
    /\ \E p \in Points(rt.shell), moved \in BOOLEAN :
        rt' = ServerMotion([rt EXCEPT !.dock_moved = @ \/ (rt.dock_dragging /\ moved),
                                      !.shell = ShellMove(@, p)])
    /\ UNCHANGED hand

Press ==
    /\ Running
    /\ \E b \in Buttons \ hand.buttons, p \in Points(rt.shell) :
        \E control \in ControlsAt(rt, Target(rt.shell, p)) :
            /\ rt' = IF b = "left" THEN LeftPress(rt, p, control) ELSE OtherPress(rt, p, b)
            /\ hand' = [hand EXCEPT !.buttons = @ \cup {b}]

Release ==
    /\ Running
    /\ \E b \in hand.buttons, p \in Points(rt.shell) :
        \E control \in ControlsAt(rt, Target(rt.shell, p)) :
            /\ rt' = IF b = "left" THEN LeftRelease(rt, p, control) ELSE OtherRelease(rt, p, b)
            /\ hand' = [hand EXCEPT !.buttons = @ \ {b}]

Key ==
    /\ Running
    /\ \E key \in Keys :
        \/ /\ key \notin hand.keys
           /\ \E hot \in {"none"} \cup (IF key = "RTRN" THEN Commands(rt.shell) ELSE {}) :
                rt' = KeyPress(rt, key, hot)
           /\ hand' = [hand EXCEPT !.keys = @ \cup {key}]
        \/ /\ key \in hand.keys
           /\ rt' = KeyRepeat(rt, key)
           /\ UNCHANGED hand
        \/ /\ key \in hand.keys
           /\ rt' = KeyRelease(rt, key)
           /\ hand' = [hand EXCEPT !.keys = @ \ {key}]

\* nb_desktop_runtime_set_focus(true).
GainFocus ==
    /\ Running
    /\ rt' = Sync([rt EXCEPT !.kb_focused = TRUE])
    /\ UNCHANGED hand

\* nb_desktop_runtime_set_focus(false) or _cancel_input: the devices are
\* closed, and what was held when they open again is not reported.
LoseInput ==
    /\ Running
    /\ rt' = CancelKeyboard(CancelPointer(rt))
    /\ hand' = [keys |-> {}, buttons |-> {}]

\* nb_desktop_runtime_pointer_leave without a capture, or a new output.
LeavePointer ==
    /\ Running
    /\ rt' = CancelPointer(rt)
    /\ UNCHANGED hand

(***************************************************************************)
(* The clients, in nb_desktop_runtime_dispatch.                            *)
(***************************************************************************)
\* surface_commit of a toplevel that was not mapped; it is deaf if the client
\* has destroyed its xdg_toplevel before.
ClientMaps ==
    /\ Running
    /\ CanOpenWindow(rt.shell, "wayland", {"close"})
    /\ LET w == FreshWindow(rt)
       IN  \E torn \in BOOLEAN :
             rt' = Sync([rt EXCEPT !.shell = OpenWindow(@, w, "wayland", {"close"}),
                                   !.deaf = IF torn THEN @ \cup {w} ELSE @])
    /\ UNCHANGED hand

\* The X server withdraws a window of its own, or dies: the news comes later.
XServerHides ==
    /\ Running
    /\ \E w \in WaylandWindows(rt) \ rt.deaf, dead \in BOOLEAN :
        rt' = [rt EXCEPT !.hidden = @ \cup {w}, !.deaf = IF dead THEN @ \cup {w} ELSE @]
    /\ UNCHANGED hand

\* The client destroys the popup or subsurface that has the grab, or commits
\* no buffer to it: then the grab stays.
GrabIsBlanked ==
    /\ Running /\ rt.grab # None
    /\ \/ rt' = [rt EXCEPT !.buttons = {}, !.grab = None, !.blank = FALSE]
       \/ rt' = [rt EXCEPT !.blank = TRUE]
    /\ UNCHANGED hand

\* unmap_surface: what the server held for the window is dropped.
ClientUnmaps ==
    /\ Running
    /\ \E w \in WaylandWindows(rt) :
        rt' = Sync([rt EXCEPT !.shell = DestroyWindow(@, w),
                              !.kfocus = IF @ = w THEN None ELSE @,
                              !.buttons = IF rt.grab = w THEN {} ELSE @,
                              !.grab = IF @ = w THEN None ELSE @,
                              !.blank = @ /\ rt.grab # w,
                              !.deaf = @ \ {w}, !.hidden = @ \ {w}])
    /\ UNCHANGED hand

\* The client publishes a menu for its window.
ClientSetsMenu ==
    /\ Running
    /\ \E w \in WaylandWindows(rt) :
        /\ rt.shell.windows[w].source = "wayland"
        /\ rt' = Sync([rt EXCEPT !.shell = UpdateWindowMenu(@, w, "own", {"own"})])
    /\ UNCHANGED hand

\* nb_wayland_server_set_xwayland_fullscreen, from the X server's events; a
\* resize that fails is only reported.
SetXwaylandFullscreen ==
    /\ Running
    /\ \E w \in WaylandWindows(rt) \ (rt.deaf \ rt.hidden) :
        rt' = [rt EXCEPT !.shell =
                SetFullscreen(PointerCancel(@), w, ~rt.shell.windows[w].fullscreen)]
    /\ UNCHANGED hand

DispatchOnly ==
    /\ Running
    /\ rt' = Sync(rt)
    /\ UNCHANGED hand

Next ==
    \/ Motion \/ Press \/ Release \/ Key
    \/ GainFocus \/ LoseInput \/ LeavePointer
    \/ ClientMaps \/ ClientUnmaps \/ ClientSetsMenu \/ XServerHides \/ GrabIsBlanked
    \/ SetXwaylandFullscreen \/ DispatchOnly

Spec == Init /\ [][Next]_vars

(***************************************************************************)
(* Properties.                                                             *)
(***************************************************************************)
\* The application host's slots, NixInfo's own table, the dialogs and the
\* shell agree on whose each window is: a window NixInfo does not know, or
\* one it still believes to have, would leave its menu wrong for good.
OwnersAgree ==
    Ok(rt) =>
        /\ {w \in Open(rt.shell) : rt.shell.windows[w].source = Source} = SlotWindows(rt)
        /\ SlotWindows(rt) = DOMAIN rt.info.windows
        /\ rt.info.about \in DOMAIN rt.info.windows \cup {None}
        /\ ~rt.running => SlotWindows(rt) = {}
        /\ SlotWindows(rt) # {} => rt.menu = InfoMenu(rt.info)
        /\ \A n \in Dialogs :
            {w \in Open(rt.shell) : rt.shell.windows[w].source = n} = {rt.dialog[n]} \ {None}

\* A key that is down belongs to the shell or to the clients, never to both,
\* and neither holds a key the user has let go.
KeysHaveOneOwner ==
    /\ rt.captured \cap rt.keys = {}
    /\ rt.captured \cup rt.keys \subseteq hand.keys

\* A gesture of the shell and a grab of a client never overlap, and each
\* lasts only while its button is held.  This needs the fixed menu bar:
\* with a dock, a release over the bare desktop or after a drag of the dock
\* that another button joined is lost (ReleaseReachesClient below).
PointerHasOneOwner ==
    /\ rt.grab # None <=> rt.buttons # {}
    /\ rt.grab \in WaylandWindows(rt) \cup {None}
    /\ \A w \in Open(rt.shell) : rt.shell.windows[w].mode # "idle" => w = rt.shell.pointer_window
    /\ ~rt.shell.floating =>
        /\ rt.shell.owner # "none" => "left" \in hand.buttons /\ rt.buttons = {}
        /\ rt.buttons \subseteq hand.buttons
        /\ rt.shell.pointer_window # None <=> rt.shell.owner = "window"

\* Whatever is down, a key or a button, has one owner that will hear of its
\* release, and no owner waits for the release of what is no longer down.
InputHasOneOwner == KeysHaveOneOwner /\ PointerHasOneOwner

\* "During an implicit button grab, motion and releases continue to the
\* grabbed surface regardless of hover_window" (wayland_server.h:180): a
\* client holds no button the user has let go.
ReleaseReachesClient == rt.buttons \subseteq hand.buttons

\* In whatever order input, clients and NixInfo act, the application host
\* never fails a handler (a full queue, a batch or action it rejects, a pump
\* without end), and no action of the shell is for a window that is gone.
\* What does end the session are a wish for a window that is minimized or does
\* not fit the table, and a close, resize, focus or motion that the Wayland
\* server refuses.
HandlersKeepUp == rt.fault \notin {"application", "window"}

\* NixInfo and the Wayland server know which window is active.
Told ==
    /\ rt.focused = WantedFocus(rt) /\ rt.info.active = rt.focused
    /\ rt.kfocus = IF rt.kb_focused THEN Owned(rt, rt.shell.active) ELSE None

\* The menu bar is the one of the active window, or the desktop's.
MenuIsOfActiveWindow ==
    <<rt.shell.menu_source, rt.shell.menu_model, rt.shell.menu_window>> = WantedMenu(rt.shell)

FocusIsKnown == Told /\ MenuIsOfActiveWindow

\* The menu bar, NixInfo and the Wayland server follow the active window in
\* every step; only the X server's fullscreen request leaves them behind.
FocusIsFollowed == [][FocusIsKnown /\ ~SetXwaylandFullscreen /\ Running' => FocusIsKnown']_vars
=============================================================================
