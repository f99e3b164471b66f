---------------------------- MODULE DesktopShell ----------------------------
(***************************************************************************)
(* The window table, the windows, the menu and the shell that routes the   *)
(* pointer between them (window.c, desktop.c, menu.c, shell.c), as         *)
(* operators on one record, the state of struct nb_shell.                  *)
(*                                                                         *)
(* Geometry is abstracted to what a point hits: a member of Points says    *)
(* which part of the menu, which button of a minimized window and which    *)
(* part of the frontmost window lie under it.  Frames, and with them       *)
(* whether a window is maximized, are left out: where a resize is let go   *)
(* stands for whether it left the window another size.  The labels of a    *)
(* menu, its open index and its hot item are abstracted to the set of      *)
(* commands its items carry.                                               *)
(***************************************************************************)
EXTENDS Naturals, Sequences, SequencesExt, FiniteSets

CONSTANTS
    MaxWindows,         \* NB_DESKTOP_MAX_WINDOWS
    DesktopCommands,    \* the commands of the desktop's own menu
    LauncherCommands    \* the commands of the launcher appended to every menu

ASSUME MaxWindowsAssumption == MaxWindows \in Nat \ {0}

None == 0
Parts == {"close", "minimize", "maximize", "title", "grip", "content", "frame"}
NoAction == [type |-> "none", window |-> None, source |-> "none", command |-> "none"]

NewWindow(source, model) ==
    [source |-> source, model |-> model, mode |-> "idle",
     minimized |-> FALSE, fullscreen |-> FALSE]

ShellInit(floating) ==
    [windows |-> <<>>, stack |-> <<>>, active |-> None, pointer_window |-> None,
     floating |-> floating, phase |-> "closed", shown |-> FALSE,
     menu_source |-> "desktop", menu_model |-> DesktopCommands, menu_window |-> None,
     owner |-> "none", minimized_window |-> None, minimized_pressed |-> FALSE]

Open(s) == DOMAIN s.windows
Minimized(s) == {w \in Open(s) : s.windows[w].minimized}
ActiveFullscreen(s) == s.active # None /\ s.windows[s.active].fullscreen
MenuIsOpen(s) == s.phase # "closed"
Commands(s) == s.menu_model \cup LauncherCommands

(***************************************************************************)
(* The menu.                                                               *)
(***************************************************************************)
MenuCancel(s) == [s EXCEPT !.phase = "closed", !.shown = FALSE]

\* nb_menu_set_model: whatever was open closes.
SetMenu(s, source, model, window) ==
    [MenuCancel(s) EXCEPT
        !.menu_source = source, !.menu_model = model, !.menu_window = window,
        !.owner = IF s.owner = "menu" THEN "none" ELSE s.owner]

\* A new overlay shows the same base menu again.
SetOverlay(s) == SetMenu(s, s.menu_source, s.menu_model, s.menu_window)

\* The binding whose menu belongs in the bar: the active window's, or the desktop's.
WantedMenu(s) ==
    IF s.active = None
    THEN <<"desktop", DesktopCommands, None>>
    ELSE <<s.windows[s.active].source, s.windows[s.active].model, s.active>>

SyncMenu(s) ==
    IF <<s.menu_source, s.menu_model, s.menu_window>> = WantedMenu(s)
    THEN s
    ELSE SetMenu(s, WantedMenu(s)[1], WantedMenu(s)[2], WantedMenu(s)[3])

\* nb_menu_pointer_down of a menu that is open.
MenuPress(s, p) ==
    CASE s.phase = "tracking" -> s
      [] s.phase = "open" /\ p.menu = "label" -> MenuCancel(s)
      [] OTHER -> [s EXCEPT !.phase = "tracking"]

(***************************************************************************)
(* The window table.                                                       *)
(***************************************************************************)
SetActive(s, w) == [s EXCEPT !.active = IF w \in Open(s) \ Minimized(s) THEN w ELSE None]

TopmostAvailable(s) ==
    LET available == SelectSeq(s.stack, LAMBDA w : w \notin Minimized(s))
    IN  IF available = <<>> THEN None ELSE Last(available)

CanActivate(s, w) == w \in Open(s) \ Minimized(s)

\* nb_desktop_activate_window: raise, then make active.
Activate(s, w) == SetActive([s EXCEPT !.stack = Append(Remove(s.stack, w), w)], w)

WindowCancel(s, w) == [s EXCEPT !.windows[w].mode = "idle"]

DesktopCancel(s) ==
    [IF s.pointer_window \in Open(s) THEN WindowCancel(s, s.pointer_window) ELSE s
        EXCEPT !.pointer_window = None]

ModeOf(part) ==
    CASE part = "title" -> "drag"
      [] part = "grip" -> "resize"
      [] part \in {"close", "minimize", "maximize"} -> part
      [] OTHER -> "idle"

\* nb_window_pointer_down.
WindowPress(s, w, part) ==
    [s EXCEPT !.windows[w].mode = IF @ = "idle" THEN ModeOf(part) ELSE @]

DesktopPress(s, p) ==
    IF s.pointer_window # None
    THEN s
    ELSE IF p.window = None
    THEN SetActive(s, None)
    ELSE LET pressed == WindowPress(Activate(s, p.window), p.window, p.part)
         IN  [pressed EXCEPT
                !.pointer_window = IF pressed.windows[p.window].mode # "idle" THEN p.window ELSE None]

\* The action of a release over the part of the window that was pressed.
WindowActionOf(mode) ==
    CASE mode = "close" -> "close requested"
      [] mode = "minimize" -> "minimize toggled"
      [] mode = "maximize" -> "maximize toggled"
      [] OTHER -> "none"

\* nb_desktop_pointer_up; a window that was moved asks nothing of the shell.
DesktopReleaseAction(s, p) ==
    LET w == s.pointer_window
        mode == s.windows[w].mode
    IN  IF w \notin Open(s) THEN NoAction
        ELSE IF p.window = w /\ p.part = mode /\ WindowActionOf(mode) # "none"
        THEN [NoAction EXCEPT !.type = WindowActionOf(mode), !.window = w]
        ELSE IF mode = "resize" /\ p.part # "grip"
        THEN [NoAction EXCEPT !.type = "window resized", !.window = w]
        ELSE NoAction

(***************************************************************************)
(* The shell's operations.                                                 *)
(***************************************************************************)
PointerCancel(s) ==
    [DesktopCancel(MenuCancel(s)) EXCEPT
        !.owner = "none", !.minimized_window = None, !.minimized_pressed = FALSE]

CancelIfOwned(s) == IF s.owner # "none" THEN PointerCancel(s) ELSE s

CanOpenWindow(s, source, model) ==
    /\ Cardinality(Open(s)) < MaxWindows
    /\ source # "desktop"
    /\ \A w \in Open(s) : s.windows[w].source = source => s.windows[w].model = model

OpenWindow(s, w, source, model) ==
    LET c == CancelIfOwned(s)
        opened == [c EXCEPT
            !.windows = [v \in Open(c) \cup {w} |->
                            IF v = w THEN NewWindow(source, model) ELSE c.windows[v]],
            !.stack = Append(@, w)]
    IN  SyncMenu(SetActive(opened, w))

DestroyWindow(s, w) ==
    LET c == IF s.owner = "minimized" /\ s.minimized_window = w THEN PointerCancel(s) ELSE s
        gone == [c EXCEPT
            !.windows = [v \in Open(c) \ {w} |-> c.windows[v]],
            !.stack = Remove(@, w),
            !.pointer_window = IF @ = w THEN None ELSE @]
        owned == IF gone.owner = "window" /\ gone.pointer_window = None
                 THEN [gone EXCEPT !.owner = "none"] ELSE gone
    IN  SyncMenu(IF c.active = w THEN SetActive(owned, TopmostAvailable(owned)) ELSE owned)

ActivateWindow(s, w) == SyncMenu(Activate(CancelIfOwned(s), w))

\* (Definitions named Mutant... are faults the properties must find.)
MutantToggleMinimized(s, w) ==
    LET t == [WindowCancel(s, w) EXCEPT !.windows[w].minimized = ~@]
    IN  IF ~t.windows[w].minimized THEN Activate(t, w)
        ELSE IF s.active = w THEN SetActive(t, TopmostAvailable(t))
        ELSE t

ToggleMinimized(s, w) ==
    LET t == [WindowCancel(s, w) EXCEPT !.windows[w].minimized = ~@]
    IN  SyncMenu(IF ~t.windows[w].minimized THEN Activate(t, w)
                 ELSE IF s.active = w THEN SetActive(t, TopmostAvailable(t))
                 ELSE t)

CanToggleMaximized(s, w) == w \in Open(s) /\ ~s.windows[w].fullscreen

\* nb_window_set_fullscreen, then nb_desktop_activate_window on the way in.
SetFullscreen(s, w, on) ==
    LET changed == [s EXCEPT !.windows[w].mode = "idle", !.windows[w].fullscreen = on,
                             !.windows[w].minimized = @ /\ ~on]
        after == IF s.windows[w].fullscreen = on THEN s ELSE changed
    IN  IF on /\ CanActivate(after, w) THEN Activate(after, w) ELSE after

\* nb_shell_update_menu_source: every window of the source shows the new menu.
UpdateMenuSource(s, source, model) ==
    LET bound == [s EXCEPT !.windows = [w \in Open(s) |->
            IF s.windows[w].source = source
            THEN [s.windows[w] EXCEPT !.model = model] ELSE s.windows[w]]]
    IN  IF s.menu_source = source THEN SetMenu(bound, source, model, s.menu_window) ELSE bound

\* nb_shell_update_window_menu: one window gets a menu of its own.
UpdateWindowMenu(s, w, source, model) ==
    LET bound == [s EXCEPT !.windows[w].source = source, !.windows[w].model = model]
    IN  IF s.active = w THEN SetMenu(bound, source, model, w) ELSE SyncMenu(bound)

OpenContextMenu(s, p) ==
    [MenuCancel(SyncMenu(DesktopPress(PointerCancel(s), p))) EXCEPT !.shown = TRUE]

(***************************************************************************)
(* The pointer and the keys.                                               *)
(***************************************************************************)
\* What nb_shell_pointer_target_at reports: an open menu hides the windows.
Target(s, p) ==
    IF ~ActiveFullscreen(s) /\ (MenuIsOpen(s) \/ p.menu # "none")
    THEN [window |-> None, part |-> "none"]
    ELSE [window |-> p.window, part |-> p.part]

PressesMinimized(s, p) ==
    ~ActiveFullscreen(s) /\ ~s.floating /\ ~MenuIsOpen(s) /\ p.button # None

\* Who takes a press, in the order nb_shell_pointer_down asks.
PressGoesTo(s, p) ==
    CASE s.owner # "none" -> "owner"
      [] s.owner = "none" /\ PressesMinimized(s, p) -> "minimized"
      [] s.owner = "none" /\ ~PressesMinimized(s, p) /\ ~ActiveFullscreen(s)
            /\ (MenuIsOpen(s) \/ p.menu # "none") -> "menu"
      [] OTHER -> "windows"

MenuPressed(s, p) ==
    LET menu == IF p.menu = "bar" /\ ~MenuIsOpen(s) THEN s ELSE MenuPress(s, p)
    IN  [menu EXCEPT !.owner = IF menu.phase = "tracking" THEN "menu" ELSE "none"]

WindowsPressed(s, p) ==
    LET desktop == DesktopPress(IF s.floating /\ s.shown THEN MenuCancel(s) ELSE s, p)
    IN  SyncMenu([desktop EXCEPT
            !.owner = IF desktop.pointer_window # None THEN "window" ELSE "none"])

ShellPress(s, p) ==
    CASE PressGoesTo(s, p) = "owner" -> s
      [] PressGoesTo(s, p) = "minimized" ->
            [s EXCEPT !.owner = "minimized", !.minimized_window = p.button, !.minimized_pressed = TRUE]
      [] PressGoesTo(s, p) = "menu" -> MenuPressed(s, p)
      [] PressGoesTo(s, p) = "windows" -> WindowsPressed(s, p)

\* Motion: only the minimized button that was pressed remembers it.
ShellMove(s, p) ==
    IF s.owner = "minimized" THEN [s EXCEPT !.minimized_pressed = p.button = s.minimized_window] ELSE s

MenuChosen(s, command) ==
    [type |-> "menu command", window |-> s.menu_window, source |-> s.menu_source, command |-> command]

ShellReleaseAction(s, p) ==
    CASE s.owner = "minimized" /\ s.minimized_pressed /\ p.button = s.minimized_window ->
            [NoAction EXCEPT !.type = "minimize toggled", !.window = s.minimized_window]
      [] s.owner = "menu" /\ s.phase = "tracking" /\ p.menu = "item" -> MenuChosen(s, p.command)
      [] s.owner = "window" -> DesktopReleaseAction(s, p)
      [] OTHER -> NoAction

ShellRelease(s, p) ==
    LET menu == IF s.phase # "tracking" THEN s
                ELSE IF p.menu \in {"label", "other label"} THEN [s EXCEPT !.phase = "open"]
                ELSE MenuCancel(s)
    IN  CASE s.owner = "minimized" ->
                [s EXCEPT !.owner = "none", !.minimized_window = None, !.minimized_pressed = FALSE]
          [] s.owner = "menu" -> [menu EXCEPT !.owner = "none"]
          [] s.owner = "window" -> [DesktopCancel(s) EXCEPT !.owner = "none"]
          [] OTHER -> s

\* nb_menu_key_press; the arrow keys only move what is hot, or to another menu.
MenuAfterKey(s, key, hot) ==
    CASE key = "FK10" /\ MenuIsOpen(s) -> MenuCancel(s)
      [] key = "FK10" /\ ~MenuIsOpen(s) -> [s EXCEPT !.phase = "open", !.shown = s.floating]
      [] key = "ESC" -> MenuCancel(s)
      [] key = "LEFT" /\ MenuIsOpen(s) -> [s EXCEPT !.phase = "open", !.shown = s.floating]
      [] key = "RTRN" /\ MenuIsOpen(s) /\ hot # "none" -> MenuCancel(s)
      [] OTHER -> s

MenuKeyIgnored(s) == s.owner \in {"window", "minimized"}

MenuKey(s, key, hot) ==
    LET after == MenuAfterKey(s, key, hot)
    IN  IF MenuKeyIgnored(s) THEN s
        ELSE [after EXCEPT !.owner = IF after.phase # "tracking" THEN "none" ELSE @]

MenuKeyAction(s, key, hot) ==
    IF ~MenuKeyIgnored(s) /\ key = "RTRN" /\ MenuIsOpen(s) /\ hot # "none"
    THEN MenuChosen(s, hot) ELSE NoAction

(***************************************************************************)
(* Points: a point is on the dock, on the menu (over whatever window lies  *)
(* under it), on a window, or on the bare desktop.                         *)
(***************************************************************************)
Nowhere == [dock |-> FALSE, menu |-> "none", command |-> "none", button |-> None,
            window |-> None, part |-> "none"]

\* Windows a fullscreen window covers cannot be hit, nor can minimized ones.
Hittable(s) ==
    {w \in Open(s) \ Minimized(s) :
        \A v \in Open(s) \ Minimized(s) :
            s.windows[v].fullscreen =>
                \E i, j \in DOMAIN s.stack : s.stack[i] = v /\ s.stack[j] = w /\ i <= j}

PartsOf(s, w) ==
    IF s.windows[w].fullscreen THEN {"content"} ELSE Parts

WindowPoints(s) ==
    (IF \E w \in Open(s) \ Minimized(s) : s.windows[w].fullscreen THEN {} ELSE {Nowhere})
        \cup UNION {{[Nowhere EXCEPT !.window = w, !.part = part] : part \in PartsOf(s, w)} :
                    w \in Hittable(s)}

MenuParts(s) ==
    (IF ~s.floating \/ s.shown THEN {"bar", "label", "other label"} ELSE {})
        \cup (IF MenuIsOpen(s) THEN {"panel"} ELSE {})

\* A floating menu and a fullscreen window overlap: what lies under one of
\* the menu's parts is enough, only a context menu looks there.
MenuPoints(s) ==
    {[Nowhere EXCEPT !.menu = part] : part \in MenuParts(s)}
        \cup (IF MenuParts(s) # {} /\ (s.floating \/ ActiveFullscreen(s))
              THEN {[p EXCEPT !.menu = IF MenuIsOpen(s) THEN "panel" ELSE "bar"] : p \in WindowPoints(s)}
              ELSE {})
        \cup (IF MenuIsOpen(s)
              THEN {[Nowhere EXCEPT !.menu = "item", !.command = c] : c \in Commands(s)} ELSE {})
        \cup (IF s.floating THEN {}
              ELSE {[Nowhere EXCEPT !.menu = "bar", !.button = w] : w \in Minimized(s)})

Points(s) ==
    WindowPoints(s) \cup MenuPoints(s)
        \cup (IF s.floating
              THEN {[Nowhere EXCEPT !.dock = TRUE, !.button = w] : w \in Minimized(s) \cup {None}}
                     \cup {[p EXCEPT !.dock = TRUE] : p \in {q \in WindowPoints(s) : q.part = "content"}}
              ELSE {})
=============================================================================
