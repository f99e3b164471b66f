-------------------------- MODULE WaylandSurfaces --------------------------
(***************************************************************************)
(* The surfaces and the seat of the embedded Wayland server                *)
(* (src/src/wayland_server.c): slots of a fixed table, their roles and     *)
(* role objects, popups and subsurfaces hanging from other slots, the      *)
(* configure handshake, frame callbacks, the shell window of a mapped      *)
(* toplevel, and the keyboard and pointer that refer to slots.             *)
(*                                                                         *)
(* Clients may make any request at any time.  A protocol error disconnects *)
(* the client, and its objects are then destroyed in any order, with       *)
(* nothing else happening in between: the server is single-threaded.  A    *)
(* client is assumed not to hang a surface below itself: the code follows  *)
(* such a chain without end.                                               *)
(***************************************************************************)
EXTENDS Naturals, FiniteSets

CONSTANTS
    Slots,         \* 1 .. NB_WAYLAND_MAX_SURFACES
    None,          \* no slot
    Clients,
    Buttons,       \* pointer buttons
    MaxFrames      \* NB_WAYLAND_MAX_FRAME_CALLBACKS

ASSUME SurfacesAssumption ==
    IsFiniteSet(Slots) /\ None \notin Slots /\ MaxFrames \in Nat

NSlots == Cardinality(Slots)
Nobody == "nobody" \* the owner of a free slot
ASSUME NobodyAssumption == Nobody \notin Clients

VARIABLES
    surface,   \* server->surfaces
    seat,      \* focus, grab, buttons and cursor of the server
    told,      \* what each client knows of its keyboard focus
    client,    \* "live", or "dying" while its objects are destroyed
    handled    \* whether the runtime accepted the last input event

vars == <<surface, seat, told, client, handled>>

-----------------------------------------------------------------------------
(***************************************************************************)
(* Slots.  `res` holds the kinds of protocol objects that are alive.       *)
(* Whether a slot was committed is of interest while its role is not final *)
(* (committed_once keeps it).                                              *)
(***************************************************************************)
Free ==
    [owner |-> Nobody, res |-> {}, role |-> "none", parent |-> None,
     dismissed |-> FALSE, grabbed |-> FALSE,
     sent |-> FALSE, configured |-> FALSE, unacked |-> FALSE,
     pixels |-> FALSE, committed |-> FALSE, window |-> FALSE, frames |-> 0]

Init ==
    /\ surface = [s \in Slots |-> Free]
    /\ seat = [keyboard |-> None, pointer |-> None, grab |-> None, cursor |-> None,
               buttons |-> {}]
    /\ told = [c \in Clients |-> None]
    /\ client = [c \in Clients |-> "live"]
    /\ handled = TRUE

\* The part of the state the server's helpers work on: a helper maps a world
\* to the world it leaves.
World == [surface |-> surface, seat |-> seat, told |-> told]
Become(w) == surface' = w.surface /\ seat' = w.seat /\ told' = w.told

Occupied(sl, s) == sl[s].res # {}
HasXdgRole(sl, s) == sl[s].res \cap {"toplevel", "popup"} # {}
HasOverlayRole(sl, s) == sl[s].res \cap {"popup", "subsurface"} # {}
IsOverlay(sl, s) == sl[s].role \in {"popup", "subsurface"}

\* The slots that hang, at any depth, from one of `roots`.
Below(sl, roots) ==
    LET below[n \in 0 .. NSlots] ==
          IF n = 0 THEN roots
          ELSE LET above == below[n - 1]
               IN  above \cup {s \in Slots : IsOverlay(sl, s) /\ sl[s].parent \in above}
    IN  below[NSlots] \ roots

RootToplevel(sl, s) ==
    LET up[n \in 0 .. NSlots] ==
          IF n = 0 THEN s
          ELSE LET t == up[n - 1] IN IF t # None /\ IsOverlay(sl, t) THEN sl[t].parent ELSE t
        top == up[NSlots]
    IN  IF top # None /\ sl[top].role = "toplevel" THEN top ELSE None

\* surface_is_mapped: a toplevel with a window, and what hangs from one.
MappedSlots(sl) ==
    LET shown == {s \in Slots : sl[s].pixels /\ "surface" \in sl[s].res}
        tops == {s \in shown : "toplevel" \in sl[s].res /\ sl[s].window}
        mayShow == {s \in shown : \/ /\ "popup" \in sl[s].res
                                     /\ sl[s].configured /\ ~sl[s].dismissed
                                  \/ "subsurface" \in sl[s].res}
        mapped[n \in 0 .. NSlots] ==
          IF n = 0 THEN tops
          ELSE LET above == mapped[n - 1]
               IN  above \cup {s \in mayShow : sl[s].parent \in above}
    IN  mapped[NSlots]

IsMapped(sl, s) == s \in MappedSlots(sl)

-----------------------------------------------------------------------------
(***************************************************************************)
(* Keyboard focus and pointer.                                             *)
(***************************************************************************)
MayHaveKeyboard(sl, s) ==
    sl[s].window /\ "surface" \in sl[s].res /\ sl[s].pixels

\* keyboard_change_focus: leave to the old client, enter to the new one.
ChangeKeyboardFocus(w, s) ==
    LET old == w.seat.keyboard
        new == IF s # None /\ MayHaveKeyboard(w.surface, s) THEN s ELSE None
        left == IF old # None /\ "surface" \in w.surface[old].res
                THEN [w.told EXCEPT ![w.surface[old].owner] = None] ELSE w.told
    IN  IF old = new THEN w
        ELSE [w EXCEPT !.seat.keyboard = new,
                       !.told = IF new = None THEN left
                                ELSE [left EXCEPT ![w.surface[new].owner] = new]]

MutantClearKeyboard(w, s, send) ==
    IF w.seat.keyboard # s THEN w ELSE [w EXCEPT !.seat.keyboard = None]

\* clear_surface_keyboard_state
ClearKeyboard(w, s, send) ==
    IF w.seat.keyboard # s THEN w
    ELSE IF send THEN ChangeKeyboardFocus(w, None)
    ELSE [w EXCEPT !.seat.keyboard = None]

\* pointer_change_focus, to a mapped surface or to none.
ChangePointerFocus(w, s) ==
    LET new == IF s # None /\ IsMapped(w.surface, s) THEN s ELSE None
    IN  IF w.seat.pointer = new THEN w
        ELSE [w EXCEPT !.seat.pointer = new, !.seat.cursor = None]

\* pointer_cancel_internal
CancelPointer(w) ==
    [w EXCEPT !.seat.buttons = {}, !.seat.grab = None,
              !.seat.pointer = None, !.seat.cursor = None]

\* clear_surface_pointer_state, of each of `gone`.
ClearPointer(w, gone) ==
    IF {w.seat.pointer, w.seat.grab} \cap gone # {} THEN CancelPointer(w)
    ELSE IF w.seat.cursor \in gone THEN [w EXCEPT !.seat.cursor = None]
    ELSE w

-----------------------------------------------------------------------------
(***************************************************************************)
(* Unmapping, and what becomes of a destroyed object.                      *)
(***************************************************************************)
NotConfigured(r) == [r EXCEPT !.sent = FALSE, !.configured = FALSE, !.unacked = FALSE]

\* An overlay whose parent is gone keeps its object and shows nothing.
Dismissed(r) ==
    [NotConfigured(r) EXCEPT !.dismissed = @ \/ r.role = "popup",
                             !.frames = 0, !.pixels = FALSE, !.parent = None, !.grabbed = FALSE]

\* dismiss_overlay_descendants: an overlay never has the keyboard.
DismissOverlays(w, roots) ==
    LET gone == Below(w.surface, roots)
    IN  [ClearPointer(w, gone) EXCEPT
            !.surface = [s \in Slots |-> IF s \in gone THEN Dismissed(@[s]) ELSE @[s]]]

\* unmap_surface
Unmap(w, s, send) ==
    LET alone == DismissOverlays(w, {s})
    IN  IF ~alone.surface[s].window THEN alone
        ELSE [ClearPointer(ClearKeyboard(alone, s, send), {s}) EXCEPT
                 !.surface[s].window = FALSE]

\* maybe_release_surface_slot
Release(w, s) ==
    IF Occupied(w.surface, s) THEN w
    ELSE [Unmap(ClearPointer(w, {s}), s, FALSE) EXCEPT !.surface[s] = Free]

\* What the slot keeps of a surface, a toplevel and an overlay; only a subsurface
\* gives its role back.
WithoutSurface(r) == [r EXCEPT !.frames = 0, !.pixels = FALSE, !.res = @ \ {"surface"}]

WithoutToplevel(r) ==
    [NotConfigured(r) EXCEPT !.pixels = FALSE, !.res = @ \ {"toplevel"}]

WithoutOverlay(r) ==
    [NotConfigured(r) EXCEPT !.frames = 0, !.pixels = FALSE,
                             !.parent = None, !.grabbed = FALSE, !.dismissed = FALSE,
                             !.role = IF @ = "subsurface" THEN "none" ELSE @,
                             !.res = @ \ {"popup", "subsurface"}]

MutantSurfaceDestroyed(w, s) ==
    LET gone == DismissOverlays(w, {s})
        forgotten == IF gone.told[gone.surface[s].owner] = s
                     THEN [gone.told EXCEPT ![gone.surface[s].owner] = None] ELSE gone.told
    IN  Release([gone EXCEPT !.surface[s] = WithoutSurface(@), !.told = forgotten], s)

\* surface_resource_destroyed: a client forgets the surface it has destroyed.
SurfaceDestroyed(w, s) ==
    LET gone == Unmap(ClearPointer(w, {s}), s, FALSE)
        forgotten == IF gone.told[gone.surface[s].owner] = s
                     THEN [gone.told EXCEPT ![gone.surface[s].owner] = None] ELSE gone.told
    IN  Release([gone EXCEPT !.surface[s] = WithoutSurface(@), !.told = forgotten], s)

\* xdg_toplevel_resource_destroyed
ToplevelDestroyed(w, s) ==
    LET gone == Unmap(w, s, FALSE)
    IN  Release([gone EXCEPT !.surface[s] = WithoutToplevel(@)], s)

\* popup_resource_destroyed and subsurface_resource_destroyed
OverlayDestroyed(w, s) ==
    LET gone == ClearKeyboard(ClearPointer(DismissOverlays(w, {s}), {s}), s, FALSE)
    IN  Release([gone EXCEPT !.surface[s] = WithoutOverlay(@)], s)

\* xdg_surface_resource_destroyed
XdgDestroyed(w, s) == Release([w EXCEPT !.surface[s].res = @ \ {"xdg"}], s)

Destroyed(w, s, kind) ==
    CASE kind = "surface"  -> SurfaceDestroyed(w, s)
      [] kind = "xdg"      -> XdgDestroyed(w, s)
      [] kind = "toplevel" -> ToplevelDestroyed(w, s)
      [] OTHER             -> OverlayDestroyed(w, s)

-----------------------------------------------------------------------------
(***************************************************************************)
(* Requests.  `Refuse` is a protocol error or no_memory.                   *)
(***************************************************************************)
Running == handled /\ \A c \in Clients : client[c] = "live"

\* A request of client c on its object of slot s.
Asks(c, s, kind) == Running /\ surface[s].owner = c /\ kind \in surface[s].res

Refuse(c) == client' = [client EXCEPT ![c] = "dying"]
Accept(w) == Become(w) /\ UNCHANGED client
Set(s, r) == [World EXCEPT !.surface[s] = r]
Stays == UNCHANGED <<surface, seat, told>>

\* compositor_create_surface takes a free slot: the code, the first.
CreateSurface(c) ==
    /\ Running
    /\ LET free == {s \in Slots : ~Occupied(surface, s)}
       IN  IF free = {} THEN Refuse(c) /\ Stays
           ELSE \E s \in free : Accept(Set(s, [Free EXCEPT !.owner = c, !.res = {"surface"}]))
    /\ UNCHANGED handled

\* xdg_wm_base_get_xdg_surface; a buffer may be attached and not committed.
GetXdgSurface(c, s, attached) ==
    /\ Asks(c, s, "surface")
    /\ LET r == surface[s]
       IN  IF "xdg" \in r.res \/ r.role # "none" \/ attached \/ r.committed \/ r.pixels
           THEN Refuse(c) /\ Stays
           ELSE Accept(Set(s, [r EXCEPT !.res = @ \cup {"xdg"}]))
    /\ UNCHANGED handled

GetToplevel(c, s) ==
    /\ Asks(c, s, "xdg")
    /\ LET r == surface[s]
       IN  IF "toplevel" \in r.res \/ r.role \notin {"none", "toplevel"}
           THEN Refuse(c) /\ Stays
           ELSE Accept(Set(s, [NotConfigured(r) EXCEPT !.role = "toplevel",
                                                       !.res = @ \cup {"toplevel"}]))
    /\ UNCHANGED handled

GetPopup(c, s, p) ==
    /\ Asks(c, s, "xdg")
    /\ LET r == surface[s]
       IN  IF \/ "popup" \in r.res \/ r.role \notin {"none", "popup"}
              \/ surface[p].owner # c \/ "xdg" \notin surface[p].res
              \/ ~HasXdgRole(surface, p) \/ ~IsMapped(surface, p)
           THEN Refuse(c) /\ Stays
           ELSE Accept(Set(s, [r EXCEPT !.role = "popup", !.parent = p,
                                        !.res = @ \cup {"popup"}]))
    /\ UNCHANGED handled

\* subcompositor_get_subsurface; the parent is not below the child.
GetSubsurface(c, s, p) ==
    /\ Asks(c, s, "surface") /\ surface[p].owner = c /\ "surface" \in surface[p].res
    /\ p \notin Below(surface, {s})
    /\ LET r == surface[s]
       IN  IF s = p \/ r.role \notin {"none", "subsurface"} \/ "subsurface" \in r.res
           THEN Refuse(c) /\ Stays
           ELSE Accept(Set(s, [r EXCEPT !.role = "subsurface", !.parent = p,
                                        !.res = @ \cup {"subsurface"}]))
    /\ UNCHANGED handled

PopupHasLiveChild(p, ignored) ==
    \E s \in Slots \ {ignored} : "popup" \in surface[s].res /\ surface[s].parent = p

OtherPopupGrab(root, ignored) ==
    \E s \in Slots \ {ignored} :
        /\ "popup" \in surface[s].res /\ surface[s].grabbed /\ ~surface[s].dismissed
        /\ RootToplevel(surface, s) = root

MutantPopupGrab(c, s, right) ==
    /\ Asks(c, s, "popup")
    /\ LET r == surface[s]
           topmost == surface[r.parent].role = "popup" =>
                         /\ surface[r.parent].grabbed /\ ~surface[r.parent].dismissed
                         /\ ~PopupHasLiveChild(r.parent, s)
       IN  IF r.dismissed \/ r.parent = None \/ r.sent \/ r.pixels \/ ~right \/ ~topmost
           THEN Refuse(c) /\ Stays
           ELSE Accept(Set(s, [r EXCEPT !.grabbed = TRUE]))
    /\ UNCHANGED handled

\* popup_grab, with the seat of the server or not.
PopupGrab(c, s, right) ==
    /\ Asks(c, s, "popup")
    /\ LET r == surface[s]
           topmost == CASE surface[r.parent].role = "popup" ->
                             /\ surface[r.parent].grabbed /\ ~surface[r.parent].dismissed
                             /\ ~PopupHasLiveChild(r.parent, s)
                        [] OTHER -> ~OtherPopupGrab(RootToplevel(surface, s), s)
       IN  IF r.dismissed \/ r.parent = None \/ r.sent \/ r.pixels \/ ~right \/ ~topmost
           THEN Refuse(c) /\ Stays
           ELSE Accept(Set(s, [r EXCEPT !.grabbed = TRUE]))
    /\ UNCHANGED handled

Configure(r) == [r EXCEPT !.sent = TRUE, !.configured = FALSE, !.unacked = TRUE]

\* popup_reposition: a popup without a parent has no geometry.
Reposition(c, s) ==
    /\ Asks(c, s, "popup")
    /\ IF surface[s].parent = None THEN Refuse(c) /\ Stays
       ELSE Accept(Set(s, Configure(surface[s])))
    /\ UNCHANGED handled

\* xdg_surface_ack_configure, with the last serial sent or another.
AckConfigure(c, s, right) ==
    /\ Asks(c, s, "xdg")
    /\ IF ~HasXdgRole(surface, s) \/ ~surface[s].sent \/ ~surface[s].unacked \/ ~right
       THEN Refuse(c) /\ Stays
       ELSE Accept(Set(s, [surface[s] EXCEPT !.configured = TRUE, !.unacked = FALSE]))
    /\ UNCHANGED handled

\* pointer_set_cursor, with the serial of the enter or an older one.
SetCursor(c, s, fresh) ==
    /\ Asks(c, s, "surface")
    /\ IF seat.pointer = None \/ ~fresh THEN UNCHANGED client /\ Stays
       ELSE IF surface[seat.pointer].owner # c THEN UNCHANGED client /\ Stays
       ELSE IF surface[s].role \notin {"none", "cursor"} THEN Refuse(c) /\ Stays
       ELSE Accept([World EXCEPT !.surface[s].role = "cursor", !.seat.cursor = s])
    /\ UNCHANGED handled

\* map_surface: the shell may have no window left, and may clamp the frame it
\* gives one, which reconfigures a toplevel.
Mappings(w, s) ==
    LET r == w.surface[s]
        open(q) == [w EXCEPT !.surface[s] = [q EXCEPT !.window = TRUE]]
    IN  IF r.role # "toplevel" \/ ~r.pixels \/ r.window THEN {w}
        ELSE {w, open(r)} \cup (IF "toplevel" \in r.res THEN {open(Configure(r))} ELSE {})

\* A committed attach of no buffer unmaps; of a buffer, it may map.
CommitsAttach(s, attach) ==
    LET r == surface[s]
        below == IF IsMapped(surface, s) THEN DismissOverlays(World, {s}) ELSE World
        empty == [below EXCEPT !.surface[s].pixels = FALSE]
        unmapped == IF r.role = "toplevel" THEN Unmap(empty, s, TRUE) ELSE empty
    IN  IF attach = "null" THEN {[unmapped EXCEPT !.surface[s] = NotConfigured(@)]}
        ELSE Mappings(Set(s, [r EXCEPT !.pixels = TRUE]), s)

\* A popup whose parent is not shown any more.
ParentIsLost(s) ==
    /\ "popup" \in surface[s].res
    /\ surface[s].dismissed \/ ~IsMapped(surface, surface[s].parent)

\* Without a role object, or with a buffer before the configure it is for was
\* acknowledged, a commit is an error.
CommitRefused(s, attach) ==
    LET r == surface[s]
    IN  \/ "xdg" \in r.res /\ ~HasXdgRole(surface, s)
        \/ /\ HasXdgRole(surface, s) /\ ~ParentIsLost(s)
           /\ attach = "buffer" /\ (~r.sent \/ ~r.configured)

\* surface_commit, with what was attached since the last one and the frame
\* callbacks asked for; surface_frame refuses one too many.  Nothing but
\* get_xdg_surface looks at either before the commit; a buffer destroyed by
\* then counts as no buffer.
Commit(c, s, attach, frames) ==
    /\ Asks(c, s, "surface")
    /\ LET r == surface[s]
           left ==
             IF ParentIsLost(s) THEN {Set(s, [r EXCEPT !.dismissed = TRUE])}
             ELSE IF HasXdgRole(surface, s) /\ ~r.sent THEN {Set(s, Configure(r))}
             ELSE IF attach # "none" THEN CommitsAttach(s, attach)
             ELSE IF r.pixels /\ "toplevel" \in r.res THEN Mappings(World, s)
             ELSE {World}
       IN  IF r.frames + frames > MaxFrames \/ CommitRefused(s, attach)
           THEN Refuse(c) /\ Stays
           ELSE \E w \in left :
                  Accept([w EXCEPT !.surface[s].committed = r.role \in {"none", "subsurface"},
                                   !.surface[s].frames = @ + frames])
    /\ UNCHANGED handled

\* The destructors a client may call, and what they refuse.
DestroyRequest(c, s, kind) ==
    /\ Asks(c, s, kind)
    /\ LET refused == CASE kind = "surface"  -> surface[s].res # {"surface"}
                        [] kind = "xdg"      -> HasXdgRole(surface, s)
                        [] kind = "popup"    -> PopupHasLiveChild(s, None)
                        [] OTHER             -> FALSE
           before == IF kind \in {"surface", "toplevel"} THEN Unmap(World, s, TRUE) ELSE World
       IN  IF refused THEN Refuse(c) /\ Stays ELSE Accept(Destroyed(before, s, kind))
    /\ UNCHANGED handled

\* wl_client_destroy: every object goes, in whatever order.
DestroyOfDead(c, s, kind) ==
    /\ client[c] = "dying" /\ surface[s].owner = c /\ kind \in surface[s].res
    /\ Accept(Destroyed(World, s, kind))
    /\ UNCHANGED handled

Disconnected(c) ==
    /\ client[c] = "dying" /\ \A s \in Slots : surface[s].owner # c
    /\ client' = [client EXCEPT ![c] = "live"]
    /\ UNCHANGED <<surface, seat, told, handled>>

Disconnects(c) == Running /\ (\E s \in Slots : surface[s].owner = c) /\ Refuse(c) /\ Stays
                  /\ UNCHANGED handled

-----------------------------------------------------------------------------
(***************************************************************************)
(* What the desktop runtime does with the host's events.  It ends the      *)
(* session when the server refuses one.                                    *)
(***************************************************************************)
Windows == {s \in Slots : surface[s].window}

Handle(w, ok) == Running /\ Become(w) /\ handled' = ok /\ UNCHANGED client

\* What the pointer may be over: nothing, the surface of a window, or one of
\* the overlays shown in it.
Hovered ==
    {None} \cup {s \in Windows : surface[s].pixels}
           \cup {s \in MappedSlots(surface) : IsOverlay(surface, s)}

PointerMotion(hover) ==
    LET target == IF seat.grab # None THEN seat.grab ELSE hover
        lost == target # None /\ target = seat.pointer /\ ~IsMapped(surface, target)
    IN  IF lost THEN Handle(ChangePointerFocus(World, None), FALSE)
        ELSE Handle(ChangePointerFocus(World, target), TRUE)

PointerPress(button, hover) ==
    /\ button \notin seat.buttons
    /\ LET first == seat.buttons = {}
           w == IF first THEN ChangePointerFocus(World, hover) ELSE World
           target == IF first THEN w.seat.pointer ELSE seat.grab
       IN  IF target = None THEN Handle(w, TRUE)
           ELSE Handle([w EXCEPT !.seat.grab = target, !.seat.buttons = @ \cup {button}], TRUE)

PointerRelease(button, hover) ==
    /\ button \in seat.buttons
    /\ LET w == [World EXCEPT !.seat.buttons = @ \ {button}]
       IN  IF w.seat.buttons = {}
           THEN Handle(ChangePointerFocus([w EXCEPT !.seat.grab = None], hover), TRUE)
           ELSE Handle(w, TRUE)

PointerCancel == Handle(CancelPointer(World), TRUE)

\* sync_application_focus: the active window, or none.
KeyboardFocus(s) ==
    /\ s \in {None} \cup Windows
    /\ Handle(ChangeKeyboardFocus(World, s), TRUE)

\* nb_wayland_server_keyboard_cancel, after the release of every key.
KeyboardCancel == Handle(ChangeKeyboardFocus(World, None), TRUE)

\* nb_wayland_server_window_resized, to a size the surface does not have.
WindowResized(s) ==
    /\ s \in Windows
    /\ IF "toplevel" \in surface[s].res
       THEN Handle(Set(s, Configure(surface[s])), TRUE) ELSE Handle(World, FALSE)

\* nb_wayland_server_request_close asks the toplevel.
RequestClose(s) ==
    s \in Windows /\ Handle(World, "toplevel" \in surface[s].res)

\* nb_wayland_server_frame_presented leaves out what is in a hidden window.
FramePresented(hidden) ==
    Handle([World EXCEPT !.surface =
              [s \in Slots |-> IF RootToplevel(surface, s) \in hidden THEN @[s]
                               ELSE [@[s] EXCEPT !.frames = 0]]], TRUE)

-----------------------------------------------------------------------------
Request(c, s) ==
    \/ \E attached \in BOOLEAN : GetXdgSurface(c, s, attached)
    \/ GetToplevel(c, s)
    \/ \E p \in Slots : GetPopup(c, s, p) \/ GetSubsurface(c, s, p)
    \/ \E right \in BOOLEAN : PopupGrab(c, s, right) \/ AckConfigure(c, s, right)
    \/ Reposition(c, s)
    \/ \E fresh \in BOOLEAN : SetCursor(c, s, fresh)
    \/ \E attach \in {"none", "null", "buffer"}, frames \in 0 .. 1 : Commit(c, s, attach, frames)
    \/ \E kind \in {"surface", "xdg", "toplevel", "popup", "subsurface"} :
         DestroyRequest(c, s, kind) \/ DestroyOfDead(c, s, kind)

HostEvent ==
    \/ \E hover \in Hovered :
         \/ PointerMotion(hover)
         \/ \E b \in Buttons : PointerPress(b, hover) \/ PointerRelease(b, hover)
    \/ PointerCancel \/ KeyboardCancel
    \/ \E hidden \in SUBSET Windows : FramePresented(hidden)
    \/ \E s \in Slots : WindowResized(s) \/ RequestClose(s)
    \/ \E s \in Slots \cup {None} : KeyboardFocus(s)

Next ==
    \/ \E c \in Clients :
         \/ CreateSurface(c) \/ Disconnects(c) \/ Disconnected(c)
         \/ \E s \in Slots : Request(c, s)
    \/ HostEvent

Spec == Init /\ [][Next]_vars

-----------------------------------------------------------------------------
(***************************************************************************)
(* Properties.                                                             *)
(***************************************************************************)
\* Whatever is destroyed, and in whatever order, nothing refers to a slot
\* whose wl_surface is gone, and a window has a surface with contents.
NothingDangles ==
    /\ {seat.keyboard, seat.pointer, seat.grab, seat.cursor} \ {None} \subseteq
         {s \in Slots : "surface" \in surface[s].res}
    /\ \A s \in Slots : surface[s].parent # None => "surface" \in surface[surface[s].parent].res
    /\ \A s \in Slots : surface[s].window => MayHaveKeyboard(surface, s)
    /\ seat.keyboard # None => MayHaveKeyboard(surface, seat.keyboard)
    /\ (seat.grab # None) = (seat.buttons # {})

\* A client believes that a surface of its own has the keyboard exactly when it
\* has: keyboard_change_focus, the unmapping and the destruction of surfaces
\* leave nobody with a focus that is gone, or without one that is there.
FocusIsTold ==
    \A c \in Clients : client[c] = "live" =>
        told[c] = IF seat.keyboard # None /\ surface[seat.keyboard].owner = c
                  THEN seat.keyboard ELSE None

\* The popups of a toplevel that have grabbed the input are nested in one
\* another: there is one topmost grab.
GrabsAreNested ==
    LET grabbing == {s \in Slots : /\ "popup" \in surface[s].res
                                   /\ surface[s].grabbed /\ ~surface[s].dismissed}
    IN  \A s, t \in grabbing :
          RootToplevel(surface, s) = RootToplevel(surface, t) =>
              s = t \/ s \in Below(surface, {t}) \/ t \in Below(surface, {s})

\* Objects are destroyed and popups grab in any order: the slots, the focus and
\* the popups that hang from one another always fit together.
SurfacesFitTogether == NothingDangles /\ GrabsAreNested

\* The runtime takes every normalized input event.
InputIsAccepted == handled

=============================================================================
