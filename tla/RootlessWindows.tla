--------------------------- MODULE RootlessWindows ---------------------------
(***************************************************************************)
(* Windows of X11 clients in the shell.  Three parties share each of them: *)
(* Xwayland, which owns the X window and draws it on a wl_surface; the     *)
(* rootless window manager (xwayland_rootless.c), which reads X events;    *)
(* and the Wayland server, which reads Xwayland's requests.  The two       *)
(* sockets are independent, so one may tell of a surface, a window or its  *)
(* end long before the other.                                              *)
(*                                                                         *)
(* Xwayland and the X clients are external.  The window manager's own      *)
(* requests are checked ones and take effect within the handler.           *)
(***************************************************************************)
EXTENDS Integers, FiniteSets, Functions, Sequences

CONSTANTS
    Toplevels,      \* X clients' toplevel windows
    Surfaces,       \* wl_surface objects of Xwayland, reused once forgotten
    MaxWindows,     \* NB_XWAYLAND_MAX_WINDOWS
    MaxWaiting,     \* bound: messages a socket holds while clients act
    NoId            \* no window or surface, the X root, the desktop's own window

ASSUME RootlessAssumption ==
    /\ IsFiniteSet(Toplevels) /\ IsFiniteSet(Surfaces)
    /\ MaxWindows \in Nat \ {0} /\ MaxWaiting \in Nat \ {0}
    /\ NoId \notin Toplevels \cup Surfaces

VARIABLES
    xd,         \* Xwayland: its windows, input focus and the two sockets
    table,      \* struct nb_xwayland_rootless.windows, the occupied entries
    shell,      \* the server's surfaces, its keyboard focus, the shell's windows
    turn,       \* "clients", "events" while X events are dispatched, or "ended"
    serials     \* whether this Xwayland binds xwayland_shell_v1

rootlessVars == <<xd, table, shell, turn, serials>>

Unmapped(redirected) ==
    [phase |-> "out", redirected |-> redirected, surface |-> NoId, drawn |-> FALSE, title |-> 1]

NoSurface == [role |-> "none", xwindow |-> NoId, pixels |-> FALSE,
              title |-> 0, fullscreen |-> FALSE]

RootlessInit ==
    /\ \E others \in SUBSET Toplevels :
         xd = [win |-> [w \in Toplevels |-> Unmapped(IF w \in others THEN "other" ELSE "no")],
               focus |-> NoId, events |-> <<>>, requests |-> <<>>]
    /\ table = << >>
    /\ shell = [surf |-> << >>, stack |-> <<NoId>>, keyboard |-> NoId]
    /\ turn = "clients"
    /\ serials \in BOOLEAN

\* A helper maps a world to the world it leaves.
Present == [xd |-> xd, table |-> table, shell |-> shell, ok |-> TRUE]
Becomes(w) == xd' = w.xd /\ table' = w.table /\ shell' = w.shell

With(f, k, v) == [i \in DOMAIN f \cup {k} |-> IF i = k THEN v ELSE f[i]]
Without(f, k) == [i \in DOMAIN f \ {k} |-> f[i]]

-----------------------------------------------------------------------------
(***************************************************************************)
(* The X server.                                                           *)
(***************************************************************************)
Notify(d, type, w, arg) == [d EXCEPT !.events = Append(@, [type |-> type, window |-> w, arg |-> arg])]
Ask(d, type, s) == [d EXCEPT !.requests = Append(@, [type |-> type, surface |-> s])]

\* A window that is no longer mapped loses its surface and the input focus.
Hidden(d, w, phase) ==
    LET s == d.win[w].surface
        e == [d EXCEPT !.win[w].phase = phase, !.win[w].surface = NoId, !.win[w].drawn = FALSE,
                       !.focus = IF @ = w THEN NoId ELSE @]
        f == IF s = NoId THEN e ELSE Ask(e, "destroy", s)
    IN  IF d.win[w].phase = "mapped" THEN Notify(f, "unmap", w, NoId) ELSE f

-----------------------------------------------------------------------------
(***************************************************************************)
(* The shell's windows and the server's keyboard focus.                    *)
(***************************************************************************)
Shown(h) == {h.stack[i] : i \in DOMAIN h.stack} \ {NoId}
Active(h) == h.stack[Len(h.stack)]
\* The window leaves its place, and those above it move down.
Remove(stack, s) ==
    LET place == CHOOSE i \in DOMAIN stack : stack[i] = s
    IN  [i \in 1 .. Len(stack) - 1 |-> IF i < place THEN stack[i] ELSE stack[i + 1]]

\* focus_native_window: the X server refuses a window that is not mapped.
FocusNative(v, w) ==
    IF w = NoId \/ v.xd.win[w].phase = "mapped" THEN [v EXCEPT !.xd.focus = w]
    ELSE [v EXCEPT !.ok = FALSE]

XWindowOf(v, s) == IF s = NoId THEN NoId ELSE v.shell.surf[s].xwindow

\* keyboard_change_focus
ChangeFocus(v, s) ==
    LET old == v.shell.keyboard
        u == [v EXCEPT !.shell.keyboard = s]
    IN  IF old = s THEN v
        ELSE IF XWindowOf(v, old) = NoId /\ XWindowOf(v, s) = NoId THEN u
        ELSE FocusNative(u, XWindowOf(v, s))

\* sync_application_focus
Sync(v) == ChangeFocus(v, Active(v.shell))

\* map_surface
MapSurface(v, s) ==
    LET f == v.shell.surf[s]
    IN  IF f.role = "xwayland" /\ f.pixels /\ s \notin Shown(v.shell)
        THEN [v EXCEPT !.shell.stack = Append(@, s)] ELSE v

\* unmap_surface.  Nothing asks whether the X server took the focus back.
UnmapSurface(v, s) ==
    IF s \notin Shown(v.shell) THEN v
    ELSE LET u == IF v.shell.keyboard = s THEN ChangeFocus(v, NoId) ELSE v
         IN  [u EXCEPT !.ok = v.ok, !.shell.stack = Remove(@, s), !.shell.surf[s].fullscreen = FALSE]

\* find_surface_by_xwayland_window, find_surface_by_xwayland_serial
SurfacesOf(v, w) ==
    {s \in DOMAIN v.shell.surf : v.shell.surf[s].role = "xwayland" /\ v.shell.surf[s].xwindow = w}

-----------------------------------------------------------------------------
(***************************************************************************)
(* The window manager's table.                                             *)
(***************************************************************************)
Entry == [surface |-> NoId, associated |-> FALSE, redirected |-> "no", fullscreen |-> FALSE]

\* remember_window
Remembered(v, w) ==
    IF w \in DOMAIN v.table \/ Cardinality(DOMAIN v.table) >= MaxWindows THEN v
    ELSE [v EXCEPT !.table = With(@, w, Entry)]

\* refresh_window_identity of an associated window
Identified(v, w) ==
    IF v.table[w].associated
    THEN [v EXCEPT !.shell.surf = [s \in DOMAIN @ |->
            IF s \in SurfacesOf(v, w) THEN [@[s] EXCEPT !.title = v.xd.win[w].title] ELSE @[s]]]
    ELSE v

\* What associate_xwayland_surface asks for.
Associable(v, s, w) ==
    /\ s \in DOMAIN v.shell.surf
    /\ SurfacesOf(v, w) \subseteq {s}
    /\ v.shell.surf[s].xwindow \in {NoId, w}

\* try_associate_window.  The title is read again first.
Associated(v, w) ==
    LET s == v.table[w].surface
    IN  IF v.table[w].associated \/ s = NoId \/ ~Associable(v, s, w) THEN v
        ELSE MapSurface([v EXCEPT !.table[w].associated = TRUE,
                                  !.shell.surf[s] = [@ EXCEPT !.role = "xwayland", !.xwindow = w,
                                                              !.title = v.xd.win[w].title]], s)

\* forget_window
Forgotten(v, w) ==
    IF w \notin DOMAIN v.table THEN v
    ELSE LET shown == SurfacesOf(v, w)
             u == IF v.table[w].associated /\ shown # {}
                  THEN UnmapSurface(v, CHOOSE s \in shown : TRUE) ELSE v
         IN  [u EXCEPT !.table = Without(@, w)]

\* release_window_redirect
Unredirected(v, w) ==
    IF w \in DOMAIN v.table /\ v.table[w].redirected = "xwm"
    THEN [v EXCEPT !.xd.win[w].redirected = IF @ = "xwm" THEN "no" ELSE @] ELSE v

-----------------------------------------------------------------------------
(***************************************************************************)
(* X clients and Xwayland.                                                 *)
(***************************************************************************)
Acts == turn = "clients" /\ Len(xd.events) < MaxWaiting /\ Len(xd.requests) < MaxWaiting
XOnly == UNCHANGED <<table, shell, turn, serials>>

\* A client asks again only after its last request was answered.
ClientMaps(w) ==
    /\ Acts /\ xd.win[w].phase = "out"
    /\ xd' = Notify([xd EXCEPT !.win[w].phase = "asked"], "map", w, NoId)
    /\ XOnly

ClientUnmaps(w) ==
    /\ Acts /\ xd.win[w].phase = "mapped"
    /\ xd' = Hidden(xd, w, "out")
    /\ XOnly

ClientDestroys(w) ==
    /\ Acts /\ xd.win[w].phase # "gone"
    /\ xd' = Notify([Hidden(xd, w, "gone") EXCEPT !.win[w].redirected = "no"], "destroy", w, NoId)
    /\ XOnly

ClientRetitles(w) ==
    /\ Acts /\ xd.win[w].phase # "gone"
    /\ xd' = Notify([xd EXCEPT !.win[w].title = 3 - @], "property", w, NoId)
    /\ XOnly

ClientAsksFullscreen(w, on) ==
    /\ Acts /\ xd.win[w].phase = "mapped"
    /\ xd' = Notify(xd, "state", w, on)
    /\ XOnly

\* A mapped window whose pixels are redirected gets a surface, and the
\* window manager hears of it.
Mentioned(s) ==
    \/ s \in DOMAIN shell.surf
    \/ \E i \in DOMAIN xd.events : xd.events[i].arg = s
    \/ \E i \in DOMAIN xd.requests : xd.requests[i].surface = s
    \/ \E w \in DOMAIN table : table[w].surface = s

XwaylandCreates(w) ==
    /\ Acts /\ \E s \in Surfaces : ~Mentioned(s)
    /\ xd.win[w].phase = "mapped" /\ xd.win[w].redirected # "no" /\ xd.win[w].surface = NoId
    /\ LET s == CHOOSE t \in Surfaces : ~Mentioned(t)
       IN  xd' = Notify(Ask([xd EXCEPT !.win[w].surface = s], "create", s), "surface", w, s)
    /\ XOnly

XwaylandDraws(w) ==
    /\ Acts /\ xd.win[w].surface # NoId
    /\ xd' = Ask([xd EXCEPT !.win[w].drawn = TRUE], "commit", xd.win[w].surface)
    /\ XOnly

-----------------------------------------------------------------------------
(***************************************************************************)
(* The window manager handles X events in the order they came, as many as  *)
(* have arrived, and at the end tries every association again.             *)
(***************************************************************************)
Reads(type) ==
    /\ turn # "ended" /\ xd.events # <<>> /\ Head(xd.events).type = type
    /\ turn' = "events" /\ UNCHANGED serials

Target == Head(xd.events).window
Popped == [Present EXCEPT !.xd.events = Tail(@)]

\* handle_map_request, with what redirect_window is answered.
MapRequested(answer) ==
    /\ Reads("map")
    /\ LET w == Target
           v == Remembered(Popped, w)
           mapped == [v EXCEPT !.xd.win[w].phase = "mapped"]
           known == v.table[w].redirected
           redirected == IF known # "no" THEN known
                         ELSE IF v.xd.win[w].redirected = "other" THEN "other" ELSE answer
           rejected == [mapped EXCEPT !.table = Without(@, w), !.xd = Hidden(@, w, "out")]
           done == [mapped EXCEPT !.table[w].redirected = redirected,
                                  !.xd.win[w].redirected = redirected]
       IN  Becomes(IF w \notin DOMAIN v.table
                   THEN [v EXCEPT !.xd.win[w].phase = IF @ = "asked" THEN "out" ELSE @]
                   ELSE IF v.xd.win[w].phase = "gone" THEN [v EXCEPT !.table = Without(@, w)]
                   ELSE IF redirected = "no" THEN rejected ELSE done)

\* The client message with the surface of a window.
SurfaceNamed ==
    /\ Reads("surface")
    /\ LET w == Target
           v == Remembered(Popped, w)
       IN  Becomes(IF w \notin DOMAIN v.table THEN v
                  ELSE Associated([v EXCEPT !.table[w].surface = Head(xd.events).arg], w))

\* handle_wm_state_message
StateAsked ==
    /\ Reads("state")
    /\ LET w == Target
           on == Head(xd.events).arg
           v == Remembered(Popped, w)
           s == CHOOSE t \in SurfacesOf(v, w) : TRUE
           known == w \in DOMAIN v.table /\ v.table[w].associated /\ v.table[w].fullscreen # on
           shown == known /\ SurfacesOf(v, w) \cap Shown(v.shell) # {}
           set == [v EXCEPT !.shell.surf[s].fullscreen = on]
       IN  Becomes(IF ~shown THEN v
                  ELSE IF v.xd.win[w].phase = "gone" THEN set
                  ELSE [set EXCEPT !.table[w].fullscreen = on])

PropertyChanged ==
    /\ Reads("property")
    /\ Becomes(IF Target \in DOMAIN table THEN Identified(Popped, Target) ELSE Popped)

WindowUnmapped == Reads("unmap") /\ Becomes(Forgotten(Unredirected(Popped, Target), Target))

WindowDestroyed == Reads("destroy") /\ Becomes(Forgotten(Popped, Target))

MutantAllTried(v, order) == v

\* The end of nb_xwayland_rootless_dispatch: one slot of the table after the
\* other.  Which slot a window has is left open.
Orders(v) == Bijection(1 .. Cardinality(DOMAIN v.table), DOMAIN v.table)
AllTried(v, order) ==
    LET tried[n \in 0 .. Cardinality(DOMAIN v.table)] ==
          IF n = 0 THEN v ELSE Associated(tried[n - 1], order[n])
    IN  tried[Cardinality(DOMAIN v.table)]

EventsEnd ==
    /\ turn # "ended"
    /\ turn' = "clients" /\ UNCHANGED serials
    /\ \E order \in Orders(Present) :
         /\ Becomes(AllTried(Present, order))
         /\ turn = "events" \/ AllTried(Present, order) # Present

-----------------------------------------------------------------------------
(***************************************************************************)
(* The Wayland server and the user.  Each ends with the focus brought up   *)
(* to date; if the X server refuses it, the session ends.                  *)
(***************************************************************************)
Settle(v) ==
    /\ turn = "clients"
    /\ LET u == Sync(v) IN Becomes(u) /\ turn' = IF u.ok THEN turn ELSE "ended"
    /\ UNCHANGED serials

Served(type) == xd.requests # <<>> /\ Head(xd.requests).type = type
Named == Head(xd.requests).surface
Taken == [Present EXCEPT !.xd.requests = Tail(@)]

\* compositor_create_surface and, if there is one, the xwayland role with
\* its serial committed.
SurfaceMade ==
    /\ Served("create")
    /\ Settle([Taken EXCEPT !.shell.surf =
                 With(@, Named, [NoSurface EXCEPT !.role = IF serials THEN "xwayland" ELSE "none"])])

\* surface_commit with a buffer
SurfaceCommitted ==
    /\ Served("commit")
    /\ Settle(MapSurface([Taken EXCEPT !.shell.surf[Named].pixels = TRUE], Named))

\* surface_destroy
SurfaceGone ==
    /\ Served("destroy")
    /\ Settle([UnmapSurface(Taken, Named) EXCEPT !.shell.surf = Without(@, Named)])

UserActivates(s) ==
    /\ s \in Shown(shell) \cup {NoId} /\ s # Active(shell)
    /\ Settle([Present EXCEPT !.shell.stack = Append(Remove(@, s), s)])

-----------------------------------------------------------------------------
RootlessNext ==
    \/ \E w \in Toplevels : \/ ClientMaps(w) \/ ClientUnmaps(w) \/ ClientDestroys(w)
                           \/ ClientRetitles(w)
                           \/ XwaylandCreates(w) \/ XwaylandDraws(w)
                           \/ \E on \in BOOLEAN : ClientAsksFullscreen(w, on)
    \/ \E answer \in {"xwm", "no"} : MapRequested(answer)
    \/ SurfaceNamed \/ StateAsked \/ PropertyChanged \/ WindowUnmapped \/ WindowDestroyed
    \/ EventsEnd
    \/ SurfaceMade \/ SurfaceCommitted \/ SurfaceGone
    \/ \E s \in Surfaces \cup {NoId} : UserActivates(s)

RootlessSpec == RootlessInit /\ [][RootlessNext]_rootlessVars

(***************************************************************************)
(* Properties.                                                             *)
(***************************************************************************)
\* Nothing waits on either socket and no association is left to try.
AllHeard ==
    /\ turn = "clients" /\ xd.events = <<>> /\ xd.requests = <<>>
    /\ \A order \in Orders(Present) : AllTried(Present, order) = Present

\* Once everything is heard, the shell has one window for each X window that
\* is mapped and drawn, with its title and its fullscreen state, and none
\* for any other; and the manager holds no other window's pixels.
ShellShowsX11 ==
    AllHeard =>
      /\ \A w \in Toplevels :
           LET s == xd.win[w].surface
           IN  /\ s # NoId /\ xd.win[w].drawn =>
                    /\ s \in Shown(shell)
                    /\ shell.surf[s].xwindow = w /\ shell.surf[s].title = xd.win[w].title
                    /\ shell.surf[s].fullscreen = table[w].fullscreen
               /\ xd.win[w].redirected = "xwm" <=> w \in DOMAIN table /\ table[w].redirected = "xwm"
               /\ xd.win[w].phase = "mapped" <=> w \in DOMAIN table
      /\ \A s \in Shown(shell) : \E w \in Toplevels : xd.win[w].surface = s
=============================================================================
