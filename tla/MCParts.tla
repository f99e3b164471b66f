------------------------------- MODULE MCParts -------------------------------
(***************************************************************************)
(* Small instances of parts that never touch each other's state, each by   *)
(* itself: the worker's watchdog with a few ticks of time and tokens that  *)
(* wrap, the console's input devices, the surfaces of the Wayland server,  *)
(* the selections it trades with X11, X11's windows, the frames the theme  *)
(* renderer draws, and the menus of applications.  part says whose         *)
(* behaviour it is.                                                        *)
(***************************************************************************)
EXTENDS SessionWatchdog, ConsoleInput, WaylandSurfaces, Selections, RootlessWindows, ThemeAtlas,
        ApplicationMenus, TLC

VARIABLE part

\* Two control keys that are not neighbours, the modifiers and keys of both
\* chords, and a keycode without a name.
MCKeyMap == <<"FK10", "LCTL", "ESC", "RALT", "", "BKSP">>
MCControlKeys == <<"ESC", "FK10">>
MCDeltas == {-2, 0, 1}

\* Wayland texts of two pieces and of one, and X11 texts of one and of too many.
MCPieces == "s1" :> 2 @@ "s2" :> 1 @@ "x1" :> 1 @@ "x2" :> 3

\* The X windows have the names of the slots, so one symmetry serves both.
SlotSymmetry == Permutations(Slots)

\* Bound: with two keys down the pointer stays where it starts.
InputBound ==
    \/ Cardinality(pressed \cup releasing) <= 1
    \/ pointer = AtRest(pointer) /\ pointer.x = (width - 1) \div 2

\* Bounds: the client's surfaces have the keyboard or the pointer, and one of
\* them has a configure to answer, or has its objects torn down.
WholeObjects ==
    {{}, {"surface"}, {"surface", "xdg"}, {"surface", "xdg", "toplevel"},
     {"surface", "xdg", "popup"}, {"surface", "subsurface"}}

SurfacesBound ==
    /\ seat.keyboard = None \/ {seat.pointer, seat.grab, seat.cursor} = {None}
    /\ Cardinality({s \in Slots : surface[s].unacked \/ surface[s].res \notin WholeObjects}) <= 1

\* Bounds: two X events wait at a time, and offers are made while X11 is quiet
\* and its window manager runs.  The second source is made after the first,
\* with a running manager, no X client gone and the long text of x2 not in the
\* clipboard.  Only x2 copies with the mouse, and then not also from its menu,
\* nor while there is a Wayland text.  Two conversions are under way at a time,
\* with no Wayland source yet, no X client gone and no chunks on their way.
\* While a text goes to X11 none comes from there; and while one comes in chunks
\* no Wayland text is read or offered, and there is no second source.
SelectionBound ==
    /\ server.offers # {} => xserver.events = <<>> /\ xwm.ready
    /\ \A s \in Sources : server.source[s].owner # Nothing => server.devices # {}
    /\ server.source["s2"].owner # Nothing =>
         /\ server.source["s1"].owner # Nothing
         /\ xserver.gone = {} /\ xwm.ready /\ xserver.owner["clipboard"] # "x2"
    /\ Len(xserver.events) <= 2 /\ Cardinality(xserver.conversions) <= 2
    /\ xserver.owner["primary"] # "x1"
    /\ xserver.owner["primary"] = "x2" =>
         xserver.owner["clipboard"] # "x2" /\ server.source["s1"].owner = Nothing
    /\ Cardinality(xserver.conversions) = 2 =>
         /\ xserver.gone = {} /\ xserver.owner["primary"] # "x2"
         /\ \A w \in XWindows : sending[w] = 0
         /\ server.source["s1"].owner = Nothing
    /\ (\E w \in XWindows : xwm.exports[w] # Nothing) =>
         /\ xwm.stage = "none" /\ xserver.conversions = {}
         /\ \A w \in XWindows : sending[w] = 0
    /\ (\E w \in XWindows : sending[w] > 0) =>
         server.offers = {} /\ server.reading = Nothing /\ server.source["s2"].owner = Nothing

\* Bounds: one X window at a time has a new title, is fullscreen or is drawn
\* by another client, while the others are withdrawn; one is destroyed; and
\* the last to be mapped, for which there is no place, meets quiet sockets.
Special(w) ==
    \/ xd.win[w].title = 2 \/ xd.win[w].redirected = "other"
    \/ w \in DOMAIN table /\ table[w].fullscreen
    \/ \E i \in DOMAIN xd.events :
         xd.events[i].window = w /\ xd.events[i].type \in {"property", "state"}

InPhase(phases) == Cardinality({w \in Toplevels : xd.win[w].phase \in phases})

RootlessBound ==
    /\ Cardinality({w \in Toplevels : Special(w)}) <= 1
    /\ (\E w \in Toplevels : Special(w)) => InPhase({"out"}) >= Cardinality(Toplevels) - 1
    /\ InPhase({"gone"}) <= 1
    /\ InPhase({"out"}) = 0 => xd.requests = <<>> /\ Len(xd.events) <= 1

\* Bounds: one of two clients builds a menu at a time, and the second commits
\* only a menu of one command; after a command the user opens the next menu.
OneCommand == [menus |-> 1, last |-> 1, items |-> {[command |-> "find", enabled |-> TRUE]}]

MenuBound ==
    /\ \A s \in Tops : [command |-> "launch", enabled |-> FALSE] \notin app[s].pending.items
    /\ app["m2"].pending \in {Empty, [menus |-> 1, last |-> 0, items |-> {}], OneCommand}
    /\ {app["m2"].snapshots[1], app["m2"].snapshots[2]} \subseteq {Empty, OneCommand}
    /\ \A s \in Tops :
         Building(s) /\ app[s].pending # Empty => \A r \in Tops \ {s} : ~app[r].building

PartsInit ==
    /\ part \in {"watchdog", "input", "surfaces", "selections", "windows", "theme", "menus"}
    /\ WatchdogInit /\ InputInit /\ Init /\ SelectionInit /\ RootlessInit /\ AtlasInit /\ MenuInit
    /\ part # "watchdog" => now = 0
    /\ part # "input" => width = 5
    /\ part # "windows" => serials /\ \A w \in Toplevels : xd.win[w].redirected = "no"
    /\ part # "theme" => theme.look = "a" /\ renderer.desktop

PartsNext ==
    \/ part = "watchdog" /\ WatchdogNext
       /\ UNCHANGED <<part, inputVars, vars, selectionVars, rootlessVars, atlasVars, menuVars>>
    \/ part = "input" /\ InputNext /\ InputBound'
       /\ UNCHANGED <<part, wVars, vars, selectionVars, rootlessVars, atlasVars, menuVars>>
    \/ part = "surfaces" /\ Next /\ SurfacesBound'
       /\ UNCHANGED <<part, wVars, inputVars, selectionVars, rootlessVars, atlasVars, menuVars>>
    \/ part = "selections" /\ SelectionNext /\ SelectionBound'
       /\ UNCHANGED <<part, wVars, inputVars, vars, rootlessVars, atlasVars, menuVars>>
    \/ part = "windows" /\ RootlessNext /\ RootlessBound'
       /\ UNCHANGED <<part, wVars, inputVars, vars, selectionVars, atlasVars, menuVars>>
    \/ part = "theme" /\ AtlasNext
       /\ UNCHANGED <<part, wVars, inputVars, vars, selectionVars, rootlessVars, menuVars>>
    \/ part = "menus" /\ MenuNext /\ MenuBound' /\ (heard # NoWindow => heard' # heard)
       /\ UNCHANGED <<part, wVars, inputVars, vars, selectionVars, rootlessVars, atlasVars>>

PartsSpec ==
    PartsInit /\ [][PartsNext]_<<part, wVars, inputVars, vars, selectionVars, rootlessVars,
                                 atlasVars, menuVars>>
=============================================================================
