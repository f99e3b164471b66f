--------------------------- MODULE ServerPartsProofs ---------------------------
(***************************************************************************)
(* Three parts of the Wayland server that never touch each other's state,  *)
(* for any number of clients, sources, windows, looks and pieces:          *)
(*                                                                         *)
(*  - the menus of applications: MenusAreTheClients;                       *)
(*  - the selections traded with X11: SelectionHasOwner;                   *)
(*  - the frames that the theme renderer draws: FramesFollowDesktop.       *)
(***************************************************************************)
EXTENDS ApplicationMenus, Selections, ThemeAtlas, TLAPS

-----------------------------------------------------------------------------
(***************************************************************************)
(* Menus.  MenuInv has a part for the clients' objects, one for the        *)
(* shell's bindings, and one for the menu bar.  Most requests change a     *)
(* pending menu only; those that touch the shell end in SyncMenu or in     *)
(* Visible, and two lemmas say what these leave behind.                    *)
(***************************************************************************)
\* The model the window of s should have when the clients' objects are a.
Published(a, s) == IF a[s].committed THEN Snapshot(s, a[s].active) ELSE Fallback

Objects(a) ==
    /\ a \in [Tops -> Apps]
    /\ \A s \in Tops : a[s].object => a[s].toplevel
    /\ \A s \in Tops : a[s].committed => a[s].object /\ a[s].snapshots[a[s].active].menus > 0

\* The bindings of the shell agree with the clients.
Binds(a, b) ==
    /\ b \in Bars
    /\ DOMAIN b.bound \subseteq Tops
    /\ \A s \in DOMAIN b.bound : a[s].toplevel /\ b.bound[s] = Published(a, s)
    /\ b.active \in DOMAIN b.bound \cup {NoWindow}

Shows(a, b) ==
    /\ b.visible = WantedModel(b) /\ b.window = b.active
    /\ b.open => b.seen = ItemsOf(a, b.visible)

MenuInv == Objects(app) /\ Binds(app, bar) /\ Shows(app, bar)

-----------------------------------------------------------------------------
(***************************************************************************)
(* Types.                                                                  *)
(***************************************************************************)
LEMMA ModelTypes ==
    /\ Fallback \in Models /\ DesktopMenu \in Models
    /\ \A s \in Tops : \A i \in 1..2 : Snapshot(s, i) \in Models
BY DEF Fallback, DesktopMenu, Snapshot, Models

LEMMA PublishedType ==
    ASSUME NEW a, Objects(a), NEW s \in Tops PROVE Published(a, s) \in Models
BY ModelTypes DEF Objects, Published, Apps

LEMMA WantedType ==
    ASSUME NEW a, Objects(a), NEW b, Binds(a, b) PROVE WantedModel(b) \in Models
BY ModelTypes, PublishedType DEF Binds, WantedModel

LEMMA ItemsType ==
    ASSUME NEW a, Objects(a), NEW model, model \in Models, model.source \in Tops => model.index \in 1..2
    PROVE  ItemsOf(a, model) \subseteq Items
BY DEF Objects, Apps, Menus, ItemsOf

\* The bindings are a function from windows to models.
LEMMA BoundType ==
    ASSUME NEW b \in Bars
    PROVE  /\ b.bound \in [DOMAIN b.bound -> Models]
           /\ DOMAIN b.bound \subseteq Tops
<1>1. PICK W \in SUBSET Tops : b.bound \in [W -> Models]
  BY DEF Bars
<1> QED
  BY <1>1

-----------------------------------------------------------------------------
(***************************************************************************)
(* The menu bar.                                                           *)
(***************************************************************************)
LEMMA VisibleEffect ==
    ASSUME NEW b \in Bars, NEW model \in Models, NEW window \in Tops \cup {NoWindow}
    PROVE  /\ Visible(b, model, window) \in Bars
           /\ Visible(b, model, window).bound = b.bound
           /\ Visible(b, model, window).active = b.active
           /\ Visible(b, model, window).visible = model
           /\ Visible(b, model, window).window = window
           /\ ~Visible(b, model, window).open
BY DEF Visible, Bars

\* sync_active_menu shows the active window's menu, and an open menu stays
\* open only if it is that one.
LEMMA SyncEffect ==
    ASSUME NEW b \in Bars, WantedModel(b) \in Models
    PROVE  /\ SyncMenu(b) \in Bars
           /\ SyncMenu(b).bound = b.bound /\ SyncMenu(b).active = b.active
           /\ SyncMenu(b).visible = WantedModel(b) /\ SyncMenu(b).window = b.active
           /\ SyncMenu(b).open => SyncMenu(b) = b
<1>1. b.active \in Tops \cup {NoWindow}
  BY DEF Bars
<1>2. CASE <<b.visible, b.window>> = <<WantedModel(b), b.active>>
  BY <1>2 DEF SyncMenu
<1>3. CASE <<b.visible, b.window>> # <<WantedModel(b), b.active>>
  BY <1>1, <1>3, VisibleEffect DEF SyncMenu
<1> QED
  BY <1>2, <1>3

\* What the invariant needs of the shell after a request that ends in it.
LEMMA SyncShows ==
    ASSUME NEW a, Objects(a), NEW b, Binds(a, b),
           b.open /\ b.visible = WantedModel(b) /\ b.window = b.active =>
               b.seen = ItemsOf(a, b.visible)
    PROVE  Binds(a, SyncMenu(b)) /\ Shows(a, SyncMenu(b))
<1>1. b \in Bars /\ WantedModel(b) \in Models
  BY WantedType DEF Binds
<1>2. WantedModel(SyncMenu(b)) = WantedModel(b)
  BY <1>1, SyncEffect DEF WantedModel
<1> QED
  BY <1>1, <1>2, SyncEffect DEF Binds, Shows

LEMMA VisibleShows ==
    ASSUME NEW a, Objects(a), NEW b, Binds(a, b)
    PROVE  LET c == Visible(b, WantedModel(b), b.active) IN Binds(a, c) /\ Shows(a, c)
<1> DEFINE c == Visible(b, WantedModel(b), b.active)
<1>1. b \in Bars /\ WantedModel(b) \in Models /\ b.active \in Tops \cup {NoWindow}
  BY WantedType DEF Binds, Bars
<1>2. WantedModel(c) = WantedModel(b)
  BY <1>1, VisibleEffect DEF WantedModel
<1> QED
  BY <1>1, <1>2, VisibleEffect DEF Binds, Shows

-----------------------------------------------------------------------------
(***************************************************************************)
(* Requests that leave the shell alone.                                    *)
(***************************************************************************)
\* No snapshot changes, and what a window needs of its client stays.
Edit ==
    /\ app' \in [Tops -> Apps] /\ bar' = bar
    /\ \A t \in Tops :
         /\ app'[t].committed = app[t].committed /\ app'[t].active = app[t].active
         /\ app'[t].snapshots = app[t].snapshots
         /\ app[t].toplevel => app'[t].toplevel
         /\ app[t].object => app'[t].object
         /\ app'[t].object => app'[t].toplevel

LEMMA EditKeepsInv ==
    ASSUME MenuInv, Edit PROVE MenuInv'
<1>1. Objects(app')
  BY DEF MenuInv, Objects, Edit
<1>2. Binds(app', bar')
  BY DEF MenuInv, Binds, Edit, Published
<1>3. \A model : ItemsOf(app', model) = ItemsOf(app, model)
  BY DEF Edit, ItemsOf
<1>4. Shows(app', bar')
  BY <1>3 DEF MenuInv, Shows, Edit
<1> QED
  BY <1>1, <1>2, <1>4 DEF MenuInv

LEMMA EmptyType == Empty \in Menus
BY DEF Empty, Menus

LEMMA MenuUpdate ==
    ASSUME NEW r \in Menus, NEW x \in Nat, NEW y \in Nat, NEW z \in SUBSET Items
    PROVE  /\ [r EXCEPT !.menus = x, !.last = y] \in Menus
           /\ [r EXCEPT !.last = y, !.items = z] \in Menus
BY DEF Menus

LEMMA NoAppType == NoApp \in Apps
<1>1. <<Empty, Empty>> \in [1..2 -> Menus]
  BY EmptyType
<1> QED
  BY <1>1, EmptyType DEF NoApp, Apps

LEMMA CreateToplevelIsEdit ==
    ASSUME Objects(app), NEW s \in Tops, CreateToplevel(s) PROVE Edit
BY DEF Objects, CreateToplevel, Edit, Apps

LEMMA GetMenuIsEdit ==
    ASSUME Objects(app), NEW s \in Tops, GetMenu(s) PROVE Edit
<1> DEFINE r == [app[s] EXCEPT !.object = TRUE, !.building = TRUE, !.pending = Empty]
<1>1. app[s] \in Apps
  BY DEF Objects
<1>2. r \in Apps
  BY <1>1, EmptyType DEF Apps
<1>3. /\ r.toplevel = app[s].toplevel /\ r.object = TRUE
      /\ r.snapshots = app[s].snapshots /\ r.active = app[s].active
      /\ r.committed = app[s].committed
  BY <1>1 DEF Apps
<1>4. app' = [app EXCEPT ![s] = r]
  BY DEF GetMenu, Objects
<1> QED
  BY <1>1, <1>2, <1>3, <1>4 DEF Objects, GetMenu, Edit

LEMMA ResetMenuIsEdit ==
    ASSUME Objects(app), NEW s \in Tops, ResetMenu(s) PROVE Edit
BY EmptyType DEF Objects, ResetMenu, Edit, Apps

\* A request that only extends the pending menu.
LEMMA PendingIsEdit ==
    ASSUME Objects(app), NEW s \in Tops, NEW menu \in Menus,
           app' = [app EXCEPT ![s] = [app[s] EXCEPT !.pending = menu]], bar' = bar
    PROVE  Edit
BY DEF Objects, Edit, Apps

LEMMA AppendMenuIsEdit ==
    ASSUME Objects(app), NEW s \in Tops, AppendMenu(s) PROVE Edit
<1> DEFINE menu == [app[s].pending EXCEPT !.menus = @ + 1, !.last = 0]
<1>1. app[s].pending \in Menus
  BY DEF Objects, Apps
<1>2. menu \in Menus
  <2>1. app[s].pending.menus + 1 \in Nat
    BY <1>1 DEF Menus
  <2> QED
    BY <1>1, <2>1, MenuUpdate
<1>3. app' = [app EXCEPT ![s] = [app[s] EXCEPT !.pending = menu]]
  BY DEF AppendMenu, Objects, Apps
<1> QED
  BY <1>2, <1>3, PendingIsEdit DEF AppendMenu

LEMMA AppendSeparatorIsEdit ==
    ASSUME Objects(app), NEW s \in Tops, AppendSeparator(s) PROVE Edit
<1> DEFINE menu == [app[s].pending EXCEPT !.last = @ + 1]
<1>1. app[s].pending \in Menus
  BY DEF Objects, Apps
<1>2. menu \in Menus
  BY <1>1 DEF Menus
<1>3. app' = [app EXCEPT ![s] = [app[s] EXCEPT !.pending = menu]]
  BY DEF AppendSeparator, Objects, Apps
<1> QED
  BY <1>2, <1>3, PendingIsEdit DEF AppendSeparator

LEMMA AppendItemIsEdit ==
    ASSUME Objects(app), NEW s \in Tops, NEW item \in Items,
           AppendItem(s, item.command, item.enabled)
    PROVE  Edit
<1> DEFINE menu == [app[s].pending EXCEPT
                      !.last = @ + 1,
                      !.items = @ \cup {[command |-> item.command, enabled |-> item.enabled]}]
<1>1. app[s].pending \in Menus
  BY DEF Objects, Apps
<1>2. menu \in Menus
  <2>1. app[s].pending.last + 1 \in Nat
    BY <1>1 DEF Menus
  <2>2. app[s].pending.items \cup {[command |-> item.command, enabled |-> item.enabled]}
          \in SUBSET Items
    BY <1>1 DEF Menus, Items
  <2> QED
    BY <1>1, <2>1, <2>2, MenuUpdate
<1>3. app' = [app EXCEPT ![s] = [app[s] EXCEPT !.pending = menu]]
  BY DEF AppendItem, Objects, Apps
<1> QED
  BY <1>2, <1>3, PendingIsEdit DEF AppendItem

-----------------------------------------------------------------------------
(***************************************************************************)
(* Requests that reach the shell.                                          *)
(***************************************************************************)
Changes(s) == app' \in [Tops -> Apps] /\ \A t \in Tops \ {s} : app'[t] = app[t]

\* What one client does to its objects does not reach another's open menu.
LEMMA OthersMenu ==
    ASSUME MenuInv, NEW s \in Tops, Changes(s), bar.active # s
    PROVE  ItemsOf(app', bar.visible) = ItemsOf(app, bar.visible)
<1>1. bar.visible.source # s
  <2>1. CASE bar.active \in DOMAIN bar.bound
    <3>1. bar.visible = Published(app, bar.active)
      BY <2>1 DEF MenuInv, Binds, Shows, WantedModel
    <3> QED
      BY <3>1, MenuAssumption DEF Published, Snapshot, Fallback
  <2>2. CASE bar.active \notin DOMAIN bar.bound
    BY <2>2, MenuAssumption DEF MenuInv, Shows, WantedModel, DesktopMenu
  <2> QED
    BY <2>1, <2>2
<1> QED
  BY <1>1 DEF Changes, ItemsOf

\* A client's window gets the menu its objects now call for.
LEMMA RebindKeepsInv ==
    ASSUME MenuInv, NEW s \in Tops, Changes(s), Objects(app'), app'[s].toplevel,
           bar' = BindMenu(bar, s, Published(app', s))
    PROVE  MenuInv'
<1> DEFINE model == Published(app', s)
           c == [bar EXCEPT !.bound[s] = model]
<1>1. bar \in Bars /\ bar.bound \in [DOMAIN bar.bound -> Models] /\ DOMAIN bar.bound \subseteq Tops
  BY BoundType DEF MenuInv, Binds
<1>2. model \in Models
  BY PublishedType
<1>3. \A t \in Tops \ {s} : Published(app', t) = Published(app, t)
  BY DEF Changes, Published
<1>4. CASE s \in DOMAIN bar.bound
  <2>1. c.bound = [bar.bound EXCEPT ![s] = model] /\ c.active = bar.active
    BY <1>1 DEF Bars
  <2>2. c.bound \in [DOMAIN bar.bound -> Models]
    BY <1>1, <1>2, <2>1
  <2>3. c \in Bars
    BY <1>1, <2>1, <2>2 DEF Bars
  <2>4. Binds(app', c)
    BY <1>1, <1>3, <1>4, <2>1, <2>2, <2>3 DEF MenuInv, Binds, Changes
  <2>5. CASE bar.active = s
    <3>1. WantedModel(c) = model
      BY <1>1, <1>4, <2>1, <2>5 DEF WantedModel
    <3>2. bar' = Visible(c, WantedModel(c), c.active)
      BY <1>4, <2>1, <2>5, <3>1 DEF BindMenu, UpdateWindowMenu
    <3> QED
      BY <2>4, <3>2, VisibleShows DEF MenuInv
  <2>6. CASE bar.active # s
    <3>1. bar' = SyncMenu(c)
      BY <1>4, <2>1, <2>6 DEF BindMenu, UpdateWindowMenu
    <3>2. c.open = bar.open /\ c.seen = bar.seen /\ c.visible = bar.visible
      BY <1>1 DEF Bars
    <3>3. c.open => c.seen = ItemsOf(app', c.visible)
      BY <2>6, <3>2, OthersMenu DEF MenuInv, Shows
    <3> QED
      BY <2>4, <3>1, <3>3, SyncShows DEF MenuInv
  <2> QED
    BY <2>5, <2>6
<1>5. CASE s \notin DOMAIN bar.bound
  <2>1. bar' = bar
    BY <1>5 DEF BindMenu
  <2>2. Binds(app', bar)
    BY <1>1, <1>3, <1>5 DEF MenuInv, Binds, Changes
  <2>3. bar.active # s
    BY <1>5, MenuAssumption DEF MenuInv, Binds
  <2>4. Shows(app', bar)
    BY <2>3, OthersMenu DEF MenuInv, Shows
  <2> QED
    BY <2>1, <2>2, <2>4 DEF MenuInv
<1> QED
  BY <1>4, <1>5

\* A window goes, with or without its client's objects.
LEMMA RemoveKeepsInv ==
    ASSUME MenuInv, NEW s \in Tops, Changes(s), Objects(app'),
           NEW next \in (DOMAIN bar.bound \ {s}) \cup {NoWindow},
           bar' = WithoutWindow(bar, s, next)
    PROVE  MenuInv'
<1>1. bar \in Bars /\ bar.bound \in [DOMAIN bar.bound -> Models] /\ DOMAIN bar.bound \subseteq Tops
  BY BoundType DEF MenuInv, Binds
<1>2. \A t \in Tops \ {s} : Published(app', t) = Published(app, t)
  BY DEF Changes, Published
<1>3. CASE s \notin DOMAIN bar.bound
  <2>1. bar' = bar
    BY <1>3 DEF WithoutWindow
  <2>2. Binds(app', bar)
    BY <1>1, <1>2, <1>3 DEF MenuInv, Binds, Changes
  <2>3. bar.active # s
    BY <1>3, MenuAssumption DEF MenuInv, Binds
  <2>4. Shows(app', bar)
    BY <2>3, OthersMenu DEF MenuInv, Shows
  <2> QED
    BY <2>1, <2>2, <2>4 DEF MenuInv
<1>4. CASE s \in DOMAIN bar.bound
  <2> DEFINE rest == [w \in DOMAIN bar.bound \ {s} |-> bar.bound[w]]
             top == IF bar.active = s THEN next ELSE bar.active
             b == [bar EXCEPT !.bound = rest, !.active = top]
  <2>1. rest \in [DOMAIN bar.bound \ {s} -> Models] /\ top \in Tops \cup {NoWindow}
    BY <1>1 DEF Bars
  <2>2. b \in Bars
    BY <1>1, <2>1 DEF Bars
  <2>3. /\ b.bound = rest /\ b.active = top /\ b.visible = bar.visible
        /\ b.window = bar.window /\ b.open = bar.open /\ b.seen = bar.seen
    BY <1>1 DEF Bars
  <2>4. Binds(app', b)
    BY <1>1, <1>2, <2>1, <2>2, <2>3 DEF MenuInv, Binds, Changes
  <2>5. bar' = SyncMenu(b)
    BY <1>4 DEF WithoutWindow
  <2>6. b.open /\ b.window = b.active => b.seen = ItemsOf(app', b.visible)
    <3>1. b.window = b.active => bar.active # s
      BY <2>3, MenuAssumption DEF MenuInv, Shows
    <3> QED
      BY <2>3, <3>1, OthersMenu DEF MenuInv, Shows
  <2> QED
    BY <2>4, <2>5, <2>6, SyncShows DEF MenuInv
<1> QED
  BY <1>3, <1>4

LEMMA CommitMenuStep ==
    ASSUME MenuInv, NEW s \in Tops, CommitMenu(s) PROVE MenuInv'
<1> DEFINE i == Candidate(s)
<1>1. Objects(app) /\ app[s] \in Apps /\ i \in 1..2
  BY DEF MenuInv, Objects, Apps, Candidate
<1>2. app[s].pending \in Menus /\ app[s].snapshots \in [1..2 -> Menus]
  BY <1>1 DEF Apps
<1> DEFINE snapshots == [app[s].snapshots EXCEPT ![i] = app[s].pending]
           r == [app[s] EXCEPT !.snapshots = snapshots, !.active = i, !.committed = TRUE,
                               !.building = FALSE]
<1>3. snapshots \in [1..2 -> Menus] /\ snapshots[i] = app[s].pending
  BY <1>1, <1>2
<1>4. r \in Apps
  BY <1>1, <1>3 DEF Apps
<1>5. /\ r.active = i /\ r.committed /\ r.snapshots = snapshots
      /\ r.object = app[s].object /\ r.toplevel = app[s].toplevel
  BY <1>1 DEF Apps
<1>6. app' = [app EXCEPT ![s] = r]
  BY <1>1 DEF CommitMenu, Objects
<1>7. app' \in [Tops -> Apps] /\ app'[s] = r /\ Changes(s)
  BY <1>1, <1>4, <1>6 DEF Objects, Changes
<1>8. Objects(app') /\ app'[s].toplevel
  <2>1. r.object /\ r.toplevel /\ r.snapshots[r.active].menus > 0
    BY <1>1, <1>3, <1>5 DEF Objects, CommitMenu, Building
  <2> HIDE DEF r
  <2> QED
    BY <1>1, <1>7, <2>1 DEF Objects, Changes
<1>9. Published(app', s) = Snapshot(s, i)
  BY <1>5, <1>7 DEF Published
<1> QED
  BY <1>7, <1>8, <1>9, RebindKeepsInv DEF CommitMenu

LEMMA DestroyMenuStep ==
    ASSUME MenuInv, NEW s \in Tops, DestroyMenu(s) PROVE MenuInv'
<1> DEFINE r == [NoApp EXCEPT !.toplevel = TRUE]
<1>1. Objects(app) /\ app[s] \in Apps
  BY DEF MenuInv, Objects
<1>2. r \in Apps /\ r.toplevel /\ ~r.object /\ ~r.committed
  BY NoAppType DEF NoApp, Apps
<1>3. app' \in [Tops -> Apps] /\ app'[s] = r /\ Changes(s)
  BY <1>1, <1>2 DEF DestroyMenu, Objects, Changes
<1>4. Objects(app') /\ app'[s].toplevel
  BY <1>1, <1>2, <1>3 DEF Objects, Changes
<1>5. Published(app', s) = Fallback
  BY <1>2, <1>3 DEF Published
<1> QED
  BY <1>3, <1>4, <1>5, RebindKeepsInv DEF DestroyMenu, Restored

LEMMA MapWindowStep ==
    ASSUME MenuInv, NEW s \in Tops, MapWindow(s) PROVE MenuInv'
<1> DEFINE model == Published(app, s)
           bound == [w \in DOMAIN bar.bound \cup {s} |-> IF w = s THEN model ELSE bar.bound[w]]
           b == [bar EXCEPT !.active = s, !.bound = bound]
<1>1. bar \in Bars /\ bar.bound \in [DOMAIN bar.bound -> Models] /\ DOMAIN bar.bound \subseteq Tops
  BY BoundType DEF MenuInv, Binds
<1>2. model \in Models
  BY PublishedType DEF MenuInv
<1>3. bound \in [DOMAIN bar.bound \cup {s} -> Models]
  BY <1>1, <1>2
<1>4. b \in Bars
  <2>1. bound \in UNION {[W -> Models] : W \in SUBSET Tops}
    BY <1>1, <1>3
  <2> HIDE DEF bound
  <2> QED
    BY <1>1, <2>1 DEF Bars
<1>5. /\ b.bound = bound /\ b.active = s /\ b.visible = bar.visible
      /\ b.open = bar.open /\ b.seen = bar.seen
  BY <1>1 DEF Bars
<1>6. Binds(app, b)
  BY <1>1, <1>3, <1>4, <1>5 DEF MenuInv, Binds, MapWindow
<1>7. b.open => b.seen = ItemsOf(app, b.visible)
  BY <1>5 DEF MenuInv, Shows
<1>8. bar' = SyncMenu(b) /\ app' = app
  BY DEF MapWindow, Published
<1> QED
  BY <1>6, <1>7, <1>8, SyncShows DEF MenuInv

LEMMA UnmapWindowStep ==
    ASSUME MenuInv, NEW s \in Tops, UnmapWindow(s) PROVE MenuInv'
<1>1. Objects(app') /\ Changes(s)
  BY DEF MenuInv, Objects, UnmapWindow, Changes
<1>2. PICK next \in (DOMAIN bar.bound \ {s}) \cup {NoWindow} : bar' = WithoutWindow(bar, s, next)
  BY DEF UnmapWindow
<1> QED
  BY <1>1, <1>2, RemoveKeepsInv

LEMMA DestroyToplevelStep ==
    ASSUME MenuInv, NEW s \in Tops, DestroyToplevel(s) PROVE MenuInv'
<1>1. Objects(app') /\ Changes(s)
  BY NoAppType DEF MenuInv, Objects, DestroyToplevel, Changes, NoApp
<1>2. PICK next \in (DOMAIN bar.bound \ {s}) \cup {NoWindow} : bar' = WithoutWindow(bar, s, next)
  BY DEF DestroyToplevel
<1> QED
  BY <1>1, <1>2, RemoveKeepsInv

-----------------------------------------------------------------------------
(***************************************************************************)
(* The user.                                                               *)
(***************************************************************************)
LEMMA ActivateStep ==
    ASSUME MenuInv, NEW w \in DOMAIN bar.bound \cup {NoWindow}, Activate(w) PROVE MenuInv'
<1> DEFINE b == [bar EXCEPT !.active = w]
<1>1. bar \in Bars /\ DOMAIN bar.bound \subseteq Tops
  BY DEF MenuInv, Binds
<1>2. /\ b \in Bars /\ b.bound = bar.bound /\ b.active = w /\ b.visible = bar.visible
      /\ b.open = bar.open /\ b.seen = bar.seen
  BY <1>1 DEF Bars
<1>3. Binds(app, b)
  BY <1>2 DEF MenuInv, Binds
<1>4. b.open => b.seen = ItemsOf(app, b.visible)
  BY <1>2 DEF MenuInv, Shows
<1> QED
  BY <1>3, <1>4, SyncShows DEF MenuInv, Activate

\* The items the bar shows are items.
LEMMA VisibleItems ==
    ASSUME MenuInv PROVE ItemsOf(app, bar.visible) \subseteq Items
<1>1. bar.visible.source \in Tops => bar.visible.index \in 1..2
  <2>1. CASE bar.active \in DOMAIN bar.bound
    <3>1. bar.active \in Tops /\ bar.visible = Published(app, bar.active)
      BY <2>1 DEF MenuInv, Binds, Shows, WantedModel
    <3>2. app[bar.active].active \in 1..2
      BY <3>1 DEF MenuInv, Objects, Apps
    <3> QED
      BY <3>1, <3>2, MenuAssumption DEF Published, Snapshot, Fallback
  <2>2. CASE bar.active \notin DOMAIN bar.bound
    BY <2>2, MenuAssumption DEF MenuInv, Shows, WantedModel, DesktopMenu
  <2> QED
    BY <2>1, <2>2
<1> QED
  BY <1>1, ItemsType DEF MenuInv, Binds, Bars

LEMMA OpenMenuStep ==
    ASSUME MenuInv, OpenMenu PROVE MenuInv'
<1>1. bar \in Bars /\ ItemsOf(app, bar.visible) \in SUBSET Items
  BY VisibleItems DEF MenuInv, Binds
<1>2. /\ bar' \in Bars /\ bar'.bound = bar.bound /\ bar'.active = bar.active
      /\ bar'.visible = bar.visible /\ bar'.window = bar.window
      /\ bar'.seen = ItemsOf(app, bar.visible)
  BY <1>1 DEF OpenMenu, Bars
<1> QED
  BY <1>2 DEF MenuInv, Binds, Shows, OpenMenu, WantedModel

LEMMA CloseMenuStep ==
    ASSUME MenuInv, bar' = [bar EXCEPT !.open = FALSE, !.seen = {}], app' = app PROVE MenuInv'
<1>1. bar \in Bars
  BY DEF MenuInv, Binds
<1>2. /\ bar' \in Bars /\ bar'.bound = bar.bound /\ bar'.active = bar.active
      /\ bar'.visible = bar.visible /\ bar'.window = bar.window /\ ~bar'.open
  BY <1>1 DEF Bars
<1> QED
  BY <1>2 DEF MenuInv, Binds, Shows, WantedModel

-----------------------------------------------------------------------------
(***************************************************************************)
(* The theorems.                                                           *)
(***************************************************************************)
LEMMA MenuInvInit == MenuInit => MenuInv
<1> SUFFICES ASSUME MenuInit PROVE MenuInv
  OBVIOUS
<1>1. Objects(app)
  BY NoAppType DEF MenuInit, Objects, NoApp
<1>2. [s \in {} |-> Fallback] \in [{} -> Models]
  OBVIOUS
<1>3. bar \in Bars
  BY <1>2, ModelTypes DEF MenuInit, Bars
<1>4. Binds(app, bar)
  BY <1>3 DEF MenuInit, Binds
<1>5. Shows(app, bar)
  BY DEF MenuInit, Shows, WantedModel
<1> QED
  BY <1>1, <1>4, <1>5 DEF MenuInv

LEMMA MenuInvStep == MenuInv /\ [MenuNext]_menuVars => MenuInv'
<1> SUFFICES ASSUME MenuInv, [MenuNext]_menuVars PROVE MenuInv'
  OBVIOUS
<1>1. Objects(app)
  BY DEF MenuInv
<1>2. ASSUME NEW s \in Tops, CreateToplevel(s) \/ GetMenu(s) \/ ResetMenu(s) PROVE MenuInv'
  BY <1>1, <1>2, CreateToplevelIsEdit, GetMenuIsEdit, ResetMenuIsEdit, EditKeepsInv
<1>3. ASSUME NEW s \in Tops, AppendMenu(s) \/ AppendSeparator(s) PROVE MenuInv'
  BY <1>1, <1>3, AppendMenuIsEdit, AppendSeparatorIsEdit, EditKeepsInv
<1>4. ASSUME NEW s \in Tops, NEW item \in Items, AppendItem(s, item.command, item.enabled)
      PROVE  MenuInv'
  BY <1>1, <1>4, AppendItemIsEdit, EditKeepsInv
<1>5. ASSUME NEW s \in Tops, CommitMenu(s) \/ DestroyMenu(s) PROVE MenuInv'
  BY <1>5, CommitMenuStep, DestroyMenuStep
<1>6. ASSUME NEW s \in Tops, MapWindow(s) \/ UnmapWindow(s) \/ DestroyToplevel(s) PROVE MenuInv'
  BY <1>6, MapWindowStep, UnmapWindowStep, DestroyToplevelStep
<1>7. ASSUME NEW w \in DOMAIN bar.bound \cup {NoWindow}, Activate(w) PROVE MenuInv'
  BY <1>7, ActivateStep
<1>8. CASE OpenMenu
  BY <1>8, OpenMenuStep
<1>9. CASE CancelMenu
  BY <1>9, CloseMenuStep DEF CancelMenu
<1>10. ASSUME NEW item \in Items, ChooseItem(item) PROVE MenuInv'
  BY <1>10, CloseMenuStep DEF ChooseItem
<1>11. CASE UNCHANGED menuVars
  BY <1>11 DEF menuVars, MenuInv, Objects, Binds, Shows, Published, WantedModel, ItemsOf
<1> QED
  BY <1>2, <1>3, <1>4, <1>5, <1>6, <1>7, <1>8, <1>9, <1>10, <1>11 DEF MenuNext

\* The invariant is what the clients and the user rely on.
LEMMA MenuInvImplies == MenuInv => MenusAreTheClients
<1> SUFFICES ASSUME MenuInv PROVE MenusAreTheClients
  OBVIOUS
<1>1. \A s \in DOMAIN bar.bound :
        /\ s \in Tops /\ bar.bound[s] = Published(app, s)
        /\ app[s].committed => app[s].object /\ app[s].snapshots[app[s].active].menus > 0
  BY DEF MenuInv, Objects, Binds
<1>2. \A s \in Tops : CanBind(bar, s, Fallback) /\ CanBind(bar, s, Snapshot(s, Candidate(s)))
  <2>1. \A w \in DOMAIN bar.bound : bar.bound[w] = Fallback \/ bar.bound[w].source = w
    <3> TAKE w \in DOMAIN bar.bound
    <3>1. Published(app, w) \in {Fallback, Snapshot(w, app[w].active)}
      BY DEF Published
    <3>2. Snapshot(w, app[w].active).source = w
      BY DEF Snapshot
    <3> QED
      BY <1>1, <3>1, <3>2
  <2>2. Fallback.source \notin Tops /\ \A s \in Tops : Snapshot(s, Candidate(s)).source = s
    BY MenuAssumption DEF Fallback, Snapshot
  <2>3. DOMAIN bar.bound \subseteq Tops
    BY <1>1
  <2> QED
    BY <2>1, <2>2, <2>3 DEF CanBind, IsConsistent
<1>3. ASSUME bar.open, NEW item \in bar.seen, item.enabled
      PROVE  Accepts(bar.window, bar.visible.source, item.command)
  <2>1. item \in ItemsOf(app, bar.visible) /\ bar.visible = WantedModel(bar)
    BY <1>3 DEF MenuInv, Shows
  <2>2. bar.visible.source \in Tops
    BY <2>1 DEF ItemsOf
  <2>3. bar.active \in DOMAIN bar.bound
    BY <2>1, <2>2, MenuAssumption DEF WantedModel, DesktopMenu
  <2>4. bar.visible = Published(app, bar.active) /\ bar.window = bar.active
    BY <1>1, <2>1, <2>3 DEF WantedModel, MenuInv, Shows
  <2>5. app[bar.active].committed /\ bar.visible = Snapshot(bar.active, app[bar.active].active)
    BY <2>2, <2>4, MenuAssumption DEF Published, Fallback
  <2> QED
    BY <1>1, <1>3, <2>1, <2>2, <2>3, <2>4, <2>5 DEF Accepts, Snapshot, ItemsOf, IsActionable
<1> QED
  BY <1>1, <1>2, <1>3 DEF MenusAreTheClients, MenuInv, Shows, Published

\* The clients' objects, the bindings and the bar keep their types.
THEOREM MenuTypeCorrect == MenuSpec => []MenuTypeOK
<1>1. MenuInv => MenuTypeOK
  BY DEF MenuInv, Objects, Binds, MenuTypeOK
<1> QED
  BY <1>1, MenuInvInit, MenuInvStep, PTL DEF MenuSpec

\* Every window has the menu its client committed last, an open menu does not
\* change under the user, and each of its items reaches its client.
THEOREM MenusCorrect == MenuSpec => []MenusAreTheClients
BY MenuInvInit, MenuInvStep, MenuInvImplies, PTL DEF MenuSpec

-----------------------------------------------------------------------------
(***************************************************************************)
(* Selections.  The hard part is X11's: a text from X11 may be on offer    *)
(* although its owner is gone, as long as the news of that loss is still   *)
(* among the events that the manager has to read.  SelectionInv says so of *)
(* the selection on offer (external) and of the one that is being copied   *)
(* (selection), and NewsInOrder that a new owner is announced before its   *)
(* loss is, so that reading the first of them loses nothing.  What a step  *)
(* does to the X server is then one relation, Keeps: the news stay in      *)
(* order and no selection loses both its owner and the news of it.         *)
(***************************************************************************)
Texts == Seq(Sources \cup XWindows)
XEvents ==
    [type : {"owner"}, selection : XSelections, window : XWindows \cup {Nothing}]
      \cup [type : {"answer"}, selection : XSelections, target : {"targets", "text"}, ok : BOOLEAN]
      \cup [type : {"written"}]
      \cup [type : {"request"}, selection : XSelections, window : XWindows \cup {Manager}]
      \cup [type : {"deleted", "destroyed"}, window : XWindows \cup {Manager}]
Values ==
    [type : {"targets"}] \cup [type : {"text"}, data : Texts] \cup [type : {"incr"}, size : Nat]
Owners == XWindows \cup {Manager, Nothing}
Conversions == [to : XWindows, selection : XSelections, target : {"targets", "text"}]
XServers ==
    [owner : [XSelections -> Owners], property : Values \cup {Nothing},
     conversions : SUBSET Conversions, events : Seq(XEvents), gone : SUBSET XWindows]

\* An event that says that selection x has an owner no more.
Loss(e, x) == e.type = "owner" /\ e.selection = x /\ e.window = Nothing

\* Selection x has an owner, or the manager is still to hear that it lost it.
Holds(d, x) == d.owner[x] # Nothing \/ \E i \in 1 .. Len(d.events) : Loss(d.events[i], x)

\* The news of an owner is followed by that of its loss, or it has one.
NewsInOrder(d) ==
    \A i \in 1 .. Len(d.events) :
      d.events[i].type = "owner" /\ d.events[i].window # Nothing =>
        LET x == d.events[i].selection
        IN  d.owner[x] # Nothing \/ \E j \in i + 1 .. Len(d.events) : Loss(d.events[j], x)

XOk(d) == d \in XServers /\ NewsInOrder(d)

Servers ==
    [source : [Sources -> [owner : Programs \cup {Nothing}, text : BOOLEAN, gone : BOOLEAN]],
     kind : {"none", "source", "external"}, current : Sources \cup {Nothing},
     text : Texts \cup {Nothing}, reading : Sources \cup {Nothing}, devices : SUBSET Programs,
     offers : SUBSET [client : Programs, from : Sources \cup {"external"}],
     focus : Programs \cup {Nothing}]

\* What is on offer is the selection as it is.
ServerOk(v) ==
    /\ v \in Servers
    /\ v.current # Nothing <=> v.kind = "source"
    /\ v.current # Nothing => Live(v, v.current)
    /\ v.reading \in {Nothing, v.current}
    /\ v.kind = "external" => v.text # Nothing
    /\ v.kind = "source" /\ v.text # Nothing => v.text = TextOf(v.current)
    /\ \A o \in v.offers : IF o.from = "external" THEN v.kind = "external" ELSE o.from = v.current

Managers ==
    [ready : BOOLEAN, external : XSelections \cup {Nothing},
     stage : {"none", "targets", "text", "incr", "drain"}, selection : XSelections \cup {Nothing},
     target : {"targets", "text", Nothing}, incoming : Texts,
     exports : [XWindows \cup {Manager} -> [text : Texts, sent : Nat] \cup {Nothing}]]

\* What X11 is sent in chunks is a Wayland text.
Exported(m) ==
    \A w \in XWindows \cup {Manager} : m.exports[w] # Nothing =>
      /\ m.exports[w].sent <= Len(m.exports[w].text)
      /\ \E s \in Sources : m.exports[w].text = TextOf(s)

\* A text that is imported, or was, is from a selection with an owner.
ManagerOk(m, v, d) ==
    /\ m \in Managers
    /\ v.kind = "external" => m.external \in XSelections /\ Holds(d, m.external)
    /\ m.stage # "none" => m.selection \in XSelections /\ Holds(d, m.selection)
    /\ Exported(m)

SelectionInv == ServerOk(server) /\ XOk(xserver) /\ ManagerOk(xwm, server, xserver) /\ sending \in [XWindows -> Nat]

Keeps(d, e) == XOk(e) /\ \A x \in XSelections : Holds(d, x) => Holds(e, x)

-----------------------------------------------------------------------------
(***************************************************************************)
(* Texts and the X server.                                                 *)
(***************************************************************************)
LEMMA TextType ==
    ASSUME NEW t \in Sources \cup XWindows
    PROVE  TextOf(t) \in Texts /\ Len(TextOf(t)) = Pieces[t] /\ TextOf(t) # Nothing
<1>1. Pieces[t] \in Nat \ {0}
  BY SelectionsAssumption
<1>2. TextOf(t) \in Texts /\ Len(TextOf(t)) = Pieces[t]
  BY <1>1 DEF TextOf, Texts
<1> QED
  BY <1>2, SelectionsAssumption DEF Texts

LEMMA KeepsAgain ==
    ASSUME NEW c, NEW d, NEW e, Keeps(c, d), Keeps(d, e)
    PROVE  Keeps(c, e)
BY DEF Keeps

LEMMA SameKeeps ==
    ASSUME NEW d, XOk(d), NEW e \in XServers, e.owner = d.owner, e.events = d.events
    PROVE  Keeps(d, e)
BY DEF XOk, Keeps, Holds, NewsInOrder

LEMMA TellKeeps ==
    ASSUME NEW d, XOk(d), NEW e \in XEvents, e.type # "owner"
    PROVE  Keeps(d, Tell(d, e))
<1> DEFINE n == Tell(d, e)
<1>1. d \in XServers /\ d.events \in Seq(XEvents)
  BY DEF XOk, XServers
<1>2. n = [d EXCEPT !.events = Append(d.events, e)]
  BY DEF Tell
<1>0. Append(d.events, e) \in Seq(XEvents)
  BY <1>1
<1>3. n \in XServers /\ n.owner = d.owner /\ n.events = Append(d.events, e)
  BY <1>0, <1>1, <1>2 DEF XServers
<1>4. Len(n.events) = Len(d.events) + 1 /\ n.events[Len(d.events) + 1] = e
      /\ \A i \in 1 .. Len(d.events) : n.events[i] = d.events[i]
  BY <1>1, <1>3
<1>5. \A x \in XSelections : Holds(d, x) => Holds(n, x)
  BY <1>3, <1>4, <1>1 DEF Holds
<1>6. NewsInOrder(n)
  <2> SUFFICES ASSUME NEW i \in 1 .. Len(n.events), n.events[i].type = "owner",
                      n.events[i].window # Nothing
               PROVE  \/ n.owner[n.events[i].selection] # Nothing
                      \/ \E j \in i + 1 .. Len(n.events) : Loss(n.events[j], n.events[i].selection)
    BY DEF NewsInOrder
  <2>1. i \in 1 .. Len(d.events) /\ n.events[i] = d.events[i]
    BY <1>1, <1>4
  <2>2. \/ d.owner[d.events[i].selection] # Nothing
        \/ \E j \in i + 1 .. Len(d.events) : Loss(d.events[j], d.events[i].selection)
    BY <2>1 DEF XOk, NewsInOrder
  <2>3. \A j \in i + 1 .. Len(d.events) : j \in i + 1 .. Len(n.events) /\ n.events[j] = d.events[j]
    BY <1>1, <1>4
  <2> QED
    BY <2>1, <2>2, <2>3, <1>3
<1> QED
  BY <1>3, <1>5, <1>6 DEF XOk, Keeps

LEMMA OwnerChangedKeeps ==
    ASSUME NEW d, XOk(d), NEW x \in XSelections, NEW w \in XWindows \cup {Nothing}
    PROVE  Keeps(d, OwnerChanged(d, x, w))
<1> DEFINE e == [type |-> "owner", selection |-> x, window |-> w]
           n == OwnerChanged(d, x, w)
<1>1. d \in XServers /\ d.events \in Seq(XEvents) /\ d.owner \in [XSelections -> Owners]
  BY DEF XOk, XServers
<1>2. e \in XEvents /\ w \in Owners
  BY DEF XEvents, Owners
<1>3. n = [d EXCEPT !.owner = [d.owner EXCEPT ![x] = w], !.events = Append(d.events, e)]
  BY <1>1 DEF OwnerChanged, Tell, XServers
<1>0. Append(d.events, e) \in Seq(XEvents) /\ [d.owner EXCEPT ![x] = w] \in [XSelections -> Owners]
  BY <1>1, <1>2
<1>4. n \in XServers /\ n.owner = [d.owner EXCEPT ![x] = w] /\ n.events = Append(d.events, e)
  BY <1>0, <1>1, <1>3 DEF XServers
<1>5. Len(n.events) = Len(d.events) + 1 /\ n.events[Len(d.events) + 1] = e
      /\ \A i \in 1 .. Len(d.events) : n.events[i] = d.events[i]
  BY <1>1, <1>2, <1>4
<1>6. w = Nothing => Loss(e, x)
  BY DEF Loss
<1>7. \A y \in XSelections : n.owner[y] = (IF y = x THEN w ELSE d.owner[y])
  BY <1>1, <1>4
<1>8. n.owner[x] # Nothing \/ Loss(n.events[Len(d.events) + 1], x)
  BY <1>5, <1>6, <1>7
<1>9. \A y \in XSelections : Holds(d, y) => Holds(n, y)
  <2> SUFFICES ASSUME NEW y \in XSelections, Holds(d, y) PROVE Holds(n, y)
    OBVIOUS
  <2>1. CASE y = x
    BY <2>1, <1>8, <1>5, <1>1 DEF Holds
  <2>2. CASE y # x
    BY <2>2, <1>7, <1>5, <1>1 DEF Holds
  <2> QED
    BY <2>1, <2>2
<1>10. NewsInOrder(n)
  <2> SUFFICES ASSUME NEW i \in 1 .. Len(n.events), n.events[i].type = "owner",
                      n.events[i].window # Nothing
               PROVE  \/ n.owner[n.events[i].selection] # Nothing
                      \/ \E j \in i + 1 .. Len(n.events) : Loss(n.events[j], n.events[i].selection)
    BY DEF NewsInOrder
  <2>1. CASE i = Len(n.events)
    BY <2>1, <1>5, <1>7, <1>1
  <2>2. CASE i # Len(n.events)
    <3>1. i \in 1 .. Len(d.events) /\ n.events[i] = d.events[i]
      BY <2>2, <1>1, <1>5
    <3>2. \/ d.owner[d.events[i].selection] # Nothing
          \/ \E j \in i + 1 .. Len(d.events) : Loss(d.events[j], d.events[i].selection)
      BY <3>1 DEF XOk, NewsInOrder
    <3>3. \A j \in i + 1 .. Len(d.events) : j \in i + 1 .. Len(n.events) /\ n.events[j] = d.events[j]
      BY <1>1, <1>5
    <3>4. d.events[i] \in XEvents
      BY <3>1, <1>1
    <3>5. d.events[i].selection \in XSelections
      BY <3>4, <3>1 DEF XEvents
    <3>6. Len(d.events) + 1 \in i + 1 .. Len(n.events)
      BY <3>1, <1>1, <1>5
    <3> QED
      BY <3>1, <3>2, <3>3, <3>5, <3>6, <1>7, <1>8
  <2> QED
    BY <2>1, <2>2
<1> QED
  BY <1>4, <1>9, <1>10 DEF XOk, Keeps

LEMMA ClaimedKeeps ==
    ASSUME NEW d, XOk(d)
    PROVE  Keeps(d, Claimed(d))
<1>1. d \in XServers /\ Manager # Nothing
  BY SelectionsAssumption DEF XOk
<1>2. Claimed(d) \in XServers /\ Claimed(d).events = d.events
      /\ \A x \in XSelections : Claimed(d).owner[x] = Manager
  BY <1>1 DEF Claimed, XServers, Owners
<1>3. \A i \in 1 .. Len(d.events) : d.events[i].type = "owner" => d.events[i].selection \in XSelections
  BY <1>1 DEF XServers, XEvents
<1> HIDE DEF Manager
<1> QED
  BY <1>1, <1>2, <1>3 DEF XOk, Keeps, Holds, NewsInOrder

LEMMA ReleasedOneKeeps ==
    ASSUME NEW d, XOk(d), NEW x \in XSelections
    PROVE  Keeps(d, ReleasedOne(d, x))
BY OwnerChangedKeeps DEF ReleasedOne, Keeps

LEMMA ReleasedKeeps ==
    ASSUME NEW d, XOk(d)
    PROVE  Keeps(d, Released(d))
<1>1. Keeps(d, ReleasedOne(d, "clipboard"))
  BY ReleasedOneKeeps DEF XSelections
<1>2. Keeps(ReleasedOne(d, "clipboard"), Released(d))
  BY <1>1, ReleasedOneKeeps DEF XSelections, Released, Keeps
<1> QED
  BY <1>1, <1>2, KeepsAgain

LEMMA NotifiedKeeps ==
    ASSUME NEW d, XOk(d), NEW available \in BOOLEAN
    PROVE  Keeps(d, Notified(d, available))
BY ReleasedKeeps, ClaimedKeeps DEF Notified, Keeps

LEMMA ReleasedByKeeps ==
    ASSUME NEW d, XOk(d), NEW v
    PROVE  Keeps(d, ReleasedBy(v, d))
BY NotifiedKeeps DEF ReleasedBy, Keeps

LEMMA AnsweredKeeps ==
    ASSUME NEW d, XOk(d), NEW x \in XSelections, NEW target \in {"targets", "text"}, NEW ok \in BOOLEAN
    PROVE  Keeps(d, Answered(d, x, target, ok))
<1>1. [type |-> "answer", selection |-> x, target |-> target, ok |-> ok] \in XEvents
  BY DEF XEvents
<1> QED
  BY <1>1, TellKeeps DEF Answered

LEMMA WrittenKeeps ==
    ASSUME NEW d, XOk(d), NEW value \in Values
    PROVE  Keeps(d, Written(d, value))
<1> DEFINE e == [d EXCEPT !.property = value]
<1>1. e \in XServers /\ e.owner = d.owner /\ e.events = d.events
  BY DEF XOk, XServers
<1>2. Keeps(d, e)
  BY <1>1, SameKeeps
<1>3. [type |-> "written"] \in XEvents
  BY DEF XEvents
<1>4. XOk(e)
  BY <1>2 DEF Keeps
<1> HIDE DEF e
<1>5. Keeps(e, Tell(e, [type |-> "written"]))
  BY <1>3, <1>4, TellKeeps
<1> QED
  BY <1>2, <1>5, KeepsAgain DEF Written, e

LEMMA ConvertKeeps ==
    ASSUME NEW d, XOk(d), NEW x \in XSelections, NEW target \in {"targets", "text"}
    PROVE  Keeps(d, Convert(d, x, target))
<1>0. Manager # Nothing
  BY SelectionsAssumption
<1>1. CASE d.owner[x] = Nothing
  BY <1>0, <1>1, AnsweredKeeps DEF Convert
<1>2. CASE d.owner[x] = Manager /\ d.owner[x] # Nothing
  <2>1. [type |-> "request", selection |-> x, window |-> Manager] \in XEvents
    BY DEF XEvents
  <2> QED
    BY <1>2, <2>1, TellKeeps DEF Convert
<1>3. CASE d.owner[x] \notin {Nothing, Manager}
  <2>1. d \in XServers /\ d.owner[x] \in XWindows
    BY <1>3 DEF XOk, XServers, Owners
  <2> DEFINE q == [to |-> d.owner[x], selection |-> x, target |-> target]
  <2>2. q \in Conversions
    BY <2>1 DEF Conversions
  <2>3. Convert(d, x, target) = [d EXCEPT !.conversions = @ \cup {q}]
    BY <1>3 DEF Convert
  <2>4. Convert(d, x, target) \in XServers /\ Convert(d, x, target).owner = d.owner
        /\ Convert(d, x, target).events = d.events
    BY <2>1, <2>2, <2>3 DEF XServers
  <2> HIDE DEF Convert
  <2> QED
    BY <2>4, SameKeeps
<1> QED
  BY <1>1, <1>2, <1>3 DEF Manager

LEMMA PropertyReadKeeps ==
    ASSUME NEW d, XOk(d), NEW m
    PROVE  Keeps(d, PropertyRead(d, m))
<1> DEFINE e == [d EXCEPT !.property = Nothing]
<1>1. e \in XServers /\ e.owner = d.owner /\ e.events = d.events
  BY DEF XOk, XServers
<1>2. Keeps(d, e)
  BY <1>1, SameKeeps
<1>3. [type |-> "deleted", window |-> Manager] \in XEvents
  BY DEF XEvents
<1>4. XOk(e)
  BY <1>2 DEF Keeps
<1> HIDE DEF e
<1>5. Keeps(e, Tell(e, [type |-> "deleted", window |-> Manager]))
  BY <1>3, <1>4, TellKeeps
<1> QED
  BY <1>2, <1>5, KeepsAgain DEF PropertyRead, e

\* The manager takes the first event.
LEMMA RestKeeps ==
    ASSUME XOk(xserver), xserver.events # <<>>
    PROVE  /\ Head1 \in XEvents
           /\ XOk(Rest)
           /\ \A x \in XSelections : Holds(xserver, x) /\ ~Loss(Head1, x) => Holds(Rest, x)
           /\ Head1.type = "owner" /\ Head1.window # Nothing => Holds(Rest, Head1.selection)
<1> DEFINE d == xserver
           n == Len(d.events)
<1>1. d \in XServers /\ d.events \in Seq(XEvents) /\ n \in Nat \ {0}
  BY DEF XOk, XServers
<1>2. Head1 \in XEvents /\ Head1 = d.events[1]
  BY <1>1 DEF Head1
<1>0. Tail(d.events) \in Seq(XEvents)
  BY <1>1
<1>3. Rest \in XServers /\ Rest.owner = d.owner /\ Rest.events = Tail(d.events)
  BY <1>0, <1>1 DEF Rest, XServers
<1>4. Len(Rest.events) = n - 1 /\ \A i \in 1 .. n - 1 : Rest.events[i] = d.events[i + 1]
  BY <1>1, <1>3
<1>5. NewsInOrder(Rest)
  <2> SUFFICES ASSUME NEW i \in 1 .. n - 1, d.events[i + 1].type = "owner",
                      d.events[i + 1].window # Nothing
               PROVE  \/ d.owner[d.events[i + 1].selection] # Nothing
                      \/ \E j \in i + 1 .. n - 1 : Loss(Rest.events[j], d.events[i + 1].selection)
    BY <1>3, <1>4 DEF NewsInOrder
  <2>1. \/ d.owner[d.events[i + 1].selection] # Nothing
        \/ \E j \in i + 2 .. n : Loss(d.events[j], d.events[i + 1].selection)
    BY <1>1 DEF XOk, NewsInOrder
  <2>2. \A j \in i + 2 .. n : j - 1 \in i + 1 .. n - 1 /\ Rest.events[j - 1] = d.events[j]
    BY <1>1, <1>4
  <2> QED
    BY <2>1, <2>2
<1>6. \A j \in 2 .. n : j - 1 \in 1 .. n - 1 /\ Rest.events[j - 1] = d.events[j]
  BY <1>1, <1>4
<1>7. \A x \in XSelections : Holds(d, x) /\ ~Loss(Head1, x) => Holds(Rest, x)
  BY <1>1, <1>2, <1>3, <1>4, <1>6 DEF Holds
<1>8. Head1.type = "owner" /\ Head1.window # Nothing => Holds(Rest, Head1.selection)
  <2> SUFFICES ASSUME d.events[1].type = "owner", d.events[1].window # Nothing
               PROVE  Holds(Rest, d.events[1].selection)
    BY <1>2
  <2>1. \/ d.owner[d.events[1].selection] # Nothing
        \/ \E j \in 2 .. n : Loss(d.events[j], d.events[1].selection)
    BY <1>1 DEF XOk, NewsInOrder
  <2> QED
    BY <2>1, <1>3, <1>4, <1>6 DEF Holds
<1> QED
  BY <1>2, <1>3, <1>5, <1>7, <1>8 DEF XOk

-----------------------------------------------------------------------------
(***************************************************************************)
(* The Wayland server.                                                     *)
(***************************************************************************)
LEMMA NamesDiffer == "external" \notin Sources /\ Nothing \notin Sources /\ Nothing \notin Programs
BY SelectionsAssumption

\* A source that is just gone may still be the current one.
LEMMA ClearEffect ==
    ASSUME NEW v \in Servers, \A o \in v.offers : o.from \in {v.current, "external"}
    PROVE  /\ ServerOk(SelectionClear(v))
           /\ SelectionClear(v).kind = "none" /\ SelectionClear(v).offers = {}
           /\ SelectionClear(v).current = Nothing /\ SelectionClear(v).text = Nothing
           /\ SelectionClear(v).source = v.source /\ SelectionClear(v).focus = v.focus
           /\ SelectionClear(v).reading = Nothing
<1> DEFINE u == SelectionClear(v)
<1>1. u = [v EXCEPT !.reading = Nothing, !.kind = "none", !.current = Nothing, !.text = Nothing,
                    !.offers = {}]
  BY DEF SelectionClear
<1>2. /\ u \in Servers /\ u.kind = "none" /\ u.offers = {} /\ u.current = Nothing /\ u.text = Nothing
      /\ u.source = v.source /\ u.focus = v.focus /\ u.reading = Nothing
  BY <1>1 DEF Servers
<1> HIDE DEF u
<1>3. ServerOk(u)
  BY <1>2 DEF ServerOk
<1> QED
  BY <1>2, <1>3 DEF u

LEMMA OffersAreKnown ==
    ASSUME NEW v, ServerOk(v)
    PROVE  \A o \in v.offers : o.from \in {v.current, "external"}
BY DEF ServerOk

LEMMA SendKeeps ==
    ASSUME NEW v, ServerOk(v), NEW c
    PROVE  ServerOk(SendSelection(v, c)) /\ SendSelection(v, c).kind = v.kind
<1> DEFINE from == IF v.kind = "source" THEN v.current ELSE "external"
           u == [v EXCEPT !.offers = @ \cup {[client |-> c, from |-> from]}]
<1>1. CASE c \in v.devices /\ CanBeOffered(v)
  <2>1. SendSelection(v, c) = u
    BY <1>1 DEF SendSelection
  <2>2. v \in Servers /\ c \in Programs
    BY <1>1 DEF ServerOk, Servers
  <2>3. from \in Sources \cup {"external"}
        /\ (IF from = "external" THEN v.kind = "external" ELSE from = v.current)
    BY <1>1, NamesDiffer DEF ServerOk, Servers, CanBeOffered
  <2>4. /\ u \in Servers /\ u.offers = v.offers \cup {[client |-> c, from |-> from]}
        /\ u.source = v.source /\ u.kind = v.kind /\ u.current = v.current /\ u.text = v.text
        /\ u.reading = v.reading
    BY <2>2, <2>3 DEF Servers
  <2> HIDE DEF from, u
  <2>5. ServerOk(u)
    BY <2>3, <2>4 DEF ServerOk, Live
  <2> QED
    BY <2>1, <2>4, <2>5
<1>2. CASE ~(c \in v.devices /\ CanBeOffered(v))
  BY <1>2 DEF SendSelection
<1> QED
  BY <1>1, <1>2

LEMMA SetExternalKeeps ==
    ASSUME NEW v, ServerOk(v), NEW text \in Texts
    PROVE  ServerOk(SetExternal(v, text))
<1> DEFINE u == SelectionClear(v)
           w == [u EXCEPT !.kind = "external", !.text = text]
<1>1. v \in Servers
  BY DEF ServerOk
<1>2. /\ ServerOk(u) /\ u.kind = "none" /\ u.offers = {} /\ u.current = Nothing
      /\ u.reading = Nothing
  BY <1>1, OffersAreKnown, ClearEffect
<1> HIDE DEF u
<1>3. text # Nothing
  BY SelectionsAssumption DEF Texts
<1>4. /\ w \in Servers /\ w.kind = "external" /\ w.text = text /\ w.offers = {}
      /\ w.current = Nothing /\ w.reading = Nothing
  BY <1>2 DEF ServerOk, Servers
<1> HIDE DEF w
<1>5. ServerOk(w)
  BY <1>3, <1>4 DEF ServerOk
<1>6. ServerOk(SendToFocused(w))
  BY <1>5, SendKeeps DEF SendToFocused
<1> QED
  BY <1>6 DEF SetExternal, u, w

LEMMA ClearExternalKeeps ==
    ASSUME NEW v, ServerOk(v)
    PROVE  ServerOk(ClearExternal(v)) /\ ClearExternal(v).kind # "external"
<1> DEFINE u == SelectionClear(v)
<1>1. v \in Servers
  BY DEF ServerOk
<1>2. ServerOk(u) /\ u.kind = "none"
  BY <1>1, OffersAreKnown, ClearEffect
<1> HIDE DEF u
<1>3. ServerOk(SendToFocused(u)) /\ SendToFocused(u).kind = "none"
  BY <1>2, SendKeeps DEF SendToFocused
<1> QED
  BY <1>3 DEF ClearExternal, u

LEMMA ManagerKeeps ==
    ASSUME NEW m, NEW v, NEW d, ManagerOk(m, v, d), NEW u, u.kind = "external" => v.kind = "external",
           NEW e, Keeps(d, e)
    PROVE  ManagerOk(m, u, e)
BY DEF ManagerOk, Keeps

-----------------------------------------------------------------------------
(***************************************************************************)
(* Wayland clients.                                                        *)
(***************************************************************************)
LEMMA WaylandStep ==
    ASSUME SelectionInv, ServerOk(server'), server'.kind = "external" => server.kind = "external",
           Keeps(xserver, xserver'), WaylandOnly
    PROVE  SelectionInv'
<1>1. ManagerOk(xwm, server', xserver')
  BY ManagerKeeps DEF SelectionInv
<1>2. UNCHANGED <<xwm, sending>> /\ XOk(xserver')
  BY DEF WaylandOnly, Keeps
<1> QED
  BY <1>1, <1>2 DEF SelectionInv

LEMMA XServerSame == ASSUME SelectionInv PROVE Keeps(xserver, xserver)
BY DEF SelectionInv, Keeps

LEMMA CreateSourceStep ==
    ASSUME SelectionInv, NEW c \in Programs, NEW s \in Sources, CreateSource(c, s)
    PROVE  SelectionInv'
<1>1. ServerOk(server) /\ server.source[s].owner = Nothing
      /\ server' = [server EXCEPT !.source[s].owner = c] /\ xserver' = xserver /\ WaylandOnly
  BY DEF SelectionInv, CreateSource
<1>2. /\ server' \in Servers
      /\ server'.kind = server.kind /\ server'.current = server.current /\ server'.text = server.text
      /\ server'.reading = server.reading /\ server'.offers = server.offers
      /\ \A t \in Sources \ {s} : server'.source[t] = server.source[t]
  <2> DEFINE f == [server.source EXCEPT ![s] = [server.source[s] EXCEPT !.owner = c]]
  <2>1. server \in Servers
    BY <1>1 DEF ServerOk
  <2>2. /\ f \in [Sources -> [owner : Programs \cup {Nothing}, text : BOOLEAN, gone : BOOLEAN]]
        /\ \A t \in Sources \ {s} : f[t] = server.source[t]
    BY <2>1 DEF Servers
  <2>3. server' = [server EXCEPT !.source = f]
    BY <1>1, <2>1 DEF Servers
  <2> HIDE DEF f
  <2> QED
    BY <2>1, <2>2, <2>3 DEF Servers
<1>3. server.current # s
  BY <1>1, NamesDiffer DEF ServerOk, Live
<1>4. ServerOk(server')
  BY <1>1, <1>2, <1>3 DEF ServerOk, Live, Servers
<1> QED
  BY <1>1, <1>2, <1>4, XServerSame, WaylandStep

LEMMA OfferTextStep ==
    ASSUME SelectionInv, NEW s \in Sources, OfferText(s)
    PROVE  SelectionInv'
<1>1. ServerOk(server) /\ server' = [server EXCEPT !.source[s].text = TRUE] /\ xserver' = xserver
      /\ WaylandOnly
  BY DEF SelectionInv, OfferText
<1>2. /\ server' \in Servers
      /\ server'.kind = server.kind /\ server'.current = server.current /\ server'.text = server.text
      /\ server'.reading = server.reading /\ server'.offers = server.offers
      /\ \A t \in Sources : server'.source[t].owner = server.source[t].owner
                             /\ server'.source[t].gone = server.source[t].gone
  BY <1>1 DEF ServerOk, Servers
<1>3. ServerOk(server')
  BY <1>1, <1>2 DEF ServerOk, Live, Servers
<1> QED
  BY <1>1, <1>2, <1>3, XServerSame, WaylandStep

LEMMA DestroySourceStep ==
    ASSUME SelectionInv, NEW s \in Sources, DestroySource(s)
    PROVE  SelectionInv'
<1> DEFINE v == [server EXCEPT !.source[s].gone = TRUE]
<1>1. ServerOk(server) /\ WaylandOnly /\ XOk(xserver)
  BY DEF SelectionInv, DestroySource
<1>2. /\ v \in Servers
      /\ v.kind = server.kind /\ v.current = server.current /\ v.text = server.text
      /\ v.reading = server.reading /\ v.offers = server.offers
      /\ \A t \in Sources \ {s} : v.source[t] = server.source[t]
  <2> DEFINE f == [server.source EXCEPT ![s] = [server.source[s] EXCEPT !.gone = TRUE]]
  <2>1. server \in Servers
    BY <1>1 DEF ServerOk
  <2>2. /\ f \in [Sources -> [owner : Programs \cup {Nothing}, text : BOOLEAN, gone : BOOLEAN]]
        /\ \A t \in Sources \ {s} : f[t] = server.source[t]
    BY <2>1 DEF Servers
  <2>3. v = [server EXCEPT !.source = f]
    BY <2>1 DEF Servers
  <2> HIDE DEF f, v
  <2> QED
    BY <2>1, <2>2, <2>3 DEF Servers
<1>3. server.current = s =>
        server' = SendToFocused(SelectionClear(v)) /\ xserver' = ReleasedBy(server, xserver)
  BY DEF DestroySource
<1>4. server.current # s => server' = v /\ xserver' = xserver
  BY DEF DestroySource
<1> HIDE DEF v
<1>5. CASE server.current = s
  <2>1. ServerOk(SelectionClear(v)) /\ SelectionClear(v).kind = "none"
    BY <1>1, <1>2, OffersAreKnown, ClearEffect
  <2>2. ServerOk(server') /\ server'.kind = "none"
    BY <1>3, <1>5, <2>1, SendKeeps DEF SendToFocused
  <2>3. Keeps(xserver, xserver')
    BY <1>1, <1>3, <1>5, ReleasedByKeeps
  <2> QED
    BY <1>1, <2>2, <2>3, WaylandStep
<1>6. CASE server.current # s
  <2>1. ServerOk(v)
    BY <1>1, <1>2, <1>6 DEF ServerOk, Live, Servers
  <2> QED
    BY <1>1, <1>2, <1>4, <1>6, <2>1, XServerSame, WaylandStep
<1> QED
  BY <1>5, <1>6

LEMMA DeviceStep ==
    ASSUME SelectionInv, NEW c \in Programs, GetDevice(c) \/ ReleaseDevice(c)
    PROVE  SelectionInv'
<1>1. ServerOk(server) /\ WaylandOnly /\ xserver' = xserver
  BY DEF SelectionInv, GetDevice, ReleaseDevice
<1>2. \A D \in SUBSET Programs : ServerOk([server EXCEPT !.devices = D])
                                 /\ [server EXCEPT !.devices = D].kind = server.kind
  BY <1>1 DEF ServerOk, Servers, Live
<1>3. server.devices \cup {c} \in SUBSET Programs /\ server.devices \ {c} \in SUBSET Programs
  BY <1>1 DEF ServerOk, Servers
<1>4. ServerOk(server') /\ server'.kind = server.kind
  <2> DEFINE v == [server EXCEPT !.devices = server.devices \cup {c}]
             u == [server EXCEPT !.devices = server.devices \ {c}]
  <2>1. ServerOk(v) /\ ServerOk(u) /\ v.kind = server.kind /\ u.kind = server.kind
    BY <1>2, <1>3
  <2>2. server' \in {u, v, SendSelection(v, c)}
    BY DEF GetDevice, ReleaseDevice
  <2> HIDE DEF u, v
  <2> QED
    BY <2>1, <2>2, SendKeeps
<1> QED
  BY <1>1, <1>4, XServerSame, WaylandStep

LEMMA DestroyOfferStep ==
    ASSUME SelectionInv, NEW o \in server.offers, DestroyOffer(o)
    PROVE  SelectionInv'
<1>1. ServerOk(server) /\ WaylandOnly /\ xserver' = xserver
      /\ server' = [server EXCEPT !.offers = server.offers \ {o}]
  BY DEF SelectionInv, DestroyOffer
<1>2. ServerOk(server') /\ server'.kind = server.kind
  BY <1>1 DEF ServerOk, Servers, Live
<1> QED
  BY <1>1, <1>2, XServerSame, WaylandStep

LEMMA FocusClientStep ==
    ASSUME SelectionInv, NEW c \in Programs \cup {Nothing}, FocusClient(c)
    PROVE  SelectionInv'
<1> DEFINE v == [server EXCEPT !.focus = c]
<1>1. ServerOk(server) /\ WaylandOnly /\ xserver' = xserver /\ server' = SendSelection(v, c)
  BY DEF SelectionInv, FocusClient
<1>2. ServerOk(v) /\ v.kind = server.kind
  BY <1>1 DEF ServerOk, Servers, Live
<1> HIDE DEF v
<1>3. ServerOk(server') /\ server'.kind = server.kind
  BY <1>1, <1>2, SendKeeps
<1> QED
  BY <1>1, <1>3, XServerSame, WaylandStep

LEMMA SetSelectionStep ==
    ASSUME SelectionInv, NEW c \in Programs, NEW s \in Sources \cup {Nothing}, SetSelection(c, s)
    PROVE  SelectionInv'
<1> DEFINE v == SelectionClear(server)
           u == [v EXCEPT !.kind = "source", !.current = s]
           reading == IF server.source[s].text THEN s ELSE Nothing
<1>1. ServerOk(server) /\ WaylandOnly /\ XOk(xserver) /\ xserver' = ReleasedBy(server, xserver)
  BY DEF SelectionInv, SetSelection
<1>2. s = Nothing => server' = v
  BY DEF SetSelection
<1>3. s # Nothing => Live(server, s) /\ server' = [SendToFocused(u) EXCEPT !.reading = reading]
  BY DEF SetSelection
<1>4. /\ ServerOk(v) /\ v.kind = "none" /\ v.offers = {} /\ v.text = Nothing
      /\ v.source = server.source /\ v.reading = Nothing
  BY <1>1, OffersAreKnown, ClearEffect DEF ServerOk
<1> HIDE DEF v
<1>5. ServerOk(server') /\ server'.kind # "external"
  <2>1. CASE s = Nothing
    BY <1>2, <1>4, <2>1
  <2>2. CASE s # Nothing
    <3>1. s \in Sources /\ v \in Servers
      BY <2>2, <1>4 DEF ServerOk
    <3>2. /\ u \in Servers /\ u.kind = "source" /\ u.current = s /\ u.offers = {} /\ u.text = Nothing
          /\ u.source = server.source /\ u.reading = Nothing
      BY <3>1, <1>4 DEF Servers
    <3> HIDE DEF u
    <3>3. ServerOk(u)
      BY <3>1, <3>2, <2>2, <1>3 DEF ServerOk, Live
    <3> DEFINE f == SendToFocused(u)
    <3>4. ServerOk(f) /\ f.kind = "source"
      BY <3>2, <3>3, SendKeeps DEF SendToFocused
    <3>5. f.current = s
      BY <3>2 DEF SendToFocused, SendSelection, Servers
    <3>6. reading \in {Nothing, s}
      OBVIOUS
    <3> HIDE DEF f, reading
    <3>7. server' = [f EXCEPT !.reading = reading] /\ f \in Servers
      BY <1>3, <2>2, <3>4 DEF f, ServerOk
    <3>8. /\ server' \in Servers /\ server'.kind = f.kind /\ server'.current = f.current
          /\ server'.offers = f.offers /\ server'.text = f.text /\ server'.source = f.source
          /\ server'.reading = reading
      BY <3>1, <3>6, <3>7 DEF Servers
    <3> QED
      BY <3>4, <3>5, <3>6, <3>8 DEF ServerOk, Live
  <2> QED
    BY <2>1, <2>2
<1>6. Keeps(xserver, xserver')
  BY <1>1, ReleasedByKeeps
<1> QED
  BY <1>1, <1>5, <1>6, WaylandStep

LEMMA ReadFinishStep ==
    ASSUME SelectionInv, NEW success \in BOOLEAN, ReadFinish(success)
    PROVE  SelectionInv'
<1> DEFINE published == success /\ server.kind = "source" /\ server.current = server.reading
           text == IF published THEN TextOf(server.reading) ELSE server.text
<1>1. ServerOk(server) /\ WaylandOnly /\ XOk(xserver) /\ server.reading # Nothing
      /\ server' = [server EXCEPT !.reading = Nothing, !.text = text]
      /\ xserver' = IF published THEN Notified(xserver, TRUE) ELSE xserver
  BY DEF SelectionInv, ReadFinish
<1>2. server \in Servers /\ server.reading \in Sources
  BY <1>1 DEF ServerOk, Servers
<1>3. text \in Texts \cup {Nothing}
  BY <1>2, TextType DEF Servers
<1>4. /\ server' \in Servers /\ server'.reading = Nothing /\ server'.text = text
      /\ server'.kind = server.kind /\ server'.current = server.current
      /\ server'.offers = server.offers /\ server'.source = server.source
  BY <1>1, <1>2, <1>3 DEF Servers
<1>5. server.kind = "external" => text = server.text
  OBVIOUS
<1>6. server.kind = "source" /\ text # Nothing => text = TextOf(server.current)
  BY <1>1 DEF ServerOk
<1>7. Keeps(xserver, xserver')
  BY <1>1, NotifiedKeeps, XServerSame
<1> HIDE DEF text, published
<1>8. ServerOk(server')
  BY <1>1, <1>4, <1>5, <1>6 DEF ServerOk, Live
<1> QED
  BY <1>1, <1>4, <1>7, <1>8, WaylandStep

-----------------------------------------------------------------------------
(***************************************************************************)
(* X clients.                                                              *)
(***************************************************************************)
LEMMA XClientStep ==
    ASSUME SelectionInv, Keeps(xserver, xserver'), UNCHANGED <<server, xwm>>,
           sending' \in [XWindows -> Nat]
    PROVE  SelectionInv'
<1>1. ManagerOk(xwm, server, xserver')
  BY ManagerKeeps DEF SelectionInv
<1> QED
  BY <1>1 DEF SelectionInv, Keeps

LEMMA CopyStep ==
    ASSUME SelectionInv, NEW w \in XWindows, NEW x \in XSelections, Copy(w, x)
    PROVE  SelectionInv'
<1>1. XOk(xserver) /\ xserver' = OwnerChanged(xserver, x, w) /\ UNCHANGED <<server, xwm, sending>>
      /\ sending \in [XWindows -> Nat]
  BY DEF SelectionInv, Copy
<1>2. Keeps(xserver, xserver')
  BY <1>1, OwnerChangedKeeps
<1> QED
  BY <1>1, <1>2, XClientStep

LEMMA ExitStep ==
    ASSUME SelectionInv, NEW w \in XWindows, Exit(w)
    PROVE  SelectionInv'
<1> DEFINE d == [xserver EXCEPT !.gone = @ \cup {w}, !.conversions = {q \in @ : q.to # w}]
           without(e, x) == IF e.owner[x] = w THEN OwnerChanged(e, x, Nothing) ELSE e
           gone == [type |-> "destroyed", window |-> w]
<1>1. XOk(xserver) /\ UNCHANGED <<server, xwm>> /\ sending' = [sending EXCEPT ![w] = 0]
      /\ xserver' = Tell(without(without(d, "clipboard"), "primary"), gone)
      /\ sending \in [XWindows -> Nat]
  BY DEF SelectionInv, Exit
<1>2. d \in XServers /\ d.owner = xserver.owner /\ d.events = xserver.events
  BY <1>1 DEF XOk, XServers
<1> HIDE DEF d
<1>3. Keeps(xserver, d)
  BY <1>1, <1>2, SameKeeps
<1>4. ASSUME NEW e, XOk(e), NEW x \in XSelections PROVE Keeps(e, without(e, x))
  BY <1>4, OwnerChangedKeeps DEF Keeps
<1> DEFINE e1 == without(d, "clipboard")
           e2 == without(e1, "primary")
<1>5. Keeps(d, e1)
  BY <1>3, <1>4 DEF Keeps, XSelections
<1>6. Keeps(e1, e2)
  <2>1. XOk(e1) /\ "primary" \in XSelections
    BY <1>5 DEF Keeps, XSelections
  <2> HIDE DEF e1
  <2> QED
    BY <2>1, <1>4
<1>7. gone \in XEvents /\ gone.type # "owner"
  BY DEF XEvents
<1> HIDE DEF e1, e2, gone, without
<1>8. Keeps(e2, Tell(e2, gone))
  BY <1>6, <1>7, TellKeeps DEF Keeps
<1>9. Keeps(xserver, xserver')
  BY <1>1, <1>3, <1>5, <1>6, <1>8, KeepsAgain DEF e1, e2
<1> QED
  BY <1>1, <1>9, XClientStep

LEMMA AnswerStep ==
    ASSUME SelectionInv, NEW q \in xserver.conversions, Answer(q)
    PROVE  SelectionInv'
<1> DEFINE d == [xserver EXCEPT !.conversions = @ \ {q}]
           values == IF q.target = "targets" THEN {[type |-> "targets"]}
                     ELSE {v \in {[type |-> "text", data |-> TextOf(q.to)]} : Pieces[q.to] = 1}
                          \cup [type : {"incr"}, size : 1 .. Pieces[q.to]]
<1>1. XOk(xserver) /\ UNCHANGED <<server, xwm>> /\ sending \in [XWindows -> Nat]
  BY DEF SelectionInv, Answer
<1>2. \/ \E value \in values :
           /\ xserver' = Answered(Written(d, value), q.selection, q.target, TRUE)
           /\ sending' = IF value.type = "incr"
                         THEN [sending EXCEPT ![q.to] = Pieces[q.to] + 1] ELSE sending
      \/ xserver' = Answered(d, q.selection, q.target, FALSE) /\ sending' = sending
  BY DEF Answer
<1>3. q.to \in XWindows /\ q.selection \in XSelections /\ q.target \in {"targets", "text"}
  BY <1>1 DEF XOk, XServers, Conversions
<1>4. Pieces[q.to] \in Nat /\ TextOf(q.to) \in Texts
  BY <1>3, TextType, SelectionsAssumption
<1>5. d \in XServers /\ d.owner = xserver.owner /\ d.events = xserver.events
  BY <1>1 DEF XOk, XServers
<1>6. values \subseteq Values
  BY <1>4 DEF Values
<1> HIDE DEF d, values
<1>7. Keeps(xserver, d)
  BY <1>1, <1>5, SameKeeps
<1>8. Keeps(xserver, xserver')
  <2>1. CASE xserver' = Answered(d, q.selection, q.target, FALSE)
    BY <2>1, <1>3, <1>7, AnsweredKeeps, KeepsAgain DEF Keeps
  <2>2. CASE \E value \in values :
               xserver' = Answered(Written(d, value), q.selection, q.target, TRUE)
    <3>1. PICK value \in Values : xserver' = Answered(Written(d, value), q.selection, q.target, TRUE)
      BY <2>2, <1>6
    <3>2. Keeps(d, Written(d, value))
      BY <1>7, WrittenKeeps DEF Keeps
    <3>3. Keeps(Written(d, value), xserver')
      BY <3>1, <3>2, <1>3, AnsweredKeeps DEF Keeps
    <3> QED
      BY <1>7, <3>2, <3>3, KeepsAgain
  <2> QED
    BY <1>2, <2>1, <2>2
<1>9. sending' \in [XWindows -> Nat]
  <2>1. sending' \in {sending, [sending EXCEPT ![q.to] = Pieces[q.to] + 1]}
    BY <1>2
  <2>2. Pieces[q.to] + 1 \in Nat
    BY <1>4
  <2> QED
    BY <1>1, <1>3, <2>1, <2>2
<1> QED
  BY <1>1, <1>8, <1>9, XClientStep

LEMMA WriteChunkStep ==
    ASSUME SelectionInv, NEW w \in XWindows, WriteChunk(w)
    PROVE  SelectionInv'
<1> DEFINE data == IF sending[w] > 1 THEN <<w>> ELSE <<>>
           value == [type |-> "text", data |-> data]
<1>1. XOk(xserver) /\ UNCHANGED <<server, xwm>> /\ sending \in [XWindows -> Nat] /\ sending[w] > 0
      /\ xserver' = Written(xserver, value) /\ sending' = [sending EXCEPT ![w] = @ - 1]
  BY DEF SelectionInv, WriteChunk
<1>2. data \in Texts
  <2>1. w \in Sources \cup XWindows
    OBVIOUS
  <2>2. <<w>> \in Seq(Sources \cup XWindows) /\ <<>> \in Seq(Sources \cup XWindows)
    BY <2>1
  <2> QED
    BY <2>2 DEF Texts
<1> HIDE DEF data
<1>3. value \in Values
  BY <1>2 DEF Values
<1> HIDE DEF value
<1>4. Keeps(xserver, xserver')
  BY <1>1, <1>3, WrittenKeeps
<1>5. sending[w] - 1 \in Nat
  BY <1>1
<1>6. sending' \in [XWindows -> Nat]
  BY <1>1, <1>5
<1> QED
  BY <1>1, <1>4, <1>6, XClientStep

LEMMA PasteStep ==
    ASSUME SelectionInv, NEW w \in XWindows, NEW x \in XSelections, Paste(w, x)
    PROVE  SelectionInv'
<1>1. XOk(xserver) /\ UNCHANGED <<server, xwm, sending>> /\ sending \in [XWindows -> Nat]
  BY DEF SelectionInv, Paste
<1>2. PICK e \in {[type |-> "request", selection |-> x, window |-> w],
                  [type |-> "deleted", window |-> w]} : xserver' = Tell(xserver, e)
  BY DEF Paste
<1>3. e \in XEvents /\ e.type # "owner"
  BY DEF XEvents
<1>4. Keeps(xserver, xserver')
  BY <1>1, <1>2, <1>3, TellKeeps
<1> QED
  BY <1>1, <1>4, XClientStep

-----------------------------------------------------------------------------
(***************************************************************************)
(* The rootless window manager.                                            *)
(***************************************************************************)
LEMMA ExportedSame ==
    ASSUME NEW m, Exported(m), NEW n, n.exports = m.exports
    PROVE  Exported(n)
BY DEF Exported

LEMMA BecomeReadyStep ==
    ASSUME SelectionInv, BecomeReady
    PROVE  SelectionInv'
<1>1. XOk(xserver) /\ UNCHANGED <<server, sending>> /\ xwm' = [xwm EXCEPT !.ready = TRUE]
      /\ xserver' \in {xserver, Claimed(xserver)} /\ ManagerOk(xwm, server, xserver)
  BY DEF SelectionInv, BecomeReady
<1>2. Keeps(xserver, xserver')
  BY <1>1, ClaimedKeeps, XServerSame
<1>3. ManagerOk(xwm', server, xserver)
  <2>1. /\ xwm' \in Managers /\ xwm'.external = xwm.external /\ xwm'.stage = xwm.stage
        /\ xwm'.selection = xwm.selection /\ xwm'.exports = xwm.exports
    BY <1>1 DEF ManagerOk, Managers
  <2> QED
    BY <1>1, <2>1, ExportedSame DEF ManagerOk
<1>4. ManagerOk(xwm', server', xserver')
  BY <1>1, <1>2, <1>3, ManagerKeeps
<1> QED
  BY <1>1, <1>2, <1>4 DEF SelectionInv, Keeps

\* An event other than the loss of an owner is read.
LEMMA EventRead ==
    ASSUME SelectionInv, xserver.events # <<>>, Head1.type # "owner"
    PROVE  Keeps(xserver, Rest) /\ Head1 \in XEvents
BY RestKeeps DEF SelectionInv, Keeps, Loss

\* The manager's record without the import.
LEMMA FinishedEffect ==
    ASSUME NEW m \in Managers, NEW imported \in BOOLEAN
    PROVE  /\ Finished(m, imported) \in Managers
           /\ Finished(m, imported).stage = "none" /\ Finished(m, imported).exports = m.exports
           /\ Finished(m, imported).external = IF imported THEN m.selection ELSE m.external
<1> DEFINE external == IF imported THEN m.selection ELSE m.external
<1>1. external \in XSelections \cup {Nothing}
  BY DEF Managers
<1>2. Finished(m, imported) =
        [m EXCEPT !.external = external, !.stage = "none", !.selection = Nothing,
                  !.target = Nothing, !.incoming = <<>>]
  BY DEF Finished
<1> HIDE DEF external
<1>3. <<>> \in Texts
  BY DEF Texts
<1>4. /\ Finished(m, imported) \in Managers
      /\ Finished(m, imported).stage = "none" /\ Finished(m, imported).exports = m.exports
      /\ Finished(m, imported).external = external
  BY <1>1, <1>2, <1>3 DEF Managers
<1> QED
  BY <1>4 DEF external

LEMMA RequestedEffect ==
    ASSUME NEW m \in Managers, NEW x \in XSelections, NEW target \in {"targets", "text"}
    PROVE  /\ Requested(m, x, target) \in Managers
           /\ Requested(m, x, target).stage = target /\ Requested(m, x, target).selection = x
           /\ Requested(m, x, target).exports = m.exports
           /\ Requested(m, x, target).external = m.external
<1> DEFINE incoming == IF target = "targets" THEN <<>> ELSE m.incoming
<1>1. incoming \in Texts
  BY DEF Texts, Managers
<1>2. Requested(m, x, target) =
        [m EXCEPT !.incoming = incoming, !.stage = target, !.selection = x, !.target = target]
  BY DEF Requested
<1> HIDE DEF incoming
<1> QED
  BY <1>1, <1>2 DEF Managers

LEMMA OwnerLostStep ==
    ASSUME SelectionInv, OwnerLost
    PROVE  SelectionInv'
<1> DEFINE x == Head1.selection
           m == [xwm EXCEPT !.external = IF @ = x THEN Nothing ELSE @]
<1>1. /\ xserver.events # <<>> /\ Head1.type = "owner" /\ Head1.window = Nothing /\ sending' = sending
      /\ server' = IF xwm.external = x THEN ClearExternal(server) ELSE server
      /\ xwm' = IF xwm.selection = x THEN Finished(m, FALSE) ELSE m
      /\ xserver' = Rest
      /\ XOk(xserver) /\ ServerOk(server) /\ ManagerOk(xwm, server, xserver)
      /\ sending \in [XWindows -> Nat]
  BY DEF SelectionInv, OwnerLost, Handles
<1>2. XOk(Rest) /\ x \in XSelections
      /\ \A y \in XSelections : Holds(xserver, y) /\ y # x => Holds(Rest, y)
  BY <1>1, RestKeeps DEF Loss, XEvents
<1>3. /\ m \in Managers /\ m.stage = xwm.stage /\ m.selection = xwm.selection /\ m.exports = xwm.exports
      /\ m.external = IF xwm.external = x THEN Nothing ELSE xwm.external
  BY <1>1 DEF ManagerOk, Managers
<1> HIDE DEF m, x
<1>4. /\ ServerOk(server')
      /\ server'.kind = "external" => server.kind = "external" /\ xwm.external # x
  BY <1>1, ClearExternalKeeps
<1>5. /\ xwm' \in Managers /\ xwm'.external = m.external /\ xwm'.exports = xwm.exports
      /\ xwm'.stage # "none" => xwm'.stage = xwm.stage /\ xwm'.selection = xwm.selection
                                /\ xwm.selection # x
  BY <1>1, <1>3, FinishedEffect
<1>6. ManagerOk(xwm', server', Rest)
  <2>1. Exported(xwm')
    BY <1>1, <1>5, ExportedSame DEF ManagerOk
  <2>2. server'.kind = "external" => xwm'.external \in XSelections /\ Holds(Rest, xwm'.external)
    BY <1>1, <1>2, <1>3, <1>4, <1>5 DEF ManagerOk
  <2>3. xwm'.stage # "none" => xwm'.selection \in XSelections /\ Holds(Rest, xwm'.selection)
    BY <1>1, <1>2, <1>5 DEF ManagerOk
  <2> QED
    BY <1>5, <2>1, <2>2, <2>3 DEF ManagerOk
<1> QED
  BY <1>1, <1>2, <1>4, <1>6 DEF SelectionInv

LEMMA OwnerIsNewStep ==
    ASSUME SelectionInv, OwnerIsNew
    PROVE  SelectionInv'
<1> DEFINE x == Head1.selection
           m == [xwm EXCEPT !.external = Nothing]
           d == Released(Rest)
<1>1. /\ xserver.events # <<>> /\ Head1.type = "owner" /\ Head1.window # Nothing /\ sending' = sending
      /\ server' = IF xwm.external # Nothing THEN ClearExternal(server) ELSE server
      /\ xwm' = Requested(m, x, "targets")
      /\ xserver' = Convert(d, x, "targets")
      /\ XOk(xserver) /\ ServerOk(server) /\ ManagerOk(xwm, server, xserver)
      /\ sending \in [XWindows -> Nat]
  BY DEF SelectionInv, OwnerIsNew, Handles
<1>2. XOk(Rest) /\ x \in XSelections /\ Holds(Rest, x)
  BY <1>1, RestKeeps DEF XEvents
<1>3. Keeps(Rest, d)
  BY <1>2, ReleasedKeeps
<1>4. m \in Managers /\ m.exports = xwm.exports
  BY <1>1 DEF ManagerOk, Managers
<1> HIDE DEF m, x, d
<1>5. Keeps(d, xserver')
  BY <1>1, <1>2, <1>3, ConvertKeeps DEF Keeps
<1>6. XOk(xserver') /\ Holds(xserver', x)
  BY <1>2, <1>3, <1>5 DEF Keeps
<1>7. ServerOk(server') /\ server'.kind # "external"
  <2>1. xwm.external = Nothing => server.kind # "external"
    BY <1>1, SelectionsAssumption DEF ManagerOk
  <2> QED
    BY <1>1, <2>1, ClearExternalKeeps
<1>8. ManagerOk(xwm', server', xserver')
  <2>1. /\ xwm' \in Managers /\ xwm'.stage = "targets" /\ xwm'.selection = x
        /\ xwm'.exports = xwm.exports
    BY <1>1, <1>2, <1>4, RequestedEffect
  <2>2. Exported(xwm')
    BY <1>1, <2>1, ExportedSame DEF ManagerOk
  <2> QED
    BY <1>2, <1>6, <1>7, <2>1, <2>2 DEF ManagerOk
<1> QED
  BY <1>1, <1>6, <1>7, <1>8 DEF SelectionInv

\* A step of the manager on an event that is no owner's: it changes the
\* import or the export, and the X server only hears more.
LEMMA ManagerStep ==
    ASSUME SelectionInv, Keeps(xserver, xserver'), UNCHANGED sending,
           ServerOk(server'), xwm' \in Managers, Exported(xwm'),
           server'.kind = "external" => xwm'.external \in XSelections /\ Holds(xserver, xwm'.external),
           xwm'.stage # "none" => xwm'.selection \in XSelections /\ Holds(xserver, xwm'.selection)
    PROVE  SelectionInv'
BY DEF SelectionInv, ManagerOk, Keeps

\* What an import that ends leaves, with the server's text or without it.
LEMMA FinishedStep ==
    ASSUME SelectionInv, Keeps(xserver, xserver'), UNCHANGED sending,
           NEW imported \in BOOLEAN, xwm.stage # "none", xwm' = Finished(xwm, imported),
           IF imported THEN \E text \in Texts : server' = SetExternal(server, text) ELSE server' = server
    PROVE  SelectionInv'
<1>1. ServerOk(server) /\ ManagerOk(xwm, server, xserver)
  BY DEF SelectionInv
<1>2. ServerOk(server')
  BY <1>1, SetExternalKeeps
<1>3. xwm \in Managers /\ xwm.selection \in XSelections /\ Holds(xserver, xwm.selection)
  BY <1>1 DEF ManagerOk
<1>4. /\ xwm' \in Managers /\ xwm'.stage = "none" /\ xwm'.exports = xwm.exports
      /\ xwm'.external = IF imported THEN xwm.selection ELSE xwm.external
  BY <1>3, FinishedEffect
<1>5. Exported(xwm')
  BY <1>1, <1>4, ExportedSame DEF ManagerOk
<1>6. server'.kind = "external" => xwm'.external \in XSelections /\ Holds(xserver, xwm'.external)
  BY <1>1, <1>3, <1>4 DEF ManagerOk
<1> QED
  BY <1>2, <1>4, <1>5, <1>6, ManagerStep

LEMMA AnswerIgnoredStep ==
    ASSUME SelectionInv, AnswerIgnored
    PROVE  SelectionInv'
<1>1. /\ xserver.events # <<>> /\ Head1.type = "answer" /\ UNCHANGED <<server, sending>>
      /\ xwm' = IF Head1.selection = xwm.selection THEN Finished(xwm, FALSE) ELSE xwm
      /\ xserver' = Rest /\ ServerOk(server) /\ ManagerOk(xwm, server, xserver)
  BY DEF SelectionInv, AnswerIgnored, Handles
<1>2. Keeps(xserver, xserver')
  BY <1>1, EventRead
<1>3. /\ xwm' \in Managers /\ xwm'.external = xwm.external /\ xwm'.exports = xwm.exports
      /\ xwm'.stage # "none" => xwm'.stage = xwm.stage /\ xwm'.selection = xwm.selection
  BY <1>1, FinishedEffect DEF ManagerOk
<1>4. Exported(xwm')
  BY <1>1, <1>3, ExportedSame DEF ManagerOk
<1> QED
  BY <1>1, <1>2, <1>3, <1>4, ManagerStep DEF ManagerOk

LEMMA TargetsComeStep ==
    ASSUME SelectionInv, TargetsCome
    PROVE  SelectionInv'
<1> DEFINE d == PropertyRead(Rest, xwm)
<1>1. /\ xserver.events # <<>> /\ Head1.type = "answer" /\ UNCHANGED <<server, sending>>
      /\ xwm.stage = "targets" /\ ServerOk(server) /\ ManagerOk(xwm, server, xserver)
      /\ \/ /\ xwm' = Requested(xwm, xwm.selection, "text")
            /\ xserver' = Convert(d, xwm.selection, "text")
         \/ xwm' = Finished(xwm, FALSE) /\ xserver' = d
  BY DEF SelectionInv, TargetsCome, Handles
<1>2. Keeps(xserver, Rest)
  BY <1>1, EventRead
<1>3. Keeps(xserver, d)
  BY <1>2, PropertyReadKeeps, KeepsAgain DEF Keeps
<1> HIDE DEF d
<1>4. xwm \in Managers /\ xwm.selection \in XSelections /\ Holds(xserver, xwm.selection)
  BY <1>1 DEF ManagerOk
<1>5. CASE xwm' = Finished(xwm, FALSE) /\ xserver' = d
  BY <1>1, <1>3, <1>5, FinishedStep
<1>6. CASE xwm' = Requested(xwm, xwm.selection, "text") /\ xserver' = Convert(d, xwm.selection, "text")
  <2>1. Keeps(xserver, xserver')
    BY <1>3, <1>4, <1>6, ConvertKeeps, KeepsAgain DEF Keeps
  <2>2. /\ xwm' \in Managers /\ xwm'.external = xwm.external /\ xwm'.exports = xwm.exports
        /\ xwm'.selection = xwm.selection
    BY <1>4, <1>6, RequestedEffect
  <2>3. Exported(xwm')
    BY <1>1, <2>2, ExportedSame DEF ManagerOk
  <2> QED
    BY <1>1, <1>4, <2>1, <2>2, <2>3, ManagerStep DEF ManagerOk
<1> QED
  BY <1>1, <1>5, <1>6

LEMMA PropertyType ==
    ASSUME XOk(xserver)
    PROVE  xserver.property # Nothing =>
             /\ xserver.property \in Values
             /\ xserver.property.type = "text" => xserver.property.data \in Texts
BY DEF XOk, XServers, Values

\* An import that goes on changes what has come and its stage only.
LEMMA ImportStep ==
    ASSUME SelectionInv, Keeps(xserver, xserver'), UNCHANGED <<server, sending>>, xwm.stage # "none",
           NEW incoming \in Texts, NEW stage \in {"incr", "drain"},
           xwm' = [xwm EXCEPT !.incoming = incoming, !.stage = stage]
    PROVE  SelectionInv'
<1>1. ServerOk(server) /\ ManagerOk(xwm, server, xserver)
  BY DEF SelectionInv
<1>2. /\ xwm' \in Managers /\ xwm'.external = xwm.external /\ xwm'.exports = xwm.exports
      /\ xwm'.selection = xwm.selection
  BY <1>1 DEF ManagerOk, Managers
<1>3. Exported(xwm')
  BY <1>1, <1>2, ExportedSame DEF ManagerOk
<1> QED
  BY <1>1, <1>2, <1>3, ManagerStep DEF ManagerOk

LEMMA TextComesStep ==
    ASSUME SelectionInv, TextComes
    PROVE  SelectionInv'
<1> DEFINE v == xserver.property
<1>1. /\ xserver.events # <<>> /\ Head1.type = "answer" /\ UNCHANGED sending /\ xwm.stage # "none"
      /\ xserver' = PropertyRead(Rest, xwm) /\ XOk(xserver) /\ ManagerOk(xwm, server, xserver)
  BY DEF SelectionInv, TextComes, Handles, AnswerIsWrong
<1>2. \/ PropertyIs("incr") /\ UNCHANGED server
         /\ xwm' = [xwm EXCEPT !.incoming = <<>>,
                               !.stage = IF v.size <= MaxPieces THEN "incr" ELSE "drain"]
      \/ PropertyIs("text") /\ xwm' = Finished(xwm, TRUE) /\ server' = SetExternal(server, v.data)
      \/ xwm' = Finished(xwm, FALSE) /\ UNCHANGED server
  BY DEF TextComes
<1>3. Keeps(xserver, xserver')
  <2>1. Keeps(xserver, Rest)
    BY <1>1, EventRead
  <2> QED
    BY <1>1, <2>1, PropertyReadKeeps, KeepsAgain DEF Keeps
<1>4. CASE PropertyIs("incr") /\ UNCHANGED server
         /\ xwm' = [xwm EXCEPT !.incoming = <<>>,
                               !.stage = IF v.size <= MaxPieces THEN "incr" ELSE "drain"]
  <2>1. <<>> \in Texts
    BY DEF Texts
  <2>2. PICK stage \in {"incr", "drain"} : xwm' = [xwm EXCEPT !.incoming = <<>>, !.stage = stage]
    BY <1>4
  <2> QED
    BY <1>1, <1>3, <1>4, <2>1, <2>2, ImportStep
<1>5. CASE PropertyIs("text") /\ xwm' = Finished(xwm, TRUE) /\ server' = SetExternal(server, v.data)
  <2>1. v.data \in Texts
    BY <1>1, <1>5, PropertyType DEF PropertyIs
  <2> QED
    BY <1>1, <1>3, <1>5, <2>1, FinishedStep
<1>6. CASE xwm' = Finished(xwm, FALSE) /\ UNCHANGED server
  BY <1>1, <1>3, <1>6, FinishedStep
<1> QED
  BY <1>2, <1>4, <1>5, <1>6

LEMMA ChunkComesStep ==
    ASSUME SelectionInv, ChunkComes
    PROVE  SelectionInv'
<1> DEFINE v == xserver.property
           empty == v = Nothing \/ (v.type = "text" /\ v.data = <<>>)
<1>1. /\ xserver.events # <<>> /\ Head1.type = "written" /\ UNCHANGED sending
      /\ XOk(xserver) /\ ManagerOk(xwm, server, xserver) /\ ServerOk(server)
  BY DEF SelectionInv, ChunkComes, Handles
<1>2. Keeps(xserver, Rest)
  BY <1>1, EventRead
<1>3. CASE xwm.stage \notin {"incr", "drain"}
  <2>1. xserver' = Rest /\ UNCHANGED <<server, xwm>>
    BY <1>3 DEF ChunkComes
  <2> QED
    BY <1>1, <1>2, <2>1, ManagerStep DEF ManagerOk
<1>4. CASE xwm.stage \in {"incr", "drain"}
  <2>1. /\ xserver' = PropertyRead(Rest, xwm)
        /\ \/ xwm' = Finished(xwm, FALSE) /\ UNCHANGED server
           \/ xwm' = Finished(xwm, TRUE) /\ server' = SetExternal(server, xwm.incoming)
           \/ /\ ~empty /\ v.type = "text" /\ xwm.stage = "incr"
              /\ xwm' = [xwm EXCEPT !.incoming = @ \o v.data] /\ UNCHANGED server
           \/ xwm' = [xwm EXCEPT !.incoming = <<>>, !.stage = "drain"] /\ UNCHANGED server
    BY <1>4 DEF ChunkComes
  <2>2. Keeps(xserver, xserver')
    BY <1>2, <2>1, PropertyReadKeeps, KeepsAgain DEF Keeps
  <2>3. xwm \in Managers /\ xwm.incoming \in Texts
    BY <1>1 DEF ManagerOk, Managers
  <2>4. CASE xwm' = Finished(xwm, FALSE) /\ UNCHANGED server
    BY <1>1, <1>4, <2>2, <2>4, FinishedStep
  <2>5. CASE xwm' = Finished(xwm, TRUE) /\ server' = SetExternal(server, xwm.incoming)
    BY <1>1, <1>4, <2>2, <2>3, <2>5, FinishedStep
  <2>6. CASE /\ ~empty /\ v.type = "text" /\ xwm.stage = "incr"
             /\ xwm' = [xwm EXCEPT !.incoming = @ \o v.data] /\ UNCHANGED server
    <3>1. v.data \in Texts
      BY <1>1, <2>6, PropertyType
    <3>2. xwm.incoming \o v.data \in Texts
      BY <2>3, <3>1 DEF Texts
    <3>3. xwm' = [xwm EXCEPT !.incoming = xwm.incoming \o v.data, !.stage = "incr"]
      BY <2>3, <2>6 DEF Managers
    <3> QED
      BY <1>1, <2>2, <2>6, <3>2, <3>3, ImportStep
  <2>7. CASE xwm' = [xwm EXCEPT !.incoming = <<>>, !.stage = "drain"] /\ UNCHANGED server
    <3>1. <<>> \in Texts
      BY DEF Texts
    <3> QED
      BY <1>1, <1>4, <2>2, <2>7, <3>1, ImportStep
  <2> QED
    BY <2>1, <2>4, <2>5, <2>6, <2>7
<1> QED
  BY <1>3, <1>4

\* A step that changes one export, which is still of a source or ends.
LEMMA ExportStep ==
    ASSUME SelectionInv, Keeps(xserver, xserver'), UNCHANGED <<server, sending>>,
           NEW w \in XWindows \cup {Manager},
           NEW export \in [text : Texts, sent : Nat] \cup {Nothing},
           export # Nothing => /\ export.sent <= Len(export.text)
                               /\ \E s \in Sources : export.text = TextOf(s),
           xwm' = [xwm EXCEPT !.exports[w] = export]
    PROVE  SelectionInv'
<1>1. ServerOk(server) /\ ManagerOk(xwm, server, xserver)
  BY DEF SelectionInv
<1> DEFINE exports == [xwm.exports EXCEPT ![w] = export]
<1>2. xwm \in Managers /\ Exported(xwm)
  BY <1>1 DEF ManagerOk
<1>3. exports \in [XWindows \cup {Manager} -> [text : Texts, sent : Nat] \cup {Nothing}]
      /\ exports[w] = export
      /\ \A u \in XWindows \cup {Manager} : u # w => exports[u] = xwm.exports[u]
  BY <1>2 DEF Managers
<1>4. xwm' = [xwm EXCEPT !.exports = exports]
  BY <1>2 DEF Managers
<1> HIDE DEF exports
<1>5. /\ xwm' \in Managers /\ xwm'.external = xwm.external /\ xwm'.exports = exports
      /\ xwm'.selection = xwm.selection /\ xwm'.stage = xwm.stage
  BY <1>2, <1>3, <1>4 DEF Managers
<1>6. Exported(xwm')
  <2> SUFFICES ASSUME NEW u \in XWindows \cup {Manager}, exports[u] # Nothing
               PROVE  exports[u].sent <= Len(exports[u].text)
                      /\ \E s \in Sources : exports[u].text = TextOf(s)
    BY <1>5 DEF Exported
  <2>1. CASE u = w
    BY <2>1, <1>3
  <2>2. CASE u # w
    BY <2>2, <1>2, <1>3 DEF Exported
  <2> QED
    BY <2>1, <2>2
<1> QED
  BY <1>1, <1>5, <1>6, ManagerStep DEF ManagerOk

LEMMA TextRequestedStep ==
    ASSUME SelectionInv, TextRequested
    PROVE  SelectionInv'
<1> DEFINE w == Head1.window
           text == ClipboardText(server)
           chunked == text # Nothing /\ Len(text) > 1
           exported == text # Nothing /\ ~Oversize(text) /\ (chunked => xwm.exports[w] = Nothing)
           value == IF chunked THEN [type |-> "incr", size |-> Len(text)]
                    ELSE [type |-> "text", data |-> text]
           export == [text |-> text, sent |-> 0]
<1>1. /\ xserver.events # <<>> /\ Head1.type = "request" /\ UNCHANGED <<server, sending>>
      /\ xwm' = IF exported /\ chunked THEN [xwm EXCEPT !.exports[w] = export] ELSE xwm
      /\ xserver' = IF w # Manager THEN Rest
                    ELSE IF exported THEN Answered(Written(Rest, value), Head1.selection, "text", TRUE)
                    ELSE Answered(Rest, Head1.selection, "text", FALSE)
      /\ ServerOk(server) /\ ManagerOk(xwm, server, xserver)
  BY DEF SelectionInv, TextRequested, Handles
<1>2. Keeps(xserver, Rest) /\ Head1 \in XEvents
  BY <1>1, EventRead
<1>3. Head1.selection \in XSelections /\ w \in XWindows \cup {Manager}
  BY <1>1, <1>2 DEF XEvents
<1>4. text # Nothing => /\ text \in Texts /\ server.current \in Sources
                        /\ text = TextOf(server.current)
  BY <1>1 DEF ClipboardText, ServerOk, Servers
<1>5. text # Nothing => value \in Values
  <2> SUFFICES ASSUME text # Nothing PROVE value \in Values
    OBVIOUS
  <2>1. Len(text) \in Nat /\ text \in Texts
    BY <1>4 DEF Texts
  <2> HIDE DEF text
  <2> QED
    BY <2>1 DEF Values
<1>6. Keeps(xserver, xserver')
  <2>1. CASE w # Manager
    BY <1>1, <1>2, <2>1
  <2>2. CASE w = Manager /\ exported
    <3>1. value \in Values /\ xserver' = Answered(Written(Rest, value), Head1.selection, "text", TRUE)
      BY <1>1, <1>5, <2>2
    <3> HIDE DEF value
    <3>2. Keeps(Rest, Written(Rest, value))
      BY <1>2, <3>1, WrittenKeeps DEF Keeps
    <3>3. Keeps(Written(Rest, value), xserver')
      BY <1>3, <3>1, <3>2, AnsweredKeeps DEF Keeps
    <3> QED
      BY <1>2, <3>2, <3>3, KeepsAgain
  <2>3. CASE w = Manager /\ ~exported
    <3>1. Keeps(Rest, xserver')
      BY <1>1, <1>2, <1>3, <2>3, AnsweredKeeps DEF Keeps
    <3> QED
      BY <1>2, <3>1, KeepsAgain
  <2> QED
    BY <2>1, <2>2, <2>3
<1> HIDE DEF text, w, value
<1>7. CASE exported /\ chunked
  <2>1. export \in [text : Texts, sent : Nat] /\ export.text = TextOf(server.current)
        /\ export.sent <= Len(export.text)
    BY <1>4, <1>7 DEF Texts
  <2>2. xwm' = [xwm EXCEPT !.exports[w] = export]
    BY <1>1, <1>7
  <2> HIDE DEF export
  <2> QED
    BY <1>1, <1>3, <1>4, <1>6, <1>7, <2>1, <2>2, ExportStep
<1>8. CASE ~(exported /\ chunked)
  <2>1. xwm' = xwm
    BY <1>1, <1>8
  <2> QED
    BY <1>1, <1>6, <2>1, ManagerStep DEF ManagerOk
<1> QED
  BY <1>7, <1>8

LEMMA NextChunkStep ==
    ASSUME SelectionInv, NextChunk
    PROVE  SelectionInv'
<1> DEFINE w == Head1.window
           export == xwm.exports[w]
           done == export.sent = Len(export.text)
           data == IF done THEN <<>> ELSE <<export.text[export.sent + 1]>>
           next == IF done THEN Nothing ELSE [export EXCEPT !.sent = export.sent + 1]
<1>1. /\ xserver.events # <<>> /\ Head1.type = "deleted" /\ UNCHANGED <<server, sending>>
      /\ ServerOk(server) /\ ManagerOk(xwm, server, xserver)
  BY DEF SelectionInv, NextChunk, Handles
<1>2. Keeps(xserver, Rest) /\ Head1 \in XEvents
  BY <1>1, EventRead
<1>3. w \in XWindows \cup {Manager}
  BY <1>1, <1>2 DEF XEvents
<1>4. CASE export = Nothing
  <2>1. xserver' = Rest /\ xwm' = xwm
    BY <1>4 DEF NextChunk
  <2> QED
    BY <1>1, <1>2, <2>1, ManagerStep DEF ManagerOk
<1>5. CASE export # Nothing
  <2>1. /\ xwm' = [xwm EXCEPT !.exports[w] = IF done THEN Nothing ELSE [export EXCEPT !.sent = @ + 1]]
        /\ xserver' = IF w # Manager THEN Rest
                      ELSE Written(Rest, [type |-> "text", data |-> data])
    BY <1>5 DEF NextChunk
  <2>2. xwm' = [xwm EXCEPT !.exports[w] = next]
    BY <2>1
  <2>3. PICK s \in Sources : export.text = TextOf(s)
    BY <1>1, <1>3, <1>5 DEF ManagerOk, Exported
  <2>4. export \in [text : Texts, sent : Nat] /\ export.sent <= Len(export.text)
    BY <1>1, <1>3, <1>5 DEF ManagerOk, Managers, Exported
  <2>5. next \in [text : Texts, sent : Nat] \cup {Nothing}
        /\ (next # Nothing => next.sent <= Len(next.text) /\ next.text = TextOf(s))
    <3>1. ~done => export.sent + 1 \in Nat /\ export.sent + 1 <= Len(export.text)
      BY <2>4 DEF Texts
    <3>2. ~done => next = [text |-> export.text, sent |-> export.sent + 1]
      BY <2>4
    <3> HIDE DEF export
    <3> QED
      BY <2>3, <2>4, <3>1, <3>2
  <2>6. data \in Texts
    <3>1. ~done => export.sent + 1 \in 1 .. Len(export.text)
      BY <2>4 DEF Texts
    <3>2. ~done => export.text[export.sent + 1] \in Sources \cup XWindows
      BY <2>4, <3>1 DEF Texts
    <3>3. ~done => <<export.text[export.sent + 1]>> \in Seq(Sources \cup XWindows)
      BY <3>2
    <3>4. <<>> \in Seq(Sources \cup XWindows)
      OBVIOUS
    <3> HIDE DEF done
    <3> QED
      BY <3>3, <3>4 DEF Texts
  <2> HIDE DEF next, data, export, done
  <2>7. [type |-> "text", data |-> data] \in Values
    BY <2>6 DEF Values
  <2>8. Keeps(xserver, xserver')
    BY <1>2, <2>1, <2>7, WrittenKeeps, KeepsAgain DEF Keeps
  <2> QED
    BY <1>1, <1>3, <2>2, <2>5, <2>8, ExportStep
<1> QED
  BY <1>4, <1>5

LEMMA RequestorGoneStep ==
    ASSUME SelectionInv, RequestorGone
    PROVE  SelectionInv'
<1>1. /\ xserver.events # <<>> /\ Head1.type = "destroyed" /\ UNCHANGED <<server, sending>>
      /\ xwm' = [xwm EXCEPT !.exports[Head1.window] = Nothing] /\ xserver' = Rest
  BY DEF SelectionInv, RequestorGone, Handles
<1>2. Keeps(xserver, Rest) /\ Head1 \in XEvents
  BY <1>1, EventRead
<1>3. Head1.window \in XWindows \cup {Manager}
  BY <1>1, <1>2 DEF XEvents
<1> QED
  BY <1>1, <1>2, <1>3, ExportStep

-----------------------------------------------------------------------------
(***************************************************************************)
(* The invariant and the theorems.                                         *)
(***************************************************************************)
LEMMA SelectionInvInit == SelectionInit => SelectionInv
<1> SUFFICES ASSUME SelectionInit PROVE SelectionInv
  OBVIOUS
<1>1. ServerOk(server)
  BY DEF SelectionInit, ServerOk, Servers
<1>2. <<>> \in Seq(XEvents) /\ <<>> \in Texts
  BY DEF Texts
<1>3. xserver \in XServers /\ xserver.events = <<>>
  BY <1>2 DEF SelectionInit, XServers, Owners
<1>4. XOk(xserver)
  BY <1>3 DEF XOk, NewsInOrder
<1>5. xwm \in Managers
  BY <1>2 DEF SelectionInit, Managers
<1>6. ManagerOk(xwm, server, xserver)
  BY <1>5 DEF SelectionInit, ManagerOk, Exported
<1> QED
  BY <1>1, <1>4, <1>6 DEF SelectionInv, SelectionInit

LEMMA SelectionInvStep == SelectionInv /\ [SelectionNext]_selectionVars => SelectionInv'
<1> SUFFICES ASSUME SelectionInv, [SelectionNext]_selectionVars PROVE SelectionInv'
  OBVIOUS
<1>1. CASE UNCHANGED selectionVars
  BY <1>1 DEF selectionVars, SelectionInv
<1>2. CASE SelectionNext
  BY <1>2, DeviceStep, CreateSourceStep, SetSelectionStep, FocusClientStep, OfferTextStep,
     DestroySourceStep, DestroyOfferStep, ReadFinishStep, ExitStep, WriteChunkStep, CopyStep,
     PasteStep, AnswerStep, BecomeReadyStep, OwnerLostStep, OwnerIsNewStep, AnswerIgnoredStep,
     TargetsComeStep, TextComesStep, ChunkComesStep, TextRequestedStep, NextChunkStep,
     RequestorGoneStep DEF SelectionNext
<1> QED
  BY <1>1, <1>2

LEMMA SelectionInvAlways == SelectionSpec => []SelectionInv
<1> QED
  BY SelectionInvInit, SelectionInvStep, PTL DEF SelectionSpec

LEMMA SelectionInvImplies == SelectionInv => SelectionHasOwner
<1> SUFFICES ASSUME SelectionInv PROVE SelectionHasOwner
  OBVIOUS
<1>1. ServerOk(server) /\ XOk(xserver) /\ ManagerOk(xwm, server, xserver)
  BY DEF SelectionInv
<1>2. \A o \in server.offers :
        /\ Received(server, o) # Nothing
        /\ o.from \in Sources => o.from = server.current
  <2> SUFFICES ASSUME NEW o \in server.offers
               PROVE  Received(server, o) # Nothing /\ (o.from \in Sources => o.from = server.current)
    OBVIOUS
  <2>1. o.from \in Sources \cup {"external"}
    BY <1>1 DEF ServerOk, Servers
  <2>2. CASE o.from = "external"
    BY <1>1, <2>2, NamesDiffer DEF ServerOk, Received
  <2>3. CASE o.from \in Sources
    <3>1. o.from = server.current /\ Live(server, o.from)
      BY <1>1, <2>3, NamesDiffer DEF ServerOk
    <3> QED
      BY <2>3, <3>1, TextType, NamesDiffer DEF Received
  <2> QED
    BY <2>1, <2>2, <2>3
<1>3. \A w \in XWindows : xwm.exports[w] # Nothing => \E s \in Sources : xwm.exports[w].text = TextOf(s)
  BY <1>1 DEF ManagerOk, Exported
<1>4. ClipboardText(server) # Nothing => server.text = TextOf(server.current)
  BY <1>1 DEF ClipboardText, ServerOk
<1>5. ClipboardIsCurrent
  BY <1>1, <1>2, <1>3, <1>4 DEF ClipboardIsCurrent, ServerOk
<1>6. ExternalHasOwner
  <2>1. xserver.events = <<>> => 1 .. Len(xserver.events) = {}
    OBVIOUS
  <2> QED
    BY <1>1, <2>1 DEF ExternalHasOwner, ManagerOk, Holds
<1> QED
  BY <1>5, <1>6 DEF SelectionHasOwner

\* With any programs and texts of any size, no read, offer or publication of a
\* Wayland selection outlives its source or is of another than the current one,
\* what goes to X11 in chunks is one source's whole text, and a text from X11 is
\* on offer only while its selection has an owner, or the news that it has none
\* is still to be read.  Which side copied last the theorem does not say.
THEOREM SelectionsHaveOwners == SelectionSpec => []SelectionHasOwner
<1> QED
  BY SelectionInvAlways, SelectionInvImplies, PTL

-----------------------------------------------------------------------------
(***************************************************************************)
(* Frames.  The renderer's work and both streams of messages are tied to   *)
(* the serial of the state they are about.  AtlasLinked has a part for     *)
(*                                                                         *)
(*  - the renderer by itself: what it draws is of the state it has, and a  *)
(*    state it has not drawn is to be rendered (RendererOk);               *)
(*  - the states on their way, in order and up to the server's (StatesOk); *)
(*  - the server's picture and layout: a layout is pending only for the    *)
(*    state that is current and was acknowledged (ThemeOk);                *)
(*  - the requests on their way: each layout is complete and in order      *)
(*    (LayoutsOk), acknowledgements grow and come before the layout of     *)
(*    their state (AcksOk, BeginsOk), what has been sent of the layout in  *)
(*    work (LayingOk), and the layout of the current state is shown or at  *)
(*    the end of the queue, and not among those ignored (CurrentOk).       *)
(*                                                                         *)
(* Good faith is what makes FramesFollowDesktop subtle: the server may     *)
(* refuse a request that is out of turn, and the layout of an old state is *)
(* out of turn unless it is ignored as a whole, from its first request to  *)
(* its commit.                                                             *)
(***************************************************************************)
Layouts == [gen : Nat, look : Looks, tiles : BOOLEAN]
Pictures == [gen : Nat, look : Looks, drawn : Looks]
Themes ==
    [link : {"none", "up", "refused", "gone"}, look : Looks, sent : Looks \cup {NoAtlas},
     serial : Nat, acked : Nat, pending : Layouts \cup {NoAtlas}, layout : Nat,
     requested : BOOLEAN, discard : BOOLEAN, pixels : Pictures \cup {NoAtlas},
     shown : Layouts \cup {NoAtlas}, picture : Pictures \cup {NoAtlas},
     surface : Looks \cup {NoAtlas}, fresh : BOOLEAN, repaints : Nat]
Renderers ==
    [desktop : BOOLEAN, configured : BOOLEAN, serial : Nat, look : Looks \cup {NoAtlas},
     shell : BOOLEAN, windows : BOOLEAN, packed : BOOLEAN, render : BOOLEAN, drawing : Nat,
     gen : Nat, laying : BOOLEAN, loading : Looks \cup {NoAtlas}, document : Looks \cup {NoAtlas},
     snapshot : BOOLEAN, publish : BOOLEAN, quit : BOOLEAN]
States == [type : {"state", "done"}, serial : Nat, look : Looks]
Answers ==
    [type : {"ack"}, serial : Nat] \cup [type : {"begin"}, gen : Nat, look : Looks]
      \cup [type : {"pixels"}, gen : Nat, look : Looks, drawn : Looks]
      \cup [type : {"tile"}] \cup [type : {"commit"}, gen : Nat]

\* The renderer draws the state it has, and has been told all of it.
Drawn(r) == r.drawing = r.serial /\ r.serial # 0

RendererOk(r) ==
    /\ r.drawing <= r.serial
    /\ Drawn(r) => r.packed
    /\ r.packed \/ HasRenderState(r) => r.serial # 0
    /\ r.serial # 0 => r.look # NoAtlas
    /\ r.snapshot => r.drawing # 0
    /\ ~r.configured => r.drawing = 0 /\ ~r.render /\ ~r.laying /\ ~r.snapshot
    /\ r.laying => Drawn(r) /\ \/ r.loading = r.look /\ ~r.snapshot /\ ~r.publish
                               \/ /\ r.loading = NoAtlas /\ r.document = r.look
                                  /\ r.snapshot /\ ~r.publish
                               \/ r.loading = NoAtlas /\ ~r.snapshot /\ (r.publish \/ r.quit)
    /\ r.snapshot /\ Drawn(r) => r.laying
    /\ r.publish => r.laying
    /\ r.render => ~r.laying /\ ~r.snapshot /\ r.drawing # r.serial
    /\ r.configured /\ HasRenderState(r) /\ r.packed /\ ~r.quit =>
         r.drawing = r.serial \/ r.render \/ r.snapshot

\* The states on their way follow that of the renderer, up to the server's.
StatesOk(q, v, r) ==
    LET N == Len(q) IN
    /\ \A i \in 1 .. N :
         /\ q[i].type = "state" =>
              i < N /\ q[i + 1].type = "done" /\ q[i + 1].serial = q[i].serial /\ r.serial < q[i].serial
         /\ q[i].type = "done" => r.serial <= q[i].serial /\ (i < N => q[i + 1].type = "state")
         /\ q[i].serial # 0 /\ q[i].serial <= v.serial
         /\ q[i].type = "state" /\ q[i].serial = v.serial => q[i].look = v.look
    /\ \A i, j \in 1 .. N :
         i < j => q[i].serial <= q[j].serial /\ (q[j].type = "state" => q[i].serial < q[j].serial)
    /\ N # 0 => q[N].type = "done" /\ q[N].serial = v.serial
    /\ N = 0 => r.serial = v.serial
    /\ r.serial = v.serial => r.look = v.look
    /\ IF N # 0 /\ q[1].type = "done" THEN r.serial = q[1].serial /\ ~r.packed
       ELSE r.serial # 0 => r.packed

\* The server's picture and layout.
ThemeOk(v, r) ==
    /\ v.sent = v.look /\ v.serial # 0 /\ ~v.requested /\ r.serial <= v.serial
    /\ v.acked <= r.serial /\ (~r.packed /\ r.serial # 0 => v.acked < r.serial)
    /\ v.shown # NoAtlas => v.shown.gen <= r.gen
    /\ v.pixels # NoAtlas => v.pixels.drawn = v.pixels.look
    /\ v.pending # NoAtlas => /\ v.pending.gen <= r.gen /\ v.pending.look = v.look
                              /\ v.layout = v.serial /\ v.acked = v.serial
                              /\ ~v.discard
    /\ v.pending = NoAtlas => v.layout = 0 /\ v.pixels = NoAtlas

Begins(m, r) == m.type = "begin" /\ m.gen = r.gen /\ m.look = r.look
HasPixels(v) == v.pixels # NoAtlas /\ v.pixels.gen = v.pending.gen /\ v.pixels.look = v.pending.look

\* What the server must have accepted, or else ignores, when m comes next.
IsBegun(v, gen, look) ==
    v.discard \/ (v.pending # NoAtlas /\ v.pending.gen = gen /\ v.pending.look = look)
IsDrawn(v, gen) ==
    v.discard \/ (v.pending # NoAtlas /\ v.pending.gen = gen /\ HasPixels(v))
IsTiled(v, gen) ==
    v.discard \/ (v.pending # NoAtlas /\ v.pending.gen = gen /\ HasPixels(v) /\ v.pending.tiles)

\* Each layout is announced, drawn, cut in tiles and committed in this order.
LayoutsOk(q, v) ==
    LET N == Len(q) IN
    \A i \in 1 .. N :
      /\ q[i].type = "pixels" =>
           /\ q[i].drawn = q[i].look
           /\ IF i = 1 THEN IsBegun(v, q[i].gen, q[i].look)
              ELSE q[i - 1].type = "begin" /\ q[i - 1].gen = q[i].gen /\ q[i - 1].look = q[i].look
      /\ q[i].type = "tile" =>
           /\ i < N /\ q[i + 1].type = "commit"
           /\ IF i = 1 THEN IsDrawn(v, q[i + 1].gen)
              ELSE q[i - 1].type = "pixels" /\ q[i - 1].gen = q[i + 1].gen
      /\ q[i].type = "commit" => IF i = 1 THEN IsTiled(v, q[i].gen) ELSE q[i - 1].type = "tile"

\* Acknowledgements and layouts are in the order of the states.
AcksOk(q, v, r) ==
    LET N == Len(q) IN
    /\ \A i \in 1 .. N : q[i].type = "ack" =>
         /\ v.acked < q[i].serial /\ q[i].serial <= r.serial
         /\ ~r.packed => q[i].serial < r.serial
         /\ \A j \in i + 1 .. N : q[j].type = "ack" => q[i].serial < q[j].serial
         /\ Drawn(r) => \E j \in i + 1 .. N : Begins(q[j], r)
    /\ r.packed /\ r.serial = v.serial =>
         v.acked = r.serial \/ \E i \in 1 .. N : q[i].type = "ack" /\ q[i].serial = r.serial

BeginsOk(q, v, r) ==
    LET N == Len(q) IN
    /\ \A i \in 1 .. N : q[i].type = "begin" =>
         /\ v.pending = NoAtlas
         /\ q[i].gen # 0 /\ q[i].gen <= r.gen /\ (v.shown # NoAtlas => v.shown.gen < q[i].gen)
         /\ \A j \in i + 1 .. N : q[j].type = "begin" => \E k \in i + 1 .. j - 1 : q[k].type = "ack"
         /\ \/ \E k \in i + 1 .. N : q[k].type = "ack"
            \/ ~r.packed
            \/ Drawn(r) /\ Begins(q[i], r)
    /\ v.pending # NoAtlas => ~r.packed \/ Drawn(r)

\* The layout of the state as it is now is not one that is ignored, and
\* once it is complete it is shown or about to be.
CurrentOk(q, v, r) ==
    LET N == Len(q) IN
    Drawn(r) /\ r.serial = v.serial =>
      /\ (\A i \in 1 .. N : q[i].type # "begin") => ~v.discard
      /\ ~r.laying /\ ~r.quit =>
           \/ v.shown # NoAtlas /\ v.shown.look = v.look
           \/ N # 0 /\ q[N].type = "commit"

\* What the renderer has sent of the layout it is working on.
LayingOk(q, v, r) ==
    LET N == Len(q) IN
    /\ r.laying /\ ~r.publish /\ ~r.quit =>
         IF N = 0 THEN IsBegun(v, r.gen, r.look) ELSE Begins(q[N], r)
    /\ r.laying /\ r.publish =>
         IF N = 0 THEN IsDrawn(v, r.gen) ELSE q[N].type = "pixels" /\ q[N].gen = r.gen

AtlasLinked ==
    /\ RendererOk(renderer) /\ StatesOk(states, theme, renderer) /\ ThemeOk(theme, renderer)
    /\ LayoutsOk(answers, theme) /\ AcksOk(answers, theme, renderer)
    /\ BeginsOk(answers, theme, renderer) /\ CurrentOk(answers, theme, renderer)
    /\ LayingOk(answers, theme, renderer)

AtlasUnlinked ==
    /\ theme.serial = 0 /\ theme.acked = 0 /\ theme.pending = NoAtlas /\ theme.layout = 0
    /\ ~theme.requested /\ ~theme.discard /\ theme.pixels = NoAtlas /\ theme.shown = NoAtlas
    /\ theme.sent = NoAtlas
    /\ states = <<>> /\ answers = <<>> /\ RendererOk(renderer) /\ renderer.serial = 0
    /\ ~renderer.packed /\ ~renderer.laying

AtlasTypes ==
    theme \in Themes /\ renderer \in Renderers /\ states \in Seq(States) /\ answers \in Seq(Answers)

AtlasInv ==
    /\ AtlasIsWhole
    /\ theme.link # "refused"
    /\ theme.link = "none" => AtlasUnlinked
    /\ theme.link = "up" => AtlasLinked

-----------------------------------------------------------------------------
(***************************************************************************)
(* Types.                                                                  *)
(***************************************************************************)
LEMMA AbortedType ==
    ASSUME NEW v \in Themes
    PROVE  Aborted(v) \in Themes
BY DEF Aborted, Themes

LEMMA SendStateType ==
    ASSUME NEW v \in Themes
    PROVE  SendState(v) \in Themes
<1>1. \A u \in Themes : [u EXCEPT !.discard = TRUE] \in Themes
  BY DEF Themes
<1>2. \A u \in Themes : [u EXCEPT !.serial = u.serial + 1, !.sent = v.look] \in Themes
  <2>1. v.look \in Looks /\ \A u \in Themes : u.serial + 1 \in Nat
    BY DEF Themes
  <2> QED
    BY <2>1 DEF Themes
<1>3. [Aborted(v) EXCEPT !.discard = TRUE] \in Themes
  BY <1>1, AbortedType
<1> QED
  BY <1>2, <1>3 DEF SendState

LEMMA UnlinkedType ==
    ASSUME NEW v \in Themes, NEW link \in {"refused", "gone"}
    PROVE  Unlinked(v, link) \in Themes
<1> DEFINE u == Aborted(v)
<1>1. u \in Themes
  BY AbortedType
<1> HIDE DEF u
<1>2. [u EXCEPT !.link = link, !.sent = NoAtlas, !.acked = 0, !.discard = FALSE,
                !.shown = NoAtlas, !.picture = NoAtlas, !.surface = NoAtlas, !.fresh = FALSE] \in Themes
  BY <1>1 DEF Themes
<1> QED
  BY <1>2 DEF Unlinked, u

LEMMA RefusedType ==
    ASSUME NEW v \in Themes
    PROVE  Refused(v) \in Themes
BY UnlinkedType DEF Refused

LEMMA TryPublishType ==
    ASSUME NEW v \in Themes
    PROVE  TryPublish(v) \in Themes
<1>1. Aborted(v) \in Themes /\ Refused(v) \in Themes
  BY AbortedType, RefusedType
<1>2. \A u \in Themes, picture \in Pictures \cup {NoAtlas}, pixels \in Pictures \cup {NoAtlas} :
        [u EXCEPT !.shown = v.pending, !.picture = picture, !.pixels = pixels] \in Themes
  BY DEF Themes
<1>3. Aborted(v).picture \in Pictures \cup {NoAtlas} /\ v.pixels \in Pictures \cup {NoAtlas}
  BY <1>1 DEF Themes
<1> DEFINE ready == v.pixels # NoAtlas /\ v.pixels.gen = v.pending.gen /\ v.pixels.look = v.pending.look
<1>4. [Aborted(v) EXCEPT !.shown = v.pending, !.picture = IF ready THEN v.pixels ELSE @,
                         !.pixels = IF ready THEN NoAtlas ELSE v.pixels] \in Themes
  BY <1>1, <1>2, <1>3
<1> QED
  BY <1>1, <1>4 DEF TryPublish

LEMMA AnswerTypes ==
    ASSUME NEW m \in Answers
    PROVE  /\ m.type \in {"ack", "begin", "pixels", "tile", "commit"}
           /\ m.type = "ack" => m.serial \in Nat
           /\ m.type = "begin" => m.gen \in Nat /\ m.look \in Looks
           /\ m.type = "pixels" => m.gen \in Nat /\ m.look \in Looks /\ m.drawn \in Looks
           /\ m.type = "commit" => m.gen \in Nat
BY DEF Answers

LEMMA ServedType ==
    ASSUME NEW v \in Themes, NEW m \in Answers
    PROVE  /\ m.type = "ack" => AckState(v, m) \in Themes
           /\ m.type = "begin" => BeginLayout(v, m) \in Themes
           /\ m.type = "tile" => AddTile(v) \in Themes
           /\ m.type = "pixels" => SubmitPixels(v, m) \in Themes
           /\ m.type = "commit" => CommitLayout(v, m) \in Themes
<1>1. Aborted(v) \in Themes /\ Refused(v) \in Themes
  BY AbortedType, RefusedType
<1>2. m.type = "ack" => AckState(v, m) \in Themes
  BY <1>1, AnswerTypes DEF AckState, Themes
<1>3. m.type = "begin" => BeginLayout(v, m) \in Themes
  <2> SUFFICES ASSUME m.type = "begin" PROVE BeginLayout(v, m) \in Themes
    OBVIOUS
  <2> DEFINE layout == [gen |-> m.gen, look |-> m.look, tiles |-> FALSE]
  <2>1. layout \in Layouts
    BY AnswerTypes DEF Layouts
  <2>2. \A u \in Themes : [u EXCEPT !.discard = TRUE] \in Themes
    BY DEF Themes
  <2> HIDE DEF layout
  <2>3. \A u \in Themes : [u EXCEPT !.discard = FALSE, !.fresh = FALSE, !.layout = v.serial,
                                    !.pending = layout] \in Themes
    BY <2>1 DEF Themes
  <2> QED
    BY <1>1, <2>2, <2>3 DEF BeginLayout, layout
<1>4. AddTile(v) \in Themes
  <2> DEFINE u == [v EXCEPT !.pending = [v.pending EXCEPT !.tiles = TRUE]]
  <2>1. v.pending # NoAtlas => [v.pending EXCEPT !.tiles = TRUE] \in Layouts
    BY DEF Themes, Layouts
  <2>2. v.pending # NoAtlas => u \in Themes
    BY <2>1 DEF Themes
  <2>3. WithTile(v) = u
    BY DEF WithTile
  <2> QED
    BY <1>1, <2>2, <2>3 DEF AddTile
<1>5. m.type = "pixels" => SubmitPixels(v, m) \in Themes
  <2> SUFFICES ASSUME m.type = "pixels" PROVE SubmitPixels(v, m) \in Themes
    OBVIOUS
  <2> DEFINE picture == [gen |-> m.gen, look |-> m.look, drawn |-> m.drawn]
  <2>1. picture \in Pictures
    BY AnswerTypes DEF Pictures
  <2> HIDE DEF picture
  <2>2. [v EXCEPT !.pixels = picture] \in Themes
    BY <2>1 DEF Themes
  <2> QED
    BY <1>1, <2>2, TryPublishType DEF SubmitPixels, picture
<1>6. CommitLayout(v, m) \in Themes
  <2>1. [v EXCEPT !.discard = FALSE] \in Themes /\ [v EXCEPT !.requested = TRUE] \in Themes
    BY DEF Themes
  <2> QED
    BY <1>1, <2>1, TryPublishType DEF CommitLayout
<1> QED
  BY <1>2, <1>3, <1>4, <1>5, <1>6

LEMMA ScheduleType ==
    ASSUME NEW r \in Renderers
    PROVE  ScheduleRender(r) \in Renderers
<1>1. [r EXCEPT !.render = TRUE] \in Renderers
  BY DEF Renderers
<1> QED
  BY <1>1 DEF ScheduleRender

-----------------------------------------------------------------------------
(***************************************************************************)
(* The two streams of messages, longer by one at their end or shorter by   *)
(* one at their front.                                                     *)
(***************************************************************************)
LEMMA AppendFacts ==
    ASSUME NEW S, NEW q \in Seq(S), NEW m \in S
    PROVE  /\ Append(q, m) \in Seq(S) /\ q \o <<m>> = Append(q, m)
           /\ Len(q) \in Nat /\ Len(Append(q, m)) = Len(q) + 1
           /\ Append(q, m)[Len(q) + 1] = m
           /\ \A i \in 1 .. Len(q) : Append(q, m)[i] = q[i] /\ q[i] \in S
OBVIOUS

LEMMA TailFacts ==
    ASSUME NEW S, NEW q \in Seq(S), q # <<>>
    PROVE  /\ Tail(q) \in Seq(S) /\ Head(q) = q[1] /\ q[1] \in S
           /\ Len(q) \in Nat \ {0} /\ Len(Tail(q)) = Len(q) - 1
           /\ \A i \in 1 .. Len(q) - 1 : Tail(q)[i] = q[i + 1]
OBVIOUS

\* A message that is neither an acknowledgement nor announces a layout says
\* nothing of states.
LEMMA NeutralAppended ==
    ASSUME NEW q \in Seq(Answers), NEW m \in Answers, m.type \notin {"ack", "begin"},
           NEW v, NEW r
    PROVE  /\ AcksOk(q, v, r) => AcksOk(Append(q, m), v, r)
           /\ BeginsOk(q, v, r) => BeginsOk(Append(q, m), v, r)
<1> DEFINE n == Append(q, m)
           N == Len(q)
<1>1. /\ N \in Nat /\ Len(n) = N + 1 /\ n[N + 1] = m
      /\ \A i \in 1 .. N : n[i] = q[i]
  BY AppendFacts
<1>2. \A i \in 1 .. N + 1 : n[i].type \in {"ack", "begin"} => i \in 1 .. N
  BY <1>1
<1> HIDE DEF n
<1>3. \A i \in 1 .. N : \A j \in i + 1 .. N : j \in i + 1 .. Len(n) /\ n[j] = q[j]
  BY <1>1
<1>4. \A i \in 1 .. N : \A j \in i + 1 .. Len(n) : n[j].type \in {"ack", "begin"} => j \in i + 1 .. N
  BY <1>1, <1>2
<1>5. AcksOk(q, v, r) => AcksOk(n, v, r)
  <2> SUFFICES ASSUME AcksOk(q, v, r) PROVE AcksOk(n, v, r)
    OBVIOUS
  <2>1. ASSUME NEW i \in 1 .. Len(n), n[i].type = "ack"
        PROVE  /\ v.acked < n[i].serial /\ n[i].serial <= r.serial
               /\ ~r.packed => n[i].serial < r.serial
               /\ \A j \in i + 1 .. Len(n) : n[j].type = "ack" => n[i].serial < n[j].serial
               /\ Drawn(r) => \E j \in i + 1 .. Len(n) : Begins(n[j], r)
    <3>1. i \in 1 .. N /\ n[i] = q[i]
      BY <1>1, <1>2, <2>1
    <3> QED
      BY <3>1, <2>1, <1>1, <1>3, <1>4 DEF AcksOk
  <2>2. r.packed /\ r.serial = v.serial =>
          v.acked = r.serial \/ \E i \in 1 .. Len(n) : n[i].type = "ack" /\ n[i].serial = r.serial
    BY <1>1 DEF AcksOk
  <2> QED
    BY <2>1, <2>2 DEF AcksOk
<1>6. BeginsOk(q, v, r) => BeginsOk(n, v, r)
  <2> SUFFICES ASSUME BeginsOk(q, v, r) PROVE BeginsOk(n, v, r)
    OBVIOUS
  <2>1. ASSUME NEW i \in 1 .. Len(n), n[i].type = "begin"
        PROVE  /\ v.pending = NoAtlas
               /\ n[i].gen # 0 /\ n[i].gen <= r.gen /\ (v.shown # NoAtlas => v.shown.gen < n[i].gen)
               /\ \A j \in i + 1 .. Len(n) :
                    n[j].type = "begin" => \E k \in i + 1 .. j - 1 : n[k].type = "ack"
               /\ \/ \E k \in i + 1 .. Len(n) : n[k].type = "ack"
                  \/ ~r.packed
                  \/ Drawn(r) /\ Begins(n[i], r)
    <3>1. i \in 1 .. N /\ n[i] = q[i]
      BY <1>1, <1>2, <2>1
    <3>2. ASSUME NEW j \in i + 1 .. Len(n), n[j].type = "begin"
          PROVE  \E k \in i + 1 .. j - 1 : n[k].type = "ack"
      <4>1. j \in i + 1 .. N /\ q[j].type = "begin"
        BY <1>3, <1>4, <3>1, <3>2
      <4>2. PICK k \in i + 1 .. j - 1 : q[k].type = "ack"
        BY <4>1, <3>1, <2>1 DEF BeginsOk
      <4>3. k \in 1 .. N
        BY <4>1, <3>1, <1>1
      <4> QED
        BY <4>2, <4>3, <1>1
    <3> QED
      BY <3>1, <3>2, <2>1, <1>1, <1>3 DEF BeginsOk
  <2> QED
    BY <2>1 DEF BeginsOk
<1> QED
  BY <1>5, <1>6 DEF n

\* What has been sent of a layout is followed by what is next of it.
LEMMA LayoutsAppended ==
    ASSUME NEW q \in Seq(Answers), NEW v, LayoutsOk(q, v), NEW m \in Answers,
           m.type \in {"ack", "begin", "pixels"},
           m.type = "pixels" =>
             /\ m.drawn = m.look
             /\ IF Len(q) = 0 THEN IsBegun(v, m.gen, m.look)
                ELSE q[Len(q)].type = "begin" /\ q[Len(q)].gen = m.gen /\ q[Len(q)].look = m.look
    PROVE  LayoutsOk(Append(q, m), v)
<1> DEFINE n == Append(q, m)
           N == Len(q)
<1>1. /\ N \in Nat /\ Len(n) = N + 1 /\ n[N + 1] = m
      /\ \A i \in 1 .. N : n[i] = q[i]
  BY AppendFacts
<1> HIDE DEF n
<1> SUFFICES ASSUME NEW i \in 1 .. N + 1
             PROVE  /\ n[i].type = "pixels" =>
                         /\ n[i].drawn = n[i].look
                         /\ IF i = 1 THEN IsBegun(v, n[i].gen, n[i].look)
                            ELSE n[i - 1].type = "begin" /\ n[i - 1].gen = n[i].gen
                                 /\ n[i - 1].look = n[i].look
                    /\ n[i].type = "tile" =>
                         /\ i < N + 1 /\ n[i + 1].type = "commit"
                         /\ IF i = 1 THEN IsDrawn(v, n[i + 1].gen)
                            ELSE n[i - 1].type = "pixels" /\ n[i - 1].gen = n[i + 1].gen
                    /\ n[i].type = "commit" =>
                         IF i = 1 THEN IsTiled(v, n[i].gen) ELSE n[i - 1].type = "tile"
  BY <1>1 DEF LayoutsOk, n
<1>2. CASE i = N + 1
  BY <1>2, <1>1
<1>3. CASE i \in 1 .. N
  <2>1. n[i] = q[i] /\ (i > 1 => n[i - 1] = q[i - 1]) /\ (i < N => n[i + 1] = q[i + 1])
    BY <1>1, <1>3
  <2> QED
    BY <2>1, <1>1, <1>3 DEF LayoutsOk
<1> QED
  BY <1>1, <1>2, <1>3

LEMMA LayoutSent ==
    ASSUME NEW q \in Seq(Answers), NEW v, LayoutsOk(q, v), NEW gen \in Nat,
           IF Len(q) = 0 THEN IsDrawn(v, gen) ELSE q[Len(q)].type = "pixels" /\ q[Len(q)].gen = gen
    PROVE  LayoutsOk(Append(Append(q, [type |-> "tile"]), [type |-> "commit", gen |-> gen]), v)
<1> DEFINE n == Append(Append(q, [type |-> "tile"]), [type |-> "commit", gen |-> gen])
           N == Len(q)
<1>0. [type |-> "tile"] \in Answers /\ [type |-> "commit", gen |-> gen] \in Answers
  BY DEF Answers
<1>1. /\ N \in Nat /\ Len(n) = N + 2
      /\ n[N + 1] = [type |-> "tile"] /\ n[N + 2] = [type |-> "commit", gen |-> gen]
      /\ \A i \in 1 .. N : n[i] = q[i]
  OBVIOUS
<1> HIDE DEF n
<1> SUFFICES ASSUME NEW i \in 1 .. N + 2
             PROVE  /\ n[i].type = "pixels" =>
                         /\ n[i].drawn = n[i].look
                         /\ IF i = 1 THEN IsBegun(v, n[i].gen, n[i].look)
                            ELSE n[i - 1].type = "begin" /\ n[i - 1].gen = n[i].gen
                                 /\ n[i - 1].look = n[i].look
                    /\ n[i].type = "tile" =>
                         /\ i < N + 2 /\ n[i + 1].type = "commit"
                         /\ IF i = 1 THEN IsDrawn(v, n[i + 1].gen)
                            ELSE n[i - 1].type = "pixels" /\ n[i - 1].gen = n[i + 1].gen
                    /\ n[i].type = "commit" =>
                         IF i = 1 THEN IsTiled(v, n[i].gen) ELSE n[i - 1].type = "tile"
  BY <1>1 DEF LayoutsOk, n
<1>2. CASE i = N + 2
  BY <1>2, <1>1
<1>3. CASE i = N + 1
  BY <1>3, <1>1
<1>4. CASE i \in 1 .. N
  <2>1. n[i] = q[i] /\ (i > 1 => n[i - 1] = q[i - 1]) /\ (i < N => n[i + 1] = q[i + 1])
    BY <1>1, <1>4
  <2> QED
    BY <2>1, <1>1, <1>4 DEF LayoutsOk
<1> QED
  BY <1>1, <1>2, <1>3, <1>4

\* The server's record u after the first message, h.
Takes(h, u, next) ==
    /\ h.type = "begin" => IsBegun(u, h.gen, h.look)
    /\ h.type = "pixels" => IsDrawn(u, h.gen)
    /\ h.type = "tile" => IsTiled(u, next)

LEMMA LayoutsTail ==
    ASSUME NEW q \in Seq(Answers), q # <<>>, NEW v, LayoutsOk(q, v), NEW u, Takes(q[1], u, q[2].gen)
    PROVE  LayoutsOk(Tail(q), u)
<1> DEFINE t == Tail(q)
           N == Len(q)
<1>1. N \in Nat \ {0} /\ Len(t) = N - 1 /\ \A i \in 1 .. N - 1 : t[i] = q[i + 1]
  BY TailFacts
<1> HIDE DEF t
<1> SUFFICES ASSUME NEW i \in 1 .. N - 1
             PROVE  /\ t[i].type = "pixels" =>
                         /\ t[i].drawn = t[i].look
                         /\ IF i = 1 THEN IsBegun(u, t[i].gen, t[i].look)
                            ELSE t[i - 1].type = "begin" /\ t[i - 1].gen = t[i].gen
                                 /\ t[i - 1].look = t[i].look
                    /\ t[i].type = "tile" =>
                         /\ i < N - 1 /\ t[i + 1].type = "commit"
                         /\ IF i = 1 THEN IsDrawn(u, t[i + 1].gen)
                            ELSE t[i - 1].type = "pixels" /\ t[i - 1].gen = t[i + 1].gen
                    /\ t[i].type = "commit" =>
                         IF i = 1 THEN IsTiled(u, t[i].gen) ELSE t[i - 1].type = "tile"
  BY <1>1 DEF LayoutsOk, t
<1>2. /\ i + 1 \in 1 .. N /\ t[i] = q[i + 1] /\ (i < N - 1 => t[i + 1] = q[i + 2])
      /\ (i > 1 => t[i - 1] = q[i])
  BY <1>1
<1> QED
  BY <1>1, <1>2 DEF LayoutsOk, Takes

LEMMA LayingTail ==
    ASSUME NEW q \in Seq(Answers), q # <<>>, NEW v, NEW r, LayingOk(q, v, r), NEW u,
           Takes(q[1], u, q[2].gen)
    PROVE  LayingOk(Tail(q), u, r)
<1> DEFINE t == Tail(q)
           N == Len(q)
<1>1. N \in Nat \ {0} /\ Len(t) = N - 1 /\ \A i \in 1 .. N - 1 : t[i] = q[i + 1]
  BY TailFacts
<1> HIDE DEF t
<1>2. CASE N = 1
  BY <1>1, <1>2 DEF LayingOk, Takes, Begins, t
<1>3. CASE N # 1
  <2>1. Len(t) # 0 /\ t[Len(t)] = q[N]
    BY <1>1, <1>3
  <2> QED
    BY <1>1, <1>3, <2>1 DEF LayingOk, t
<1> QED
  BY <1>2, <1>3

LEMMA AcksTail ==
    ASSUME NEW q \in Seq(Answers), q # <<>>, NEW v, NEW r, AcksOk(q, v, r), NEW u, u.serial = v.serial,
           u.acked = IF q[1].type = "ack" /\ q[1].serial = v.serial THEN v.serial ELSE v.acked
    PROVE  AcksOk(Tail(q), u, r)
<1> DEFINE t == Tail(q)
           N == Len(q)
<1>1. N \in Nat \ {0} /\ Len(t) = N - 1 /\ \A i \in 1 .. N - 1 : t[i] = q[i + 1]
  BY TailFacts
<1> HIDE DEF t
<1>2. ASSUME NEW i \in 1 .. N - 1, t[i].type = "ack"
      PROVE  /\ u.acked < t[i].serial /\ t[i].serial <= r.serial
             /\ ~r.packed => t[i].serial < r.serial
             /\ \A j \in i + 1 .. N - 1 : t[j].type = "ack" => t[i].serial < t[j].serial
             /\ Drawn(r) => \E j \in i + 1 .. N - 1 : Begins(t[j], r)
  <2>1. i + 1 \in 1 .. N /\ t[i] = q[i + 1] /\ i + 1 \in 2 .. N /\ 1 \in 1 .. N
    BY <1>1
  <2>2. \A j \in i + 1 .. N - 1 : j + 1 \in (i + 1) + 1 .. N /\ t[j] = q[j + 1]
    BY <1>1, <2>1
  <2>3. \A j \in (i + 1) + 1 .. N : j - 1 \in i + 1 .. N - 1 /\ t[j - 1] = q[j]
    BY <1>1, <2>1
  <2>4. q[1].type = "ack" => q[1].serial < t[i].serial
    BY <1>2, <2>1 DEF AcksOk
  <2>5. v.acked < t[i].serial
    BY <1>2, <2>1 DEF AcksOk
  <2>6. Drawn(r) => \E j \in (i + 1) + 1 .. N : Begins(q[j], r)
    BY <1>2, <2>1 DEF AcksOk
  <2>7. \A j \in (i + 1) + 1 .. N : q[j].type = "ack" => q[i + 1].serial < q[j].serial
    BY <1>2, <2>1 DEF AcksOk
  <2>8. t[i].serial <= r.serial /\ (~r.packed => t[i].serial < r.serial)
    BY <1>2, <2>1 DEF AcksOk
  <2>9. \A j \in i + 1 .. N - 1 : t[j].type = "ack" => t[i].serial < t[j].serial
    BY <2>1, <2>2, <2>7
  <2>10. Drawn(r) => \E j \in i + 1 .. N - 1 : Begins(t[j], r)
    BY <2>3, <2>6
  <2> QED
    BY <2>4, <2>5, <2>8, <2>9, <2>10
<1>3. r.packed /\ r.serial = u.serial =>
        u.acked = r.serial \/ \E i \in 1 .. N - 1 : t[i].type = "ack" /\ t[i].serial = r.serial
  <2> SUFFICES ASSUME r.packed, r.serial = v.serial, u.acked # r.serial
               PROVE  \E i \in 1 .. N - 1 : t[i].type = "ack" /\ t[i].serial = r.serial
    OBVIOUS
  <2>2. v.acked # r.serial /\ ~(q[1].type = "ack" /\ q[1].serial = r.serial)
    OBVIOUS
  <2>3. PICK i \in 1 .. N : q[i].type = "ack" /\ q[i].serial = r.serial
    BY <2>2 DEF AcksOk
  <2>4. i # 1
    BY <2>2, <2>3
  <2>5. i - 1 \in 1 .. N - 1 /\ t[i - 1] = q[i]
    BY <1>1, <2>4
  <2> QED
    BY <2>3, <2>5
<1> QED
  BY <1>1, <1>2, <1>3 DEF AcksOk, t

LEMMA BeginsTail ==
    ASSUME NEW q \in Seq(Answers), q # <<>>, NEW v, NEW r, BeginsOk(q, v, r), NEW u,
           \/ u.pending = NoAtlas /\ u.shown = v.shown
           \/ \A i \in 2 .. Len(q) : q[i].type # "begin",
           u.pending # NoAtlas => ~r.packed \/ Drawn(r)
    PROVE  BeginsOk(Tail(q), u, r)
<1> DEFINE t == Tail(q)
           N == Len(q)
<1>1. N \in Nat \ {0} /\ Len(t) = N - 1 /\ \A i \in 1 .. N - 1 : t[i] = q[i + 1]
  BY TailFacts
<1> HIDE DEF t
<1>2. ASSUME NEW i \in 1 .. N - 1, t[i].type = "begin"
      PROVE  /\ u.pending = NoAtlas
             /\ t[i].gen # 0 /\ t[i].gen <= r.gen /\ (u.shown # NoAtlas => u.shown.gen < t[i].gen)
             /\ \A j \in i + 1 .. N - 1 :
                  t[j].type = "begin" => \E k \in i + 1 .. j - 1 : t[k].type = "ack"
             /\ \/ \E k \in i + 1 .. N - 1 : t[k].type = "ack"
                \/ ~r.packed
                \/ Drawn(r) /\ Begins(t[i], r)
  <2>1. i + 1 \in 1 .. N /\ t[i] = q[i + 1] /\ i + 1 \in 2 .. N
    BY <1>1
  <2>2. \A j \in i + 1 .. N - 1 : j + 1 \in (i + 1) + 1 .. N /\ t[j] = q[j + 1]
    BY <1>1, <2>1
  <2>3. \A j \in (i + 1) + 1 .. N : j - 1 \in i + 1 .. N - 1 /\ t[j - 1] = q[j]
    BY <1>1, <2>1
  <2>4. u.pending = NoAtlas /\ u.shown = v.shown
    BY <1>2, <2>1
  <2>5. t[i].gen # 0 /\ t[i].gen <= r.gen /\ (u.shown # NoAtlas => u.shown.gen < t[i].gen)
    BY <1>2, <2>1, <2>4 DEF BeginsOk
  <2>6. ASSUME NEW j \in i + 1 .. N - 1, t[j].type = "begin"
        PROVE  \E k \in i + 1 .. j - 1 : t[k].type = "ack"
    <3>1. j + 1 \in (i + 1) + 1 .. N /\ q[j + 1].type = "begin"
      BY <2>2, <2>6
    <3>2. PICK k \in (i + 1) + 1 .. (j + 1) - 1 : q[k].type = "ack"
      BY <1>2, <2>1, <3>1 DEF BeginsOk
    <3>3. k \in (i + 1) + 1 .. N /\ k - 1 \in i + 1 .. j - 1
      <4> HIDE DEF t
      <4> QED
        BY <1>1, <3>2
    <3>4. t[k - 1] = q[k]
      BY <2>3, <3>3
    <3> QED
      BY <3>2, <3>3, <3>4
  <2>7. \/ \E k \in (i + 1) + 1 .. N : q[k].type = "ack"
        \/ ~r.packed
        \/ Drawn(r) /\ Begins(t[i], r)
    BY <1>2, <2>1 DEF BeginsOk
  <2>8. \/ \E k \in i + 1 .. N - 1 : t[k].type = "ack"
        \/ ~r.packed
        \/ Drawn(r) /\ Begins(t[i], r)
    BY <2>3, <2>7
  <2> QED
    BY <2>4, <2>5, <2>6, <2>8
<1> QED
  BY <1>1, <1>2 DEF BeginsOk, t

\* What is to show once the first message is taken.
LEMMA CurrentTail ==
    ASSUME NEW q \in Seq(Answers), q # <<>>, NEW v, NEW r, CurrentOk(q, v, r),
           NEW u, u.serial = v.serial, u.look = v.look,
           (\A i \in 2 .. Len(q) : q[i].type # "begin") /\ Drawn(r) /\ r.serial = v.serial => ~u.discard,
           u.shown = v.shown \/ (u.shown # NoAtlas /\ u.shown.look = u.look),
           q[1].type = "commit" /\ Len(q) = 1 /\ Drawn(r) /\ r.serial = v.serial =>
             u.shown # NoAtlas /\ u.shown.look = u.look
    PROVE  CurrentOk(Tail(q), u, r)
<1> DEFINE t == Tail(q)
           N == Len(q)
<1>1. N \in Nat \ {0} /\ Len(t) = N - 1 /\ \A i \in 1 .. N - 1 : t[i] = q[i + 1]
  BY TailFacts
<1> HIDE DEF t
<1> SUFFICES ASSUME Drawn(r), r.serial = v.serial
             PROVE  /\ (\A i \in 1 .. N - 1 : t[i].type # "begin") => ~u.discard
                    /\ ~r.laying /\ ~r.quit =>
                         \/ u.shown # NoAtlas /\ u.shown.look = u.look
                         \/ N - 1 # 0 /\ t[N - 1].type = "commit"
  BY <1>1 DEF CurrentOk, t
<1>2. \A i \in 2 .. N : i - 1 \in 1 .. N - 1 /\ t[i - 1] = q[i]
  BY <1>1
<1>3. N # 1 => t[N - 1] = q[N]
  BY <1>1
<1> QED
  BY <1>1, <1>2, <1>3 DEF CurrentOk

-----------------------------------------------------------------------------
(***************************************************************************)
(* The server takes a request.                                             *)
(***************************************************************************)
WholeOf(v) ==
    v.shown # NoAtlas =>
      v.picture # NoAtlas /\ v.picture.gen = v.shown.gen /\ v.picture.drawn = v.shown.look

\* The invariant with the server's record and the requests as given.
Linking(v, q) ==
    /\ WholeOf(v) /\ v.link = "up"
    /\ StatesOk(states, v, renderer) /\ ThemeOk(v, renderer) /\ LayoutsOk(q, v)
    /\ AcksOk(q, v, renderer) /\ BeginsOk(q, v, renderer) /\ CurrentOk(q, v, renderer)
    /\ LayingOk(q, v, renderer) /\ RendererOk(renderer)

LEMMA StatesSame ==
    ASSUME NEW v, NEW r, StatesOk(states, v, r), NEW u, u.serial = v.serial, u.look = v.look
    PROVE  StatesOk(states, u, r)
BY DEF StatesOk

LEMMA FirstIs ==
    ASSUME answers \in Seq(Answers), answers # <<>>, LayoutsOk(answers, theme)
    PROVE  LET h == answers[1] IN
           /\ h \in Answers
           /\ h.type = "pixels" => IsBegun(theme, h.gen, h.look) /\ h.drawn = h.look
           /\ h.type = "tile" => IsDrawn(theme, answers[2].gen) /\ Len(answers) > 1
           /\ h.type = "commit" => IsTiled(theme, h.gen)
<1>1. Len(answers) \in Nat \ {0} /\ answers[1] \in Answers
  BY TailFacts
<1>2. 1 \in 1 .. Len(answers)
  BY <1>1
<1> QED
  BY <1>1, <1>2 DEF LayoutsOk

LEMMA AckServed ==
    ASSUME AtlasTypes, Linking(theme, answers), answers # <<>>, answers[1].type = "ack"
    PROVE  Linking(AckState(theme, answers[1]), Tail(answers))
<1> DEFINE v == theme
           r == renderer
           h == answers[1]
           u == AckState(v, h)
<1>1. /\ v \in Themes /\ r \in Renderers /\ answers \in Seq(Answers) /\ h \in Answers
      /\ h.serial \in Nat /\ 1 \in 1 .. Len(answers)
  BY TailFacts, AnswerTypes DEF AtlasTypes
<1>2. v.acked < h.serial /\ h.serial <= r.serial /\ (~r.packed => h.serial < r.serial)
  BY <1>1 DEF Linking, AcksOk
<1>3. r.serial <= v.serial /\ {v.acked, v.serial, r.serial} \subseteq Nat
  BY <1>1 DEF Linking, ThemeOk, Themes, Renderers
<1>4. u = IF h.serial = v.serial THEN [v EXCEPT !.acked = h.serial] ELSE v
  BY <1>1, <1>2, <1>3 DEF AckState
<1>5. v.pending = NoAtlas
  BY <1>1, <1>2, <1>3 DEF Linking, ThemeOk
<1>6. /\ u.serial = v.serial /\ u.look = v.look /\ u.pending = NoAtlas /\ u.discard = v.discard
      /\ u.shown = v.shown /\ u.picture = v.picture /\ u.link = v.link /\ u.sent = v.sent
      /\ u.pixels = v.pixels /\ u.layout = v.layout /\ u.requested = v.requested
      /\ u.acked = IF h.serial = v.serial THEN v.serial ELSE v.acked
  BY <1>1, <1>4, <1>5 DEF Themes
<1> HIDE DEF u
<1>7. ThemeOk(u, r)
  BY <1>2, <1>3, <1>5, <1>6 DEF Linking, ThemeOk
<1>8. Takes(h, u, answers[2].gen)
  BY DEF Takes
<1>9. CurrentOk(Tail(answers), u, r)
  <2>1. (\A i \in 2 .. Len(answers) : answers[i].type # "begin") =>
           \A i \in 1 .. Len(answers) : answers[i].type # "begin"
    BY <1>1
  <2>2. CurrentOk(answers, v, r)
    BY DEF Linking
  <2>3. (\A i \in 2 .. Len(answers) : answers[i].type # "begin") /\ Drawn(r) /\ r.serial = v.serial
          => ~u.discard
    BY <1>6, <2>1, <2>2 DEF CurrentOk
  <2> QED
    BY <1>1, <1>6, <2>2, <2>3, CurrentTail
<1> QED
  BY <1>1, <1>6, <1>7, <1>8, <1>9, StatesSame, LayoutsTail, AcksTail, BeginsTail, LayingTail
  DEF Linking, WholeOf, u

LEMMA AbortedFields ==
    ASSUME NEW v \in Themes
    PROVE  /\ Aborted(v).pending = NoAtlas /\ Aborted(v).pixels = NoAtlas /\ Aborted(v).layout = 0
           /\ ~Aborted(v).requested /\ Aborted(v).serial = v.serial /\ Aborted(v).look = v.look
           /\ Aborted(v).shown = v.shown /\ Aborted(v).picture = v.picture
           /\ Aborted(v).link = v.link /\ Aborted(v).sent = v.sent /\ Aborted(v).acked = v.acked
           /\ Aborted(v).discard = v.discard
BY DEF Aborted, Themes

LEMMA BeginServed ==
    ASSUME AtlasTypes, Linking(theme, answers), answers # <<>>, answers[1].type = "begin"
    PROVE  Linking(BeginLayout(theme, answers[1]), Tail(answers))
<1> DEFINE v == theme
           r == renderer
           h == answers[1]
           N == Len(answers)
           u == BeginLayout(v, h)
<1>1. /\ v \in Themes /\ r \in Renderers /\ answers \in Seq(Answers) /\ h \in Answers
      /\ h.gen \in Nat /\ h.look \in Looks /\ 1 \in 1 .. N /\ N \in Nat
  BY TailFacts, AnswerTypes DEF AtlasTypes
<1>2. /\ v.pending = NoAtlas /\ h.gen # 0 /\ h.gen <= r.gen /\ (v.shown # NoAtlas => v.shown.gen < h.gen)
      /\ \A j \in 2 .. N : answers[j].type = "begin" => \E k \in 2 .. j - 1 : answers[k].type = "ack"
      /\ \/ \E k \in 2 .. N : answers[k].type = "ack"
         \/ ~r.packed
         \/ Drawn(r) /\ Begins(h, r)
  BY <1>1 DEF Linking, BeginsOk
<1>3. /\ r.serial <= v.serial /\ {v.acked, v.serial, r.serial, r.gen} \subseteq Nat
      /\ v.serial # 0 /\ v.acked <= r.serial /\ (~r.packed /\ r.serial # 0 => v.acked < r.serial)
      /\ v.sent = v.look /\ v.layout = 0 /\ v.pixels = NoAtlas /\ ~v.requested
  BY <1>1, <1>2 DEF Linking, ThemeOk, Themes, Renderers
<1>4. \A k \in 1 .. N : answers[k].type = "ack" => v.acked < answers[k].serial /\ answers[k].serial <= r.serial
                          /\ answers[k].serial \in Nat
  <2>1. \A k \in 1 .. N : answers[k] \in Answers
    BY <1>1
  <2> QED
    BY <2>1, AnswerTypes DEF Linking, AcksOk
<1>5. CASE v.acked # v.serial
  <2>1. u = [Aborted(v) EXCEPT !.discard = TRUE]
    BY <1>5 DEF BeginLayout
  <2>2. /\ u.serial = v.serial /\ u.look = v.look /\ u.pending = NoAtlas /\ u.discard
        /\ u.shown = v.shown /\ u.picture = v.picture /\ u.link = v.link /\ u.sent = v.sent
        /\ u.pixels = NoAtlas /\ u.layout = 0 /\ ~u.requested /\ u.acked = v.acked
    BY <1>1, <2>1, AbortedType, AbortedFields DEF Themes
  <2> HIDE DEF u
  <2>3. ThemeOk(u, r)
    BY <1>3, <2>2 DEF Linking, ThemeOk
  <2>4. Takes(h, u, answers[2].gen)
    BY <2>2 DEF Takes, IsBegun
  <2>5. ~(\A i \in 2 .. N : answers[i].type # "begin") \/ ~Drawn(r) \/ r.serial # v.serial
    <3> SUFFICES ASSUME \A i \in 2 .. N : answers[i].type # "begin", Drawn(r), r.serial = v.serial
                 PROVE  FALSE
      OBVIOUS
    <3>1. r.packed
      BY DEF Linking, RendererOk
    <3>2. PICK i \in 1 .. N : answers[i].type = "ack" /\ answers[i].serial = r.serial
      BY <1>5, <3>1 DEF Linking, AcksOk
    <3>3. PICK j \in i + 1 .. N : Begins(answers[j], r)
      BY <3>2 DEF Linking, AcksOk
    <3>4. j \in 2 .. N
      BY <1>1, <3>2, <3>3
    <3> QED
      BY <3>3, <3>4 DEF Begins
  <2>6. CurrentOk(Tail(answers), u, r)
    BY <1>1, <2>2, <2>5, CurrentTail DEF Linking
  <2> QED
    BY <1>1, <2>2, <2>3, <2>4, <2>6, StatesSame, LayoutsTail, AcksTail, BeginsTail, LayingTail
    DEF Linking, WholeOf, u
<1>6. CASE v.acked = v.serial
  <2> DEFINE layout == [gen |-> h.gen, look |-> h.look, tiles |-> FALSE]
  <2>1. CanBegin(v, h)
    <3>1. v.shown # NoAtlas => v.shown.gen \in Nat
      BY <1>1 DEF Themes, Layouts
    <3> QED
      BY <1>1, <1>2, <3>1 DEF CanBegin
  <2>2. u = [Aborted(v) EXCEPT !.discard = FALSE, !.fresh = FALSE, !.layout = v.serial,
                               !.pending = layout]
    BY <1>6, <2>1 DEF BeginLayout
  <2>0. layout \in [gen : Nat, look : Looks, tiles : BOOLEAN]
    BY <1>1
  <2>3. layout # NoAtlas
    BY <2>0, AtlasAssumption
  <2>4. layout.gen = h.gen /\ layout.look = h.look
    OBVIOUS
  <2> HIDE DEF layout
  <2>5. /\ u.serial = v.serial /\ u.look = v.look /\ u.pending = layout /\ ~u.discard
        /\ u.shown = v.shown /\ u.picture = v.picture /\ u.link = v.link /\ u.sent = v.sent
        /\ u.pixels = NoAtlas /\ u.layout = v.serial /\ ~u.requested /\ u.acked = v.acked
    BY <1>1, <2>2, AbortedType, AbortedFields DEF Themes
  <2> HIDE DEF u
  <2>6. \A k \in 1 .. N : answers[k].type # "ack"
    BY <1>3, <1>4, <1>6
  <2>7. \A k \in 2 .. N : answers[k].type # "begin"
    BY <1>1, <1>2, <2>6
  <2>8. Drawn(r) /\ Begins(h, r) /\ r.serial = v.serial
    BY <1>1, <1>2, <1>3, <1>6, <2>6
  <2>9. h.look = v.look
    BY <2>8 DEF Begins, Linking, StatesOk
  <2>10. ThemeOk(u, r)
    BY <1>1, <1>2, <1>3, <1>6, <2>3, <2>4, <2>5, <2>9 DEF Linking, ThemeOk
  <2>11. Takes(h, u, answers[2].gen)
    BY <2>3, <2>4, <2>5 DEF Takes, IsBegun
  <2>12. CurrentOk(Tail(answers), u, r)
    BY <1>1, <2>5, CurrentTail DEF Linking
  <2> QED
    BY <1>1, <2>5, <2>7, <2>8, <2>10, <2>11, <2>12, StatesSame, LayoutsTail, AcksTail, BeginsTail,
       LayingTail DEF Linking, WholeOf, u
<1> QED
  BY <1>5, <1>6

\* A request that is ignored, or that changes only what is pending.
LEMMA PendingServed ==
    ASSUME AtlasTypes, Linking(theme, answers), answers # <<>>,
           answers[1].type \in {"tile", "pixels"},
           NEW u, u.serial = theme.serial, u.look = theme.look, u.discard = theme.discard,
           u.shown = theme.shown, u.picture = theme.picture, u.link = theme.link,
           u.acked = theme.acked, ThemeOk(u, renderer),
           u.pending = NoAtlas <=> theme.pending = NoAtlas,
           Takes(answers[1], u, answers[2].gen)
    PROVE  Linking(u, Tail(answers))
<1> DEFINE v == theme
           r == renderer
           N == Len(answers)
<1>1. answers \in Seq(Answers) /\ 1 \in 1 .. N /\ N \in Nat
  BY TailFacts DEF AtlasTypes
<1>2. u.pending # NoAtlas => \A i \in 1 .. N : answers[i].type # "begin"
  BY DEF Linking, BeginsOk
<1>3. u.pending # NoAtlas => ~r.packed \/ Drawn(r)
  BY DEF Linking, BeginsOk
<1>4. (\A i \in 2 .. N : answers[i].type # "begin") => \A i \in 1 .. N : answers[i].type # "begin"
  BY <1>1
<1>5. (\A i \in 2 .. N : answers[i].type # "begin") /\ Drawn(r) /\ r.serial = v.serial => ~u.discard
  BY <1>4 DEF Linking, CurrentOk
<1>6. CurrentOk(Tail(answers), u, r)
  BY <1>1, <1>5, CurrentTail DEF Linking
<1>7. BeginsOk(Tail(answers), u, r)
  BY <1>1, <1>2, <1>3, BeginsTail DEF Linking
<1>8. AcksOk(Tail(answers), u, r)
  BY <1>1, AcksTail DEF Linking
<1> QED
  BY <1>1, <1>6, <1>7, <1>8, StatesSame, LayoutsTail, LayingTail DEF Linking, WholeOf

LEMMA TileServed ==
    ASSUME AtlasTypes, Linking(theme, answers), answers # <<>>, answers[1].type = "tile"
    PROVE  Linking(AddTile(theme), Tail(answers))
<1> DEFINE v == theme
           u == AddTile(v)
           gen == answers[2].gen
<1>1. v \in Themes /\ answers \in Seq(Answers) /\ IsDrawn(v, gen)
  BY FirstIs DEF AtlasTypes, Linking
<1>2. CASE v.discard
  <2>1. u = v
    BY <1>2 DEF AddTile
  <2>2. Takes(answers[1], u, gen)
    BY <1>2, <2>1 DEF Takes, IsTiled
  <2>3. ThemeOk(u, renderer)
    BY <2>1 DEF Linking
  <2> HIDE DEF u
  <2> QED
    BY <2>1, <2>2, <2>3, PendingServed DEF u
<1>3. CASE ~v.discard
  <2>1. v.pending # NoAtlas /\ v.pending.gen = gen /\ HasPixels(v)
    BY <1>1, <1>3 DEF IsDrawn
  <2> DEFINE layout == [v.pending EXCEPT !.tiles = TRUE]
  <2>2. v.pending \in Layouts
    BY <1>1, <2>1 DEF Themes
  <2>3. layout \in [gen : Nat, look : Looks, tiles : BOOLEAN] /\ layout.tiles
        /\ layout.gen = v.pending.gen /\ layout.look = v.pending.look
    BY <2>2 DEF Layouts
  <2>4. layout # NoAtlas
    BY <2>3, AtlasAssumption
  <2>5. u = [v EXCEPT !.pending = layout]
    BY <1>3, <2>1 DEF AddTile, WithTile
  <2> HIDE DEF layout
  <2>6. /\ u.serial = v.serial /\ u.look = v.look /\ u.pending = layout /\ u.discard = v.discard
        /\ u.shown = v.shown /\ u.picture = v.picture /\ u.link = v.link /\ u.sent = v.sent
        /\ u.pixels = v.pixels /\ u.layout = v.layout /\ u.requested = v.requested
        /\ u.acked = v.acked
    BY <1>1, <2>5 DEF Themes
  <2> HIDE DEF u
  <2>7. ThemeOk(u, renderer)
    BY <2>1, <2>3, <2>4, <2>6 DEF Linking, ThemeOk
  <2>8. Takes(answers[1], u, gen)
    BY <2>1, <2>3, <2>4, <2>6 DEF Takes, IsTiled, HasPixels
  <2> QED
    BY <2>1, <2>4, <2>6, <2>7, <2>8, PendingServed DEF u
<1> QED
  BY <1>2, <1>3

LEMMA PixelsServed ==
    ASSUME AtlasTypes, Linking(theme, answers), answers # <<>>, answers[1].type = "pixels"
    PROVE  Linking(SubmitPixels(theme, answers[1]), Tail(answers))
<1> DEFINE v == theme
           h == answers[1]
           u == SubmitPixels(v, h)
<1>1. v \in Themes /\ answers \in Seq(Answers) /\ IsBegun(v, h.gen, h.look) /\ h.drawn = h.look
      /\ h \in Answers
  BY FirstIs DEF AtlasTypes, Linking
<1>2. CASE v.discard
  <2>1. u = v
    BY <1>2 DEF SubmitPixels
  <2>2. Takes(h, u, answers[2].gen)
    BY <1>2, <2>1 DEF Takes, IsDrawn
  <2>3. ThemeOk(u, renderer)
    BY <2>1 DEF Linking
  <2> HIDE DEF u
  <2> QED
    BY <2>1, <2>2, <2>3, PendingServed DEF u
<1>3. CASE ~v.discard
  <2>1. v.pending # NoAtlas /\ v.pending.gen = h.gen /\ v.pending.look = h.look
    BY <1>1, <1>3 DEF IsBegun
  <2> DEFINE picture == [gen |-> h.gen, look |-> h.look, drawn |-> h.drawn]
             w == [v EXCEPT !.pixels = picture]
  <2>2. h.gen \in Nat /\ h.look \in Looks
    BY <1>1, AnswerTypes
  <2>3. picture \in [gen : Nat, look : Looks, drawn : Looks] /\ picture.gen = h.gen
        /\ picture.look = h.look /\ picture.drawn = picture.look
    BY <1>1, <2>2
  <2>4. picture # NoAtlas
    BY <2>3, AtlasAssumption
  <2>5. u = TryPublish(w)
    BY <1>3, <2>1 DEF SubmitPixels
  <2> HIDE DEF picture
  <2>6. /\ w.serial = v.serial /\ w.look = v.look /\ w.pending = v.pending /\ w.discard = v.discard
        /\ w.shown = v.shown /\ w.picture = v.picture /\ w.link = v.link /\ w.sent = v.sent
        /\ w.pixels = picture /\ w.layout = v.layout /\ w.requested = v.requested
        /\ w.acked = v.acked
    BY <1>1 DEF Themes
  <2>7. ~w.requested
    BY <2>6 DEF Linking, ThemeOk
  <2> HIDE DEF w, u
  <2>8. u = w
    BY <2>5, <2>7 DEF TryPublish
  <2>9. ThemeOk(w, renderer)
    BY <2>1, <2>3, <2>6 DEF Linking, ThemeOk
  <2>10. Takes(h, w, answers[2].gen)
    BY <2>1, <2>3, <2>4, <2>6 DEF Takes, IsDrawn, HasPixels
  <2> QED
    BY <2>6, <2>8, <2>9, <2>10, PendingServed DEF u
<1> QED
  BY <1>2, <1>3

LEMMA CommitServed ==
    ASSUME AtlasTypes, Linking(theme, answers), answers # <<>>, answers[1].type = "commit"
    PROVE  Linking(CommitLayout(theme, answers[1]), Tail(answers))
<1> DEFINE v == theme
           r == renderer
           h == answers[1]
           N == Len(answers)
           u == CommitLayout(v, h)
<1>1. v \in Themes /\ answers \in Seq(Answers) /\ IsTiled(v, h.gen) /\ 1 \in 1 .. N /\ N \in Nat
  BY FirstIs, TailFacts DEF AtlasTypes, Linking
<1>2. CASE v.discard
  <2>1. u = [v EXCEPT !.discard = FALSE]
    BY <1>2 DEF CommitLayout
  <2>2. /\ u.serial = v.serial /\ u.look = v.look /\ u.pending = v.pending /\ ~u.discard
        /\ u.shown = v.shown /\ u.picture = v.picture /\ u.link = v.link /\ u.sent = v.sent
        /\ u.pixels = v.pixels /\ u.layout = v.layout /\ u.requested = v.requested
        /\ u.acked = v.acked
    BY <1>1, <2>1 DEF Themes
  <2> HIDE DEF u
  <2>3. ThemeOk(u, r)
    BY <2>2 DEF Linking, ThemeOk
  <2>4. u.pending = NoAtlas
    BY <1>2, <2>2 DEF Linking, ThemeOk
  <2>5. Takes(h, u, answers[2].gen)
    BY DEF Takes
  <2>6. N = 1 => \A i \in 1 .. N : answers[i].type # "begin"
    OBVIOUS
  <2>7. N = 1 => ~(Drawn(r) /\ r.serial = v.serial)
    BY <1>2, <2>6 DEF Linking, CurrentOk
  <2>8. CurrentOk(Tail(answers), u, r)
    BY <1>1, <2>2, <2>7, CurrentTail DEF Linking
  <2> QED
    BY <1>1, <2>2, <2>3, <2>4, <2>5, <2>8, StatesSame, LayoutsTail, AcksTail, BeginsTail, LayingTail
    DEF Linking, WholeOf, u
<1>3. CASE ~v.discard
  <2>1. v.pending # NoAtlas /\ v.pending.gen = h.gen /\ HasPixels(v) /\ v.pending.tiles
    BY <1>1, <1>3 DEF IsTiled
  <2>2. v.layout = v.serial /\ v.acked = v.serial /\ v.serial # 0 /\ v.pending.look = v.look
        /\ v.pixels.drawn = v.pixels.look /\ v.pending.gen <= r.gen
    BY <2>1 DEF Linking, ThemeOk, HasPixels
  <2> DEFINE w == [v EXCEPT !.requested = TRUE]
             a == Aborted(w)
  <2>3. ~OutOfDate(v) /\ CanCommit(v, h.gen)
    BY <2>1, <2>2 DEF OutOfDate, CanCommit
  <2>4. u = TryPublish(w)
    BY <1>3, <2>3 DEF CommitLayout
  <2>5. /\ w \in Themes /\ w.serial = v.serial /\ w.look = v.look /\ w.pending = v.pending
        /\ w.discard = v.discard /\ w.shown = v.shown /\ w.picture = v.picture /\ w.link = v.link
        /\ w.sent = v.sent /\ w.pixels = v.pixels /\ w.layout = v.layout /\ w.requested
        /\ w.acked = v.acked
    BY <1>1 DEF Themes
  <2> HIDE DEF w
  <2>6. ~OutOfDate(w) /\ CanCommit(w, w.pending.gen) /\ HasPixels(w) /\ w.pending # NoAtlas
        /\ w.layout # 0
    BY <2>1, <2>2, <2>5 DEF OutOfDate, CanCommit, HasPixels
  <2>7. u = [a EXCEPT !.shown = w.pending, !.picture = w.pixels, !.pixels = NoAtlas]
    BY <2>4, <2>5, <2>6 DEF TryPublish, HasPixels
  <2>8. a \in Themes /\ a.pending = NoAtlas /\ a.layout = 0 /\ ~a.requested /\ a.serial = w.serial
        /\ a.look = w.look /\ a.link = w.link /\ a.sent = w.sent /\ a.acked = w.acked
        /\ a.discard = w.discard
    BY <2>5, AbortedType, AbortedFields
  <2> HIDE DEF a, u
  <2>9. /\ u.serial = v.serial /\ u.look = v.look /\ u.pending = NoAtlas /\ ~u.discard
        /\ u.shown = v.pending /\ u.picture = v.pixels /\ u.link = v.link /\ u.sent = v.sent
        /\ u.pixels = NoAtlas /\ u.layout = 0 /\ ~u.requested /\ u.acked = v.acked
    BY <1>3, <2>5, <2>7, <2>8 DEF Themes
  <2>10. ThemeOk(u, r)
    BY <2>2, <2>9 DEF Linking, ThemeOk
  <2>11. Takes(h, u, answers[2].gen)
    BY DEF Takes
  <2>12. \A i \in 1 .. N : answers[i].type # "begin"
    BY <2>1 DEF Linking, BeginsOk
  <2>13. CurrentOk(Tail(answers), u, r)
    BY <1>1, <2>1, <2>2, <2>9, CurrentTail DEF Linking
  <2>14. WholeOf(u)
    BY <2>1, <2>2, <2>9 DEF WholeOf, HasPixels
  <2>15. \A i \in 2 .. N : answers[i].type # "begin"
    BY <1>1, <2>12
  <2> QED
    BY <1>1, <2>9, <2>10, <2>11, <2>13, <2>14, <2>15, StatesSame, LayoutsTail, AcksTail, BeginsTail,
       LayingTail DEF Linking, u
<1> QED
  BY <1>2, <1>3

LEMMA LinkedIs == AtlasIsWhole /\ theme.link = "up" /\ AtlasLinked <=> Linking(theme, answers)
BY DEF AtlasIsWhole, AtlasLinked, Linking, WholeOf

LEMMA ServeStep ==
    ASSUME AtlasTypes, Linking(theme, answers), Serve
    PROVE  AtlasTypes' /\ Linking(theme', answers') /\ UNCHANGED <<renderer, states>>
<1> DEFINE h == answers[1]
<1>1. answers # <<>> /\ answers \in Seq(Answers) /\ UNCHANGED <<renderer, states>>
      /\ answers' = Tail(answers) /\ theme \in Themes
  BY DEF Serve, AtlasTypes
<1>2. h \in Answers /\ Head(answers) = h /\ Tail(answers) \in Seq(Answers)
  BY <1>1, TailFacts
<1>3. h.type \in {"ack", "begin", "pixels", "tile", "commit"}
  BY <1>2, AnswerTypes
<1>4. /\ h.type = "ack" => theme' = AckState(theme, h)
      /\ h.type = "begin" => theme' = BeginLayout(theme, h)
      /\ h.type = "tile" => theme' = AddTile(theme)
      /\ h.type = "pixels" => theme' = SubmitPixels(theme, h)
      /\ h.type = "commit" => theme' = CommitLayout(theme, h)
  BY <1>2 DEF Serve
<1>5. theme' \in Themes
  BY <1>1, <1>2, <1>3, <1>4, ServedType
<1>6. Linking(theme', answers')
  BY <1>1, <1>3, <1>4, AckServed, BeginServed, TileServed, PixelsServed, CommitServed
<1> QED
  BY <1>1, <1>2, <1>5, <1>6 DEF AtlasTypes

-----------------------------------------------------------------------------
(***************************************************************************)
(* The other steps.                                                        *)
(***************************************************************************)
\* The invariant while the two are connected, of any values of the variables.
Together(v, r, s, q) ==
    /\ WholeOf(v) /\ v.link = "up"
    /\ StatesOk(s, v, r) /\ ThemeOk(v, r) /\ LayoutsOk(q, v)
    /\ AcksOk(q, v, r) /\ BeginsOk(q, v, r) /\ CurrentOk(q, v, r)
    /\ LayingOk(q, v, r) /\ RendererOk(r)

\* The renderer goes on with the same layout, or gives up.
LEMMA RendererSame ==
    ASSUME NEW v, NEW s, NEW q, NEW r \in Renderers, Together(v, r, s, q),
           NEW u \in Renderers, RendererOk(u),
           u.serial = r.serial, u.look = r.look, u.packed = r.packed, u.drawing = r.drawing,
           u.gen = r.gen, u.laying = r.laying, r.quit => u.quit,
           u.publish = r.publish \/ (u.quit /\ ~u.publish)
    PROVE  Together(v, u, s, q)
<1>1. Drawn(u) <=> Drawn(r)
  BY DEF Drawn
<1>2. \A m : Begins(m, u) <=> Begins(m, r)
  BY DEF Begins
<1> USE <1>1, <1>2 DEF Together
<1>3. StatesOk(s, v, u)
  BY DEF StatesOk
<1>4. ThemeOk(v, u)
  BY DEF ThemeOk
<1>5. AcksOk(q, v, u)
  BY DEF AcksOk
<1>6. BeginsOk(q, v, u)
  BY DEF BeginsOk
<1>7. CurrentOk(q, v, u)
  BY DEF CurrentOk, Renderers
<1>8. LayingOk(q, v, u)
  BY DEF LayingOk, Renderers
<1> QED
  BY <1>3, <1>4, <1>5, <1>6, <1>7, <1>8

LEMMA ThemeSame ==
    ASSUME NEW v, NEW s, NEW q, NEW r, Together(v, r, s, q), NEW u,
           u.link = v.link, u.look = v.look, u.sent = v.sent, u.serial = v.serial,
           u.acked = v.acked, u.pending = v.pending, u.layout = v.layout,
           u.requested = v.requested, u.discard = v.discard, u.pixels = v.pixels,
           u.shown = v.shown, u.picture = v.picture
    PROVE  Together(u, r, s, q)
<1> USE DEF Together, HasPixels, IsBegun, IsDrawn, IsTiled
<1>1. StatesOk(s, u, r)
  BY DEF StatesOk
<1>2. ThemeOk(u, r)
  BY DEF ThemeOk
<1>3. LayoutsOk(q, u)
  BY DEF LayoutsOk
<1>4. AcksOk(q, u, r)
  BY DEF AcksOk
<1>5. BeginsOk(q, u, r)
  BY DEF BeginsOk
<1>6. CurrentOk(q, u, r) /\ LayingOk(q, u, r) /\ WholeOf(u)
  BY DEF CurrentOk, LayingOk, WholeOf
<1> QED
  BY <1>1, <1>2, <1>3, <1>4, <1>5, <1>6

LEMMA SurfaceCommitStep ==
    ASSUME AtlasTypes, Together(theme, renderer, states, answers), SurfaceCommit
    PROVE  AtlasTypes' /\ Together(theme', renderer', states', answers')
<1>1. PICK look \in Looks :
        theme' = TryPublish([theme EXCEPT !.surface = look, !.fresh = TRUE,
                                          !.repaints = theme.repaints + 1])
  BY DEF SurfaceCommit
<1> DEFINE w == [theme EXCEPT !.surface = look, !.fresh = TRUE, !.repaints = theme.repaints + 1]
<1>2. theme.repaints + 1 \in Nat /\ theme \in Themes /\ look \in Looks
  BY <1>1 DEF AtlasTypes, Themes
<1>3. /\ w \in Themes
      /\ w.link = theme.link /\ w.look = theme.look /\ w.sent = theme.sent /\ w.serial = theme.serial
      /\ w.acked = theme.acked /\ w.pending = theme.pending /\ w.layout = theme.layout
      /\ w.requested = theme.requested /\ w.discard = theme.discard /\ w.pixels = theme.pixels
      /\ w.shown = theme.shown /\ w.picture = theme.picture
  BY <1>2 DEF Themes
<1> HIDE DEF w
<1>4. ~w.requested
  BY <1>3 DEF Together, ThemeOk
<1>5. theme' = w
  BY <1>1, <1>4 DEF TryPublish, w
<1>6. UNCHANGED <<renderer, states, answers>>
  BY DEF SurfaceCommit
<1>7. Together(w, renderer, states, answers)
  BY <1>3, ThemeSame
<1> QED
  BY <1>3, <1>5, <1>6, <1>7 DEF AtlasTypes

-----------------------------------------------------------------------------
LEMMA Scheduled ==
    ASSUME NEW r \in Renderers
    PROVE  /\ ScheduleRender(r).desktop = r.desktop /\ ScheduleRender(r).configured = r.configured
           /\ ScheduleRender(r).serial = r.serial /\ ScheduleRender(r).look = r.look
           /\ ScheduleRender(r).shell = r.shell /\ ScheduleRender(r).windows = r.windows
           /\ ScheduleRender(r).packed = r.packed /\ ScheduleRender(r).drawing = r.drawing
           /\ ScheduleRender(r).gen = r.gen /\ ScheduleRender(r).laying = r.laying
           /\ ScheduleRender(r).loading = r.loading /\ ScheduleRender(r).document = r.document
           /\ ScheduleRender(r).snapshot = r.snapshot /\ ScheduleRender(r).publish = r.publish
           /\ ScheduleRender(r).quit = r.quit
           /\ ScheduleRender(r).render =
                IF r.configured /\ HasRenderState(r) /\ ~r.laying /\ ~r.snapshot THEN TRUE ELSE r.render
BY DEF ScheduleRender, Renderers

LEMMA WindowConfiguredStep ==
    ASSUME AtlasTypes, Together(theme, renderer, states, answers), WindowConfigured
    PROVE  AtlasTypes' /\ Together(theme', renderer', states', answers')
<1> DEFINE r == renderer
           w == [r EXCEPT !.configured = TRUE]
           u == ScheduleRender(w)
<1>1. r \in Renderers /\ renderer' = u /\ ~r.configured /\ UNCHANGED <<theme, states, answers>>
  BY DEF AtlasTypes, WindowConfigured
<1>2. /\ w \in Renderers /\ w.configured
      /\ w.desktop = r.desktop /\ w.serial = r.serial /\ w.look = r.look /\ w.shell = r.shell
      /\ w.windows = r.windows /\ w.packed = r.packed /\ w.drawing = r.drawing /\ w.gen = r.gen
      /\ w.laying = r.laying /\ w.loading = r.loading /\ w.document = r.document
      /\ w.snapshot = r.snapshot /\ w.publish = r.publish /\ w.quit = r.quit /\ w.render = r.render
  BY <1>1 DEF Renderers
<1> HIDE DEF w
<1>3. u \in Renderers
  BY <1>2, ScheduleType
<1>4. RendererOk(r)
  BY DEF Together
<1>5. u.render = IF w.configured /\ HasRenderState(w) /\ ~w.laying /\ ~w.snapshot THEN TRUE ELSE w.render
  BY <1>2, Scheduled
<1>6. /\ u.configured = w.configured /\ u.serial = r.serial /\ u.look = r.look /\ u.shell = r.shell
      /\ u.desktop = r.desktop /\ u.windows = r.windows /\ u.packed = r.packed
      /\ u.drawing = r.drawing /\ u.gen = r.gen /\ u.laying = r.laying /\ u.loading = r.loading
      /\ u.document = r.document /\ u.snapshot = r.snapshot /\ u.publish = r.publish
      /\ u.quit = r.quit
  BY <1>2, Scheduled
<1>7. HasRenderState(w) = HasRenderState(r) /\ HasRenderState(u) = HasRenderState(r)
  BY <1>2, <1>6 DEF HasRenderState
<1> HIDE DEF u
<1>8. r.drawing = 0 /\ ~r.render /\ ~r.laying /\ ~r.snapshot /\ ~r.publish
      /\ (HasRenderState(r) => r.serial # 0) /\ ~Drawn(r)
  BY <1>1, <1>4 DEF RendererOk, Drawn
<1>9. u.render <=> HasRenderState(r)
  BY <1>2, <1>5, <1>7, <1>8
<1>10. RendererOk(u)
  BY <1>2, <1>4, <1>6, <1>7, <1>8, <1>9 DEF RendererOk, Drawn
<1>11. Together(theme, u, states, answers)
  BY <1>1, <1>3, <1>6, <1>10, RendererSame
<1> QED
  BY <1>1, <1>3, <1>11 DEF AtlasTypes

LEMMA LoadFinishedStep ==
    ASSUME AtlasTypes, Together(theme, renderer, states, answers), LoadFinished
    PROVE  AtlasTypes' /\ Together(theme', renderer', states', answers')
<1> DEFINE r == renderer
           u == [r EXCEPT !.document = r.loading, !.loading = NoAtlas,
                          !.snapshot = r.snapshot \/ r.laying]
<1>1. r \in Renderers /\ renderer' = u /\ r.loading # NoAtlas /\ UNCHANGED <<theme, states, answers>>
  BY DEF AtlasTypes, LoadFinished
<1>2. /\ u \in Renderers
      /\ u.configured = r.configured /\ u.serial = r.serial /\ u.look = r.look /\ u.shell = r.shell
      /\ u.desktop = r.desktop /\ u.windows = r.windows /\ u.packed = r.packed
      /\ u.drawing = r.drawing /\ u.gen = r.gen /\ u.laying = r.laying /\ u.loading = NoAtlas
      /\ u.document = r.loading /\ u.snapshot = (r.snapshot \/ r.laying) /\ u.publish = r.publish
      /\ u.quit = r.quit /\ u.render = r.render
  BY <1>1 DEF Renderers
<1>3. HasRenderState(u) = HasRenderState(r) /\ (Drawn(u) <=> Drawn(r))
  BY <1>2 DEF HasRenderState, Drawn
<1> HIDE DEF u
<1>4. RendererOk(r)
  BY DEF Together
<1>5. r.laying => r.loading = r.look /\ ~r.snapshot /\ ~r.publish /\ Drawn(r) /\ r.drawing # 0
  BY <1>1, <1>4 DEF RendererOk, Drawn
<1>6. RendererOk(u)
  BY <1>2, <1>3, <1>4, <1>5 DEF RendererOk
<1>7. Together(theme, u, states, answers)
  BY <1>1, <1>2, <1>6, RendererSame
<1> QED
  BY <1>1, <1>2, <1>7 DEF AtlasTypes

-----------------------------------------------------------------------------
LEMMA StateBeginsStep ==
    ASSUME AtlasTypes, Together(theme, renderer, states, answers), StateBegins
    PROVE  AtlasTypes' /\ Together(theme', renderer', states', answers')
<1> DEFINE v == theme
           r == renderer
           h == states[1]
           N == Len(states)
           t == Tail(states)
           u == [r EXCEPT !.serial = h.serial, !.look = h.look, !.shell = TRUE, !.windows = FALSE,
                          !.packed = FALSE, !.laying = FALSE, !.render = FALSE, !.publish = FALSE]
<1>1. /\ r \in Renderers /\ v \in Themes /\ states \in Seq(States) /\ states # <<>>
      /\ answers \in Seq(Answers)
  BY DEF AtlasTypes, StateBegins, Hears
<1>2. /\ t \in Seq(States) /\ Head(states) = h /\ h \in States
      /\ N \in Nat \ {0} /\ Len(t) = N - 1 /\ \A i \in 1 .. N - 1 : t[i] = states[i + 1]
  BY <1>1, TailFacts
<1>3. h.type = "state" /\ renderer' = u /\ states' = t /\ UNCHANGED <<theme, answers>>
  BY <1>2 DEF StateBegins, Hears
<1>4. h.serial \in Nat /\ h.look \in Looks /\ h.look # NoAtlas
  BY <1>2, AtlasAssumption DEF States
<1> HIDE DEF h, t
<1>5. /\ u \in Renderers
      /\ u.configured = r.configured /\ u.serial = h.serial /\ u.look = h.look /\ u.shell
      /\ u.desktop = r.desktop /\ ~u.windows /\ ~u.packed /\ u.drawing = r.drawing
      /\ u.gen = r.gen /\ ~u.laying /\ u.loading = r.loading /\ u.document = r.document
      /\ u.snapshot = r.snapshot /\ ~u.publish /\ u.quit = r.quit /\ ~u.render
  BY <1>1, <1>4 DEF Renderers
<1> HIDE DEF u
<1>6. 1 \in 1 .. N
  BY <1>2
<1>7. /\ 1 < N /\ states[2].type = "done" /\ states[2].serial = h.serial
      /\ r.serial < h.serial /\ h.serial <= v.serial /\ (h.serial = v.serial => h.look = v.look)
  BY <1>3, <1>6 DEF Together, StatesOk, h
<1>8. /\ {r.serial, r.drawing, v.serial, v.acked} \subseteq Nat /\ r.drawing <= r.serial
      /\ v.acked <= r.serial
  BY <1>1 DEF Together, RendererOk, ThemeOk, Renderers, Themes
<1>9. ~Drawn(u)
  BY <1>4, <1>5, <1>7, <1>8 DEF Drawn
<1>10. RendererOk(u)
  <2>1. u.snapshot => u.drawing # 0
    BY <1>5 DEF Together, RendererOk
  <2>2. ~u.configured => u.drawing = 0 /\ ~u.snapshot
    BY <1>5 DEF Together, RendererOk
  <2> QED
    BY <1>4, <1>5, <1>7, <1>8, <1>9, <2>1, <2>2 DEF RendererOk
<1>11. StatesOk(t, v, u)
  <2>1. ASSUME NEW i \in 1 .. N - 1
        PROVE  /\ t[i].type = "state" =>
                    i < N - 1 /\ t[i + 1].type = "done" /\ t[i + 1].serial = t[i].serial
                    /\ u.serial < t[i].serial
               /\ t[i].type = "done" => u.serial <= t[i].serial
                                        /\ (i < N - 1 => t[i + 1].type = "state")
               /\ t[i].serial # 0 /\ t[i].serial <= v.serial
               /\ t[i].type = "state" /\ t[i].serial = v.serial => t[i].look = v.look
    <3>1. i + 1 \in 1 .. N /\ t[i] = states[i + 1] /\ (i < N - 1 => t[i + 1] = states[i + 2])
      BY <1>2
    <3>2. h.serial <= t[i].serial /\ (t[i].type = "state" => h.serial < t[i].serial)
      BY <1>2, <1>6, <3>1 DEF Together, StatesOk, h
    <3>3. /\ states[i + 1].type = "state" =>
               i + 1 < N /\ states[i + 2].type = "done" /\ states[i + 2].serial = states[i + 1].serial
          /\ states[i + 1].type = "done" => (i + 1 < N => states[i + 2].type = "state")
          /\ states[i + 1].serial # 0 /\ states[i + 1].serial <= v.serial
          /\ states[i + 1].type = "state" /\ states[i + 1].serial = v.serial =>
               states[i + 1].look = v.look
      BY <3>1 DEF Together, StatesOk
    <3> QED
      BY <1>2, <1>5, <3>1, <3>2, <3>3
  <2>2. ASSUME NEW i \in 1 .. N - 1, NEW j \in 1 .. N - 1, i < j
        PROVE  t[i].serial <= t[j].serial /\ (t[j].type = "state" => t[i].serial < t[j].serial)
    <3>1. i + 1 \in 1 .. N /\ j + 1 \in 1 .. N /\ i + 1 < j + 1
          /\ t[i] = states[i + 1] /\ t[j] = states[j + 1]
      BY <1>2, <2>2
    <3> QED
      BY <3>1 DEF Together, StatesOk
  <2>3. t[N - 1] = states[N] /\ N - 1 # 0
    BY <1>2, <1>7
  <2>4. t[N - 1].type = "done" /\ t[N - 1].serial = v.serial
    BY <1>2, <2>3 DEF Together, StatesOk
  <2>5. t[1].type = "done" /\ t[1].serial = u.serial
    BY <1>2, <1>5, <1>7
  <2>6. u.serial = v.serial => u.look = v.look
    BY <1>5, <1>7
  <2> QED
    BY <1>2, <1>5, <2>1, <2>2, <2>3, <2>4, <2>5, <2>6 DEF StatesOk
<1>12. ThemeOk(v, u)
  BY <1>4, <1>5, <1>7, <1>8 DEF Together, ThemeOk
<1>13. AcksOk(answers, v, u)
  <2>1. \A i \in 1 .. Len(answers) : answers[i].type = "ack" => answers[i].serial \in Nat
    BY <1>1, AnswerTypes
  <2> QED
    BY <1>4, <1>5, <1>7, <1>8, <1>9, <2>1 DEF Together, AcksOk
<1>14. BeginsOk(answers, v, u)
  BY <1>5 DEF Together, BeginsOk
<1>15. CurrentOk(answers, v, u)
  BY <1>9 DEF CurrentOk
<1>16. LayingOk(answers, v, u)
  BY <1>5 DEF LayingOk
<1>17. Together(v, u, t, answers)
  BY <1>10, <1>11, <1>12, <1>13, <1>14, <1>15, <1>16 DEF Together
<1> QED
  BY <1>1, <1>2, <1>3, <1>5, <1>17 DEF AtlasTypes

LEMMA StateDoneStep ==
    ASSUME AtlasTypes, Together(theme, renderer, states, answers), StateDone
    PROVE  AtlasTypes' /\ Together(theme', renderer', states', answers')
<1> DEFINE v == theme
           r == renderer
           h == states[1]
           N == Len(states)
           t == Tail(states)
           w == [r EXCEPT !.windows = r.look \notin Bare, !.packed = TRUE]
           u == IF HasRenderState(w) THEN ScheduleRender(w) ELSE [w EXCEPT !.render = FALSE]
           ack == [type |-> "ack", serial |-> r.serial]
           M == Len(answers)
           n == Append(answers, ack)
<1>1. /\ r \in Renderers /\ v \in Themes /\ states \in Seq(States) /\ states # <<>>
      /\ answers \in Seq(Answers)
  BY DEF AtlasTypes, StateDone, Hears
<1>2. /\ t \in Seq(States) /\ Head(states) = h /\ h \in States
      /\ N \in Nat \ {0} /\ Len(t) = N - 1 /\ \A i \in 1 .. N - 1 : t[i] = states[i + 1]
  BY <1>1, TailFacts
<1>3. r.serial \in Nat
  BY <1>1 DEF Renderers
<1>4. ack \in Answers /\ ack.type = "ack" /\ ack.serial = r.serial
  BY <1>3 DEF Answers
<1>5. h.type = "done" /\ renderer' = u /\ states' = t /\ answers' = answers \o <<ack>> /\ UNCHANGED theme
  BY <1>2 DEF StateDone, Hears, Requests
<1> HIDE DEF ack, h, t
<1>6. /\ n \in Seq(Answers) /\ answers' = n
      /\ M \in Nat /\ Len(n) = M + 1 /\ n[M + 1] = ack
      /\ \A i \in 1 .. M : n[i] = answers[i] /\ answers[i] \in Answers
  BY <1>1, <1>4, <1>5, AppendFacts
<1>7. /\ w \in Renderers /\ w.packed
      /\ w.desktop = r.desktop /\ w.serial = r.serial /\ w.look = r.look /\ w.shell = r.shell
      /\ w.configured = r.configured /\ w.drawing = r.drawing /\ w.gen = r.gen
      /\ w.laying = r.laying /\ w.loading = r.loading /\ w.document = r.document
      /\ w.snapshot = r.snapshot /\ w.publish = r.publish /\ w.quit = r.quit /\ w.render = r.render
  BY <1>1 DEF Renderers
<1> HIDE DEF w
<1>8. /\ u \in Renderers /\ u.packed
      /\ u.desktop = w.desktop /\ u.serial = r.serial /\ u.look = r.look /\ u.shell = w.shell
      /\ u.configured = r.configured /\ u.drawing = r.drawing /\ u.gen = r.gen
      /\ u.laying = r.laying /\ u.loading = r.loading /\ u.document = r.document
      /\ u.snapshot = r.snapshot /\ u.publish = r.publish /\ u.quit = r.quit
      /\ u.windows = w.windows
  <2>1. CASE HasRenderState(w)
    <3>1. u = ScheduleRender(w)
      BY <2>1
    <3> HIDE DEF u
    <3> QED
      BY <1>7, <3>1, Scheduled, ScheduleType
  <2>2. CASE ~HasRenderState(w)
    <3> DEFINE e == [w EXCEPT !.render = FALSE]
    <3>1. u = e
      BY <2>2
    <3>2. /\ e \in Renderers
          /\ e.desktop = w.desktop /\ e.serial = w.serial /\ e.look = w.look /\ e.shell = w.shell
          /\ e.configured = w.configured /\ e.drawing = w.drawing /\ e.gen = w.gen
          /\ e.laying = w.laying /\ e.loading = w.loading /\ e.document = w.document
          /\ e.snapshot = w.snapshot /\ e.publish = w.publish /\ e.quit = w.quit
          /\ e.windows = w.windows /\ e.packed = w.packed
      BY <1>7 DEF Renderers
    <3> HIDE DEF e, u
    <3> QED
      BY <1>7, <3>1, <3>2
  <2> QED
    BY <2>1, <2>2
<1>9. u.render = IF ~HasRenderState(w) THEN FALSE
                 ELSE IF w.configured /\ ~w.laying /\ ~w.snapshot THEN TRUE ELSE w.render
  <2>1. CASE HasRenderState(w)
    BY <1>7, <2>1, Scheduled
  <2>2. CASE ~HasRenderState(w)
    <3>1. u = [w EXCEPT !.render = FALSE]
      BY <2>2
    <3> QED
      BY <1>7, <2>2, <3>1 DEF Renderers
  <2> QED
    BY <2>1, <2>2
<1>10. HasRenderState(u) <=> HasRenderState(w)
  BY <1>8 DEF HasRenderState
<1> HIDE DEF u, n
<1>11. 1 \in 1 .. N
  BY <1>2
<1>12. h.serial # 0 /\ (1 < N => states[2].type = "state") /\ r.serial = h.serial /\ ~r.packed
  BY <1>5, <1>11 DEF Together, StatesOk, h
<1>13. /\ {r.serial, r.drawing, v.serial, v.acked} \subseteq Nat
       /\ v.acked < r.serial /\ r.serial # 0 /\ r.serial <= v.serial
  BY <1>1, <1>12 DEF Together, ThemeOk, Renderers, Themes
<1>14. ~Drawn(r) /\ ~r.laying /\ ~r.publish /\ ~Drawn(u) /\ r.drawing # r.serial /\ r.drawing <= r.serial
       /\ r.look # NoAtlas
  BY <1>8, <1>12, <1>13 DEF Together, RendererOk, Drawn
<1>15. RendererOk(u)
  <2>1. /\ ~r.configured => r.drawing = 0 /\ ~r.render /\ ~r.snapshot
        /\ r.render => ~r.snapshot
        /\ r.snapshot => r.drawing # 0
    BY DEF Together, RendererOk
  <2>2. /\ u.render => ~r.snapshot /\ r.configured
        /\ r.configured /\ HasRenderState(u) => u.render \/ r.snapshot
    BY <1>7, <1>9, <1>10, <1>14, <2>1
  <2> QED
    BY <1>8, <1>13, <1>14, <2>1, <2>2 DEF RendererOk
<1>16. StatesOk(t, v, u)
  <2>1. ASSUME NEW i \in 1 .. N - 1
        PROVE  /\ t[i].type = "state" =>
                    i < N - 1 /\ t[i + 1].type = "done" /\ t[i + 1].serial = t[i].serial
                    /\ u.serial < t[i].serial
               /\ t[i].type = "done" => u.serial <= t[i].serial
                                        /\ (i < N - 1 => t[i + 1].type = "state")
               /\ t[i].serial # 0 /\ t[i].serial <= v.serial
               /\ t[i].type = "state" /\ t[i].serial = v.serial => t[i].look = v.look
    <3>1. i + 1 \in 1 .. N /\ t[i] = states[i + 1] /\ (i < N - 1 => t[i + 1] = states[i + 2])
      BY <1>2
    <3>2. /\ states[i + 1].type = "state" =>
               i + 1 < N /\ states[i + 2].type = "done" /\ states[i + 2].serial = states[i + 1].serial
               /\ r.serial < states[i + 1].serial
          /\ states[i + 1].type = "done" => r.serial <= states[i + 1].serial
                                            /\ (i + 1 < N => states[i + 2].type = "state")
          /\ states[i + 1].serial # 0 /\ states[i + 1].serial <= v.serial
          /\ states[i + 1].type = "state" /\ states[i + 1].serial = v.serial =>
               states[i + 1].look = v.look
      BY <3>1 DEF Together, StatesOk
    <3> QED
      BY <1>2, <1>8, <3>1, <3>2
  <2>2. ASSUME NEW i \in 1 .. N - 1, NEW j \in 1 .. N - 1, i < j
        PROVE  t[i].serial <= t[j].serial /\ (t[j].type = "state" => t[i].serial < t[j].serial)
    <3>1. i + 1 \in 1 .. N /\ j + 1 \in 1 .. N /\ i + 1 < j + 1
          /\ t[i] = states[i + 1] /\ t[j] = states[j + 1]
      BY <1>2, <2>2
    <3> QED
      BY <3>1 DEF Together, StatesOk
  <2>3. N - 1 # 0 => t[N - 1] = states[N] /\ t[1] = states[2] /\ 1 < N
    BY <1>2
  <2>4. states[N].type = "done" /\ states[N].serial = v.serial
    BY <1>2 DEF Together, StatesOk
  <2>5. N - 1 = 0 => u.serial = v.serial
    <3> SUFFICES ASSUME N - 1 = 0 PROVE u.serial = v.serial
      OBVIOUS
    <3>1. N = 1
      BY <1>2
    <3>2. h = states[N]
      BY <3>1 DEF h
    <3> QED
      BY <1>8, <1>12, <2>4, <3>2
  <2>6. u.serial = v.serial => u.look = v.look
    BY <1>8 DEF Together, StatesOk
  <2>7. N - 1 # 0 => t[1].type = "state"
    BY <1>12, <2>3
  <2> QED
    BY <1>2, <1>8, <2>1, <2>2, <2>3, <2>4, <2>5, <2>6, <2>7 DEF StatesOk
<1>17. ThemeOk(v, u)
  BY <1>8 DEF Together, ThemeOk
<1>18. LayoutsOk(n, v)
  BY <1>1, <1>4, LayoutsAppended DEF Together, n
<1>19. AcksOk(n, v, u)
  <2>1. ASSUME NEW i \in 1 .. M + 1, n[i].type = "ack"
        PROVE  /\ v.acked < n[i].serial /\ n[i].serial <= r.serial
               /\ \A j \in i + 1 .. M + 1 : n[j].type = "ack" => n[i].serial < n[j].serial
    <3>1. CASE i = M + 1
      BY <1>4, <1>6, <1>13, <3>1
    <3>2. CASE i \in 1 .. M
      <4>1. v.acked < n[i].serial /\ n[i].serial < r.serial /\ n[i].serial <= r.serial
        BY <1>6, <1>12, <2>1, <3>2 DEF Together, AcksOk
      <4>2. ASSUME NEW j \in i + 1 .. M + 1, n[j].type = "ack" PROVE n[i].serial < n[j].serial
        <5>1. CASE j = M + 1
          BY <1>4, <1>6, <4>1, <5>1
        <5>2. CASE j \in i + 1 .. M
          BY <1>6, <2>1, <3>2, <4>2, <5>2 DEF Together, AcksOk
        <5> QED
          BY <1>6, <3>2, <5>1, <5>2
      <4> QED
        BY <4>1, <4>2
    <3> QED
      BY <1>6, <3>1, <3>2
  <2> QED
    BY <1>4, <1>6, <1>8, <1>14, <2>1 DEF AcksOk
<1>20. BeginsOk(n, v, u)
  <2>1. v.pending = NoAtlas
    BY <1>13 DEF Together, ThemeOk
  <2>2. ASSUME NEW i \in 1 .. M + 1, n[i].type = "begin"
        PROVE  /\ n[i].gen # 0 /\ n[i].gen <= u.gen /\ (v.shown # NoAtlas => v.shown.gen < n[i].gen)
               /\ \A j \in i + 1 .. M + 1 :
                    n[j].type = "begin" => \E k \in i + 1 .. j - 1 : n[k].type = "ack"
               /\ \E k \in i + 1 .. M + 1 : n[k].type = "ack"
    <3>1. i \in 1 .. M
      BY <1>4, <1>6, <2>2
    <3>2. n[i].gen # 0 /\ n[i].gen <= u.gen /\ (v.shown # NoAtlas => v.shown.gen < n[i].gen)
      BY <1>6, <1>8, <2>2, <3>1 DEF Together, BeginsOk
    <3>3. M + 1 \in i + 1 .. M + 1 /\ n[M + 1].type = "ack"
      BY <1>4, <1>6, <3>1
    <3>4. ASSUME NEW j \in i + 1 .. M + 1, n[j].type = "begin"
          PROVE  \E k \in i + 1 .. j - 1 : n[k].type = "ack"
      <4>1. j \in i + 1 .. M /\ answers[j].type = "begin" /\ answers[i].type = "begin"
        BY <1>4, <1>6, <2>2, <3>1, <3>4
      <4>2. PICK k \in i + 1 .. j - 1 : answers[k].type = "ack"
        BY <3>1, <4>1 DEF Together, BeginsOk
      <4>3. k \in 1 .. M
        BY <1>6, <3>1, <4>1
      <4> QED
        BY <1>6, <4>2, <4>3
    <3> QED
      BY <3>2, <3>3, <3>4
  <2> QED
    BY <1>6, <2>1, <2>2 DEF BeginsOk
<1>21. CurrentOk(n, v, u) /\ LayingOk(n, v, u)
  BY <1>8, <1>14 DEF CurrentOk, LayingOk
<1>22. Together(v, u, t, n)
  BY <1>15, <1>16, <1>17, <1>18, <1>19, <1>20, <1>21 DEF Together
<1> QED
  BY <1>1, <1>2, <1>5, <1>6, <1>8, <1>22 DEF AtlasTypes

-----------------------------------------------------------------------------
\* A render begins: it is of the state the renderer has.
LEMMA RenderBegun ==
    ASSUME AtlasTypes, Together(theme, renderer, states, answers), renderer.render,
           HasRenderState(renderer), renderer.packed,
           NEW u \in Renderers, NEW b \in Answers,
           u.desktop = renderer.desktop, u.serial = renderer.serial, u.look = renderer.look,
           u.shell = renderer.shell, u.windows = renderer.windows,
           u.configured = renderer.configured, u.packed = renderer.packed,
           u.snapshot = renderer.snapshot, u.quit = renderer.quit,
           ~u.render, u.drawing = renderer.serial, u.gen = renderer.gen + 1, u.laying, ~u.publish,
           u.loading = renderer.look,
           b.type = "begin", b.gen = u.gen, b.look = renderer.look
    PROVE  Together(theme, u, states, Append(answers, b))
<1> DEFINE v == theme
           r == renderer
           q == answers
           n == Append(q, b)
           M == Len(q)
<1>1. r \in Renderers /\ v \in Themes /\ q \in Seq(Answers)
  BY DEF AtlasTypes
<1>2. {r.gen, r.serial, r.drawing} \subseteq Nat
  BY <1>1 DEF Renderers
<1>3. /\ M \in Nat /\ Len(n) = M + 1 /\ n[M + 1] = b
      /\ \A i \in 1 .. M : n[i] = q[i] /\ q[i] \in Answers
  BY <1>1, AppendFacts
<1> HIDE DEF n
<1>4. r.configured /\ ~r.laying /\ ~r.snapshot /\ r.drawing # r.serial /\ r.serial # 0 /\ ~Drawn(r)
  BY DEF Together, RendererOk, Drawn
<1>5. Drawn(u) /\ Begins(b, u) /\ HasRenderState(u)
  BY <1>4 DEF Drawn, Begins, HasRenderState
<1>6. v.pending = NoAtlas
  BY <1>4 DEF Together, BeginsOk
<1>7. RendererOk(u)
  BY <1>2, <1>4, <1>5 DEF Together, RendererOk
<1>8. StatesOk(states, v, u)
  BY DEF Together, StatesOk
<1>9. v.shown # NoAtlas => v.shown.gen \in Nat /\ v.shown.gen <= r.gen
  BY <1>1 DEF Together, ThemeOk, Themes, Layouts
<1>10. ThemeOk(v, u)
  BY <1>2, <1>6, <1>9 DEF Together, ThemeOk
<1>11. LayoutsOk(n, v)
  BY <1>1, LayoutsAppended DEF Together, n
<1>12. AcksOk(n, v, u)
  <2>1. ASSUME NEW i \in 1 .. M + 1, n[i].type = "ack"
        PROVE  /\ v.acked < n[i].serial /\ n[i].serial <= r.serial
               /\ \A j \in i + 1 .. M + 1 : n[j].type = "ack" => n[i].serial < n[j].serial
               /\ M + 1 \in i + 1 .. M + 1
    <3>1. i \in 1 .. M
      BY <1>3, <2>1
    <3>2. \A j \in i + 1 .. M + 1 : n[j].type = "ack" => j \in i + 1 .. M
      BY <1>3, <3>1
    <3> QED
      BY <1>3, <2>1, <3>1, <3>2 DEF Together, AcksOk
  <2>2. r.serial = v.serial =>
          v.acked = r.serial \/ \E i \in 1 .. M + 1 : n[i].type = "ack" /\ n[i].serial = r.serial
    BY <1>3 DEF Together, AcksOk
  <2> QED
    BY <1>3, <1>5, <2>1, <2>2 DEF AcksOk
<1>13. BeginsOk(n, v, u)
  <2>1. ASSUME NEW i \in 1 .. M + 1, n[i].type = "begin"
        PROVE  /\ n[i].gen # 0 /\ n[i].gen <= u.gen /\ (v.shown # NoAtlas => v.shown.gen < n[i].gen)
               /\ \A j \in i + 1 .. M + 1 :
                    n[j].type = "begin" => \E k \in i + 1 .. j - 1 : n[k].type = "ack"
               /\ (\E k \in i + 1 .. M + 1 : n[k].type = "ack") \/ Begins(n[i], u)
    <3>1. CASE i = M + 1
      BY <1>2, <1>3, <1>5, <1>9, <3>1
    <3>2. CASE i \in 1 .. M
      <4>1. /\ q[i].gen # 0 /\ q[i].gen <= r.gen /\ (v.shown # NoAtlas => v.shown.gen < q[i].gen)
            /\ q[i].gen \in Nat
            /\ \E k \in i + 1 .. M : q[k].type = "ack"
        BY <1>3, <1>4, <2>1, <3>2, AnswerTypes DEF Together, BeginsOk
      <4>2. PICK k \in i + 1 .. M : q[k].type = "ack"
        BY <4>1
      <4>3. k \in i + 1 .. M + 1 /\ n[k].type = "ack" /\ k \in i + 1 .. (M + 1) - 1
        BY <1>3, <3>2, <4>2
      <4>4. ASSUME NEW j \in i + 1 .. M + 1, n[j].type = "begin"
            PROVE  \E l \in i + 1 .. j - 1 : n[l].type = "ack"
        <5>1. CASE j = M + 1
          BY <4>3, <5>1
        <5>2. CASE j \in i + 1 .. M
          <6>1. q[j].type = "begin" /\ q[i].type = "begin"
            BY <1>3, <2>1, <3>2, <4>4, <5>2
          <6>2. PICK l \in i + 1 .. j - 1 : q[l].type = "ack"
            BY <3>2, <5>2, <6>1 DEF Together, BeginsOk
          <6>3. l \in 1 .. M
            BY <1>3, <3>2, <5>2
          <6>4. n[l] = q[l]
            BY <1>3, <6>3
          <6> QED
            BY <6>2, <6>4
        <5>3. j = M + 1 \/ j \in i + 1 .. M
          BY <1>3, <3>2
        <5> QED
          BY <5>1, <5>2, <5>3
      <4>5. n[i] = q[i]
        BY <1>3, <3>2
      <4>6. n[i].gen # 0 /\ n[i].gen <= u.gen /\ (v.shown # NoAtlas => v.shown.gen < n[i].gen)
        BY <1>2, <4>1, <4>5
      <4> QED
        BY <4>3, <4>4, <4>6
    <3> QED
      BY <1>3, <3>1, <3>2
  <2> QED
    BY <1>3, <1>5, <1>6, <2>1 DEF BeginsOk
<1>14. CurrentOk(n, v, u)
  <2>1. M + 1 \in 1 .. M + 1
    BY <1>3
  <2> QED
    BY <1>3, <2>1 DEF CurrentOk
<1>15. LayingOk(n, v, u)
  BY <1>3, <1>5 DEF LayingOk
<1> QED
  BY <1>7, <1>8, <1>10, <1>11, <1>12, <1>13, <1>14, <1>15 DEF Together, n

LEMMA BeginRenderStep ==
    ASSUME AtlasTypes, Together(theme, renderer, states, answers), BeginRender
    PROVE  AtlasTypes' /\ Together(theme', renderer', states', answers')
<1> DEFINE r == renderer
           w == [r EXCEPT !.render = FALSE]
           x == [w EXCEPT !.quit = TRUE]
           u == [w EXCEPT !.gen = w.gen + 1, !.drawing = w.serial, !.laying = TRUE,
                          !.publish = FALSE, !.loading = w.look]
           b == [type |-> "begin", gen |-> w.gen + 1, look |-> w.look]
<1>1. r \in Renderers /\ r.render /\ UNCHANGED <<theme, states>> /\ answers \in Seq(Answers)
  BY DEF AtlasTypes, BeginRender
<1>2. /\ w \in Renderers /\ ~w.render
      /\ w.desktop = r.desktop /\ w.serial = r.serial /\ w.look = r.look /\ w.shell = r.shell
      /\ w.configured = r.configured /\ w.drawing = r.drawing /\ w.gen = r.gen
      /\ w.laying = r.laying /\ w.loading = r.loading /\ w.document = r.document
      /\ w.snapshot = r.snapshot /\ w.publish = r.publish /\ w.quit = r.quit
      /\ w.windows = r.windows /\ w.packed = r.packed
  BY <1>1 DEF Renderers
<1>3. \/ ~HasRenderState(w) /\ renderer' = w /\ UNCHANGED answers
      \/ HasRenderState(w) /\ ~w.packed /\ renderer' = x /\ UNCHANGED answers
      \/ HasRenderState(w) /\ w.packed /\ renderer' = u /\ answers' = answers \o <<b>>
  BY DEF BeginRender, DocumentOf, Requests
<1> HIDE DEF w
<1>4. HasRenderState(w) <=> HasRenderState(r)
  BY <1>2 DEF HasRenderState
<1>5. r.configured /\ ~r.laying /\ ~r.snapshot /\ r.drawing # r.serial /\ ~r.publish
      /\ (HasRenderState(r) => r.serial # 0) /\ (r.serial # 0 => r.look # NoAtlas)
      /\ r.drawing <= r.serial /\ (r.packed => r.serial # 0) /\ (Drawn(r) => r.packed)
  BY <1>1 DEF Together, RendererOk
<1>6. CASE ~HasRenderState(w) /\ renderer' = w /\ UNCHANGED answers
  <2>1. RendererOk(w)
    BY <1>2, <1>5, <1>6 DEF RendererOk, Drawn
  <2>2. Together(theme, w, states, answers)
    BY <1>1, <1>2, <2>1, RendererSame
  <2> QED
    BY <1>1, <1>2, <1>6, <2>2 DEF AtlasTypes
<1>7. CASE HasRenderState(w) /\ ~w.packed /\ renderer' = x /\ UNCHANGED answers
  <2>1. /\ x \in Renderers /\ ~x.render /\ x.quit
        /\ x.desktop = r.desktop /\ x.serial = r.serial /\ x.look = r.look /\ x.shell = r.shell
        /\ x.configured = r.configured /\ x.drawing = r.drawing /\ x.gen = r.gen
        /\ x.laying = r.laying /\ x.loading = r.loading /\ x.document = r.document
        /\ x.snapshot = r.snapshot /\ x.publish = r.publish
        /\ x.windows = r.windows /\ x.packed = r.packed
    BY <1>2 DEF Renderers
  <2> HIDE DEF x
  <2>2. HasRenderState(x) <=> HasRenderState(r)
    BY <2>1 DEF HasRenderState
  <2>3. RendererOk(x)
    BY <2>1, <2>2, <1>5 DEF RendererOk, Drawn
  <2>4. Together(theme, x, states, answers)
    BY <1>1, <2>1, <2>3, RendererSame
  <2> QED
    BY <1>1, <1>7, <2>1, <2>4 DEF AtlasTypes
<1>8. CASE HasRenderState(w) /\ w.packed /\ renderer' = u /\ answers' = answers \o <<b>>
  <2>1. w.look \in Looks /\ w.gen + 1 \in Nat /\ w.serial \in Nat
    BY <1>2, <1>4, <1>5, <1>8 DEF Renderers
  <2>2. b \in Answers /\ b.type = "begin" /\ b.gen = w.gen + 1 /\ b.look = w.look
    BY <2>1 DEF Answers
  <2>3. /\ u \in Renderers /\ ~u.render
        /\ u.desktop = w.desktop /\ u.serial = w.serial /\ u.look = w.look /\ u.shell = w.shell
        /\ u.configured = w.configured /\ u.drawing = w.serial /\ u.gen = w.gen + 1
        /\ u.laying /\ u.loading = w.look /\ u.quit = w.quit
        /\ u.snapshot = w.snapshot /\ ~u.publish
        /\ u.windows = w.windows /\ u.packed = w.packed
    BY <1>2, <2>1 DEF Renderers
  <2> HIDE DEF u, b
  <2>4. Together(theme, u, states, Append(answers, b))
    BY <1>1, <1>2, <1>4, <1>8, <2>2, <2>3, RenderBegun
  <2>5. Append(answers, b) \in Seq(Answers) /\ answers' = Append(answers, b)
    BY <1>1, <1>8, <2>2, AppendFacts
  <2> QED
    BY <1>1, <1>8, <2>3, <2>4, <2>5 DEF AtlasTypes
<1> QED
  BY <1>3, <1>6, <1>7, <1>8

-----------------------------------------------------------------------------
\* The layout goes out after its picture.
LEMMA LayoutPublished ==
    ASSUME NEW v, NEW s, NEW q \in Seq(Answers), NEW r \in Renderers, Together(v, r, s, q), r.laying,
           IF Len(q) = 0 THEN IsDrawn(v, r.gen) ELSE q[Len(q)].type = "pixels" /\ q[Len(q)].gen = r.gen,
           NEW u \in Renderers, RendererOk(u),
           u.serial = r.serial, u.look = r.look, u.packed = r.packed, u.drawing = r.drawing,
           u.gen = r.gen, ~u.laying, NEW n \in Seq(Answers), n = q \o Layout(r)
    PROVE  Together(v, u, s, n)
<1> DEFINE tile == [type |-> "tile"]
           commit == [type |-> "commit", gen |-> r.gen]
           M == Len(q)
<1>1. r.gen \in Nat
  BY DEF Renderers
<1>2. tile \in Answers /\ commit \in Answers /\ tile.type = "tile" /\ commit.type = "commit"
  BY <1>1 DEF Answers
<1>3. n = Append(Append(q, tile), commit)
  BY DEF Layout
<1>4. LayoutsOk(n, v)
  BY <1>1, <1>3, LayoutSent DEF Together
<1> HIDE DEF tile, commit
<1>5. /\ Append(q, tile) \in Seq(Answers) /\ Len(Append(q, tile)) = M + 1 /\ M \in Nat
      /\ \A i \in 1 .. M : Append(q, tile)[i] = q[i]
  BY <1>2, AppendFacts
<1>6. /\ Len(n) = M + 2 /\ n[M + 2] = commit /\ \A i \in 1 .. M : n[i] = q[i]
  BY <1>2, <1>3, <1>5, AppendFacts
<1>7. AcksOk(Append(q, tile), v, r) /\ BeginsOk(Append(q, tile), v, r)
  BY <1>2, NeutralAppended DEF Together
<1>8. AcksOk(n, v, r) /\ BeginsOk(n, v, r)
  BY <1>2, <1>3, <1>5, <1>7, NeutralAppended
<1> HIDE DEF Layout
<1>9. (Drawn(u) <=> Drawn(r)) /\ \A m : Begins(m, u) <=> Begins(m, r)
  BY DEF Drawn, Begins
<1>10. AcksOk(n, v, u)
  BY <1>8, <1>9 DEF AcksOk
<1>11. BeginsOk(n, v, u)
  BY <1>8, <1>9 DEF BeginsOk
<1>12. CurrentOk(n, v, u)
  <2>1. Len(n) # 0 /\ n[Len(n)].type = "commit"
    BY <1>2, <1>5, <1>6
  <2>2. (\A i \in 1 .. Len(n) : n[i].type # "begin") => \A i \in 1 .. M : q[i].type # "begin"
    BY <1>5, <1>6
  <2>3. CurrentOk(q, v, r)
    BY DEF Together
  <2> QED
    BY <1>9, <2>1, <2>2, <2>3 DEF CurrentOk
<1>13. LayingOk(n, v, u)
  BY DEF LayingOk
<1>14. StatesOk(s, v, u) /\ ThemeOk(v, u)
  BY DEF Together, StatesOk, ThemeOk
<1> QED
  BY <1>4, <1>10, <1>11, <1>12, <1>13, <1>14 DEF Together

LEMMA PublishLayoutStep ==
    ASSUME AtlasTypes, Together(theme, renderer, states, answers), PublishLayout
    PROVE  AtlasTypes' /\ Together(theme', renderer', states', answers')
<1> DEFINE r == renderer
           u == [r EXCEPT !.laying = FALSE, !.publish = FALSE]
           x == [r EXCEPT !.publish = FALSE, !.quit = TRUE]
<1>1. r \in Renderers /\ r.publish /\ ~r.quit /\ UNCHANGED <<theme, states>> /\ answers \in Seq(Answers)
  BY DEF AtlasTypes, PublishLayout, Alive
<1>2. r.laying /\ Drawn(r) /\ ~r.snapshot /\ r.loading = NoAtlas /\ ~r.render /\ RendererOk(r)
  BY <1>1 DEF Together, RendererOk
<1>3. \/ renderer' = u /\ answers' = answers \o Layout(r)
      \/ renderer' = x /\ UNCHANGED answers
  BY <1>2 DEF PublishLayout, Requests
<1>4. /\ u \in Renderers
      /\ u.configured = r.configured /\ u.serial = r.serial /\ u.look = r.look /\ u.shell = r.shell
      /\ u.desktop = r.desktop /\ u.windows = r.windows /\ u.packed = r.packed
      /\ u.drawing = r.drawing /\ u.gen = r.gen /\ ~u.laying /\ u.loading = r.loading
      /\ u.document = r.document /\ u.snapshot = r.snapshot /\ ~u.publish
      /\ u.quit = r.quit /\ u.render = r.render
  BY <1>1 DEF Renderers
<1>5. /\ x \in Renderers /\ x.quit
      /\ x.configured = r.configured /\ x.serial = r.serial /\ x.look = r.look /\ x.shell = r.shell
      /\ x.desktop = r.desktop /\ x.windows = r.windows /\ x.packed = r.packed
      /\ x.drawing = r.drawing /\ x.gen = r.gen /\ x.laying = r.laying /\ x.loading = r.loading
      /\ x.document = r.document /\ x.snapshot = r.snapshot /\ ~x.publish
      /\ x.render = r.render
  <2>1. x \in Renderers
    BY <1>1 DEF Renderers
  <2>2. /\ x.configured = r.configured /\ x.serial = r.serial /\ x.look = r.look /\ x.shell = r.shell
        /\ x.desktop = r.desktop /\ x.windows = r.windows /\ x.packed = r.packed
        /\ x.drawing = r.drawing /\ x.gen = r.gen /\ x.laying = r.laying /\ x.loading = r.loading
        /\ x.document = r.document /\ x.snapshot = r.snapshot /\ x.render = r.render
    BY <1>1 DEF Renderers
  <2>3. ~x.publish /\ x.quit
    BY <1>1 DEF Renderers
  <2> QED
    BY <2>1, <2>2, <2>3
<1> HIDE DEF u, x
<1>6. CASE renderer' = u /\ answers' = answers \o Layout(r)
  <2>1. RendererOk(u)
    BY <1>2, <1>4 DEF RendererOk, Drawn, HasRenderState
  <2>2. IF Len(answers) = 0 THEN IsDrawn(theme, r.gen)
        ELSE answers[Len(answers)].type = "pixels" /\ answers[Len(answers)].gen = r.gen
    BY <1>1, <1>2 DEF Together, LayingOk
  <2>3. answers' \in Seq(Answers)
    <3>1. [type |-> "tile"] \in Answers /\ \A g \in Nat : [type |-> "commit", gen |-> g] \in Answers
      BY DEF Answers
    <3>2. r.gen \in Nat
      BY <1>1 DEF Renderers
    <3>3. Layout(r) \in Seq(Answers)
      BY <3>1, <3>2 DEF Layout
    <3> QED
      BY <1>1, <1>6, <3>3
  <2>4. Together(theme, u, states, answers')
    BY <1>1, <1>2, <1>4, <1>6, <2>1, <2>2, <2>3, LayoutPublished
  <2> QED
    BY <1>1, <1>4, <1>6, <2>3, <2>4 DEF AtlasTypes
<1>7. CASE renderer' = x /\ UNCHANGED answers
  <2>1. RendererOk(x)
    BY <1>2, <1>5 DEF RendererOk, Drawn, HasRenderState
  <2>2. Together(theme, x, states, answers)
    BY <1>1, <1>5, <2>1, RendererSame
  <2> QED
    BY <1>1, <1>5, <1>7, <2>2 DEF AtlasTypes
<1> QED
  BY <1>3, <1>6, <1>7

LEMMA SnapshotFinishedStep ==
    ASSUME AtlasTypes, Together(theme, renderer, states, answers), SnapshotFinished
    PROVE  AtlasTypes' /\ Together(theme', renderer', states', answers')
<1> DEFINE v == theme
           r == renderer
           q == answers
           M == Len(q)
           w == [r EXCEPT !.snapshot = FALSE]
           y == [w EXCEPT !.laying = FALSE]
           x == [w EXCEPT !.publish = TRUE]
           u == [w EXCEPT !.laying = FALSE, !.publish = FALSE]
           p == [type |-> "pixels", gen |-> w.gen, look |-> w.look, drawn |-> w.document]
<1>1. r \in Renderers /\ r.snapshot /\ ~r.quit /\ UNCHANGED <<theme, states>> /\ q \in Seq(Answers)
  BY DEF AtlasTypes, SnapshotFinished, Alive
<1>2. /\ w \in Renderers /\ ~w.snapshot
      /\ w.configured = r.configured /\ w.serial = r.serial /\ w.look = r.look /\ w.shell = r.shell
      /\ w.desktop = r.desktop /\ w.windows = r.windows /\ w.packed = r.packed
      /\ w.drawing = r.drawing /\ w.gen = r.gen /\ w.laying = r.laying /\ w.loading = r.loading
      /\ w.document = r.document /\ w.publish = r.publish /\ w.quit = r.quit /\ w.render = r.render
  BY <1>1 DEF Renderers
<1>3. IF w.drawing # w.serial THEN renderer' = ScheduleRender(y) /\ UNCHANGED q
      ELSE \/ renderer' = x /\ q' = q \o <<p>>
           \/ renderer' = u /\ q' = q \o (<<p>> \o Layout(w))
  BY DEF SnapshotFinished, Requests
<1> HIDE DEF w
<1>4. /\ y \in Renderers /\ ~y.snapshot /\ ~y.laying
      /\ y.configured = r.configured /\ y.serial = r.serial /\ y.look = r.look /\ y.shell = r.shell
      /\ y.desktop = r.desktop /\ y.windows = r.windows /\ y.packed = r.packed
      /\ y.drawing = r.drawing /\ y.gen = r.gen /\ y.loading = r.loading
      /\ y.document = r.document /\ y.publish = r.publish /\ y.quit = r.quit /\ y.render = r.render
  BY <1>2 DEF Renderers
<1>5. /\ x \in Renderers /\ ~x.snapshot /\ x.publish
      /\ x.configured = r.configured /\ x.serial = r.serial /\ x.look = r.look /\ x.shell = r.shell
      /\ x.desktop = r.desktop /\ x.windows = r.windows /\ x.packed = r.packed
      /\ x.drawing = r.drawing /\ x.gen = r.gen /\ x.loading = r.loading /\ x.laying = r.laying
      /\ x.document = r.document /\ x.quit = r.quit /\ x.render = r.render
  BY <1>2 DEF Renderers
<1>6. /\ u \in Renderers /\ ~u.snapshot /\ ~u.publish /\ ~u.laying
      /\ u.configured = r.configured /\ u.serial = r.serial /\ u.look = r.look /\ u.shell = r.shell
      /\ u.desktop = r.desktop /\ u.windows = r.windows /\ u.packed = r.packed
      /\ u.drawing = r.drawing /\ u.gen = r.gen /\ u.loading = r.loading
      /\ u.document = r.document /\ u.quit = r.quit /\ u.render = r.render
  BY <1>2 DEF Renderers
<1>7. RendererOk(r)
  BY DEF Together
<1>8. r.drawing # 0 /\ ~r.publish /\ ~r.render /\ r.configured
  BY <1>1, <1>7 DEF RendererOk
<1> HIDE DEF y, x, u
<1>9. CASE w.drawing # w.serial
  <2> DEFINE s == ScheduleRender(y)
  <2>1. renderer' = s /\ UNCHANGED q /\ r.drawing # r.serial
    BY <1>2, <1>3, <1>9
  <2>2. ~r.laying /\ ~Drawn(r)
    BY <1>7, <2>1 DEF RendererOk, Drawn
  <2>3. s \in Renderers
    BY <1>4, ScheduleType
  <2>4. s.render = IF y.configured /\ HasRenderState(y) /\ ~y.laying /\ ~y.snapshot THEN TRUE ELSE y.render
    BY <1>4, Scheduled
  <2>5. /\ ~s.snapshot /\ ~s.laying
        /\ s.configured = r.configured /\ s.serial = r.serial /\ s.look = r.look /\ s.shell = r.shell
        /\ s.desktop = r.desktop /\ s.windows = r.windows /\ s.packed = r.packed
        /\ s.drawing = r.drawing /\ s.gen = r.gen /\ s.loading = r.loading
        /\ s.document = r.document /\ s.publish = r.publish /\ s.quit = r.quit
    BY <1>4, Scheduled
  <2> HIDE DEF s
  <2>6. (HasRenderState(y) <=> HasRenderState(r)) /\ (HasRenderState(s) <=> HasRenderState(r))
    BY <1>4, <2>5 DEF HasRenderState
  <2>7. s.render <=> HasRenderState(r)
    BY <1>4, <1>8, <2>4, <2>6
  <2>8. RendererOk(s)
    BY <1>7, <1>8, <2>1, <2>2, <2>5, <2>6, <2>7 DEF RendererOk, Drawn
  <2>9. s.laying = r.laying
    BY <1>1, <2>2, <2>3, <2>5 DEF Renderers
  <2>10. Together(theme, s, states, answers)
    BY <1>1, <2>3, <2>5, <2>8, <2>9, RendererSame
  <2> QED
    BY <1>1, <2>1, <2>3, <2>10 DEF AtlasTypes
<1>10. CASE w.drawing = w.serial
  <2>1. Drawn(r) /\ r.laying /\ r.document = r.look /\ r.look # NoAtlas /\ r.loading = NoAtlas
    BY <1>1, <1>2, <1>7, <1>8, <1>10 DEF RendererOk, Drawn
  <2>2. r.gen \in Nat /\ r.look \in Looks
    BY <1>1, <2>1 DEF Renderers
  <2>3. p \in Answers /\ p.type = "pixels" /\ p.gen = r.gen /\ p.look = r.look /\ p.drawn = p.look
    BY <1>2, <2>1, <2>2 DEF Answers
  <2> DEFINE n == Append(q, p)
  <2>4. \/ renderer' = x /\ q' = q \o <<p>>
        \/ renderer' = u /\ q' = q \o (<<p>> \o Layout(w))
    BY <1>3, <1>10
  <2>5. Layout(w) = Layout(r)
    BY <1>2 DEF Layout
  <2> HIDE DEF p
  <2>6. /\ n \in Seq(Answers) /\ q \o <<p>> = n /\ M \in Nat
        /\ Len(n) = M + 1 /\ n[M + 1] = p /\ \A i \in 1 .. M : n[i] = q[i]
    BY <1>1, <2>3, AppendFacts
  <2>7. LayoutsOk(n, v)
    <3>1. IF M = 0 THEN IsBegun(v, p.gen, p.look)
          ELSE q[M].type = "begin" /\ q[M].gen = p.gen /\ q[M].look = p.look
      BY <1>1, <1>8, <2>1, <2>3 DEF Together, LayingOk, Begins
    <3> QED
      BY <1>1, <2>3, <3>1, LayoutsAppended DEF Together
  <2>8. AcksOk(n, v, r) /\ BeginsOk(n, v, r)
    BY <1>1, <2>3, NeutralAppended DEF Together
  <2> HIDE DEF n
  <2>9. RendererOk(x)
    BY <1>5, <1>7, <1>8, <2>1 DEF RendererOk, Drawn, HasRenderState
  <2>10. (Drawn(x) <=> Drawn(r)) /\ \A m : Begins(m, x) <=> Begins(m, r)
    BY <1>5 DEF Drawn, Begins
  <2>11. CurrentOk(n, v, x)
    <3>1. (\A i \in 1 .. Len(n) : n[i].type # "begin") => \A i \in 1 .. M : q[i].type # "begin"
      BY <2>6
    <3>2. CurrentOk(q, v, r)
      BY DEF Together
    <3> QED
      BY <1>5, <2>1, <2>10, <3>1, <3>2 DEF CurrentOk
  <2>12. LayingOk(n, v, x)
    BY <1>5, <2>3, <2>6 DEF LayingOk
  <2>13. StatesOk(states, v, x) /\ ThemeOk(v, x)
    BY <1>5 DEF Together, StatesOk, ThemeOk
  <2>14. AcksOk(n, v, x)
    BY <1>5, <2>8, <2>10 DEF AcksOk
  <2>15. BeginsOk(n, v, x)
    BY <1>5, <2>8, <2>10 DEF BeginsOk
  <2>16. Together(v, x, states, n)
    BY <2>7, <2>9, <2>11, <2>12, <2>13, <2>14, <2>15 DEF Together
  <2>17. CASE renderer' = x /\ q' = q \o <<p>>
    BY <1>1, <1>5, <2>6, <2>16, <2>17 DEF AtlasTypes
  <2>18. CASE renderer' = u /\ q' = q \o (<<p>> \o Layout(w))
    <3>1. RendererOk(u)
      BY <1>6, <1>7, <1>8, <2>1 DEF RendererOk, Drawn, HasRenderState
    <3>2. Layout(r) = Layout(x)
      BY <1>5 DEF Layout
    <3>3. Layout(x) \in Seq(Answers)
      <4>1. [type |-> "tile"] \in Answers /\ \A g \in Nat : [type |-> "commit", gen |-> g] \in Answers
        BY DEF Answers
      <4>2. x.gen \in Nat
        BY <1>5, <2>2
      <4> QED
        BY <4>1, <4>2 DEF Layout
    <3>4. q' = n \o Layout(x)
      <4>1. \A s \in Seq(Answers) : q \o (<<p>> \o s) = (q \o <<p>>) \o s
        BY <1>1, <2>3
      <4> QED
        BY <2>5, <2>6, <2>18, <3>2, <3>3, <4>1
    <3>5. q' \in Seq(Answers)
      BY <2>6, <3>3, <3>4
    <3>6. Len(n) # 0 /\ n[Len(n)].type = "pixels" /\ n[Len(n)].gen = x.gen
      BY <1>5, <2>3, <2>6
    <3>7. x.laying
      BY <1>5, <2>1
    <3>8. u.serial = x.serial /\ u.look = x.look /\ u.packed = x.packed /\ u.drawing = x.drawing
          /\ u.gen = x.gen /\ ~u.laying
      BY <1>5, <1>6
    <3>9. Together(v, u, states, q')
      BY <1>5, <1>6, <2>6, <2>16, <3>1, <3>4, <3>5, <3>6, <3>7, <3>8, LayoutPublished
    <3> QED
      BY <1>1, <1>6, <2>18, <3>5, <3>9 DEF AtlasTypes
  <2> QED
    BY <2>4, <2>17, <2>18
<1> QED
  BY <1>9, <1>10

-----------------------------------------------------------------------------
\* What a state that differs from the last one sent does to the server.
LEMMA StateSent ==
    ASSUME NEW v \in Themes, v.sent # v.look
    PROVE  LET u == SendState(v) IN
           /\ u \in Themes /\ u.serial = v.serial + 1 /\ u.sent = v.look /\ u.look = v.look
           /\ u.link = v.link /\ u.acked = v.acked /\ u.shown = v.shown /\ u.picture = v.picture
           /\ v.pending = NoAtlas =>
                /\ u.pending = NoAtlas /\ u.layout = v.layout /\ u.pixels = v.pixels
                /\ u.requested = v.requested /\ u.discard = v.discard
           /\ v.pending # NoAtlas =>
                /\ u.pending = NoAtlas /\ u.layout = 0 /\ u.pixels = NoAtlas
                /\ ~u.requested /\ u.discard
<1> DEFINE a == Aborted(v)
           d == [a EXCEPT !.discard = TRUE]
           w == IF v.pending # NoAtlas THEN d ELSE v
           u == SendState(v)
<1>1. /\ a \in Themes /\ a.pending = NoAtlas /\ a.pixels = NoAtlas /\ a.layout = 0
      /\ ~a.requested /\ a.serial = v.serial /\ a.look = v.look
      /\ a.shown = v.shown /\ a.picture = v.picture
      /\ a.link = v.link /\ a.sent = v.sent /\ a.acked = v.acked
  BY AbortedType, AbortedFields
<1>2. u = [w EXCEPT !.serial = w.serial + 1, !.sent = v.look]
  BY DEF SendState
<1>3. u \in Themes
  BY SendStateType
<1> HIDE DEF a
<1>4. /\ d \in Themes /\ d.pending = NoAtlas /\ d.pixels = NoAtlas /\ d.layout = 0
      /\ ~d.requested /\ d.serial = v.serial /\ d.look = v.look
      /\ d.shown = v.shown /\ d.picture = v.picture
      /\ d.link = v.link /\ d.sent = v.sent /\ d.acked = v.acked /\ d.discard
  BY <1>1 DEF Themes
<1> HIDE DEF d
<1>5. w \in Themes
  BY <1>4
<1> HIDE DEF w, u
<1>6. /\ u.serial = w.serial + 1 /\ u.sent = v.look /\ u.look = w.look
      /\ u.link = w.link /\ u.acked = w.acked /\ u.shown = w.shown /\ u.picture = w.picture
  BY <1>2, <1>5 DEF Themes
<1>7. /\ u.pending = w.pending /\ u.layout = w.layout /\ u.pixels = w.pixels
      /\ u.requested = w.requested /\ u.discard = w.discard
  BY <1>2, <1>5 DEF Themes
<1>8. CASE v.pending # NoAtlas
  BY <1>3, <1>4, <1>6, <1>7, <1>8 DEF w, u
<1>9. CASE v.pending = NoAtlas
  BY <1>3, <1>6, <1>7, <1>9 DEF w, u
<1> QED
  BY <1>8, <1>9

\* Its two events are on their way after all others.
LEMMA StatesAppended ==
    ASSUME NEW s \in Seq(States), NEW k \in Nat \ {0}, NEW look \in Looks
    PROVE  LET n == s \o <<[type |-> "state", serial |-> k, look |-> look],
                            [type |-> "done", serial |-> k, look |-> look]>>
               N == Len(s)
           IN  /\ n \in Seq(States) /\ N \in Nat /\ Len(n) = N + 2
               /\ \A i \in 1 .. N : n[i] = s[i]
               /\ n[N + 1].type = "state" /\ n[N + 1].serial = k /\ n[N + 1].look = look
               /\ n[N + 2].type = "done" /\ n[N + 2].serial = k
<1> DEFINE a == [type |-> "state", serial |-> k, look |-> look]
           b == [type |-> "done", serial |-> k, look |-> look]
<1>1. a \in States /\ b \in States
  BY DEF States
<1>2. a.type = "state" /\ a.serial = k /\ a.look = look /\ b.type = "done" /\ b.serial = k
  OBVIOUS
<1> HIDE DEF a, b
<1>3. <<a, b>> \in Seq(States)
  BY <1>1
<1>4. /\ s \o <<a, b>> \in Seq(States) /\ Len(s) \in Nat /\ Len(s \o <<a, b>>) = Len(s) + 2
      /\ \A i \in 1 .. Len(s) : (s \o <<a, b>>)[i] = s[i]
      /\ (s \o <<a, b>>)[Len(s) + 1] = a /\ (s \o <<a, b>>)[Len(s) + 2] = b
  BY <1>1, <1>3
<1> QED
  BY <1>2, <1>4 DEF a, b

LEMMA StatesFollow ==
    ASSUME NEW s \in Seq(States), NEW v \in Themes, NEW r \in Renderers,
           StatesOk(s, v, r), r.serial <= v.serial,
           NEW u \in Themes, u.serial = v.serial + 1,
           NEW n \in Seq(States), Len(n) = Len(s) + 2, \A i \in 1 .. Len(s) : n[i] = s[i],
           n[Len(s) + 1].type = "state", n[Len(s) + 1].serial = u.serial, n[Len(s) + 1].look = u.look,
           n[Len(s) + 2].type = "done", n[Len(s) + 2].serial = u.serial
    PROVE  StatesOk(n, u, r)
<1> DEFINE N == Len(s)
<1>1. {r.serial, v.serial, u.serial} \subseteq Nat /\ N \in Nat
  BY DEF Themes, Renderers
<1>2. \A i \in 1 .. N : s[i].serial \in Nat /\ s[i].serial <= v.serial
  <2>1. \A i \in 1 .. N : s[i] \in States
    OBVIOUS
  <2> QED
    BY <2>1 DEF StatesOk, States
<1>3. ASSUME NEW i \in 1 .. N + 2
      PROVE  /\ n[i].type = "state" =>
                  i < N + 2 /\ n[i + 1].type = "done" /\ n[i + 1].serial = n[i].serial
                  /\ r.serial < n[i].serial
             /\ n[i].type = "done" => r.serial <= n[i].serial
                                      /\ (i < N + 2 => n[i + 1].type = "state")
             /\ n[i].serial # 0 /\ n[i].serial <= u.serial
             /\ n[i].type = "state" /\ n[i].serial = u.serial => n[i].look = u.look
  <2>1. CASE i = N + 2
    BY <1>1, <2>1
  <2>2. CASE i = N + 1
    BY <1>1, <2>2
  <2>3. CASE i \in 1 .. N
    <3>0. i < N => i + 1 \in 1 .. N
      BY <1>1, <2>3
    <3>1. n[i] = s[i] /\ (i < N => n[i + 1] = s[i + 1])
      BY <2>3, <3>0
    <3>2. CASE i < N
      BY <1>1, <1>2, <2>3, <3>1, <3>2 DEF StatesOk
    <3>3. CASE i = N
      <4>1. s[i].type = "done" /\ s[i].serial = v.serial /\ s[i].serial # 0 /\ n[i + 1].type = "state"
        BY <1>1, <2>3, <3>3 DEF StatesOk
      <4> QED
        BY <1>1, <3>1, <4>1
    <3> QED
      BY <1>1, <2>3, <3>2, <3>3
  <2> QED
    BY <1>1, <2>1, <2>2, <2>3
<1>4. ASSUME NEW i \in 1 .. N + 2, NEW j \in 1 .. N + 2, i < j
      PROVE  n[i].serial <= n[j].serial /\ (n[j].type = "state" => n[i].serial < n[j].serial)
  <2>1. CASE j \in 1 .. N
    <3>1. i \in 1 .. N /\ n[i] = s[i] /\ n[j] = s[j]
      BY <1>1, <1>4, <2>1
    <3> QED
      BY <1>4, <2>1, <3>1 DEF StatesOk
  <2>2. CASE i \in 1 .. N /\ j \in {N + 1, N + 2}
    BY <1>1, <1>2, <2>2
  <2>3. CASE i = N + 1 /\ j = N + 2
    BY <1>1, <2>3
  <2> QED
    BY <1>1, <1>4, <2>1, <2>2, <2>3
<1>5. IF n[1].type = "done" THEN r.serial = n[1].serial /\ ~r.packed ELSE r.serial # 0 => r.packed
  <2>1. CASE N = 0
    BY <1>1, <2>1 DEF StatesOk
  <2>2. CASE N # 0
    <3>1. n[1] = s[1]
      BY <1>1, <2>2
    <3> QED
      BY <2>2, <3>1 DEF StatesOk
  <2> QED
    BY <2>1, <2>2
<1> QED
  BY <1>1, <1>3, <1>4, <1>5 DEF StatesOk

LEMMA DesktopChangesStep ==
    ASSUME AtlasTypes, Together(theme, renderer, states, answers), DesktopChanges
    PROVE  AtlasTypes' /\ Together(theme', renderer', states', answers')
<1> DEFINE r == renderer
           q == answers
<1>1. Linked
  BY DEF Linked, Together
<1>2. PICK look \in Looks \ {theme.look} : theme' = SendState([theme EXCEPT !.look = look])
  BY <1>1 DEF DesktopChanges
<1> DEFINE v == [theme EXCEPT !.look = look]
           u == SendState(v)
<1>3. theme \in Themes /\ r \in Renderers /\ states \in Seq(States) /\ UNCHANGED <<renderer, answers>>
  BY DEF AtlasTypes, DesktopChanges
<1>4. /\ v \in Themes /\ v.look = look
      /\ v.link = theme.link /\ v.sent = theme.sent /\ v.serial = theme.serial
      /\ v.acked = theme.acked /\ v.pending = theme.pending /\ v.layout = theme.layout
      /\ v.requested = theme.requested /\ v.discard = theme.discard /\ v.pixels = theme.pixels
      /\ v.shown = theme.shown /\ v.picture = theme.picture
  BY <1>2, <1>3 DEF Themes
<1> HIDE DEF v
<1>5. v.sent # v.look
  BY <1>2, <1>4 DEF Together, ThemeOk
<1>6. /\ u \in Themes /\ u.serial = theme.serial + 1 /\ u.sent = look /\ u.look = look
      /\ u.link = theme.link /\ u.acked = theme.acked /\ u.shown = theme.shown
      /\ u.picture = theme.picture
      /\ u.pending = NoAtlas /\ u.layout = 0 /\ u.pixels = NoAtlas /\ ~u.requested
      /\ theme.pending # NoAtlas \/ theme.discard => u.discard
  BY <1>4, <1>5, StateSent DEF Together, ThemeOk
<1>7. theme' = u
  BY <1>2 DEF v
<1> HIDE DEF u
<1>8. {theme.serial, r.serial, theme.acked, u.serial} \subseteq Nat /\ r.serial <= theme.serial
  BY <1>3, <1>6 DEF Together, ThemeOk, Themes, Renderers
<1>9. theme.shown # NoAtlas => theme.shown.gen <= r.gen
  BY DEF Together, ThemeOk
<1>10. theme.serial + 1 \in Nat \ {0} /\ theme.serial + 1 # theme.serial
  BY <1>8
<1>11. states' = states \o <<[type |-> "state", serial |-> u.serial, look |-> u.look],
                              [type |-> "done", serial |-> u.serial, look |-> u.look]>>
  BY <1>6, <1>7, <1>10 DEF DesktopChanges, Sent
<1>12. StatesOk(states', u, r) /\ states' \in Seq(States)
  <2>1. look \in Looks /\ u.serial \in Nat \ {0}
    BY <1>2, <1>6, <1>10
  <2>2. StatesOk(states, theme, r)
    BY DEF Together
  <2>3. /\ states' \in Seq(States) /\ Len(states') = Len(states) + 2
        /\ \A i \in 1 .. Len(states) : states'[i] = states[i]
        /\ states'[Len(states) + 1].type = "state" /\ states'[Len(states) + 1].serial = u.serial
        /\ states'[Len(states) + 1].look = u.look
        /\ states'[Len(states) + 2].type = "done" /\ states'[Len(states) + 2].serial = u.serial
    BY <1>3, <1>6, <1>11, <2>1, StatesAppended
  <2> QED
    BY <1>3, <1>6, <1>8, <2>2, <2>3, StatesFollow
<1>13. ThemeOk(u, r)
  BY <1>6, <1>8, <1>9, <1>10 DEF Together, ThemeOk
<1>14. LayoutsOk(q, u)
  <2>1. \A gen, look_1 : /\ IsBegun(theme, gen, look_1) => u.discard
                         /\ IsDrawn(theme, gen) => u.discard
                         /\ IsTiled(theme, gen) => u.discard
    BY <1>6 DEF IsBegun, IsDrawn, IsTiled
  <2>2. \A gen, look_1 : u.discard => IsBegun(u, gen, look_1) /\ IsDrawn(u, gen) /\ IsTiled(u, gen)
    BY DEF IsBegun, IsDrawn, IsTiled
  <2>3. LayoutsOk(q, theme)
    BY DEF Together
  <2> QED
    BY <2>1, <2>2, <2>3 DEF LayoutsOk
<1>15. LayingOk(q, u, r)
  <2>1. \A gen, look_1 : /\ IsBegun(theme, gen, look_1) => IsBegun(u, gen, look_1)
                         /\ IsDrawn(theme, gen) => IsDrawn(u, gen)
    BY <1>6 DEF IsBegun, IsDrawn
  <2>2. LayingOk(q, theme, r)
    BY DEF Together
  <2> QED
    BY <2>1, <2>2 DEF LayingOk
<1>16. AcksOk(q, u, r)
  BY <1>6, <1>8 DEF Together, AcksOk
<1>17. BeginsOk(q, u, r)
  BY <1>6 DEF Together, BeginsOk
<1>18. CurrentOk(q, u, r)
  BY <1>6, <1>8 DEF CurrentOk
<1>19. WholeOf(u) /\ u.link = "up" /\ RendererOk(r)
  BY <1>6 DEF Together, WholeOf
<1>20. Together(u, r, states', q)
  BY <1>12, <1>13, <1>14, <1>15, <1>16, <1>17, <1>18, <1>19 DEF Together
<1> QED
  BY <1>3, <1>6, <1>7, <1>12, <1>20 DEF AtlasTypes

\* A renderer connects: it is told the first state.
LEMMA RegisterStep ==
    ASSUME AtlasTypes, AtlasUnlinked, Register
    PROVE  AtlasTypes' /\ Together(theme', renderer', states', answers')
<1> DEFINE r == renderer
           v == [theme EXCEPT !.link = "up"]
           u == SendState(v)
<1>1. theme \in Themes /\ r \in Renderers /\ theme' = u /\ states = <<>> /\ answers = <<>>
      /\ UNCHANGED <<renderer, answers>> /\ RendererOk(r)
      /\ r.serial = 0 /\ ~r.packed /\ ~r.laying
  BY DEF AtlasTypes, AtlasUnlinked, Register
<1>2. /\ v \in Themes /\ v.look = theme.look /\ v.link = "up" /\ v.sent = NoAtlas /\ v.serial = 0
      /\ v.acked = 0 /\ v.pending = NoAtlas /\ v.layout = 0 /\ ~v.requested /\ ~v.discard
      /\ v.pixels = NoAtlas /\ v.shown = NoAtlas
  BY <1>1 DEF AtlasUnlinked, Themes
<1> HIDE DEF v
<1>3. v.look \in Looks /\ v.sent # v.look
  BY <1>2, AtlasAssumption DEF Themes
<1>4. /\ u \in Themes /\ u.serial = 1 /\ u.sent = v.look /\ u.look = v.look
      /\ u.link = "up" /\ u.acked = 0 /\ u.shown = NoAtlas
      /\ u.pending = NoAtlas /\ u.layout = 0 /\ u.pixels = NoAtlas /\ ~u.requested /\ ~u.discard
  BY <1>2, <1>3, StateSent
<1> HIDE DEF u
<1>5. states' = states \o <<[type |-> "state", serial |-> u.serial, look |-> u.look],
                            [type |-> "done", serial |-> u.serial, look |-> u.look]>>
  <2>1. states' = Sent(theme, theme') /\ theme.serial = 0 /\ theme' = u
    BY <1>1 DEF Register, AtlasUnlinked
  <2> QED
    BY <1>4, <2>1 DEF Sent
<1>6. states \in Seq(States) /\ Len(states) = 0
  BY <1>1
<1>7. /\ states' \in Seq(States) /\ Len(states') = 2
      /\ states'[1].type = "state" /\ states'[1].serial = 1 /\ states'[1].look = u.look
      /\ states'[2].type = "done" /\ states'[2].serial = 1
  <2>1. u.look \in Looks /\ u.serial \in Nat \ {0}
    BY <1>3, <1>4
  <2>2. /\ states' \in Seq(States) /\ Len(states') = Len(states) + 2
        /\ states'[Len(states) + 1].type = "state" /\ states'[Len(states) + 1].serial = u.serial
        /\ states'[Len(states) + 1].look = u.look
        /\ states'[Len(states) + 2].type = "done" /\ states'[Len(states) + 2].serial = u.serial
    <3> DEFINE n == states \o <<[type |-> "state", serial |-> u.serial, look |-> u.look],
                                [type |-> "done", serial |-> u.serial, look |-> u.look]>>
    <3>1. /\ n \in Seq(States) /\ Len(n) = Len(states) + 2
          /\ n[Len(states) + 1].type = "state" /\ n[Len(states) + 1].serial = u.serial
          /\ n[Len(states) + 1].look = u.look
          /\ n[Len(states) + 2].type = "done" /\ n[Len(states) + 2].serial = u.serial
      <4>1. states \in Seq(States)
        BY <1>6
      <4>2. u.serial \in Nat \ {0}
        BY <2>1
      <4>3. u.look \in Looks
        BY <2>1
      <4> QED
        BY <4>1, <4>2, <4>3, StatesAppended
    <3>2. states' = n
      BY <1>5
    <3> HIDE DEF n
    <3> QED
      BY <3>1, <3>2
  <2>3. Len(states) + 1 = 1 /\ Len(states) + 2 = 2
    BY <1>6
  <2> QED
    BY <1>4, <2>2, <2>3
<1>8. StatesOk(states', u, r)
  <2>1. \A i \in 1 .. 2 : i = 1 \/ i = 2
    OBVIOUS
  <2> QED
    BY <1>1, <1>4, <1>7, <2>1 DEF StatesOk
<1>9. ~Drawn(r) /\ ~r.publish
  BY <1>1 DEF Drawn, RendererOk
<1>10. Len(answers) = 0 /\ Len(answers) \in Nat
  BY <1>1
<1>11. LayoutsOk(answers, u) /\ AcksOk(answers, u, r) /\ BeginsOk(answers, u, r)
  BY <1>1, <1>4, <1>10 DEF LayoutsOk, AcksOk, BeginsOk
<1>12. CurrentOk(answers, u, r) /\ LayingOk(answers, u, r) /\ WholeOf(u)
  BY <1>1, <1>4, <1>9 DEF CurrentOk, LayingOk, WholeOf
<1>13. ThemeOk(u, r)
  BY <1>1, <1>4 DEF ThemeOk
<1>14. Together(u, r, states', answers)
  BY <1>1, <1>4, <1>8, <1>11, <1>12, <1>13 DEF Together
<1> QED
  BY <1>1, <1>4, <1>7, <1>14 DEF AtlasTypes

-----------------------------------------------------------------------------
LEMMA TogetherIs ==
    /\ AtlasIsWhole /\ Linked /\ AtlasLinked <=> Together(theme, renderer, states, answers)
    /\ Linking(theme, answers) <=> Together(theme, renderer, states, answers)
BY DEF AtlasIsWhole, AtlasLinked, Linked, Linking, Together, WholeOf

\* Before a renderer connects and after it is gone, only the desktop changes.
LEMMA ApartStep ==
    ASSUME AtlasTypes, AtlasInv, ~Linked, AtlasNext
    PROVE  AtlasTypes' /\ AtlasInv'
<1>1. Register \/ DesktopChanges
  BY DEF AtlasNext, Serve, SurfaceCommit, WindowConfigured, StateBegins, StateDone, BeginRender,
         LoadFinished, SnapshotFinished, PublishLayout, RendererGone, Alive, Hears
<1>2. CASE Register
  <2>1. AtlasUnlinked
    BY <1>2 DEF AtlasInv, Register
  <2>2. AtlasTypes' /\ Together(theme', renderer', states', answers')
    BY <1>2, <2>1, RegisterStep
  <2>3. (AtlasIsWhole /\ Linked /\ AtlasLinked)'
    BY <2>2 DEF AtlasIsWhole, AtlasLinked, Linked, Together, WholeOf
  <2> QED
    BY <2>2, <2>3 DEF AtlasInv, Linked
<1>3. CASE DesktopChanges
  <2>1. PICK look \in Looks : theme' = [theme EXCEPT !.look = look]
    BY <1>3 DEF DesktopChanges
  <2>2. theme \in Themes
    BY DEF AtlasTypes
  <2>3. /\ theme' \in Themes /\ theme'.link = theme.link /\ theme'.sent = theme.sent
        /\ theme'.serial = theme.serial
        /\ theme'.acked = theme.acked /\ theme'.pending = theme.pending /\ theme'.layout = theme.layout
        /\ theme'.requested = theme.requested /\ theme'.discard = theme.discard
        /\ theme'.pixels = theme.pixels /\ theme'.shown = theme.shown
        /\ theme'.picture = theme.picture
    BY <2>1, <2>2 DEF Themes
  <2>4. UNCHANGED <<renderer, states, answers>>
    BY <1>3, <2>3 DEF DesktopChanges, Sent
  <2>5. AtlasTypes'
    BY <2>3, <2>4 DEF AtlasTypes
  <2>6. AtlasIsWhole'
    BY <2>3 DEF AtlasInv, AtlasIsWhole
  <2>7. theme'.link # "refused" /\ theme'.link # "up"
    BY <2>3 DEF AtlasInv, Linked
  <2>8. theme'.link = "none" => AtlasUnlinked'
    BY <2>3, <2>4 DEF AtlasInv, AtlasUnlinked
  <2> QED
    BY <2>5, <2>6, <2>7, <2>8 DEF AtlasInv
<1> QED
  BY <1>1, <1>2, <1>3

LEMMA RendererGoneStep ==
    ASSUME AtlasTypes, RendererGone
    PROVE  AtlasTypes' /\ AtlasInv'
<1> DEFINE u == Unlinked(theme, "gone")
           a == Aborted(theme)
<1>1. theme \in Themes /\ renderer \in Renderers /\ theme' = u
      /\ renderer' = [renderer EXCEPT !.quit = TRUE] /\ states' = <<>> /\ answers' = <<>>
  BY DEF AtlasTypes, RendererGone
<1>2. u \in Themes
  BY <1>1, UnlinkedType
<1>3. a \in Themes
  BY <1>1, AbortedType
<1> HIDE DEF a
<1>4. u.link = "gone" /\ u.shown = NoAtlas
  BY <1>3 DEF Unlinked, Themes, a
<1>5. renderer' \in Renderers
  BY <1>1 DEF Renderers
<1> HIDE DEF u
<1> QED
  BY <1>1, <1>2, <1>4, <1>5 DEF AtlasTypes, AtlasInv, AtlasIsWhole

LEMMA LinkedStep ==
    ASSUME AtlasTypes, AtlasInv, Linked, AtlasNext
    PROVE  AtlasTypes' /\ AtlasInv'
<1>1. Together(theme, renderer, states, answers) /\ Linking(theme, answers)
  BY TogetherIs DEF AtlasInv, Linked
<1>2. CASE RendererGone
  BY <1>2, RendererGoneStep
<1>3. CASE ~RendererGone
  <2>1. AtlasTypes' /\ Together(theme', renderer', states', answers')
    <3>1. CASE Serve
      <4>1. AtlasTypes' /\ Linking(theme', answers') /\ UNCHANGED <<renderer, states>>
        BY <1>1, <3>1, ServeStep
      <4> QED
        BY <4>1 DEF Linking, Together
    <3>2. ~Register
      BY DEF Register, Linked
    <3> QED
      BY <1>1, <1>3, <3>1, <3>2, DesktopChangesStep, SurfaceCommitStep, WindowConfiguredStep,
         StateBeginsStep, StateDoneStep, BeginRenderStep, LoadFinishedStep, SnapshotFinishedStep,
         PublishLayoutStep DEF AtlasNext
  <2>2. (AtlasIsWhole /\ Linked /\ AtlasLinked)'
    BY <2>1 DEF AtlasIsWhole, AtlasLinked, Linked, Together, WholeOf
  <2> QED
    BY <2>1, <2>2 DEF AtlasInv, Linked
<1> QED
  BY <1>2, <1>3

LEMMA AtlasInitial ==
    ASSUME AtlasInit
    PROVE  AtlasTypes /\ AtlasInv
<1>1. PICK look \in Looks :
         theme = [link |-> "none", look |-> look, sent |-> NoAtlas, serial |-> 0, acked |-> 0,
                  pending |-> NoAtlas, layout |-> 0, requested |-> FALSE, discard |-> FALSE,
                  pixels |-> NoAtlas, shown |-> NoAtlas, picture |-> NoAtlas,
                  surface |-> NoAtlas, fresh |-> FALSE, repaints |-> 0]
  BY DEF AtlasInit
<1>2. PICK desktop \in BOOLEAN :
         renderer = [desktop |-> desktop, configured |-> FALSE, serial |-> 0, look |-> NoAtlas,
                     shell |-> FALSE, windows |-> FALSE, packed |-> FALSE, render |-> FALSE,
                     drawing |-> 0, gen |-> 0, laying |-> FALSE, loading |-> NoAtlas,
                     document |-> NoAtlas, snapshot |-> FALSE, publish |-> FALSE, quit |-> FALSE]
  BY DEF AtlasInit
<1>3. states = <<>> /\ answers = <<>>
  BY DEF AtlasInit
<1>4. theme \in Themes
  BY <1>1 DEF Themes
<1>5. renderer \in Renderers
  BY <1>2 DEF Renderers
<1>6. RendererOk(renderer)
  BY <1>2 DEF RendererOk, Drawn, HasRenderState
<1>7. AtlasUnlinked
  BY <1>1, <1>2, <1>3, <1>6 DEF AtlasUnlinked
<1> QED
  BY <1>1, <1>3, <1>4, <1>5, <1>7 DEF AtlasTypes, AtlasInv, AtlasIsWhole

\* The state of the desktop that a quiet renderer has drawn is the server's.
LEMMA QuietIsCurrent ==
    ASSUME AtlasTypes, AtlasInv
    PROVE  FramesFollowDesktop
<1> SUFFICES ASSUME AtlasIsQuiet, HasRenderState(renderer)
             PROVE  theme.shown # NoAtlas /\ theme.shown.look = theme.look
  BY DEF AtlasInv, FramesFollowDesktop
<1>1. Linked /\ ~renderer.quit /\ renderer.configured /\ states = <<>> /\ answers = <<>>
      /\ ~renderer.render /\ renderer.loading = NoAtlas /\ ~renderer.snapshot /\ ~renderer.publish
  BY DEF AtlasIsQuiet, Alive
<1>2. AtlasLinked
  BY <1>1 DEF AtlasInv, Linked
<1>3. Len(states) = 0 /\ Len(answers) = 0
  BY <1>1
<1>4. renderer.serial # 0
  BY <1>2 DEF AtlasLinked, RendererOk
<1>5. renderer.serial = theme.serial /\ renderer.packed
  BY <1>2, <1>3, <1>4 DEF AtlasLinked, StatesOk
<1>6. Drawn(renderer)
  BY <1>1, <1>2, <1>4, <1>5 DEF AtlasLinked, RendererOk, Drawn
<1>7. ~renderer.laying
  BY <1>1, <1>2, <1>4 DEF AtlasLinked, RendererOk
<1> QED
  BY <1>1, <1>2, <1>3, <1>5, <1>6, <1>7 DEF AtlasLinked, CurrentOk

\* Whatever happens, no good request is refused, the frames on the screen are
\* cut from their own picture and in quiet they show the desktop as it is.
THEOREM FramesCorrect == AtlasSpec => []FramesFollowDesktop
<1>1. AtlasInit => AtlasTypes /\ AtlasInv
  BY AtlasInitial
<1>2. AtlasTypes /\ AtlasInv /\ [AtlasNext]_atlasVars => (AtlasTypes /\ AtlasInv)'
  <2> SUFFICES ASSUME AtlasTypes, AtlasInv, [AtlasNext]_atlasVars
               PROVE  AtlasTypes' /\ AtlasInv'
    OBVIOUS
  <2>1. CASE UNCHANGED atlasVars
    BY <2>1 DEF atlasVars, AtlasTypes, AtlasInv, AtlasIsWhole, AtlasUnlinked, AtlasLinked
  <2>2. CASE AtlasNext
    BY <2>2, ApartStep, LinkedStep
  <2> QED
    BY <2>1, <2>2
<1>3. AtlasTypes /\ AtlasInv => FramesFollowDesktop
  BY QuietIsCurrent
<1> QED
  BY <1>1, <1>2, <1>3, PTL DEF AtlasSpec
================================================================================
