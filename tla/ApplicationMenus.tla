--------------------------- MODULE ApplicationMenus ---------------------------
(***************************************************************************)
(* Menus that clients publish for their windows (wayland_server.c) and the *)
(* menu bar that shows them (shell.c).  A client edits a pending menu and  *)
(* commits it into one of two snapshots of its surface; the shell keeps a  *)
(* pointer to the other one meanwhile, and the user may have that menu     *)
(* open.  A command the user chooses goes back to the client.              *)
(*                                                                         *)
(* The surfaces are xdg toplevels.  A request that breaks the protocol     *)
(* ends its client, whose objects are then destroyed in some order, so it  *)
(* is a guard here.  A menu object that outlives its toplevel can do       *)
(* nothing but be destroyed, and is left out.                              *)
(***************************************************************************)
EXTENDS Naturals, FiniteSets

CONSTANTS
    Tops,           \* surfaces
    Commands,       \* commands of menu items
    LauncherCommands, \* those the desktop keeps for its own launcher
    MaxMenus,       \* NB_MENU_MAX_MENUS
    MaxItems,       \* NB_MENU_MAX_ITEMS
    NoWindow        \* no window, no command

\* The sources of the menus are told apart: menu_source_range_is_available.
ASSUME MenuAssumption ==
    /\ LauncherCommands \subseteq Commands /\ MaxMenus \in Nat /\ MaxItems \in Nat
    /\ {NoWindow, "wayland", "desktop"} \cap Tops = {}

VARIABLES
    app,        \* struct nb_wayland_surface and its menu object
    bar,        \* struct nb_shell: bindings, visible menu
    heard       \* the last command a client was sent

menuVars == <<app, bar, heard>>

\* A menu: how many menus, how many entries in the last one, and the items
\* (an item is a command and whether it is enabled; labels are left out).
Empty == [menus |-> 0, last |-> 0, items |-> {}]

\* menu_snapshot_contains_command, menu_snapshot_command_is_actionable
HasCommand(items, command) == \E item \in items : item.command = command
IsActionable(items, command) == \E item \in items : item.command = command /\ item.enabled

\* What the shell points at: a source and which of its models.
Fallback == [source |-> "wayland", index |-> 0]
DesktopMenu == [source |-> "desktop", index |-> 0]
Snapshot(s, index) == [source |-> s, index |-> index]

NoApp == [toplevel |-> FALSE, object |-> FALSE, building |-> FALSE, pending |-> Empty,
          snapshots |-> <<Empty, Empty>>, active |-> 1, committed |-> FALSE]

MenuInit ==
    /\ app = [s \in Tops |-> NoApp]
    /\ bar = [bound |-> [s \in {} |-> Fallback], active |-> NoWindow, visible |-> DesktopMenu, window |-> NoWindow,
              open |-> FALSE, seen |-> {}]
    /\ heard = NoWindow

-----------------------------------------------------------------------------
(***************************************************************************)
(* The shell: operators on `bar`.                                          *)
(***************************************************************************)
\* The items behind a pointer, read when they are needed.
ItemsOf(a, model) == IF model.source \in Tops THEN a[model.source].snapshots[model.index].items ELSE {}

\* set_visible_menu_model closes an open menu.
Visible(b, model, window) ==
    [b EXCEPT !.visible = model, !.window = window, !.open = FALSE, !.seen = {}]

\* sync_active_menu
WantedModel(b) == IF b.active \in DOMAIN b.bound THEN b.bound[b.active] ELSE DesktopMenu

SyncMenu(b) ==
    IF <<b.visible, b.window>> = <<WantedModel(b), b.active>> THEN b
    ELSE Visible(b, WantedModel(b), b.active)

\* source_model_is_consistent
IsConsistent(b, s, model) ==
    \A w \in DOMAIN b.bound \ {s} : b.bound[w].source = model.source => b.bound[w] = model

\* nb_shell_update_window_menu, under the guard IsConsistent
UpdateWindowMenu(b, s, model) ==
    LET c == [b EXCEPT !.bound[s] = model]
    IN  IF c.active = s THEN Visible(c, model, s) ELSE SyncMenu(c)

\* bind_surface_menu
BindMenu(b, s, model) == IF s \in DOMAIN b.bound THEN UpdateWindowMenu(b, s, model) ELSE b
CanBind(b, s, model) == s \in DOMAIN b.bound => IsConsistent(b, s, model)

\* nb_shell_destroy_window; another window becomes active, or none does.
WithoutWindow(b, s, next) ==
    IF s \notin DOMAIN b.bound THEN b
    ELSE SyncMenu([b EXCEPT !.bound = [w \in DOMAIN @ \ {s} |-> @[w]],
                            !.active = IF @ = s THEN next ELSE @])

-----------------------------------------------------------------------------
(***************************************************************************)
(* Requests of the clients.                                                *)
(***************************************************************************)
Mapped(s) == s \in DOMAIN bar.bound
Building(s) == app[s].object /\ app[s].building

CreateToplevel(s) ==
    /\ ~app[s].toplevel
    /\ app' = [app EXCEPT ![s].toplevel = TRUE]
    /\ UNCHANGED <<bar, heard>>

\* application_menu_manager_get_menu
GetMenu(s) ==
    /\ app[s].toplevel /\ ~app[s].object
    /\ app' = [app EXCEPT ![s].object = TRUE, ![s].building = TRUE, ![s].pending = Empty]
    /\ UNCHANGED <<bar, heard>>

\* application_menu_reset
ResetMenu(s) ==
    /\ app[s].object
    /\ app' = [app EXCEPT ![s].building = TRUE, ![s].pending = Empty]
    /\ UNCHANGED <<bar, heard>>

\* application_menu_append_menu
AppendMenu(s) ==
    /\ Building(s) /\ app[s].pending.menus < MaxMenus
    /\ app' = [app EXCEPT ![s].pending.menus = @ + 1, ![s].pending.last = 0]
    /\ UNCHANGED <<bar, heard>>

\* application_menu_append_separator: an entry that is no item
AppendSeparator(s) ==
    /\ Building(s) /\ app[s].pending.menus > 0 /\ app[s].pending.last < MaxItems
    /\ app' = [app EXCEPT ![s].pending.last = @ + 1]
    /\ UNCHANGED <<bar, heard>>

\* application_menu_append_item
AppendItem(s, command, enabled) ==
    /\ Building(s) /\ app[s].pending.menus > 0 /\ app[s].pending.last < MaxItems
    /\ ~HasCommand(app[s].pending.items, command)
    /\ app' = [app EXCEPT ![s].pending.last = @ + 1,
                          ![s].pending.items = @ \cup {[command |-> command, enabled |-> enabled]}]
    /\ UNCHANGED <<bar, heard>>

\* the snapshot the shell does not point at
Candidate(s) == 3 - app[s].active

\* application_menu_commit; the shell never refuses the menu, because no other
\* window has its source (MenusAreTheClients).
CommitMenu(s) ==
    /\ Building(s) /\ app[s].pending.menus > 0
    /\ CanBind(bar, s, Snapshot(s, Candidate(s)))
    /\ app' = [app EXCEPT ![s].snapshots[Candidate(s)] = app[s].pending,
                          ![s].active = Candidate(s), ![s].committed = TRUE, ![s].building = FALSE]
    /\ bar' = BindMenu(bar, s, Snapshot(s, Candidate(s)))
    /\ UNCHANGED heard

MutantRestored(s) == IF bar.active = s THEN SyncMenu(bar) ELSE BindMenu(bar, s, Fallback)

\* the fallback menu takes the place of the object's
Restored(s) == BindMenu(bar, s, Fallback)

\* application_menu_resource_destroyed
DestroyMenu(s) ==
    /\ app[s].object /\ CanBind(bar, s, Fallback)
    /\ app' = [app EXCEPT ![s] = [NoApp EXCEPT !.toplevel = TRUE]]
    /\ bar' = Restored(s)
    /\ UNCHANGED heard

\* map_surface: the first commit with pixels
MapWindow(s) ==
    /\ app[s].toplevel /\ ~Mapped(s)
    /\ LET model == IF app[s].committed THEN Snapshot(s, app[s].active) ELSE Fallback
       IN  /\ IsConsistent(bar, s, model)
           /\ bar' = SyncMenu([bar EXCEPT !.active = s,
                 !.bound = [w \in DOMAIN @ \cup {s} |-> IF w = s THEN model ELSE @[w]]])
    /\ UNCHANGED <<app, heard>>

\* unmap_surface: a commit without a buffer
UnmapWindow(s) ==
    /\ Mapped(s)
    /\ \E next \in (DOMAIN bar.bound \ {s}) \cup {NoWindow} : bar' = WithoutWindow(bar, s, next)
    /\ UNCHANGED <<app, heard>>

\* xdg_toplevel_resource_destroyed, detach_surface_application_menu
DestroyToplevel(s) ==
    /\ app[s].toplevel
    /\ app' = [app EXCEPT ![s] = NoApp]
    /\ \E next \in (DOMAIN bar.bound \ {s}) \cup {NoWindow} : bar' = WithoutWindow(bar, s, next)
    /\ UNCHANGED heard

-----------------------------------------------------------------------------
(***************************************************************************)
(* The user.                                                               *)
(***************************************************************************)
\* A window is activated or minimized.
Activate(w) ==
    /\ bar' = SyncMenu([bar EXCEPT !.active = w])
    /\ UNCHANGED <<app, heard>>

OpenMenu ==
    /\ ~bar.open
    /\ bar' = [bar EXCEPT !.open = TRUE, !.seen = ItemsOf(app, bar.visible)]
    /\ heard' = NoWindow
    /\ UNCHANGED app

CancelMenu ==
    /\ bar.open
    /\ bar' = [bar EXCEPT !.open = FALSE, !.seen = {}]
    /\ UNCHANGED <<app, heard>>

\* nb_wayland_server_dispatch_menu_command; the window's surface is the one of
\* the same name.
Accepts(s, source, command) ==
    /\ app[s].committed /\ app[s].object /\ s = source
    /\ IsActionable(app[s].snapshots[app[s].active].items, command)

\* apply_shell_action: the launcher's commands are taken before anybody asks
\* whose menu it was.
ChooseItem(item) ==
    /\ bar.open /\ item \in ItemsOf(app, bar.visible) /\ item.enabled
    /\ heard' = IF item.command \notin LauncherCommands
                   /\ Accepts(bar.window, bar.visible.source, item.command)
                THEN [surface |-> bar.window, command |-> item.command] ELSE heard
    /\ bar' = [bar EXCEPT !.open = FALSE, !.seen = {}]
    /\ UNCHANGED app

Items == [command : Commands, enabled : BOOLEAN]

MenuNext ==
    \/ \E s \in Tops :
         \/ CreateToplevel(s) \/ GetMenu(s) \/ ResetMenu(s) \/ AppendMenu(s) \/ AppendSeparator(s)
         \/ \E item \in Items : AppendItem(s, item.command, item.enabled)
         \/ CommitMenu(s) \/ DestroyMenu(s) \/ MapWindow(s) \/ UnmapWindow(s) \/ DestroyToplevel(s)
    \/ \E w \in DOMAIN bar.bound \cup {NoWindow} : Activate(w)
    \/ OpenMenu \/ CancelMenu \/ \E item \in Items : ChooseItem(item)

MenuSpec == MenuInit /\ [][MenuNext]_menuVars

(***************************************************************************)
(* Properties.                                                             *)
(***************************************************************************)
Menus == [menus : Nat, last : Nat, items : SUBSET Items]
Models == [source : Tops \cup {"wayland", "desktop"}, index : 0..2]
Apps == [toplevel : BOOLEAN, object : BOOLEAN, building : BOOLEAN, pending : Menus,
         snapshots : [1..2 -> Menus], active : 1..2, committed : BOOLEAN]
Bars == [bound : UNION {[W -> Models] : W \in SUBSET Tops}, active : Tops \cup {NoWindow},
         visible : Models, window : Tops \cup {NoWindow}, open : BOOLEAN, seen : SUBSET Items]

MenuTypeOK == app \in [Tops -> Apps] /\ bar \in Bars

\* Whoever publishes, withdraws or replaces a menu, while the user opens it
\* and windows come and go: a window has the menu its client committed last,
\* or the fallback; the bar shows the active window's; an open menu is the
\* one the user opened, to the last item; and each of its items reaches the
\* client that published it, unless the launcher takes the command.
MenusAreTheClients ==
    /\ \A s \in DOMAIN bar.bound :
         /\ bar.bound[s] = IF app[s].committed THEN Snapshot(s, app[s].active) ELSE Fallback
         /\ app[s].committed => app[s].object /\ app[s].snapshots[app[s].active].menus > 0
    /\ <<bar.visible, bar.window>> = <<WantedModel(bar), bar.active>>
    /\ \A s \in Tops : CanBind(bar, s, Fallback) /\ CanBind(bar, s, Snapshot(s, Candidate(s)))
    /\ bar.open => bar.seen = ItemsOf(app, bar.visible)
    /\ bar.open => \A item \in bar.seen : item.enabled =>
         Accepts(bar.window, bar.visible.source, item.command)
=============================================================================
