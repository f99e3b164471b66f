-------------------------- MODULE MCDesktopRuntime --------------------------
(***************************************************************************)
(* A small instance of DesktopRuntime: two windows at most, one of them    *)
(* NixInfo's, and of the desktop's commands only those that open it and    *)
(* the settings.  Bounds: one input is held at a time, with the fixed menu *)
(* bar and the settings closed also both buttons, and the left button with *)
(* a key while there is one window.  A floating menu is not driven by the  *)
(* keyboard, does not open the settings, and buttons are pressed under it  *)
(* only while there is one window.  One window at a time refuses what it   *)
(* is asked or shown, and a grab is without contents while none does; then *)
(* one input is held, the menu bar is fixed and the settings are closed.   *)
(***************************************************************************)
EXTENDS DesktopRuntime

Held == Cardinality(hand.buttons) + Cardinality(hand.keys)
SettingsOpen == rt.dialog["settings"] # None
OneWindow == Cardinality(Open(rt.shell)) <= 1

HeldBound ==
    \/ Held <= 1 /\ ~rt.shell.floating
    \/ Held <= 1 /\ hand.keys = {} /\ ~SettingsOpen /\ (~OneWindow => hand.buttons = {})
    \/ ~rt.shell.floating /\ ~SettingsOpen /\ hand.buttons = Buttons /\ hand.keys = {}
    \/ ~rt.shell.floating /\ OneWindow /\ "left" \in hand.buttons /\ Held = 2

Refusing == rt.deaf \cup rt.hidden

RefusalBound ==
    \/ Refusing = {} /\ ~rt.blank
    \/ /\ Cardinality(Refusing) <= 1 /\ (rt.blank => Refusing = {})
       /\ hand.keys = {} /\ hand.buttons \subseteq {"left"} /\ ~rt.shell.floating /\ ~SettingsOpen
       /\ OneWindow \/ (~rt.blank /\ ~MenuIsOpen(rt.shell))

MCSpec == Init /\ [][Next /\ HeldBound' /\ RefusalBound']_vars
=============================================================================
