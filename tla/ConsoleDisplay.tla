---------------------------- MODULE ConsoleDisplay ----------------------------
(***************************************************************************)
(* What the display side of a session promises, whatever the core sends:   *)
(* the console is owned in epochs, a frame is shown only while it is owned,*)
(* as a whole and newer than every frame before it, and the first frame of *)
(* an epoch replaces the picture completely.  A region of the picture      *)
(* carries the epoch and the serial of the frame that wrote it.            *)
(***************************************************************************)
EXTENDS Naturals

CONSTANTS Regions, Blank, Serials

VARIABLES
    released,           \* the console belongs to somebody else
    epoch,              \* number of the ownership in progress, or the next one
    last,               \* serial of the newest frame shown
    picture

displayVars == <<released, epoch, last, picture>>

Init ==
    /\ released = FALSE
    /\ epoch = 1
    /\ last = 0
    /\ picture = Blank

ThisEpoch(r) == picture[r][1] = epoch

Show(serial, regions) ==
    /\ ~released
    /\ serial > last
    /\ \A r \in Regions \ regions : ThisEpoch(r)
    /\ last' = serial
    /\ picture' = [r \in Regions |->
                      IF r \in regions THEN <<epoch, serial>> ELSE picture[r]]
    /\ UNCHANGED <<released, epoch>>

Lose ==
    /\ ~released
    /\ released' = TRUE
    /\ epoch' = epoch + 1
    /\ picture' \in {picture, Blank}
    /\ UNCHANGED last

Regain ==
    /\ released
    /\ released' = FALSE
    /\ UNCHANGED <<epoch, last, picture>>

Next ==
    \/ \E serial \in Serials, regions \in SUBSET Regions : Show(serial, regions)
    \/ Lose
    \/ Regain

Spec == Init /\ [][Next]_displayVars

=============================================================================
