---------------------------- MODULE PrivsepSocket ----------------------------
(***************************************************************************)
(* The anonymous stream socket pair between core and worker: two bounded,  *)
(* reliable FIFO buffers, each end open until its process closes it.  The  *)
(* kernel object is outside the program; what its users rely on is here.   *)
(***************************************************************************)
EXTENDS Naturals, Sequences

CONSTANT SocketCapacity     \* messages each direction buffers

ASSUME SocketAssumption == SocketCapacity \in Nat \ {0}

VARIABLES
    toHelper, toCore,       \* complete messages written and not yet read
    coreOpen, helperOpen    \* which ends are open

socketVars == <<toHelper, toCore, coreOpen, helperOpen>>

SocketInit ==
    /\ toHelper = << >>
    /\ toCore = << >>
    /\ coreOpen = TRUE
    /\ helperOpen = TRUE

Room(buffer) == Len(buffer) < SocketCapacity

=============================================================================
