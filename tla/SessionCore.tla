----------------------------- MODULE SessionCore -----------------------------
(***************************************************************************)
(* The session core's main loop (nb_session_core_run) over the privsep     *)
(* client: the handshake, the first frame, then host events, drawing,      *)
(* presentation and orderly shutdown.  What the desktop draws is a set of  *)
(* damaged regions; what it contains is the business of other modules.     *)
(*                                                                         *)
(* The loop serves the socket (read, write, read) before every event, so   *)
(* reading and writing are actions of their own, possible whenever the     *)
(* core is in the handshake or the loop.                                   *)
(***************************************************************************)
EXTENDS PrivsepClient, PrivsepSocket

CONSTANTS
    MaxFrame,           \* serials the core presents
    MayLogOut,          \* the user may end the session
    MayCrash,           \* the core may die anywhere
    MayTimeOut          \* the orderly shutdown's deadline may pass

ASSUME CoreAssumption ==
    /\ MaxFrame \in Nat
    /\ MayLogOut \in BOOLEAN
    /\ MayCrash \in BOOLEAN
    /\ MayTimeOut \in BOOLEAN

VARIABLES
    corePc,             \* handshake, start, loop or stopped
    exitReason,
    pendingSerial, nextSerial,
    damage, fullDamage, \* redraw_damage; either non-empty is redraw_needed
    shutdownPending,
    painted             \* per region, the last frame drawn for this ownership

drawVars == <<pendingSerial, nextSerial, damage, fullDamage, painted>>
coreVars == <<corePc, exitReason, shutdownPending, drawVars>>

Unpainted == [r \in Regions |-> 0]

CoreInit ==
    /\ ClientInit
    /\ corePc = "handshake"
    /\ exitReason = "none"
    /\ pendingSerial = 0
    /\ nextSerial = 1
    /\ damage = {}
    /\ fullDamage = FALSE
    /\ shutdownPending = FALSE
    /\ painted = Unpainted

redrawNeeded == fullDamage \/ damage # {}

Exit(reason) ==
    /\ corePc' = "stopped"
    /\ exitReason' = reason
    /\ coreOpen' = FALSE

Stay == UNCHANGED <<corePc, exitReason, coreOpen>>

ServesSocket == corePc \in {"handshake", "loop"}

-----------------------------------------------------------------------------
(***************************************************************************)
(* The socket.                                                             *)
(***************************************************************************)
CoreRead ==
    /\ ServesSocket
    /\ toCore # << >>
    /\ ClientReceive(Head(toCore))
    /\ toCore' = Tail(toCore)
    /\ UNCHANGED <<toHelper, coreOpen, helperOpen, coreVars>>

MutantHandshakeMissesEnd ==
    /\ corePc = "loop"
    /\ toCore = << >>
    /\ ~helperOpen
    /\ ~shutdownAccepted
    /\ ClientDisconnected
    /\ UNCHANGED <<socketVars, coreVars>>

CoreReadsEnd ==
    /\ ServesSocket
    /\ toCore = << >>
    /\ ~helperOpen
    /\ ~shutdownAccepted
    /\ ClientDisconnected
    /\ UNCHANGED <<socketVars, coreVars>>

CoreWrite ==
    /\ ServesSocket
    /\ helperOpen
    /\ Room(toHelper)
    /\ SendMessage
    /\ toHelper' = Append(toHelper, Outgoing[1])
    /\ UNCHANGED <<toCore, coreOpen, helperOpen, coreVars>>

\* A pixel message may exceed what the socket takes at once; any message may
\* find it full.
CoreWriteBlocks ==
    /\ ServesSocket
    /\ helperOpen
    /\ StageMessage
    /\ ~Room(toHelper) \/ NextMessage[1].type = "data"
    /\ UNCHANGED <<socketVars, coreVars>>

CoreWriteFails ==
    /\ ServesSocket
    /\ ~helperOpen
    /\ Outgoing # << >>
    /\ ClientDisconnected
    /\ UNCHANGED <<socketVars, coreVars>>

-----------------------------------------------------------------------------
(***************************************************************************)
(* Startup.                                                                *)
(***************************************************************************)
\* wait_for_ready takes the OUTPUT_CHANGED event of READY.
CoreIsReady ==
    /\ corePc = "handshake"
    /\ cError = "none"
    /\ events # << >>
    /\ Head(events).type = "output"
    /\ events' = Tail(events)
    /\ corePc' = "start"
    /\ UNCHANGED <<exitReason, shutdownPending, drawVars, ownershipVars, shutdownVars,
                   helloSent, failVars, socketVars>>

-----------------------------------------------------------------------------
(***************************************************************************)
(* Presentation.                                                           *)
(***************************************************************************)
\* present_desktop, when nothing holds it back.
CanPresent ==
    /\ cError = "none"
    /\ ~shutdownPending
    /\ redrawNeeded
    /\ pendingSerial = 0
    /\ PresentableState
    /\ nextSerial <= MaxFrame

MutantFirstRectangleOnly(dirty, whole) ==
    /\ present(nextSerial, IF whole THEN Regions ELSE {CHOOSE r \in dirty : TRUE}, whole)
    /\ painted' = [r \in Regions |-> IF whole \/ r \in dirty THEN nextSerial ELSE painted[r]]
    /\ pendingSerial' = nextSerial
    /\ nextSerial' = nextSerial + 1
    /\ damage' = {}
    /\ fullDamage' = FALSE

present_desktop(dirty, whole) ==
    /\ present(nextSerial, IF whole THEN Regions ELSE dirty, whole)
    /\ painted' = [r \in Regions |-> IF whole \/ r \in dirty THEN nextSerial ELSE painted[r]]
    /\ pendingSerial' = nextSerial
    /\ nextSerial' = nextSerial + 1
    /\ damage' = {}
    /\ fullDamage' = FALSE

\* Creating the runtime draws everything; the first frame is presented, if
\* the console is still ours, before the loop serves the socket again.
CoreStarts ==
    /\ corePc = "start"
    /\ corePc' = "loop"
    /\ IF PresentableState /\ MaxFrame > 0
       THEN present_desktop({}, TRUE)
       ELSE /\ fullDamage' = TRUE
            /\ UNCHANGED <<damage, pendingSerial, nextSerial, painted, clientVars>>
    /\ UNCHANGED <<exitReason, shutdownPending, socketVars>>

CorePresents ==
    /\ corePc = "loop"
    /\ events = << >>
    /\ CanPresent
    /\ present_desktop(damage, fullDamage)
    /\ UNCHANGED <<corePc, exitReason, shutdownPending, socketVars>>

\* The desktop changes: part of it, or all of it when the clock ticks.
CoreDraws ==
    /\ corePc = "loop"
    /\ ~shutdownPending
    /\ ~fullDamage
    /\ nextSerial <= MaxFrame
    /\ \/ /\ \E r \in Regions \ damage : damage' = damage \cup {r}
          /\ UNCHANGED fullDamage
       \/ fullDamage' = TRUE /\ damage' = {}
    /\ UNCHANGED <<corePc, exitReason, shutdownPending, pendingSerial, nextSerial, painted,
                   clientVars, socketVars>>

-----------------------------------------------------------------------------
(***************************************************************************)
(* Host events.                                                            *)
(***************************************************************************)
MutantShutdownForgotten == UNCHANGED shutdownAsked

\* advance_shutdown after the event that freed the frame slot.
AdvanceShutdown == shutdownAsked' = (shutdownAsked \/ shutdownPending)

TakesEvent(type) ==
    /\ corePc = "loop"
    /\ cError = "none"
    /\ events # << >>
    /\ Head(events).type = type

CoreReleases ==
    /\ TakesEvent("release")
    /\ pendingSerial' = 0
    /\ fullDamage' = TRUE
    /\ damage' = {}
    /\ painted' = Unpainted
    /\ complete_console_release(Tail(events))
    /\ AdvanceShutdown
    /\ Stay
    /\ UNCHANGED <<nextSerial, shutdownPending, ownershipVars, helloSent, shutdownSent,
                   shutdownAccepted, toHelper, toCore, helperOpen>>

CoreAcquires ==
    /\ TakesEvent("acquire")
    /\ pendingSerial' = 0
    /\ fullDamage' = TRUE
    /\ damage' = {}
    /\ complete_console_acquire(Tail(events))
    /\ Stay
    /\ UNCHANGED <<nextSerial, painted, shutdownPending, ownershipVars, helloSent,
                   shutdownVars, toHelper, toCore, helperOpen>>

CoreHandlesInput ==
    /\ TakesEvent("input")
    /\ events' = Tail(events)
    /\ UNCHANGED <<coreVars, ownershipVars, shutdownVars, helloSent, failVars, socketVars>>

CoreFrameCompletes ==
    /\ TakesEvent("complete")
    /\ events' = Tail(events)
    /\ IF Head(events).serial = pendingSerial
       THEN pendingSerial' = 0 /\ AdvanceShutdown /\ Stay
       ELSE Exit("unexpected_frame") /\ UNCHANGED <<pendingSerial, shutdownAsked>>
    /\ UNCHANGED <<nextSerial, damage, fullDamage, painted, shutdownPending, ownershipVars,
                   shutdownSent, shutdownAccepted, helloSent, failVars,
                   toHelper, toCore, helperOpen>>

CoreQuits ==
    /\ TakesEvent("quit")
    /\ events' = Tail(events)
    /\ Exit("orderly")
    /\ UNCHANGED <<shutdownPending, drawVars, ownershipVars, shutdownVars, helloSent,
                   failVars, toHelper, toCore, helperOpen>>

\* The FAILED event of a failed client, or the error of a call on it.
CoreFails ==
    /\ corePc \in {"handshake", "loop"}
    /\ cError # "none"
    /\ Exit("client")
    /\ UNCHANGED <<shutdownPending, drawVars, clientVars, toHelper, toCore, helperOpen>>

-----------------------------------------------------------------------------
(***************************************************************************)
(* Ending the session.                                                     *)
(***************************************************************************)
\* begin_shutdown: a frame on its way is waited for first.
CoreLogsOut ==
    /\ MayLogOut
    /\ corePc = "loop"
    /\ cError = "none"
    /\ ~shutdownPending
    /\ shutdownPending' = TRUE
    /\ damage' = {}
    /\ fullDamage' = FALSE
    /\ shutdownAsked' = (pendingSerial = 0)
    /\ UNCHANGED <<corePc, exitReason, pendingSerial, nextSerial, painted, ownershipVars,
                   shutdownSent, shutdownAccepted, helloSent, failVars, events, socketVars>>

CoreTimesOut ==
    /\ MayTimeOut
    /\ corePc = "loop"
    /\ shutdownPending
    /\ Exit("deadline")
    /\ UNCHANGED <<shutdownPending, drawVars, clientVars, toHelper, toCore, helperOpen>>

CoreCrashes ==
    /\ MayCrash
    /\ corePc # "stopped"
    /\ Exit("crash")
    /\ UNCHANGED <<shutdownPending, drawVars, clientVars, toHelper, toCore, helperOpen>>

CoreStep ==
    \/ CoreRead \/ CoreReadsEnd \/ CoreWrite \/ CoreWriteBlocks \/ CoreWriteFails
    \/ CoreIsReady \/ CoreStarts \/ CorePresents \/ CoreReleases \/ CoreAcquires
    \/ CoreHandlesInput \/ CoreFrameCompletes \/ CoreQuits \/ CoreFails

CoreChoice == CoreDraws \/ CoreLogsOut \/ CoreTimesOut \/ CoreCrashes

=============================================================================
