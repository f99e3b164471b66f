---------------------------- MODULE PrivsepSession ----------------------------
(***************************************************************************)
(* A standalone session: the device worker with its helper, the ordinary-  *)
(* user core with its client, the socket between them, and a user who      *)
(* switches virtual terminals, types, and logs out.                        *)
(***************************************************************************)
EXTENDS DeviceWorker, SessionCore, FiniteSets

\* The bounds fit together: every frame the core presents and every heartbeat
\* the watchdog asks for is one the helper may see.
ASSUME SessionAssumption ==
    /\ Regions # {}
    /\ MaxFrame <= MaxSerial
    /\ 1 .. MaxPings \subseteq Tokens

vars == <<helperVars, workerVars, clientVars, coreVars, socketVars>>

workerSide == <<helperVars, workerVars>>
coreSide == <<clientVars, coreVars>>

Init == WorkerInit /\ CoreInit /\ SocketInit

Worker == WorkerStep /\ UNCHANGED coreSide

Core == CoreStep /\ UNCHANGED workerSide

CoreMay == CoreChoice /\ UNCHANGED workerSide

User == (SwitchAway \/ SwitchBack) /\ UNCHANGED coreSide

Ended == wPc = "stopped" /\ corePc = "stopped"

Terminated == Ended /\ UNCHANGED vars

Next == Worker \/ Core \/ CoreMay \/ User \/ Terminated

Spec == Init /\ [][Next]_vars

\* The worker is a process of its own, scheduled whatever the core does.
WorkerFairSpec == Spec /\ WF_vars(Worker)

\* Both processes run; nobody is obliged to draw, log out, type or switch.
FairSpec == Spec /\ WF_vars(Worker) /\ WF_vars(Core)

-----------------------------------------------------------------------------
(***************************************************************************)
(* Properties.                                                             *)
(***************************************************************************)
\* What the core was told is displayed is displayed: once FRAME_COMPLETE has
\* been processed, and the console has not changed hands, every region of the
\* screen holds what the core last drew there, through damage merging,
\* aborted transfers and releases alike.
CompletedFrameIsVisible ==
    (/\ corePc = "loop" /\ cState = "active" /\ pendingSerial = 0
     /\ painted # Unpainted
     /\ wPc # "stopped" /\ ~suspended /\ generation = cGeneration)
        => \A r \in Regions : screen[r] = <<generation, painted[r]>>

\* The helper finds no fault with the real core but one: a FRAME_BEGIN that
\* crossed a suspension.  No piece, end, pong or shutdown request of it is
\* ever out of order, whatever the socket splits and however often the
\* console changes hands.
ClientObeysProtocol ==
    /\ error \in {"none", "outbound_full", "begin_order", "presentation", "reported"}
    /\ error = "begin_order" => generation > 1

\* The core refuses no message of the real helper but one: a SUSPEND that
\* abandons a frame the core has already given up.
HelperObeysProtocol ==
    [][(cError = "none" /\ cError' = "out_of_order") =>
           /\ Head(toCore).type = "suspend"
           /\ Head(toCore).generation = cGeneration + 1
           /\ Head(toCore).abandoned # 0
           /\ helperActive]_vars

Count(queue, type) == Cardinality({i \in DOMAIN queue : queue[i].type = type})

\* No suspension is lost, merged or repeated on the way: the core is behind
\* the helper by exactly the SUSPENDs still under way.
CoreLagsBySuspendsInFlight ==
    (hasOutput /\ cError = "none" /\ error # "outbound_full") =>
        generation = cGeneration + Count(toCore, "suspend") + Count(Controls(outbound), "suspend")

\* A change of ownership is never dropped nor duplicated behind saturated
\* input: the event the core must answer is queued exactly while the client
\* waits for the answer.
LifecycleEventIsQueued ==
    (cError = "none" /\ ~shutdownAccepted) =>
        /\ Count(events, "release") = (IF cState = "release_pending" THEN 1 ELSE 0)
        /\ Count(events, "acquire") = (IF cState = "acquire_pending" THEN 1 ELSE 0)

\* Helper, client and core agree on how often the console has changed hands,
\* however many changes are on the way and however full the queues are.
LifecycleIsInStep == CoreLagsBySuspendsInFlight /\ LifecycleEventIsQueued

\* Worker, wsdisplay host and helper agree on the frame the display holds, so
\* its completion is always matched and an abandoned one always recognised, for
\* as long as completions are taken at all.
FrameBookkeepingAgrees ==
    (wPc # "stopped" /\ ~failed /\ ~shutdownRequested) =>
        /\ wFrame.submitted = pending.serial
        /\ presentationPending => wFrame.generation = pending.generation
        /\ {completions[i] : i \in DOMAIN completions} \subseteq
               {wFrame.submitted} \cup 1 .. wFrame.abandoned

\* Video memory is written only while the kernel has not asked for it back.
WritesOnlyOwnConsole ==
    [][(screen' # screen /\ screen' # Blank) => vt = "ours"]_vars

\* The worker drives the helper only in ways its specification allows, so what
\* holds of the helper against an arbitrary core holds in the session.
WorkerKeepsHelperSpec == HelperSpec

-----------------------------------------------------------------------------
(***************************************************************************)
(* Liveness.                                                               *)
(***************************************************************************)
\* A release never waits for the core, be it slow, hung or dead: the worker
\* answers the kernel, or its end puts the console back.
ReleaseNeverWaitsForCore ==
    (vt = "leaving" /\ wPc # "stopped") ~> (vt # "leaving" \/ wPc = "stopped")

\* The frame slot is given back by a completion or by a change of ownership;
\* the core never waits for a completion that was abandoned on the other side.
FrameSlotIsFreed ==
    (pendingSerial # 0 /\ corePc # "stopped") ~> (pendingSerial = 0 \/ corePc = "stopped")

\* What was drawn is presented as soon as the console allows.
RedrawIsPresented ==
    (corePc = "loop" /\ redrawNeeded)
        ~> (~redrawNeeded \/ cState # "active" \/ nextSerial > MaxFrame \/ corePc = "stopped")

\* Logging out ends the session, with a frame in flight or the console away.
LogoutEndsSession == shutdownPending ~> Ended

\* A core that is run answers every heartbeat, whatever else is queued and
\* whoever owns the console, unless the session is ending.
HeartbeatIsAnswered ==
    WF_vars(Core) =>
        (ping.outstanding ~> (~ping.outstanding \/ wPc = "stopped" \/ shutdownRequested))

\* Neither process outlives the other, however one of them ends, as long as
\* the operating system runs the core.
NobodyIsLeftBehind ==
    WF_vars(Core) => ((wPc = "stopped" \/ corePc = "stopped") ~> Ended)

-----------------------------------------------------------------------------
(***************************************************************************)
(* Claims of the documentation and the tests that the code does not keep.  *)
(***************************************************************************)
\* Every release is acknowledged, none refused
\* (docs/privilege-boundary.md:166-168).
ReleaseIsAcknowledged == [][vt = "leaving" => vt' # "ours"]_vars

\* The console may come back, and leave again, before the core has answered
\* the first release (tests/session_core_test.c:352, 385).
CoreFollowsTheConsole == cError # "out_of_order"

=============================================================================
