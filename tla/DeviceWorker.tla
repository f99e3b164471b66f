----------------------------- MODULE DeviceWorker -----------------------------
(***************************************************************************)
(* The privileged device worker: its loop (run_device_worker), the         *)
(* wsdisplay host it presents through (host_wsdisplay.c) and the helper it *)
(* feeds.  Each iteration drains the socket, forwards input, flushes the   *)
(* helper's queue, looks after the heartbeat and takes at most one host    *)
(* event.  Virtual-terminal signals arrive at any point but are acted on   *)
(* only where the code ingests them: before taking a host event, inside    *)
(* present and inside the completion of a release or an acquire.           *)
(***************************************************************************)
EXTENDS PrivsepHelper, PrivsepSocket

CONSTANTS
    HostEventCapacity,  \* NB_HOST_WSDISPLAY_EVENT_CAPACITY
    MaxSwitches,        \* console switches the user makes
    MaxInputs,          \* input events the user makes
    MaxPings,           \* heartbeats the watchdog asks for
    DeviceMayFail,      \* a console ioctl may fail
    MayExpire           \* the watchdog may find the core unresponsive

ASSUME WorkerAssumption ==
    /\ HostEventCapacity \in Nat \ {0}
    /\ MaxSwitches \in Nat
    /\ MaxInputs \in Nat
    /\ MaxPings \in Nat
    /\ DeviceMayFail \in BOOLEAN
    /\ MayExpire \in BOOLEAN

VARIABLES
    vt,                 \* the kernel's view: ours, leaving, away or returning
    relSig, acqSig,     \* flags the signal handler sets
    host,               \* nb_host_wsdisplay_context's lifecycle state
    completions,        \* its queued FRAME_COMPLETE events
    wFrame,             \* nb_wsdisplay_session_frame_state, submitted_generation
    inputOpen,          \* the wscons devices are open
    wPc, stopReason,
    switches, inputs, pings

vtVars == <<vt, relSig, acqSig, switches>>
deviceVars == <<host, completions, wFrame, inputOpen>>
loopVars == <<wPc, stopReason, inputs, pings>>
workerVars == <<vtVars, deviceVars, loopVars>>

WorkerInit ==
    /\ HelperInit
    /\ vt = "ours"
    /\ relSig = FALSE
    /\ acqSig = FALSE
    /\ host = [state |-> "active", acqPending |-> FALSE,
               release |-> FALSE, acquire |-> FALSE]
    /\ completions = << >>
    /\ wFrame = [submitted |-> 0, generation |-> 0, abandoned |-> 0]
    /\ inputOpen = TRUE
    /\ wPc = "drain"
    /\ stopReason = "none"
    /\ switches = 0
    /\ inputs = 0
    /\ pings = 0

-----------------------------------------------------------------------------
(***************************************************************************)
(* The kernel's process-mode VT switching, driven by the user: a hot key,  *)
(* the worker's own VT_ACTIVATE or another program.                        *)
(***************************************************************************)
SwitchAway ==
    /\ vt = "ours"
    /\ helperOpen
    /\ switches < MaxSwitches
    /\ vt' = "leaving"
    /\ relSig' = TRUE
    /\ switches' = switches + 1
    /\ UNCHANGED <<acqSig, helperVars, socketVars, deviceVars, loopVars>>

SwitchBack ==
    /\ vt = "away"
    /\ helperOpen
    /\ vt' = "returning"
    /\ acqSig' = TRUE
    /\ UNCHANGED <<relSig, switches, helperVars, socketVars, deviceVars, loopVars>>

-----------------------------------------------------------------------------
(***************************************************************************)
(* The wsdisplay host.                                                     *)
(***************************************************************************)
\* process_lifecycle_signals, for a host that has "rel" and "acq" to act on.
Lifecycle(h, rel, acq) ==
    LET released == IF rel /\ h.state = "active"
                    THEN [h EXCEPT !.state = "release_pending", !.release = TRUE]
                    ELSE h
    IN  IF ~acq THEN released
        ELSE IF released.state = "suspended"
        THEN [released EXCEPT !.state = "acquire_pending", !.acquire = TRUE,
                              !.acqPending = FALSE]
        ELSE [released EXCEPT !.acqPending = (released.state = "release_pending")]

\* ingest_signals: take the handler's flags and act on them.
IngestedHost == Lifecycle(host, relSig, acqSig \/ host.acqPending)

MutantFrameKept(f) == f

\* nb_wsdisplay_session_frame_abandon: a submitted frame will complete late.
frame_abandon(f) ==
    IF f.submitted = 0 THEN f ELSE [f EXCEPT !.submitted = 0, !.abandoned = f.submitted]

wscons_suspend == inputOpen' = FALSE

wscons_resume == inputOpen' = TRUE

SignalsTaken == relSig' = FALSE /\ acqSig' = FALSE

\* destroy(): an unanswered release is refused, an unanswered acquire granted.
VtAfterCleanup(h) ==
    IF h.state \in {"release_pending", "acquire_pending"} THEN "ours" ELSE vt

Stop(reason) ==
    /\ wPc' = "stopped"
    /\ stopReason' = reason
    /\ helperOpen' = FALSE
    /\ vt' = VtAfterCleanup(host')

ContinueAt(pc) == wPc' = pc /\ UNCHANGED <<stopReason, helperOpen, vt>>

\* A call into the helper that returns false ends the loop.
ContinueUnlessFailed(pc, reason) ==
    IF error' = "none" THEN ContinueAt(pc) ELSE Stop(reason)

-----------------------------------------------------------------------------
(***************************************************************************)
(* drain_core: the core's messages.  A commit that reaches present_frame   *)
(* ingests the signals and presents only on a console still active.  Reads *)
(* are limited per iteration: after the first ("more") the loop may go on  *)
(* with messages left, and with the end of the core unnoticed.             *)
(***************************************************************************)
Draining == wPc \in {"drain", "more"}

\* present_frame asks the host only when no frame is submitted already.
ReachesPresent(m) ==
    /\ helloReceived /\ ~shutdownRequested
    /\ m.type = "commit" /\ Presentable(m)
    /\ wFrame.submitted = 0

MutantPresentUnchecked(m) ==
    /\ wFrame.submitted = 0
    /\ Len(completions) < HostEventCapacity
    /\ m.serial > wFrame.abandoned

HostPresents(m) ==
    /\ wFrame.submitted = 0
    /\ IngestedHost.state = "active"
    /\ Len(completions) < HostEventCapacity
    /\ m.serial > wFrame.abandoned

WorkerDrain ==
    /\ Draining
    /\ toHelper # << >>
    /\ LET m == Head(toHelper)
       IN  /\ toHelper' = Tail(toHelper)
           /\ Receive(m, HostPresents(m))
           /\ IF ReachesPresent(m)
              THEN /\ host' = IngestedHost
                   /\ SignalsTaken
                   /\ IF HostPresents(m)
                      THEN /\ completions' = Append(completions, m.serial)
                           /\ wFrame' = [wFrame EXCEPT !.submitted = m.serial,
                                                       !.generation = generation]
                      ELSE UNCHANGED <<completions, wFrame>>
              ELSE UNCHANGED <<host, relSig, acqSig, completions, wFrame>>
    /\ ContinueUnlessFailed("more", "protocol")
    /\ UNCHANGED <<toCore, coreOpen, inputOpen, switches, inputs, pings>>

\* waitpid reaps the core, or read returns end of file.
WorkerCoreGone ==
    /\ Draining
    /\ ~coreOpen
    /\ wPc = "drain" \/ toHelper = << >>
    /\ UNCHANGED <<toHelper, toCore, coreOpen, helperVars, relSig, acqSig, switches,
                   deviceVars, inputs, pings>>
    /\ Stop("core_gone")

\* A shutdown request leaves only its answer to flush.
WorkerDrained ==
    /\ Draining
    /\ wPc = "more" \/ (coreOpen /\ toHelper = << >>)
    /\ IF shutdownRequested
       THEN ContinueAt("ack") /\ wscons_suspend
       ELSE ContinueAt("input") /\ UNCHANGED inputOpen
    /\ UNCHANGED <<toHelper, toCore, coreOpen, helperVars, relSig, acqSig, switches,
                   host, completions, wFrame, inputs, pings>>

-----------------------------------------------------------------------------
(***************************************************************************)
(* drain_input.                                                            *)
(***************************************************************************)
WorkerInput ==
    /\ wPc = "input"
    /\ inputOpen
    /\ inputs < MaxInputs
    /\ inputs' = inputs + 1
    /\ UNCHANGED <<toHelper, toCore, coreOpen, relSig, acqSig, switches, deviceVars, pings>>
    /\ IF CanSendInput
       THEN send_input /\ ContinueUnlessFailed("input", "input")
       ELSE UNCHANGED helperVars /\ Stop("input")

\* The emergency chord: input is closed and the session ended.
WorkerEmergency ==
    /\ wPc = "input"
    /\ inputOpen
    /\ inputs < MaxInputs
    /\ inputs' = inputs + 1
    /\ wscons_suspend
    /\ UNCHANGED <<toHelper, toCore, coreOpen, helperVars, relSig, acqSig, switches,
                   host, completions, wFrame, pings>>
    /\ Stop("emergency")

WorkerInputDone ==
    /\ wPc = "input"
    /\ ContinueAt("flush")
    /\ UNCHANGED <<toHelper, toCore, coreOpen, helperVars, relSig, acqSig, switches,
                   deviceVars, inputs, pings>>

-----------------------------------------------------------------------------
(***************************************************************************)
(* flush_helper, for the loop, for the answer to a shutdown request and    *)
(* for the last message of a session found unresponsive.                   *)
(***************************************************************************)
Flushing == wPc \in {"flush", "ack", "fatal"}

WorkerFlush ==
    /\ Flushing
    /\ coreOpen
    /\ Room(toCore)
    /\ ConsumeHead
    /\ toCore' = Append(toCore, Head(outbound).message)
    /\ UNCHANGED <<toHelper, coreOpen, helperOpen, workerVars>>

MutantFlushWaits ==
    /\ Flushing
    /\ coreOpen
    /\ outbound # << >>
    /\ ~Room(toCore)
    /\ StartHead
    /\ UNCHANGED <<socketVars, workerVars>>

\* The socket is full after a part of the head record, or before it.
WorkerFlushBlocked ==
    /\ Flushing
    /\ coreOpen
    /\ outbound # << >>
    /\ ~Room(toCore)
    /\ StartHead \/ UNCHANGED helperVars
    /\ UNCHANGED <<toHelper, toCore, coreOpen, relSig, acqSig, switches, deviceVars,
                   inputs, pings>>
    /\ CASE wPc = "flush" -> ContinueAt("watch")
         [] wPc = "ack" -> Stop("ack_timeout") \/ ContinueAt("ack")
         [] wPc = "fatal" -> Stop("unresponsive")

WorkerFlushDone ==
    /\ Flushing
    /\ outbound = << >>
    /\ UNCHANGED <<toHelper, toCore, coreOpen, helperVars, relSig, acqSig, switches,
                   deviceVars, inputs, pings>>
    /\ CASE wPc = "flush" -> ContinueAt("watch")
         [] wPc = "ack" -> Stop("orderly")
         [] wPc = "fatal" -> Stop("unresponsive")

\* A write to a socket whose other end is closed.
WorkerFlushFails ==
    /\ Flushing
    /\ ~coreOpen
    /\ outbound # << >>
    /\ UNCHANGED <<toHelper, toCore, coreOpen, helperVars, relSig, acqSig, switches,
                   deviceVars, inputs, pings>>
    /\ Stop("core_gone")

-----------------------------------------------------------------------------
(***************************************************************************)
(* The heartbeat; SessionWatchdog says when it pings and expires.          *)
(***************************************************************************)
WorkerTakePong ==
    /\ wPc = "watch"
    /\ take_pong
    /\ UNCHANGED <<socketVars, workerVars>>

WorkerPing ==
    /\ wPc = "watch"
    /\ pings < MaxPings
    /\ CanPing(pings + 1)
    /\ send_ping(pings + 1)
    /\ pings' = pings + 1
    /\ UNCHANGED <<toHelper, toCore, coreOpen, relSig, acqSig, switches, deviceVars, inputs>>
    /\ ContinueUnlessFailed("wait", "ping")

WorkerNoPing ==
    /\ wPc = "watch"
    /\ ~ping.pong
    /\ ContinueAt("wait")
    /\ UNCHANGED <<toHelper, toCore, coreOpen, helperVars, relSig, acqSig, switches,
                   deviceVars, inputs, pings>>

\* The handshake or a heartbeat expired.
WorkerExpires ==
    /\ MayExpire
    /\ wPc = "watch"
    /\ ~ping.pong
    /\ ~readySent \/ ping.outstanding
    /\ report_fatal
    /\ ContinueAt("fatal")
    /\ UNCHANGED <<toHelper, toCore, coreOpen, relSig, acqSig, switches, deviceVars,
                   inputs, pings>>

-----------------------------------------------------------------------------
(***************************************************************************)
(* wait_for_worker_event and handle_host_event.                            *)
(***************************************************************************)
MutantCoreNotTold ==
    /\ wPc = "wait"
    /\ IngestedHost.release
    /\ SignalsTaken
    /\ wscons_suspend
    /\ screen' = Blank
    /\ host' = [IngestedHost EXCEPT !.state = "suspended", !.release = FALSE]
    /\ vt' = "away"
    /\ wPc' = "drain"
    /\ suspended' = TRUE
    /\ UNCHANGED <<socketVars, switches, completions, wFrame, inputs, pings, stopReason,
                   generation, helloReceived, readySent, queueVars, controlVars, lastSubmitted, staging, stagingValid>>

\* The console is given up: input closed, video unmapped, VT_RELDISP(TRUE).
WorkerRelease ==
    /\ wPc = "wait"
    /\ IngestedHost.release
    /\ SignalsTaken
    /\ wscons_suspend
    /\ wFrame' = frame_abandon(wFrame)
    /\ screen' = Blank
    /\ suspend
    /\ host' = Lifecycle([IngestedHost EXCEPT !.state = "suspended", !.release = FALSE],
                         FALSE, IngestedHost.acqPending)
    /\ vt' = "away"
    /\ IF error' = "none"
       THEN wPc' = "drain" /\ UNCHANGED <<stopReason, helperOpen>>
       ELSE wPc' = "stopped" /\ stopReason' = "outbound" /\ helperOpen' = FALSE
    /\ UNCHANGED <<toHelper, toCore, coreOpen, switches, completions, inputs, pings>>

\* An ioctl fails: the release is refused, VT_RELDISP(FALSE).
WorkerReleaseFails ==
    /\ DeviceMayFail
    /\ wPc = "wait"
    /\ IngestedHost.release
    /\ SignalsTaken
    /\ wscons_suspend
    /\ host' = [IngestedHost EXCEPT !.state = "failed", !.release = FALSE]
    /\ vt' = "ours"
    /\ wPc' = "stopped"
    /\ stopReason' = "device"
    /\ helperOpen' = FALSE
    /\ wFrame' = frame_abandon(wFrame)
    /\ UNCHANGED <<toHelper, toCore, coreOpen, helperVars, switches, completions,
                   inputs, pings>>

\* The console is back: VT_RELDISP(VT_ACKACQ), input reopened, helper resumed.
WorkerAcquire ==
    /\ wPc = "wait"
    /\ ~IngestedHost.release
    /\ IngestedHost.acquire
    /\ SignalsTaken
    /\ host' = [IngestedHost EXCEPT !.state = "active", !.acquire = FALSE]
    /\ vt' = "ours"
    /\ wscons_resume
    /\ resume(FALSE)
    /\ IF error' = "none"
       THEN wPc' = "drain" /\ UNCHANGED <<stopReason, helperOpen>>
       ELSE wPc' = "stopped" /\ stopReason' = "outbound" /\ helperOpen' = FALSE
    /\ UNCHANGED <<toHelper, toCore, coreOpen, switches, completions, wFrame, inputs, pings>>

\* Graphics mode cannot be entered, and the acquire is acknowledged all the same;
\* or the input devices cannot be reopened.
WorkerAcquireFails ==
    /\ DeviceMayFail
    /\ wPc = "wait"
    /\ ~IngestedHost.release
    /\ IngestedHost.acquire
    /\ SignalsTaken
    /\ \E state \in {"failed", "active"} :
           host' = [IngestedHost EXCEPT !.state = state, !.acquire = FALSE]
    /\ vt' = "ours"
    /\ wPc' = "stopped"
    /\ stopReason' = "device"
    /\ helperOpen' = FALSE
    /\ UNCHANGED <<toHelper, toCore, coreOpen, helperVars, switches, completions,
                   wFrame, inputOpen, inputs, pings>>

NoLifecycleEvent == ~IngestedHost.release /\ ~IngestedHost.acquire

\* A completed frame; one the release abandoned is forgotten.
WorkerComplete ==
    /\ wPc = "wait"
    /\ NoLifecycleEvent
    /\ completions # << >>
    /\ SignalsTaken
    /\ host' = IngestedHost
    /\ completions' = Tail(completions)
    /\ LET serial == Head(completions)
       IN  IF serial <= wFrame.abandoned
           THEN UNCHANGED <<helperVars, wFrame>> /\ ContinueAt("drain")
           ELSE IF serial # wFrame.submitted
           THEN UNCHANGED <<helperVars, wFrame>> /\ Stop("completion")
           ELSE /\ wFrame' = [wFrame EXCEPT !.submitted = 0]
                /\ complete_frame(wFrame.generation, serial)
                /\ ContinueUnlessFailed("drain", "completion")
    /\ UNCHANGED <<toHelper, toCore, coreOpen, switches, inputOpen, inputs, pings>>

WorkerNoEvent ==
    /\ wPc = "wait"
    /\ NoLifecycleEvent
    /\ completions = << >>
    /\ SignalsTaken
    /\ host' = IngestedHost
    /\ ContinueAt("drain")
    /\ UNCHANGED <<toHelper, toCore, coreOpen, helperVars, switches, completions, wFrame,
                   inputOpen, inputs, pings>>

WorkerStep ==
    \/ WorkerDrain \/ WorkerCoreGone \/ WorkerDrained
    \/ WorkerInput \/ WorkerEmergency \/ WorkerInputDone
    \/ WorkerFlush \/ WorkerFlushBlocked \/ WorkerFlushDone \/ WorkerFlushFails
    \/ WorkerTakePong \/ WorkerPing \/ WorkerNoPing \/ WorkerExpires
    \/ WorkerRelease \/ WorkerReleaseFails \/ WorkerAcquire \/ WorkerAcquireFails
    \/ WorkerComplete \/ WorkerNoEvent

=============================================================================
