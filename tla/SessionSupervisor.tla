------------------------- MODULE SessionSupervisor --------------------------
(***************************************************************************)
(* The processes of a standalone session and what they leave behind: the   *)
(* root launcher that records the console's state, supervises the device   *)
(* worker and restores the console (nb_wsdisplay_session_run); the worker  *)
(* that takes the console (run_device_worker); the unprivileged core with  *)
(* its applications; and the runtime sentinel that owns the session's      *)
(* directory.  Time is abstracted: whatever waits with a deadline may find *)
(* it passed at any moment.  A process sent SIGKILL may linger in the      *)
(* kernel.                                                                 *)
(***************************************************************************)
EXTENDS Naturals, Sequences, FiniteSets

CONSTANTS
    ConsoleParts,       \* what of the console a session takes: mode, video, switching
    Launches,           \* for each launcher in turn, the command lines it may
                        \* have and the signals sent to it:
                        \* [action, required, requireTerm, signals]
    MaxKills            \* crashes of the launcher, the worker or the sentinel

ASSUME SupervisorAssumption ==
    /\ Launches \in Seq(SUBSET [action : {"run", "preflight", "recover"},
                               required : {"none", "crash", "hang"},
                               requireTerm : BOOLEAN,
                               signals : SUBSET {"TERM", "INT", "USR1"}])
    /\ \A i \in DOMAIN Launches : \A l \in Launches[i] : l.requireTerm => l.required = "none"
    /\ MaxKills \in Nat

VARIABLES
    lock,               \* who has the session lock's open file
    record,             \* the recovery record: "none", "partial" or "whole"
    changed,            \* parts of the console that are not as captured
    launcher,           \* [pc, opt, signal, trigger, result]
    sup,                \* locals of supervise_device_worker
    outcome,            \* its struct supervision_result
    worker,             \* locals of run_device_worker
    report, fault,      \* the report pipe, the fault pipe
    core,               \* the core: [state, exit, term, acked, stopped]
    group, killed,      \* live members of its process group; those sent SIGKILL
    sentinel,           \* [state, term, killed, request, reply, clean]
    directory,          \* the session's runtime directory exists
    launches, kills

console == <<lock, record, changed>>
launchVars == <<launcher, sup, outcome>>
workVars == <<worker, report, fault>>
coreVars == <<core, group, killed>>
sentinelVars == <<sentinel, directory>>
budget == <<launches, kills>>
vars == <<console, launchVars, workVars, coreVars, sentinelVars, budget>>

NoSupervision ==
    [pc |-> "off", complete |-> FALSE, reliable |-> TRUE, forced |-> FALSE,
     coreTerm |-> FALSE, drove |-> FALSE, term |-> FALSE, kill |-> FALSE,
     armed |-> FALSE, handled |-> FALSE, commanded |-> FALSE,
     triggered |-> FALSE, independent |-> FALSE, reaped |-> FALSE]

\* What supervise_device_worker returns when it starts no worker, and what
\* nb_wsdisplay_session_run starts from.
NotSupervised ==
    [ok |-> FALSE, workerGone |-> TRUE, cleanup |-> TRUE, coreGone |-> TRUE,
     drove |-> FALSE, triggered |-> FALSE, observed |-> "none",
     independent |-> TRUE, restored |-> FALSE, removed |-> FALSE]

NoWorker ==
    [pc |-> "none", blocked |-> FALSE, term |-> FALSE, success |-> FALSE,
     orderly |-> FALSE, injected |-> "none",
     heartbeat |-> FALSE, coreReaped |-> FALSE, coreClean |-> TRUE,
     ready |-> FALSE, sentinelReaped |-> FALSE, reported |-> TRUE, forced |-> FALSE,
     runtimeClean |-> TRUE, exit |-> "none"]

NoCore == [state |-> "none", exit |-> "none", term |-> FALSE, acked |-> FALSE,
           stopped |-> FALSE]

NoSentinel ==
    [state |-> "none", term |-> FALSE, killed |-> FALSE, request |-> FALSE,
     reply |-> "none", clean |-> FALSE]

Off == [pc |-> "off", opt |-> [action |-> "none", required |-> "none",
                               requireTerm |-> FALSE, signals |-> {}],
        signal |-> "none", trigger |-> "none", result |-> "none"]

Init ==
    /\ lock = {} /\ record = "none" /\ changed = {}
    /\ launcher = Off /\ sup = NoSupervision /\ outcome = NotSupervised
    /\ worker = NoWorker /\ report = "closed" /\ fault = "closed"
    /\ core = NoCore /\ group = {} /\ killed = {}
    /\ sentinel = NoSentinel /\ directory = FALSE
    /\ launches = 0 /\ kills = 0

-----------------------------------------------------------------------------
(***************************************************************************)
(* What one process can see of another.                                    *)
(***************************************************************************)
WorkerAlive == worker.pc \notin {"none", "dead"}

\* The screen is open in the worker from nb_host_wsdisplay_create to
\* nb_host_destroy.
WorkerHasDevice == worker.pc \in {"host", "loop", "ack", "close"}

SupervisorListens == launcher.pc = "supervise" /\ sup.pc \in {"report", "act"}

\* The worker's end of the fault pipe.
FaultOpen == worker.pc \in {"start", "ready", "core", "host", "loop", "ack", "close"}

\* The core's socket and the sentinel's controller socket, in the worker.
SocketOpen == worker.pc \in {"host", "loop", "ack", "close"}

ControllerOpen ==
    worker.pc \in {"ready", "core", "host", "loop", "ack", "close", "contain", "containKill",
                   "orderly", "term", "kill", "group", "groupTerm", "groupKill",
                   "finish", "request", "abort"}

CoreGroupGone == group = {}

-----------------------------------------------------------------------------
(***************************************************************************)
(* The launcher before it supervises.                                      *)
(***************************************************************************)
At(pc) == launcher.pc = pc

Goto(pc) == [launcher EXCEPT !.pc = pc]

Fail(pc) == [launcher EXCEPT !.pc = pc, !.result = "failed"]

\* flock(LOCK_EX | LOCK_NB).  A new run waits, here, for the last one's core
\* and sentinel to be gone: the model has one of each.
Launch ==
    /\ At("off") /\ launches < Len(Launches)
    /\ \E opt \in Launches[launches + 1] :
          /\ lock = {}
          /\ opt.action = "run" => CoreGroupGone /\ sentinel.state \in {"none", "gone"}
          /\ launcher' = [Off EXCEPT !.opt = opt,
                                     !.pc = IF opt.action = "recover" THEN "load" ELSE "capture"]
          /\ directory' = (opt.action # "run" /\ directory)    \* every session has a new one
    /\ lock' = {"launcher"}
    /\ launches' = launches + 1
    /\ sup' = NoSupervision /\ outcome' = NotSupervised
    /\ UNCHANGED <<record, changed, workVars, coreVars, sentinel, kills>>

\* nb_wsdisplay_recovery_load takes only a whole record.
LoadRecord ==
    /\ At("load")
    /\ launcher' = IF record = "whole" THEN Goto("restore") ELSE Fail("exit")
    /\ UNCHANGED <<console, sup, outcome, workVars, coreVars, sentinelVars, budget>>

\* nb_wsdisplay_console_capture refuses a console that is not a text one in
\* automatic switching mode.
CaptureConsole ==
    /\ At("capture")
    /\ \/ /\ changed = {}
          /\ launcher' = IF launcher.opt.action = "preflight"
                         THEN [launcher EXCEPT !.pc = "exit", !.result = "ok"]
                         ELSE Goto("store")
       \/ launcher' = Fail("gate")
    /\ UNCHANGED <<console, sup, outcome, workVars, coreVars, sentinelVars, budget>>

\* O_CREAT | O_EXCL: a record that is there, whole or not, is never replaced.
CreateRecord ==
    /\ At("store")
    /\ IF record = "none" THEN record' = "partial" /\ launcher' = Goto("write")
                          ELSE UNCHANGED record /\ launcher' = Fail("gate")
    /\ UNCHANGED <<lock, changed, sup, outcome, workVars, coreVars, sentinelVars, budget>>

\* A record that could not be written and synchronised is unlinked.
WriteRecord ==
    /\ At("write")
    /\ \/ record' = "whole" /\ launcher' = Goto("fork")
       \/ record' = "none" /\ launcher' = Fail("gate")
    /\ UNCHANGED <<lock, changed, sup, outcome, workVars, coreVars, sentinelVars, budget>>

\* The worker inherits the lock and one end of each pipe.  `reliable` is
\* whether the report pipe could be made non-blocking.
ForkWorker ==
    /\ At("fork")
    /\ launcher' = Goto("supervise")
    /\ lock' = lock \cup {"worker"}
    /\ worker' = [NoWorker EXCEPT !.pc = "start", !.blocked = TRUE]
    /\ report' = "open" /\ fault' = "open"
    /\ core' = NoCore /\ group' = {} /\ killed' = {}
    /\ sentinel' = NoSentinel
    /\ \E reliable \in BOOLEAN :
          sup' = [NoSupervision EXCEPT !.pc = "report", !.reliable = reliable,
                                       !.complete = ~reliable, !.forced = ~reliable,
                                       !.independent = ~reliable]
    /\ UNCHANGED <<record, changed, outcome, directory, budget>>

ForkFails ==
    /\ At("fork")
    /\ launcher' = Fail("restore")
    /\ UNCHANGED <<console, sup, outcome, workVars, coreVars, sentinelVars, budget>>

-----------------------------------------------------------------------------
(***************************************************************************)
(* One iteration of supervise_device_worker: read the report, try to reap, *)
(* heed the signals, then break, wait or escalate.                         *)
(***************************************************************************)
Supervising(pc) == At("supervise") /\ sup.pc = pc

Unreliable(s) ==
    [s EXCEPT !.complete = TRUE, !.reliable = FALSE, !.forced = TRUE, !.independent = TRUE]

\* A core reported while its failure is required arms SIGUSR1.
ReadReport ==
    /\ Supervising("report")
    /\ sup' = [(IF sup.complete THEN sup
                ELSE CASE report = "sent" ->
                            [sup EXCEPT !.complete = TRUE,
                                        !.armed = launcher.opt.required # "none"]
                       [] report = "closed" -> Unreliable(sup)
                       [] OTHER -> sup) EXCEPT !.pc = "act"]
    /\ UNCHANGED <<console, launcher, outcome, workVars, coreVars, sentinelVars, budget>>

CoreKnown(s) == s.complete /\ s.reliable

ForcedBySignal(s) == IF launcher.signal # "none" THEN [s EXCEPT !.forced = TRUE] ELSE s

EarlyTrigger(s) ==
    IF launcher.trigger = "early" /\ ~s.handled
    THEN [s EXCEPT !.triggered = TRUE, !.handled = TRUE, !.independent = TRUE, !.forced = TRUE]
    ELSE s

CommandDue(s) == launcher.trigger = "armed" /\ ~s.handled /\ CoreKnown(s)

Command(s) ==
    IF launcher.trigger # "armed" \/ s.handled THEN s
    ELSE IF ~CoreKnown(s) THEN [s EXCEPT !.triggered = TRUE]
    ELSE IF FaultOpen THEN [s EXCEPT !.triggered = TRUE, !.handled = TRUE, !.commanded = TRUE]
    ELSE [s EXCEPT !.triggered = TRUE, !.handled = TRUE, !.independent = TRUE, !.forced = TRUE]

\* The hard deadline of a commanded fault, and of the report.
FaultDeadline(s, passed) ==
    IF passed /\ s.commanded /\ ~s.reaped
    THEN [s EXCEPT !.independent = TRUE, !.forced = TRUE] ELSE s

ReportDeadline(s, passed) == IF passed /\ ~s.complete THEN Unreliable(s) ELSE s

AskCoreDue(s) ==
    launcher.signal = "TERM" /\ ~s.reaped /\ CoreKnown(s) /\ ~s.coreTerm

\* SIGTERM is passed on to the reported core, once.
AskCore(s, delivered) ==
    IF AskCoreDue(s)
    THEN [s EXCEPT !.coreTerm = TRUE, !.drove = delivered,
                   !.independent = s.independent \/ ~delivered]
    ELSE s

Heeded(faultPassed, reportPassed) ==
    LET reaped == [sup EXCEPT !.reaped = worker.pc = "dead"]
        early == EarlyTrigger(ForcedBySignal(reaped))
    IN ReportDeadline(FaultDeadline(Command(early), faultPassed), reportPassed)

\* A core that is a zombie can still be signalled.
CoreSignallable == core.state # "gone"

\* The exit status of a worker is kept until it is reaped.
Dies(how) ==
    /\ worker' = [NoWorker EXCEPT !.pc = "dead", !.exit = how]
    /\ lock' = lock \ {"worker"}
    /\ report' = IF report = "open" THEN "closed" ELSE report

\* What an iteration ends with, `s` being the locals it has by then.
WorkerReaped(s) ==
    /\ s.reaped /\ s.complete
    /\ sup' = [s EXCEPT !.pc = "core"]
    /\ UNCHANGED <<lock, worker, report>>

\* Nothing is forced, or the worker is still within its orderly grace, or
\* within the grace of the last signal.
Sleep(s) ==
    /\ ~(s.reaped /\ s.complete)
    /\ sup' = [s EXCEPT !.pc = "report"]
    /\ UNCHANGED <<lock, worker, report>>

MayEscalate(s) == s.forced /\ ~s.reaped /\ s.complete

\* SIGTERM waits for a worker that has it blocked, is a quit event to one in
\* its loop, and ends one that has given the host's handlers back.
TermWorker(s) ==
    /\ MayEscalate(s) /\ ~s.term
    /\ sup' = [s EXCEPT !.pc = "report", !.term = TRUE, !.independent = s.independent \/ s.drove]
    /\ IF worker.blocked \/ worker.pc \in {"loop", "ack", "close"}
       THEN worker' = [worker EXCEPT !.term = TRUE] /\ UNCHANGED <<lock, report>>
       ELSE Dies("signal")

MutantKillWorker(s) ==
    /\ MayEscalate(s) /\ s.term /\ ~s.kill
    /\ sup' = [s EXCEPT !.pc = "report"]
    /\ Dies("signal") \/ UNCHANGED <<worker, lock, report>>

\* A worker stuck in the kernel does not die of it, yet.
KillWorker(s) ==
    /\ MayEscalate(s) /\ s.term /\ ~s.kill
    /\ sup' = [s EXCEPT !.pc = "report", !.kill = TRUE]
    /\ Dies("signal") \/ UNCHANGED <<worker, lock, report>>

GiveUp(s) ==
    /\ MayEscalate(s) /\ s.kill
    /\ sup' = [s EXCEPT !.pc = "core"]
    /\ UNCHANGED <<lock, worker, report>>

Escalation(s) == WorkerReaped(s) \/ TermWorker(s) \/ KillWorker(s) \/ GiveUp(s)

\* One turn of the loop, ended in one of `ways`.  Writing a command to a
\* closed pipe raises SIGPIPE, which counts as a signal.
Iteration(ways) ==
    /\ Supervising("act")
    /\ \E faultPassed, reportPassed \in BOOLEAN :
         LET heeded == Heeded(faultPassed, reportPassed)
             asked == AskCore(heeded, CoreSignallable)
         IN /\ core' = IF AskCoreDue(heeded) /\ CoreSignallable
                       THEN [core EXCEPT !.term = TRUE] ELSE core
            /\ \/ "sleep" \in ways /\ Sleep(asked)
               \/ "forced sleep" \in ways /\ asked.complete /\ asked.forced /\ Sleep(asked)
               \/ "escalation" \in ways /\ Escalation(asked)
    /\ fault' = IF CommandDue(sup) /\ FaultOpen THEN launcher.opt.required ELSE fault
    /\ launcher' = IF CommandDue(sup) /\ ~FaultOpen /\ launcher.signal = "none"
                   THEN [launcher EXCEPT !.signal = "INT"] ELSE launcher
    /\ UNCHANGED <<record, changed, outcome, group, killed, sentinelVars, budget>>

Supervise == Iteration({"sleep", "escalation"})

-----------------------------------------------------------------------------
(***************************************************************************)
(* After the loop: a worker that did not end by its own clean-up leaves    *)
(* the core's group to the supervisor.                                     *)
(***************************************************************************)
WorkerFinished == sup.reaped /\ worker.exit \notin {"signal", "incomplete"}

MustStopCore == sup.reaped /\ ~WorkerFinished /\ CoreKnown(sup)

IndependentFailure ==
    sup.independent \/ (sup.reaped /\ worker.exit \in {"signal", "failed", "incomplete"})

MutantStatusIsZero(coreGone) == WorkerFinished /\ coreGone

StatusIsZero(coreGone) ==
    WorkerFinished /\ coreGone /\ ~IndependentFailure /\ worker.exit = "ok"

Outcome(coreGone) ==
    [ok |-> StatusIsZero(coreGone),
     workerGone |-> sup.reaped, cleanup |-> WorkerFinished, coreGone |-> coreGone,
     drove |-> sup.drove /\ ~sup.term /\ sup.reaped /\ worker.exit = "ok",
     triggered |-> sup.triggered,
     observed |-> IF sup.reaped /\ worker.exit \in {"crash", "hang"} THEN worker.exit ELSE "none",
     independent |-> IndependentFailure, restored |-> FALSE, removed |-> FALSE]

MutantSupervisionEnds(coreGone) ==
    /\ outcome' = Outcome(coreGone)
    /\ sup' = NoSupervision
    /\ launcher' = [launcher EXCEPT !.pc = "restore",
                                    !.result = IF Outcome(coreGone).ok THEN "ok" ELSE "failed"]

\* The console is not touched while the worker may still be alive.
SupervisionEnds(coreGone) ==
    /\ outcome' = Outcome(coreGone)
    /\ sup' = NoSupervision
    /\ launcher' = [launcher EXCEPT !.pc = IF sup.reaped THEN "restore" ELSE "gate",
                                    !.result = IF Outcome(coreGone).ok THEN "ok" ELSE "failed"]

CoreAccounted ==
    /\ Supervising("core")
    /\ \/ WorkerFinished /\ SupervisionEnds(TRUE)
       \/ ~WorkerFinished /\ ~MustStopCore /\ SupervisionEnds(FALSE)
       \/ MustStopCore /\ CoreGroupGone /\ SupervisionEnds(TRUE)
    /\ UNCHANGED <<console, workVars, coreVars, sentinelVars, budget>>

\* signal_core_session and core_session_is_gone: SIGTERM and SIGCONT to the
\* group, then SIGKILL, each after its grace.
SupervisorTermsCore ==
    /\ Supervising("core") /\ MustStopCore /\ ~CoreGroupGone
    /\ sup' = [sup EXCEPT !.pc = "coreTerm"]
    /\ core' = [core EXCEPT !.term = TRUE, !.stopped = FALSE]
    /\ UNCHANGED <<console, launcher, outcome, workVars, group, killed, sentinelVars, budget>>

SupervisorKillsCore ==
    /\ Supervising("coreTerm")
    /\ IF CoreGroupGone THEN SupervisionEnds(TRUE) /\ UNCHANGED killed
       ELSE /\ sup' = [sup EXCEPT !.pc = "coreKill"]
            /\ killed' = group
            /\ UNCHANGED <<launcher, outcome>>
    /\ UNCHANGED <<console, workVars, core, group, sentinelVars, budget>>

SupervisorLeavesCore ==
    /\ Supervising("coreKill")
    /\ SupervisionEnds(CoreGroupGone)
    /\ UNCHANGED <<console, workVars, coreVars, sentinelVars, budget>>

-----------------------------------------------------------------------------
(***************************************************************************)
(* Restoration, the record, and the result.                                *)
(***************************************************************************)
\* Each part is set back, whether or not the one before could be; then all
\* of them are read back.
RestoreConsole ==
    /\ At("restore")
    /\ \E left \in SUBSET changed : changed' = left
    /\ launcher' = Goto("verify")
    /\ UNCHANGED <<lock, record, sup, outcome, workVars, coreVars, sentinelVars, budget>>

Recovering == launcher.opt.action = "recover"

MutantVerifyConsole ==
    /\ At("verify")
    /\ \/ /\ outcome' = [outcome EXCEPT !.restored = TRUE]
          /\ launcher' = IF Recovering \/ (outcome.cleanup /\ outcome.coreGone)
                         THEN Goto("remove") ELSE Fail("gate")
       \/ launcher' = Fail(IF Recovering THEN "exit" ELSE "gate") /\ UNCHANGED outcome
    /\ UNCHANGED <<console, sup, workVars, coreVars, sentinelVars, budget>>


MutantVerifyUnaccounted ==
    /\ At("verify")
    /\ \/ /\ changed = {}
          /\ outcome' = [outcome EXCEPT !.restored = TRUE]
          /\ launcher' = Goto("remove")
       \/ launcher' = Fail(IF Recovering THEN "exit" ELSE "gate") /\ UNCHANGED outcome
    /\ UNCHANGED <<console, sup, workVars, coreVars, sentinelVars, budget>>


VerifyConsole ==
    /\ At("verify")
    /\ \/ /\ changed = {}
          /\ outcome' = [outcome EXCEPT !.restored = TRUE]
          /\ launcher' = IF Recovering \/ (outcome.cleanup /\ outcome.coreGone)
                         THEN Goto("remove") ELSE Fail("gate")
       \/ launcher' = Fail(IF Recovering THEN "exit" ELSE "gate") /\ UNCHANGED outcome
    /\ UNCHANGED <<console, sup, workVars, coreVars, sentinelVars, budget>>

RemoveRecord ==
    /\ At("remove")
    /\ \/ /\ record' = "none"
          /\ outcome' = [outcome EXCEPT !.removed = TRUE]
          /\ launcher' = IF Recovering THEN [launcher EXCEPT !.pc = "exit", !.result = "ok"]
                                       ELSE Goto("gate")
       \/ /\ launcher' = Fail(IF Recovering THEN "exit" ELSE "gate")
          /\ UNCHANGED <<record, outcome>>
    /\ UNCHANGED <<lock, changed, sup, workVars, coreVars, sentinelVars, budget>>

Settled == outcome.workerGone /\ outcome.coreGone /\ outcome.restored /\ outcome.removed

\* nb_wsdisplay_session_sigterm_gate_passes
SigtermGate ==
    launcher.signal = "TERM" /\ outcome.drove /\ ~outcome.independent /\ Settled

\* nb_wsdisplay_session_core_failure_gate_passes
CoreFailureGate ==
    /\ outcome.observed = launcher.opt.required /\ outcome.triggered
    /\ launcher.signal = "none" /\ ~outcome.independent /\ Settled

JudgeRun ==
    /\ At("gate")
    /\ LET passes ==
             CASE launcher.opt.requireTerm -> SigtermGate
               [] launcher.opt.required # "none" -> CoreFailureGate
               [] OTHER -> /\ launcher.result = "ok"
                           /\ launcher.signal = "none" /\ launcher.trigger = "none"
       IN launcher' = [launcher EXCEPT !.pc = "exit",
                                       !.result = IF passes THEN "ok" ELSE "failed"]
    /\ UNCHANGED <<console, sup, outcome, workVars, coreVars, sentinelVars, budget>>

LauncherExits ==
    /\ At("exit")
    /\ launcher' = Off
    /\ lock' = lock \ {"launcher"}
    /\ outcome' = NotSupervised
    /\ UNCHANGED <<record, changed, sup, workVars, coreVars, sentinelVars, budget>>

Launcher ==
    \/ LoadRecord \/ CaptureConsole \/ CreateRecord \/ WriteRecord \/ ForkWorker \/ ForkFails
    \/ ReadReport \/ Supervise
    \/ CoreAccounted \/ SupervisorTermsCore \/ SupervisorKillsCore \/ SupervisorLeavesCore
    \/ RestoreConsole \/ VerifyConsole \/ RemoveRecord \/ JudgeRun \/ LauncherExits

\* supervisor_signal_handler: the first signal is the one that counts ("INT"
\* stands for any but SIGTERM); SIGUSR1 triggers the required core failure.
SignalLauncher ==
    /\ launcher.pc # "off"
    /\ \/ /\ launcher.signal = "none"
          /\ \E s \in launcher.opt.signals \ {"USR1"} : launcher' = [launcher EXCEPT !.signal = s]
       \/ /\ "USR1" \in launcher.opt.signals /\ launcher.trigger = "none"
          /\ launcher' = [launcher EXCEPT !.trigger = IF sup.armed THEN "armed" ELSE "early"]
    /\ UNCHANGED <<console, sup, outcome, workVars, coreVars, sentinelVars, budget>>

LauncherKilled ==
    /\ launcher.pc # "off" /\ kills < MaxKills
    /\ launcher' = Off /\ sup' = NoSupervision /\ outcome' = NotSupervised
    /\ lock' = lock \ {"launcher"}
    /\ kills' = kills + 1
    /\ UNCHANGED <<record, changed, workVars, coreVars, sentinelVars, launches>>

-----------------------------------------------------------------------------
(***************************************************************************)
(* The device worker: what run_device_worker starts and takes.             *)
(***************************************************************************)
In(pc) == worker.pc = pc

WorkerTo(pc) == [worker EXCEPT !.pc = pc]

ForkSentinel ==
    /\ In("start")
    /\ \/ /\ worker' = [worker EXCEPT !.pc = "ready", !.runtimeClean = FALSE]
          /\ sentinel' = [NoSentinel EXCEPT !.state = "starting"]
       \/ worker' = WorkerTo("close") /\ UNCHANGED sentinel
    /\ UNCHANGED <<console, launchVars, report, fault, coreVars, directory, budget>>

\* nb_session_runtime_sentinel_wait_ready
AwaitSentinel ==
    /\ In("ready")
    /\ worker' = IF sentinel.state = "serving" THEN [worker EXCEPT !.pc = "core", !.ready = TRUE]
                                               ELSE WorkerTo("close")
    /\ UNCHANGED <<console, launchVars, report, fault, coreVars, sentinelVars, budget>>

ForkCore ==
    /\ In("core")
    /\ \/ /\ worker' = WorkerTo("host")
          /\ core' = [NoCore EXCEPT !.state = "start"]
          /\ group' = {"core"}
       \/ worker' = WorkerTo("close") /\ UNCHANGED <<core, group>>
    /\ UNCHANGED <<console, launchVars, report, fault, killed, sentinelVars, budget>>

\* nb_host_wsdisplay_create undoes what it had changed when it fails, as far
\* as it can; a failure after it leaves the whole console to the clean-up.
TakeConsole ==
    /\ In("host")
    /\ \/ changed' = ConsoleParts /\ worker' = [worker EXCEPT !.pc = "loop", !.blocked = FALSE]
       \/ \E left \in SUBSET ConsoleParts : changed' = left /\ worker' = WorkerTo("close")
    /\ UNCHANGED <<lock, record, launchVars, report, fault, coreVars, sentinelVars, budget>>

-----------------------------------------------------------------------------
(***************************************************************************)
(* Its loop, seen by the supervisor: DeviceWorker models what passes       *)
(* between the worker and the core.                                        *)
(***************************************************************************)
SentinelEnded ==
    /\ In("loop") /\ sentinel.state = "ended"
    /\ worker' = [worker EXCEPT !.pc = "close", !.sentinelReaped = TRUE]
    /\ sentinel' = [NoSentinel EXCEPT !.state = "gone"]
    /\ UNCHANGED <<console, launchVars, report, fault, coreVars, directory, budget>>

CoreEnded ==
    /\ In("loop") \/ In("ack")
    /\ core.state = "ended"
    /\ worker' = [worker EXCEPT !.pc = "close", !.coreReaped = TRUE]
    /\ core' = [core EXCEPT !.state = "gone"]
    /\ UNCHANGED <<console, launchVars, report, fault, group, killed, sentinelVars, budget>>

MutantSupervisorLost ==
    /\ In("loop") /\ fault = "closed"
    /\ worker' = WorkerTo("close")
    /\ UNCHANGED <<console, launchVars, report, fault, coreVars, sentinelVars, budget>>

\* take_fault_command: the pipe is closed, or has a command.
SupervisorLost ==
    /\ In("loop") /\ ~SupervisorListens
    /\ worker' = WorkerTo("close")
    /\ UNCHANGED <<console, launchVars, report, fault, coreVars, sentinelVars, budget>>


InjectCrash ==
    /\ In("loop") /\ fault = "crash"
    /\ worker' = [worker EXCEPT !.pc = "close", !.injected = "crash"]
    /\ fault' = "open"
    /\ killed' = killed \cup (group \cap {"core"})
    /\ UNCHANGED <<console, launchVars, report, core, group, sentinelVars, budget>>

InjectHang ==
    /\ In("loop") /\ fault = "hang"
    /\ worker' = [worker EXCEPT !.injected = "hang"]
    /\ fault' = "open"
    /\ core' = [core EXCEPT !.stopped = TRUE]
    /\ UNCHANGED <<console, launchVars, report, group, killed, sentinelVars, budget>>

\* The helper is ready once the core has said HELLO.
ReportCore ==
    /\ In("loop") /\ report = "open" /\ core.state \in {"ready", "asked"}
    /\ IF SupervisorListens THEN report' = "sent" /\ UNCHANGED worker
                            ELSE worker' = WorkerTo("close") /\ UNCHANGED report
    /\ UNCHANGED <<console, launchVars, fault, coreVars, sentinelVars, budget>>

AcceptShutdown ==
    /\ In("loop") /\ report # "open" /\ core.state = "asked"
    /\ worker' = [worker EXCEPT !.pc = "ack", !.orderly = TRUE]
    /\ UNCHANGED <<console, launchVars, report, fault, coreVars, sentinelVars, budget>>

\* The acknowledgement is flushed to the core, or cannot be in time.
FlushAck ==
    /\ In("ack")
    /\ \/ /\ core.state = "asked"
          /\ worker' = [worker EXCEPT !.pc = "close", !.success = TRUE]
          /\ core' = [core EXCEPT !.acked = TRUE]
       \/ worker' = WorkerTo("close") /\ UNCHANGED core
    /\ UNCHANGED <<console, launchVars, report, fault, group, killed, sentinelVars, budget>>

\* Ctrl+Alt+Backspace
EmergencyShutdown ==
    /\ In("loop")
    /\ worker' = [worker EXCEPT !.pc = "close", !.success = TRUE]
    /\ UNCHANGED <<console, launchVars, report, fault, coreVars, sentinelVars, budget>>

\* Without an injected hang it is one of the failures of the loop.
HeartbeatExpires ==
    /\ In("loop") /\ worker.injected = "hang"
    /\ worker' = [worker EXCEPT !.pc = "close", !.heartbeat = TRUE]
    /\ UNCHANGED <<console, launchVars, report, fault, coreVars, sentinelVars, budget>>

\* A quit event (SIGTERM), or an error of the helper, the host or the input.
LoopFails ==
    /\ In("loop")
    /\ worker' = WorkerTo("close")
    /\ UNCHANGED <<console, launchVars, report, fault, coreVars, sentinelVars, budget>>

-----------------------------------------------------------------------------
(***************************************************************************)
(* Its clean-up.                                                           *)
(***************************************************************************)
AfterClose ==
    CASE core.state = "none" -> "finish"
      [] core.state # "none" /\ worker.coreReaped -> "group"
      [] core.state # "none" /\ ~worker.coreReaped /\ worker.injected = "crash" -> "contain"
      [] OTHER -> IF worker.success /\ worker.orderly THEN "orderly" ELSE "term"

\* nb_host_destroy gives the console back as far as it can and restores the
\* signal handlers; the sockets and the pipes are closed.  stop_core without
\* an orderly end starts with its SIGTERM.
CloseDevices ==
    /\ In("close")
    /\ \E left \in SUBSET changed : changed' = left
    /\ worker' = [worker EXCEPT !.pc = AfterClose, !.term = worker.blocked /\ worker.term]
    /\ core' = IF AfterClose = "term" THEN [core EXCEPT !.term = TRUE, !.stopped = FALSE] ELSE core
    /\ report' = IF report = "open" THEN "closed" ELSE report
    /\ UNCHANGED <<lock, record, launchVars, fault, group, killed, sentinelVars, budget>>

StopOutcome(clean) ==
    LET wasOrderly == worker.success /\ worker.orderly
    IN worker.success /\ clean /\ (wasOrderly => core.exit = "zero")

\* The core was reaped in the loop, is contained, or is stopped.
CoreStopped(clean) ==
    [worker EXCEPT !.pc = "finish", !.coreClean = clean,
        !.success = IF worker.coreReaped
                    THEN worker.success /\ clean /\ worker.orderly /\ core.exit = "zero"
                    ELSE IF worker.injected = "crash" THEN worker.success
                    ELSE StopOutcome(clean)]


ReapCore ==
    /\ worker.pc \in {"contain", "containKill", "orderly", "term", "kill"}
    /\ core.state = "ended"
    /\ core' = [core EXCEPT !.state = "gone"]
    /\ worker' = WorkerTo("group")
    /\ UNCHANGED <<console, launchVars, report, fault, group, killed, sentinelVars, budget>>

CoreGraceExpires ==
    /\ core.state # "ended"
    /\ \/ /\ In("contain")
          /\ worker' = WorkerTo("containKill")
          /\ killed' = killed \cup (group \cap {"core"}) /\ UNCHANGED core
       \/ /\ In("orderly")
          /\ worker' = WorkerTo("term")
          /\ core' = [core EXCEPT !.term = TRUE, !.stopped = FALSE] /\ UNCHANGED killed
       \/ /\ In("term")
          /\ worker' = WorkerTo("kill")
          /\ killed' = group /\ UNCHANGED core
       \/ /\ In("containKill") \/ In("kill")
          /\ worker' = CoreStopped(FALSE)
          /\ UNCHANGED <<core, killed>>
    /\ UNCHANGED <<console, launchVars, report, fault, group, sentinelVars, budget>>

\* stop_reaped_core_process_group: applications that outlive the core.
GroupGone ==
    /\ worker.pc \in {"group", "groupTerm", "groupKill"} /\ CoreGroupGone
    /\ worker' = CoreStopped(TRUE)
    /\ UNCHANGED <<console, launchVars, report, fault, coreVars, sentinelVars, budget>>

GroupGraceExpires ==
    /\ ~CoreGroupGone
    /\ \/ In("group") /\ worker' = WorkerTo("groupTerm") /\ UNCHANGED killed
       \/ In("groupTerm") /\ worker' = WorkerTo("groupKill") /\ killed' = group
       \/ In("groupKill") /\ worker' = CoreStopped(FALSE) /\ UNCHANGED killed
    /\ UNCHANGED <<console, launchVars, report, fault, core, group, sentinelVars, budget>>

MutantFinishSentinel ==
    /\ In("finish")
    /\ IF sentinel.state = "none" \/ worker.sentinelReaped
       THEN worker' = WorkerTo("unlock") /\ UNCHANGED sentinel
       ELSE IF worker.ready
       THEN worker' = WorkerTo("request") /\ sentinel' = [sentinel EXCEPT !.request = TRUE]
       ELSE worker' = WorkerTo("reap") /\ UNCHANGED sentinel
    /\ UNCHANGED <<console, launchVars, report, fault, coreVars, directory, budget>>

\* finish_runtime_sentinel: a sentinel whose core may be alive is killed
\* before its socket is closed, lest it take that for the end of the core.
FinishSentinel ==
    /\ In("finish")
    /\ IF sentinel.state = "none" \/ worker.sentinelReaped
       THEN worker' = WorkerTo("unlock") /\ UNCHANGED sentinel
       ELSE IF ~worker.coreClean
       THEN worker' = [worker EXCEPT !.pc = "abort", !.forced = TRUE]
            /\ sentinel' = [sentinel EXCEPT !.killed = TRUE]
       ELSE IF worker.ready
       THEN worker' = WorkerTo("request") /\ sentinel' = [sentinel EXCEPT !.request = TRUE]
       ELSE worker' = WorkerTo("reap") /\ UNCHANGED sentinel
    /\ UNCHANGED <<console, launchVars, report, fault, coreVars, directory, budget>>

AwaitCleaned ==
    /\ In("request")
    /\ \/ sentinel.reply = "cleaned" /\ worker' = [worker EXCEPT !.pc = "reap", !.reported = TRUE]
       \/ worker' = [worker EXCEPT !.pc = "reap", !.reported = FALSE]
    /\ UNCHANGED <<console, launchVars, report, fault, coreVars, sentinelVars, budget>>

ReapSentinel ==
    /\ worker.pc \in {"reap", "reapTerm", "reapKill", "abort"}
    /\ sentinel.state = "ended"
    /\ worker' = [worker EXCEPT !.pc = "unlock",
                     !.runtimeClean = ~worker.forced /\ worker.reported /\ sentinel.clean]
    /\ sentinel' = [NoSentinel EXCEPT !.state = "gone"]
    /\ UNCHANGED <<console, launchVars, report, fault, coreVars, directory, budget>>

SentinelGraceExpires ==
    /\ sentinel.state # "ended"
    /\ \/ /\ In("reap")
          /\ worker' = [worker EXCEPT !.pc = "reapTerm", !.forced = TRUE]
          /\ sentinel' = [sentinel EXCEPT !.term = TRUE]
       \/ /\ In("reapTerm")
          /\ worker' = WorkerTo("reapKill")
          /\ sentinel' = [sentinel EXCEPT !.killed = TRUE]
       \/ /\ In("reapKill") \/ In("abort")
          /\ worker' = WorkerTo("unlock") /\ UNCHANGED sentinel
    /\ UNCHANGED <<console, launchVars, report, fault, coreVars, directory, budget>>

Unlock ==
    /\ In("unlock")
    /\ lock' = lock \ {"worker"}
    /\ worker' = WorkerTo("exit")
    /\ UNCHANGED <<record, changed, launchVars, report, fault, coreVars, sentinelVars, budget>>


ExitCode ==
    IF ~worker.coreClean \/ ~worker.runtimeClean THEN "incomplete"
    ELSE IF worker.injected = "crash" /\ core.exit = "killed" THEN "crash"
    ELSE IF worker.injected = "hang" /\ worker.heartbeat THEN "hang"
    ELSE IF worker.success THEN "ok" ELSE "failed"

\* A SIGTERM held back since the start-up is delivered now.
WorkerExits ==
    /\ In("exit")
    /\ Dies(IF worker.blocked /\ worker.term THEN "signal" ELSE ExitCode)
    /\ UNCHANGED <<record, changed, launchVars, fault, coreVars, sentinelVars, budget>>

Worker ==
    \/ ForkSentinel \/ AwaitSentinel \/ ForkCore \/ TakeConsole
    \/ SentinelEnded \/ CoreEnded \/ SupervisorLost \/ InjectCrash \/ InjectHang \/ ReportCore
    \/ AcceptShutdown \/ FlushAck \/ EmergencyShutdown \/ HeartbeatExpires \/ LoopFails
    \/ CloseDevices \/ ReapCore \/ CoreGraceExpires \/ GroupGone \/ GroupGraceExpires
    \/ FinishSentinel \/ AwaitCleaned \/ ReapSentinel \/ SentinelGraceExpires
    \/ Unlock \/ WorkerExits

\* A worker killed while it takes the console may have taken part of it.
WorkerKilled ==
    /\ WorkerAlive /\ kills < MaxKills
    /\ Dies("signal")
    /\ kills' = kills + 1
    /\ UNCHANGED <<record, changed, launchVars, fault, coreVars, sentinelVars, launches>>

-----------------------------------------------------------------------------
(***************************************************************************)
(* The core, its applications, and the sentinel.                           *)
(***************************************************************************)
CoreRuns == "core" \in group \ killed /\ ~core.stopped

CoreStarts ==
    /\ CoreRuns /\ SocketOpen /\ core.state = "start"
    /\ core' = [core EXCEPT !.state = "ready"]
    /\ UNCHANGED <<console, launchVars, workVars, group, killed, sentinelVars, budget>>

CoreLaunches ==
    /\ CoreRuns /\ core.state = "ready"
    /\ group' = group \cup {"app"}
    /\ UNCHANGED <<console, launchVars, workVars, core, killed, sentinelVars, budget>>

\* The user logs out, or SIGTERM asks for it (begin_shutdown).
CoreAsks ==
    /\ CoreRuns /\ SocketOpen /\ core.state = "ready"
    /\ core' = [core EXCEPT !.state = "asked", !.term = FALSE]
    /\ UNCHANGED <<console, launchVars, workVars, group, killed, sentinelVars, budget>>

\* Accepted, disconnected, timed out or crashed; stop_applications kills the
\* applications that stay, and a crash leaves them.
CoreExits ==
    /\ CoreRuns
    /\ \E zero, kills_apps \in BOOLEAN :
          /\ zero => core.acked /\ kills_apps
          /\ core' = [NoCore EXCEPT !.state = "ended",
                                  !.exit = IF zero THEN "zero" ELSE "other"]
          /\ killed' = IF kills_apps THEN killed \cup (group \ {"core"}) ELSE killed
    /\ group' = group \ {"core"}
    /\ UNCHANGED <<console, launchVars, workVars, sentinelVars, budget>>

AppExits ==
    /\ "app" \in group
    /\ group' = group \ {"app"} /\ killed' = killed \ {"app"}
    /\ UNCHANGED <<console, launchVars, workVars, core, sentinelVars, budget>>

KillReachesCore ==
    /\ "core" \in group \cap killed
    /\ group' = group \ {"core"} /\ killed' = killed \ {"core"}
    /\ core' = [NoCore EXCEPT !.state = "ended", !.exit = "killed"]
    /\ UNCHANGED <<console, launchVars, workVars, sentinelVars, budget>>

\* nb_session_runtime_sentinel_run
SentinelRuns(state) == sentinel.state = state /\ ~sentinel.killed

SentinelStarts ==
    /\ SentinelRuns("starting")
    /\ \/ sentinel' = [sentinel EXCEPT !.state = "serving"] /\ directory' = TRUE
       \/ sentinel' = [sentinel EXCEPT !.state = "ended"] /\ UNCHANGED directory
    /\ UNCHANGED <<console, launchVars, workVars, coreVars, budget>>

\* Told to clean, or left alone; the directory goes, or it fails.
SentinelCleans ==
    /\ SentinelRuns("serving")
    /\ sentinel.request \/ ~ControllerOpen
    /\ \E cleaned \in BOOLEAN :
          /\ directory' = IF cleaned THEN FALSE ELSE directory
          /\ sentinel' = [sentinel EXCEPT !.state = "ended", !.clean = cleaned,
                            !.reply = IF sentinel.request /\ ControllerOpen
                                      THEN (IF cleaned THEN "cleaned" ELSE "failed") ELSE "none"]
    /\ UNCHANGED <<console, launchVars, workVars, coreVars, budget>>

\* A signal, or a crash, ends it without cleaning.
SentinelDies ==
    /\ sentinel.state \in {"starting", "serving"}
    /\ IF sentinel.term \/ sentinel.killed THEN UNCHANGED kills
       ELSE kills < MaxKills /\ kills' = kills + 1
    /\ sentinel' = [sentinel EXCEPT !.state = "ended", !.clean = FALSE]
    /\ UNCHANGED <<console, launchVars, workVars, coreVars, directory, launches>>

\* A dead worker's children are reaped by init.
InitReaps ==
    /\ worker.pc = "dead"
    /\ \/ /\ core.state = "ended"
          /\ core' = [NoCore EXCEPT !.state = "gone"] /\ UNCHANGED sentinel
       \/ /\ sentinel.state = "ended"
          /\ sentinel' = [NoSentinel EXCEPT !.state = "gone"] /\ UNCHANGED core
    /\ UNCHANGED <<console, launchVars, workVars, group, killed, directory, budget>>

Others ==
    \/ CoreStarts \/ CoreLaunches \/ CoreAsks \/ CoreExits \/ AppExits \/ KillReachesCore
    \/ SentinelStarts \/ SentinelCleans \/ SentinelDies \/ InitReaps
    \/ SignalLauncher \/ LauncherKilled \/ WorkerKilled

Next == Launch \/ Launcher \/ Worker \/ Others

Spec == Init /\ [][Next]_vars

-----------------------------------------------------------------------------
(***************************************************************************)
(* Properties.                                                             *)
(***************************************************************************)
WorkerGone == worker.pc \in {"none", "dead"}

SupervisorTypeOK ==
    /\ lock \subseteq {"launcher", "worker"}
    /\ record \in {"none", "partial", "whole"}
    /\ changed \subseteq ConsoleParts
    /\ report \in {"open", "sent", "closed"} /\ fault \in {"open", "closed", "crash", "hang"}
    /\ core.state \in {"none", "start", "ready", "asked", "ended", "gone"}
    /\ group \subseteq {"core", "app"} /\ killed \subseteq group
    /\ sentinel.state \in {"none", "starting", "serving", "ended", "gone"}
    /\ directory \in BOOLEAN

\* Whatever is killed, and whenever, a console that is not as it was captured
\* has a recovery record that --recover accepts.
TakenConsoleHasRecord == changed # {} => record = "whole"

\* A launcher restores the console, and a new one records its state, only
\* while no worker has the screen open.
ConsoleHasOneHand ==
    launcher.pc \in {"store", "write", "restore", "verify", "remove"} => ~WorkerHasDevice

\* The record goes only when the console has been restored and nothing of the
\* session is left; --recover answers for the console alone.
RecordOutlivesSession ==
    [][record = "whole" /\ record' # "whole" =>
         /\ changed = {}
         /\ worker.pc \in {"none", "exit", "dead"}
         /\ launcher.opt.action = "run" => CoreGroupGone /\ ~directory]_vars

\* The directory is removed under nobody's feet, unless the worker has died.
DirectoryOutlivesCore ==
    [][directory /\ ~directory' => CoreGroupGone \/ worker.pc = "dead"]_vars

\* A run that reports success has left nothing behind, and ended as required.
SuccessMeansSettled ==
    At("exit") /\ launcher.result = "ok" /\ launcher.opt.action = "run" =>
        /\ record = "none" /\ changed = {} /\ CoreGroupGone /\ ~directory
        /\ worker.pc = "dead"
        /\ worker.exit = IF launcher.opt.required = "none" THEN "ok" ELSE launcher.opt.required

\* The worker's waits have deadlines, and its loop watches the fault pipe.
WorkerObliged ==
    \/ ForkSentinel \/ AwaitSentinel \/ ForkCore \/ TakeConsole \/ SupervisorLost
    \/ FlushAck \/ CloseDevices \/ ReapCore \/ CoreGraceExpires \/ GroupGone \/ GroupGraceExpires
    \/ FinishSentinel \/ AwaitCleaned \/ ReapSentinel \/ SentinelGraceExpires
    \/ Unlock \/ WorkerExits

\* The launcher's deadlines pass: it does not sleep for ever.
DeadlinesPass ==
    /\ SF_vars(Iteration({"escalation"}))
    /\ SF_vars(Iteration({"forced sleep"}))

FairSpec == Spec /\ WF_vars(Launcher) /\ DeadlinesPass /\ WF_vars(WorkerObliged)

\* A launcher that is signalled ends, whatever the worker, the core or the
\* sentinel does.
SignalledLauncherEnds ==
    (At("supervise") /\ launcher.signal # "none") ~> At("off")

\* A worker nobody supervises gives the console back and ends.
OrphanedWorkerEnds == (WorkerAlive /\ ~SupervisorListens) ~> WorkerGone

=============================================================================
