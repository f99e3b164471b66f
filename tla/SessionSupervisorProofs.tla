----------------------- MODULE SessionSupervisorProofs -----------------------
(***************************************************************************)
(* Whatever is killed, and whenever, in any number of sessions one after   *)
(* another: a console that was taken has a recovery record, one process at *)
(* a time has it in hand, the record and the directory outlive what they   *)
(* are for, and a run that reports success has left nothing behind.        *)
(*                                                                         *)
(* The argument is about who may still act.  A worker that has the lock    *)
(* keeps every other launcher out (LockInv, HandInv), so the record stays  *)
(* whole while the console may change (RecordInv).  What a worker knows    *)
(* of the core and the sentinel when it ends is true and stays true        *)
(* (CoreInv, SentinelInv), and the launcher's verdict rests on the exit    *)
(* status that tells it (RunInv).                                          *)
(***************************************************************************)
EXTENDS SessionSupervisor, TLAPS

-----------------------------------------------------------------------------
(***************************************************************************)
(* Types.                                                                  *)
(***************************************************************************)
Signals == {"TERM", "INT", "USR1"}

Failures == {"none", "crash", "hang"}

Options == [action : {"none", "run", "preflight", "recover"},
            required : Failures, requireTerm : BOOLEAN, signals : SUBSET Signals]

LauncherPcs == {"off", "load", "capture", "store", "write", "fork", "supervise", "restore",
                "verify", "remove", "gate", "exit"}

SupervisorPcs == {"off", "report", "act", "core", "coreTerm", "coreKill"}

WorkerPcs ==
    {"none", "start", "ready", "core", "host", "loop", "ack", "close", "contain", "containKill",
     "orderly", "term", "kill", "group", "groupTerm", "groupKill", "finish", "request", "reap",
     "reapTerm", "reapKill", "abort", "unlock", "exit", "dead"}

Triggers == {"none", "armed", "early"}

Results == {"none", "ok", "failed"}

ExitCodes == {"none", "signal", "incomplete", "crash", "hang", "ok", "failed"}

CoreStates == {"none", "start", "ready", "asked", "ended", "gone"}

CoreEnds == {"none", "zero", "other", "killed"}

SentinelStates == {"none", "starting", "serving", "ended", "gone"}

Replies == {"none", "cleaned", "failed"}

Launchers == [pc : LauncherPcs, opt : Options, signal : Signals \cup {"none"},
              trigger : Triggers, result : Results]

Supervisors ==
    [pc : SupervisorPcs,
     complete : BOOLEAN, reliable : BOOLEAN, forced : BOOLEAN, coreTerm : BOOLEAN,
     drove : BOOLEAN, term : BOOLEAN, kill : BOOLEAN, armed : BOOLEAN, handled : BOOLEAN,
     commanded : BOOLEAN, triggered : BOOLEAN, independent : BOOLEAN, reaped : BOOLEAN]

Outcomes ==
    [ok : BOOLEAN, workerGone : BOOLEAN, cleanup : BOOLEAN, coreGone : BOOLEAN,
     drove : BOOLEAN, triggered : BOOLEAN, observed : Failures,
     independent : BOOLEAN, restored : BOOLEAN, removed : BOOLEAN]

Workers ==
    [pc : WorkerPcs,
     blocked : BOOLEAN, term : BOOLEAN, success : BOOLEAN, orderly : BOOLEAN,
     injected : Failures, heartbeat : BOOLEAN, coreReaped : BOOLEAN,
     coreClean : BOOLEAN, ready : BOOLEAN, sentinelReaped : BOOLEAN, reported : BOOLEAN,
     forced : BOOLEAN, runtimeClean : BOOLEAN, exit : ExitCodes]

Cores == [state : CoreStates, exit : CoreEnds, term : BOOLEAN, acked : BOOLEAN,
          stopped : BOOLEAN]

Sentinels == [state : SentinelStates, term : BOOLEAN, killed : BOOLEAN, request : BOOLEAN,
              reply : Replies, clean : BOOLEAN]

TypeInv ==
    /\ lock \subseteq {"launcher", "worker"}
    /\ record \in {"none", "partial", "whole"} /\ changed \subseteq ConsoleParts
    /\ report \in {"open", "sent", "closed"} /\ fault \in {"open", "closed", "crash", "hang"}
    /\ group \subseteq {"core", "app"} /\ directory \in BOOLEAN
    /\ launcher \in Launchers /\ sup \in Supervisors /\ outcome \in Outcomes
    /\ worker \in Workers /\ core \in Cores /\ sentinel \in Sentinels
    /\ launches \in Nat /\ kills \in Nat
    /\ launcher.opt.requireTerm => launcher.opt.required = "none"

-----------------------------------------------------------------------------
(***************************************************************************)
(* The invariant.                                                          *)
(***************************************************************************)
\* The worker has no lock any more, and touches nothing but its exit status.
Passive == {"none", "exit", "dead"}

\* From the fork to the end of the core; before the core is forked.
Working == {"start", "ready", "core", "host", "loop", "ack", "close", "contain", "containKill",
            "orderly", "term", "kill", "group", "groupTerm", "groupKill"}

Starting == {"start", "ready", "core"}

\* From the end of the core to the worker's own.
Cleaning == {"finish", "request", "reap", "reapTerm", "reapKill", "abort", "unlock", "exit"}

LockInv ==
    /\ launcher.pc # "off" => "launcher" \in lock
    /\ worker.pc \notin Passive => "worker" \in lock

HandInv ==
    /\ launcher.pc \notin {"off", "supervise", "gate", "exit"} => worker.pc \in Passive
    /\ launcher.pc \in {"gate", "exit"} /\ outcome.cleanup => worker.pc \in Passive
    /\ sup.reaped => worker.pc = "dead"

RecordInv ==
    /\ changed # {} => record = "whole"
    /\ worker.pc \notin Passive => record = "whole"
    /\ At("write") => record = "partial"
    /\ At("fork") => record = "whole"
    /\ At("remove") => changed = {}

\* What the worker knows of the core.
CoreInv ==
    /\ killed \subseteq group
    /\ core.state = "none" => group = {}
    /\ worker.pc \in {"none", "start", "ready", "core"} => group = {}
    /\ worker.pc \in Cleaning /\ worker.coreClean => group = {}
    /\ worker.pc \in {"request", "reap", "reapTerm", "reapKill"} => worker.coreClean
    /\ sentinel.request => group = {}
    /\ worker.pc \in Working => ~sentinel.request

\* A worker that ended by its own clean-up has left nothing of the session.
SessionOver == group = {} /\ ~directory /\ sentinel.state \in {"none", "gone"}

SentinelInv ==
    /\ sentinel.state \in {"none", "starting"} => ~directory
    /\ sentinel.clean => sentinel.state = "ended" /\ ~directory
    /\ worker.pc \in {"none", "start"} => sentinel.state = "none"
    /\ worker.sentinelReaped => sentinel.state = "gone"
    /\ worker.pc \in {"reapKill", "abort", "unlock", "exit"} =>
         sentinel.killed \/ sentinel.state \in {"none", "ended", "gone"}
    /\ worker.pc \notin {"none", "dead", "unlock", "exit"} /\ worker.runtimeClean =>
         sentinel.state = "none"
    /\ worker.pc \in {"unlock", "exit"} /\ worker.runtimeClean =>
         ~directory /\ sentinel.state \in {"none", "gone"}
    /\ worker.pc = "dead" /\ worker.exit \notin {"signal", "incomplete"} => SessionOver

\* A failure is injected only when one is required.
ArmedInv ==
    /\ sup.armed \/ launcher.trigger = "armed" => launcher.opt.required # "none"
    /\ sup.armed => launcher.pc = "supervise"

Ended(how) == worker.pc = "dead" /\ worker.exit = how

\* The verdict of a run.
RunInv ==
    /\ launcher.pc \in {"store", "write", "fork", "supervise"} => launcher.opt.action = "run"
    /\ launcher.pc = "capture" => launcher.opt.action \in {"run", "preflight"}
    /\ launcher.pc = "load" => launcher.opt.action = "recover"
    /\ launcher.opt.action = "run" =>
         /\ launcher.pc \in {"capture", "store", "write", "fork"} => SessionOver
         /\ launcher.pc \in {"capture", "store", "write", "fork", "supervise"} =>
              outcome = NotSupervised /\ launcher.result = "none"
         /\ launcher.pc \in {"restore", "verify", "remove", "gate"}
              /\ outcome.cleanup /\ outcome.coreGone => SessionOver
         /\ launcher.pc = "remove" => outcome.cleanup /\ outcome.coreGone
         /\ outcome.removed =>
              /\ launcher.pc \in {"gate", "exit"} /\ worker.pc \in Passive
              /\ record = "none" /\ changed = {} /\ SessionOver
         /\ outcome.drove => Ended("ok")
         /\ outcome.observed # "none" => Ended(outcome.observed)
         /\ launcher.pc \in {"restore", "verify", "remove", "gate"} /\ launcher.result = "ok" =>
              Ended("ok")
         /\ launcher.pc = "gate" /\ launcher.result = "ok" => outcome.removed
    /\ SuccessMeansSettled

SupervisorInv ==
    TypeInv /\ LockInv /\ HandInv /\ RecordInv /\ CoreInv /\ SentinelInv /\ ArmedInv /\ RunInv

-----------------------------------------------------------------------------
(***************************************************************************)
(* Steps of the worker, the core, the applications and the sentinel, seen  *)
(* from the launcher: nothing it relies on changes behind its back.        *)
(***************************************************************************)
EnvStep ==
    /\ UNCHANGED <<record, launcher, sup, outcome>>
    /\ worker.pc = "dead" => worker' = worker
    /\ worker.pc \in Passive =>
         worker'.pc \in Passive /\ changed' = changed /\ (SessionOver => SessionOver')
    /\ "launcher" \in lock => "launcher" \in lock'
    /\ worker'.pc \notin Passive => worker.pc \notin Passive /\ lock' = lock

\* What a step that is not the launcher's leaves true.
Kept == TypeInv' /\ EnvStep /\ CoreInv' /\ SentinelInv'

LEMMA EnvKeepsHands == ASSUME SupervisorInv, EnvStep PROVE LockInv' /\ HandInv'
<1>1. LockInv'
  BY DEF SupervisorInv, LockInv, EnvStep
<1>2. HandInv'
  BY DEF SupervisorInv, HandInv, EnvStep
<1> QED
  BY <1>1, <1>2

LEMMA EnvKeepsRecord == ASSUME SupervisorInv, EnvStep PROVE RecordInv' /\ ArmedInv'
<1>1. RecordInv /\ HandInv /\ ArmedInv /\ UNCHANGED <<record, launcher, sup>>
  BY DEF SupervisorInv, EnvStep
<1>2. worker'.pc \notin Passive => record = "whole"
  BY <1>1 DEF RecordInv, EnvStep
<1>3. changed' # {} => record = "whole"
  BY <1>1 DEF RecordInv, EnvStep
<1>4. At("remove") => changed' = {}
  BY <1>1 DEF RecordInv, HandInv, EnvStep, At
<1>5. ArmedInv'
  BY <1>1 DEF ArmedInv
<1> QED
  BY <1>1, <1>2, <1>3, <1>4, <1>5 DEF RecordInv, At

LEMMA EnvKeepsRun == ASSUME SupervisorInv, EnvStep PROVE RunInv'
<1>1. UNCHANGED <<record, launcher, outcome>> /\ HandInv /\ RunInv /\ SentinelInv
  BY DEF EnvStep, SupervisorInv
<1>2. worker.pc \in Passive =>
        worker'.pc \in Passive /\ changed' = changed /\ (SessionOver => SessionOver')
  BY DEF EnvStep
<1>3. ASSUME NEW how \in {"ok", "crash", "hang"}, Ended(how)
      PROVE  Ended(how)' /\ SessionOver' /\ changed' = changed
  BY <1>1, <1>3 DEF Ended, EnvStep, Passive, SentinelInv
<1>4. SuccessMeansSettled'
  <2>1. launcher.opt.required \in {"none", "crash", "hang"}
    BY DEF SupervisorInv, TypeInv, Launchers, Options, Failures
  <2>2. CASE At("exit") /\ launcher.result = "ok" /\ launcher.opt.action = "run"
    <3>1. /\ record = "none" /\ changed = {} /\ group = {} /\ ~directory
          /\ Ended(IF launcher.opt.required = "none" THEN "ok" ELSE launcher.opt.required)
      BY <1>1, <2>2 DEF RunInv, SuccessMeansSettled, CoreGroupGone, Ended
    <3>2. /\ Ended(IF launcher.opt.required = "none" THEN "ok" ELSE launcher.opt.required)'
          /\ SessionOver' /\ changed' = changed
      BY <1>1, <1>3, <2>1, <3>1
    <3> QED
      BY <1>1, <3>1, <3>2 DEF SuccessMeansSettled, SessionOver, CoreGroupGone, Ended
  <2> QED
    BY <1>1, <2>2 DEF SuccessMeansSettled, At
<1>5. CASE launcher.opt.action # "run"
  BY <1>1, <1>4, <1>5 DEF RunInv
<1>6. CASE launcher.opt.action = "run"
  <2>1. launcher.pc \in {"capture", "store", "write", "fork"} => SessionOver'
    BY <1>1, <1>2, <1>6 DEF RunInv, HandInv
  <2>2. launcher.pc \in {"restore", "verify", "remove", "gate"}
          /\ outcome.cleanup /\ outcome.coreGone => SessionOver'
    BY <1>1, <1>2, <1>6 DEF RunInv, HandInv
  <2>3. outcome.removed =>
          /\ launcher.pc \in {"gate", "exit"} /\ worker'.pc \in Passive
          /\ record = "none" /\ changed' = {} /\ SessionOver'
    BY <1>1, <1>2, <1>6 DEF RunInv
  <2>4. outcome.drove => Ended("ok")'
    BY <1>1, <1>3, <1>6 DEF RunInv
  <2>5. outcome.observed # "none" => Ended(outcome.observed)'
    <3>1. outcome.observed \in {"none", "crash", "hang"}
      BY DEF SupervisorInv, TypeInv, Outcomes, Failures
    <3> QED
      BY <1>1, <1>3, <1>6, <3>1 DEF RunInv
  <2>6. launcher.pc \in {"restore", "verify", "remove", "gate"} /\ launcher.result = "ok" =>
          Ended("ok")'
    BY <1>1, <1>3, <1>6 DEF RunInv
  <2> QED
    BY <1>1, <1>4, <1>6, <2>1, <2>2, <2>3, <2>4, <2>5, <2>6 DEF RunInv
<1> QED
  BY <1>5, <1>6

LEMMA EnvKeeps == ASSUME SupervisorInv, Kept PROVE SupervisorInv'
BY EnvKeepsHands, EnvKeepsRecord, EnvKeepsRun DEF Kept, SupervisorInv

-----------------------------------------------------------------------------
(***************************************************************************)
(* The worker from its fork to the end of the core.                        *)
(***************************************************************************)
WorkMove ==
    /\ worker.pc \in Working /\ worker' \in Workers
    /\ worker'.pc \in Working \ {"start"}
    /\ worker'.pc \in Starting => worker.pc \in Starting
    /\ worker'.runtimeClean => worker.runtimeClean /\ ~(worker.pc = "start"
             /\ worker'.pc = "ready")
    /\ worker'.sentinelReaped => worker.sentinelReaped \/ sentinel'.state = "gone"

WorkRest ==
    /\ UNCHANGED <<lock, record, launchVars, budget, directory>>
             /\ changed' \subseteq ConsoleParts
    /\ report' \in {"open", "sent", "closed"} /\ fault' \in {"open", "closed", "crash", "hang"}

WorkCore ==
    /\ core' \in Cores /\ (core'.state = "none" => core.state = "none" /\ group' = group)
    /\ killed' \subseteq group'
    /\ \/ group' = group
       \/ group' = {"core"} /\ worker.pc = "core" /\ worker'.pc \notin Starting

WorkSentinel ==
    \/ sentinel' = sentinel
    \/ /\ worker.pc = "start" /\ worker'.pc = "ready"
       /\ sentinel' = [NoSentinel EXCEPT !.state = "starting"]
    \/ sentinel.state = "ended" /\ sentinel' = [NoSentinel EXCEPT !.state = "gone"]

FinishMove ==
    /\ worker.pc \in Working /\ worker' \in Workers /\ worker'.pc = "finish"
    /\ worker'.coreClean => group = {}
    /\ worker'.runtimeClean = worker.runtimeClean
    /\ worker'.sentinelReaped = worker.sentinelReaped
    /\ UNCHANGED <<coreVars, sentinelVars>>

LEMMA NotPassive == ASSUME worker.pc \in Working PROVE worker.pc \notin Passive
BY DEF Working, Passive

LEMMA WorkKeeps ==
  ASSUME SupervisorInv, WorkRest, WorkMove, WorkCore, WorkSentinel
  PROVE  Kept
<1>1. TypeInv /\ CoreInv /\ SentinelInv /\ worker.pc \in Working /\ worker.pc \notin Passive
  BY NotPassive DEF SupervisorInv, WorkMove
<1>2. sentinel' \in Sentinels
  BY <1>1 DEF WorkSentinel, TypeInv, Sentinels, SentinelStates, NoSentinel, Replies
<1>3. TypeInv'
  BY <1>1, <1>2 DEF WorkRest, WorkMove, WorkCore, TypeInv, launchVars, budget
<1>4. EnvStep
  BY <1>1 DEF WorkRest, launchVars, EnvStep, Passive
<1>5. CoreInv'
  <2>1. worker'.pc \in Working /\ worker'.pc \notin {"none", "finish", "request", "reap",
        "reapTerm", "reapKill", "abort", "unlock", "exit"}
    BY DEF WorkMove, Working
  <2>2. ~sentinel'.request
    BY <1>1 DEF WorkSentinel, NoSentinel, CoreInv
  <2>3. worker'.pc \in {"none", "start", "ready", "core"} => group' = {}
    BY <1>1, <2>1 DEF WorkMove, WorkCore, CoreInv, Starting
  <2>4. core'.state = "none" => group' = {}
    BY <1>1 DEF WorkCore, CoreInv
  <2> QED
    BY <2>1, <2>2, <2>3, <2>4 DEF CoreInv, WorkCore, Cleaning, Working, Starting
<1>6. SentinelInv'
  <2>1. worker'.pc \in Working \ {"start"} /\ worker'.pc \notin {"none", "start", "dead",
        "reapKill", "abort", "unlock", "exit"}
    BY DEF WorkMove, Working
  <2>2. directory' = directory
    BY DEF WorkRest
  <2>3. CASE sentinel' = sentinel
    BY <1>1, <2>1, <2>2, <2>3 DEF SentinelInv, WorkMove, Working
  <2>4. CASE worker.pc = "start" /\ worker'.pc = "ready"
            /\ sentinel' = [NoSentinel EXCEPT !.state = "starting"]
    BY <1>1, <2>1, <2>2, <2>4 DEF SentinelInv, WorkMove, NoSentinel
  <2>5. CASE sentinel.state = "ended" /\ sentinel' = [NoSentinel EXCEPT !.state = "gone"]
    BY <1>1, <2>1, <2>2, <2>5 DEF SentinelInv, WorkMove, NoSentinel, Working
  <2> QED
    BY <2>3, <2>4, <2>5 DEF WorkSentinel
<1> QED
  BY <1>3, <1>4, <1>5, <1>6 DEF Kept

LEMMA FinishKeeps ==
  ASSUME SupervisorInv, WorkRest, FinishMove
  PROVE  Kept
<1>1. TypeInv /\ CoreInv /\ SentinelInv /\ worker.pc \in Working /\ worker.pc \notin Passive
  BY NotPassive DEF SupervisorInv, FinishMove
<1>2. UNCHANGED <<core, group, killed, sentinel, directory>> /\ worker'.pc = "finish"
          /\ worker' \in Workers
  BY DEF FinishMove, coreVars, sentinelVars
<1>3. TypeInv'
  BY <1>1, <1>2 DEF WorkRest, TypeInv, launchVars, budget
<1>4. EnvStep
  BY <1>1, <1>2 DEF WorkRest, launchVars, EnvStep, Passive
<1>5. CoreInv'
  BY <1>1, <1>2 DEF CoreInv, FinishMove, Working
<1>6. SentinelInv'
  BY <1>1, <1>2 DEF SentinelInv, FinishMove, Working
<1> QED
  BY <1>3, <1>4, <1>5, <1>6 DEF Kept

\* The actions of the worker that neither close its devices nor end its wait for the core.
WorkAction == ForkSentinel \/ AwaitSentinel \/ ForkCore \/ TakeConsole \/ SentinelEnded \/
    CoreEnded \/ SupervisorLost \/ InjectCrash \/ InjectHang \/ ReportCore \/
    AcceptShutdown \/ FlushAck \/ EmergencyShutdown \/ HeartbeatExpires \/ LoopFails \/
    ReapCore

LEMMA WorkMoves ==
  ASSUME worker \in Workers, WorkAction
  PROVE  WorkMove
<1>1. CASE ForkSentinel
  <2>1. \/ worker' = [worker EXCEPT !.pc = "ready", !.runtimeClean = FALSE]
        \/ worker' = [worker EXCEPT !.pc = "close"]
    BY <1>1 DEF ForkSentinel, WorkerTo
  <2>2. worker.pc = "start"
    BY <1>1 DEF ForkSentinel, In
  <2>3. CASE worker' = [worker EXCEPT !.pc = "ready", !.runtimeClean = FALSE]
    <3>1. /\ worker'.runtimeClean = FALSE /\ worker'.pc = "ready"  /\ worker' \in Workers
          /\ worker'.sentinelReaped = worker.sentinelReaped
      BY <2>3 DEF Workers, WorkerPcs
    <3> QED
      BY <2>2, <3>1 DEF WorkMove, Working, Starting
  <2>4. CASE worker' = [worker EXCEPT !.pc = "close"]
    BY <2>2, <2>4 DEF WorkMove, Workers, WorkerPcs, Working, Starting
  <2> QED
    BY <2>1, <2>3, <2>4
<1>2. CASE AwaitSentinel
  BY <1>2 DEF AwaitSentinel, In, WorkerTo, WorkMove, Workers, WorkerPcs, Failures, Working,
     Starting, NoSentinel
<1>3. CASE ForkCore
  BY <1>3 DEF ForkCore, In, WorkerTo, WorkMove, Workers, WorkerPcs, Failures, Working,
     Starting, NoSentinel
<1>4. CASE TakeConsole
  BY <1>4 DEF TakeConsole, In, WorkerTo, WorkMove, Workers, WorkerPcs, Failures, Working,
     Starting, NoSentinel
<1>5. CASE SentinelEnded
  BY <1>5 DEF SentinelEnded, In, WorkerTo, WorkMove, Workers, WorkerPcs, Failures, Working,
     Starting, NoSentinel
<1>6. CASE CoreEnded
  BY <1>6 DEF CoreEnded, In, WorkerTo, WorkMove, Workers, WorkerPcs, Failures, Working,
     Starting, NoSentinel
<1>7. CASE SupervisorLost
  BY <1>7 DEF SupervisorLost, In, WorkerTo, WorkMove, Workers, WorkerPcs, Failures, Working,
     Starting, NoSentinel
<1>8. CASE InjectCrash
  BY <1>8 DEF InjectCrash, In, WorkerTo, WorkMove, Workers, WorkerPcs, Failures, Working,
     Starting, NoSentinel
<1>9. CASE InjectHang
  BY <1>9 DEF InjectHang, In, WorkerTo, WorkMove, Workers, WorkerPcs, Failures, Working,
     Starting, NoSentinel
<1>10. CASE ReportCore
  BY <1>10 DEF ReportCore, In, WorkerTo, WorkMove, Workers, WorkerPcs, Failures, Working,
     Starting, NoSentinel
<1>11. CASE AcceptShutdown
  BY <1>11 DEF AcceptShutdown, In, WorkerTo, WorkMove, Workers, WorkerPcs, Failures, Working,
     Starting, NoSentinel
<1>12. CASE FlushAck
  BY <1>12 DEF FlushAck, In, WorkerTo, WorkMove, Workers, WorkerPcs, Failures, Working,
     Starting, NoSentinel
<1>13. CASE EmergencyShutdown
  BY <1>13 DEF EmergencyShutdown, In, WorkerTo, WorkMove, Workers, WorkerPcs, Failures,
     Working, Starting, NoSentinel
<1>14. CASE HeartbeatExpires
  BY <1>14 DEF HeartbeatExpires, In, WorkerTo, WorkMove, Workers, WorkerPcs, Failures, Working,
     Starting, NoSentinel
<1>15. CASE LoopFails
  BY <1>15 DEF LoopFails, In, WorkerTo, WorkMove, Workers, WorkerPcs, Failures, Working,
     Starting, NoSentinel
<1>16. CASE ReapCore
  BY <1>16 DEF ReapCore, In, WorkerTo, WorkMove, Workers, WorkerPcs, Failures, Working,
     Starting, NoSentinel
<1> QED
  BY <1>1, <1>2, <1>3, <1>4, <1>5, <1>6, <1>7, <1>8, <1>9, <1>10, <1>11, <1>12, <1>13, <1>14,
     <1>15, <1>16 DEF WorkAction

LEMMA WorkLeaves ==
  ASSUME WorkAction
  PROVE  UNCHANGED <<lock, record, launchVars, budget, directory>>
BY DEF WorkAction, ForkSentinel, AwaitSentinel, ForkCore, TakeConsole, SentinelEnded,
   CoreEnded, SupervisorLost, InjectCrash, InjectHang, ReportCore, AcceptShutdown, FlushAck,
     EmergencyShutdown, HeartbeatExpires, LoopFails, ReapCore, console, launchVars, coreVars,
       sentinelVars, budget

LEMMA WorkPipes ==
  ASSUME TypeInv, WorkAction
  PROVE  /\ changed' \subseteq ConsoleParts /\ report' \in {"open", "sent", "closed"}
         /\ fault' \in {"open", "closed", "crash", "hang"}
<1>1. /\ changed \subseteq ConsoleParts /\ report \in {"open", "sent", "closed"}
      /\ fault \in {"open", "closed", "crash", "hang"}
  BY DEF TypeInv
<1> QED
  BY <1>1 DEF WorkAction, ForkSentinel, AwaitSentinel, ForkCore, TakeConsole, SentinelEnded,
     CoreEnded, SupervisorLost, InjectCrash, InjectHang, ReportCore, AcceptShutdown, FlushAck,
       EmergencyShutdown, HeartbeatExpires, LoopFails, ReapCore, console

LEMMA WorkOnCore ==
  ASSUME TypeInv, CoreInv, worker \in Workers, core \in Cores,
         ForkCore \/ CoreEnded \/ InjectCrash \/ InjectHang \/ FlushAck \/ ReapCore
  PROVE  WorkCore
<1>1. CASE ForkCore
  <2>1. core' \in Cores
    BY <1>1 DEF ForkCore, Cores, CoreStates, CoreEnds, NoCore
  <2>2. core'.state # "none" \/ (core'.state = core.state /\ group' = group)
    BY <1>1 DEF ForkCore, Cores, CoreStates, NoCore
  <2>3. /\ killed' \subseteq group'
        /\ \/ group' = group
           \/ group' = {"core"} /\ worker.pc = "core" /\ worker'.pc \notin Starting
    BY <1>1 DEF ForkCore, CoreInv, In, WorkerTo, Workers, Starting
  <2> QED
    BY <2>1, <2>2, <2>3 DEF WorkCore
<1>2. CASE CoreEnded
  <2>1. core' \in Cores
    BY <1>2 DEF CoreEnded, Cores, CoreStates, CoreEnds, NoCore
  <2>2. core'.state # "none" \/ (core'.state = core.state /\ group' = group)
    BY <1>2 DEF CoreEnded, Cores, CoreStates, NoCore
  <2>3. /\ killed' \subseteq group'
        /\ \/ group' = group
           \/ group' = {"core"} /\ worker.pc = "core" /\ worker'.pc \notin Starting
    BY <1>2 DEF CoreEnded, CoreInv, In, WorkerTo, Workers, Starting
  <2> QED
    BY <2>1, <2>2, <2>3 DEF WorkCore
<1>3. CASE InjectCrash
  <2>1. core' \in Cores
    BY <1>3 DEF InjectCrash, Cores, CoreStates, CoreEnds, NoCore
  <2>2. core'.state # "none" \/ (core'.state = core.state /\ group' = group)
    BY <1>3 DEF InjectCrash, Cores, CoreStates, NoCore
  <2>3. /\ killed' \subseteq group'
        /\ \/ group' = group
           \/ group' = {"core"} /\ worker.pc = "core" /\ worker'.pc \notin Starting
    BY <1>3 DEF InjectCrash, CoreInv, In, WorkerTo, Workers, Starting
  <2> QED
    BY <2>1, <2>2, <2>3 DEF WorkCore
<1>4. CASE InjectHang
  <2>1. core' \in Cores
    BY <1>4 DEF InjectHang, Cores, CoreStates, CoreEnds, NoCore
  <2>2. core'.state # "none" \/ (core'.state = core.state /\ group' = group)
    BY <1>4 DEF InjectHang, Cores, CoreStates, NoCore
  <2>3. /\ killed' \subseteq group'
        /\ \/ group' = group
           \/ group' = {"core"} /\ worker.pc = "core" /\ worker'.pc \notin Starting
    BY <1>4 DEF InjectHang, CoreInv, In, WorkerTo, Workers, Starting
  <2> QED
    BY <2>1, <2>2, <2>3 DEF WorkCore
<1>5. CASE FlushAck
  <2>1. core' \in Cores
    BY <1>5 DEF FlushAck, Cores, CoreStates, CoreEnds, NoCore
  <2>2. core'.state # "none" \/ (core'.state = core.state /\ group' = group)
    BY <1>5 DEF FlushAck, Cores, CoreStates, NoCore
  <2>3. /\ killed' \subseteq group'
        /\ \/ group' = group
           \/ group' = {"core"} /\ worker.pc = "core" /\ worker'.pc \notin Starting
    BY <1>5 DEF FlushAck, CoreInv, In, WorkerTo, Workers, Starting
  <2> QED
    BY <2>1, <2>2, <2>3 DEF WorkCore
<1>6. CASE ReapCore
  <2>1. core' \in Cores
    BY <1>6 DEF ReapCore, Cores, CoreStates, CoreEnds, NoCore
  <2>2. core'.state # "none" \/ (core'.state = core.state /\ group' = group)
    BY <1>6 DEF ReapCore, Cores, CoreStates, NoCore
  <2>3. /\ killed' \subseteq group'
        /\ \/ group' = group
           \/ group' = {"core"} /\ worker.pc = "core" /\ worker'.pc \notin Starting
    BY <1>6 DEF ReapCore, CoreInv, In, WorkerTo, Workers, Starting
  <2> QED
    BY <2>1, <2>2, <2>3 DEF WorkCore
<1> QED
  BY <1>1, <1>2, <1>3, <1>4, <1>5, <1>6

LEMMA WorkOnSentinel ==
  ASSUME worker \in Workers,
         ForkSentinel \/ SentinelEnded
  PROVE  WorkSentinel
<1>1. CASE ForkSentinel
  BY <1>1 DEF ForkSentinel, In, Workers, WorkSentinel
<1>2. CASE SentinelEnded
  BY <1>2 DEF SentinelEnded, In, Workers, WorkSentinel
<1> QED
  BY <1>1, <1>2

LEMMA WorkActionKeeps == ASSUME SupervisorInv, WorkAction PROVE Kept
<1>1. TypeInv /\ CoreInv /\ worker \in Workers /\ core \in Cores /\ killed \subseteq group
  BY DEF SupervisorInv, TypeInv, CoreInv
<1>2. WorkMove /\ WorkRest
  BY <1>1, WorkMoves, WorkLeaves, WorkPipes DEF WorkRest
<1>3. WorkCore
  <2>1. CASE UNCHANGED coreVars
    BY <1>1, <2>1 DEF WorkCore, coreVars
  <2>2. CASE ForkCore \/ CoreEnded \/ InjectCrash \/ InjectHang \/ FlushAck \/ ReapCore
    BY <1>1, <2>2, WorkOnCore
  <2>3. ASSUME ForkSentinel \/ AwaitSentinel \/ TakeConsole \/ SentinelEnded
            \/ SupervisorLost \/ ReportCore \/ AcceptShutdown \/ EmergencyShutdown
                     \/ HeartbeatExpires \/ LoopFails
        PROVE  UNCHANGED coreVars
    BY <2>3 DEF ForkSentinel, AwaitSentinel, TakeConsole, SentinelEnded, SupervisorLost,
       ReportCore, AcceptShutdown, EmergencyShutdown, HeartbeatExpires, LoopFails, coreVars
  <2> QED
    BY <2>1, <2>2, <2>3 DEF WorkAction
<1>4. WorkSentinel
  <2>1. CASE UNCHANGED sentinelVars
    BY <2>1 DEF WorkSentinel, sentinelVars
  <2>2. CASE ForkSentinel \/ SentinelEnded
    BY <1>1, <2>2, WorkOnSentinel
  <2>3. ASSUME AwaitSentinel \/ ForkCore \/ TakeConsole \/ CoreEnded \/ SupervisorLost
            \/ InjectCrash \/ InjectHang \/ ReportCore \/ AcceptShutdown \/ FlushAck
                     \/ EmergencyShutdown \/ HeartbeatExpires \/ LoopFails \/ ReapCore
        PROVE  UNCHANGED sentinelVars
    BY <2>3 DEF AwaitSentinel, ForkCore, TakeConsole, CoreEnded, SupervisorLost, InjectCrash,
       InjectHang, ReportCore, AcceptShutdown, FlushAck, EmergencyShutdown, HeartbeatExpires,
         LoopFails, ReapCore, sentinelVars
  <2> QED
    BY <2>1, <2>2, <2>3 DEF WorkAction
<1> QED
  BY <1>2, <1>3, <1>4, WorkKeeps

LEMMA StoppedTyped ==
  ASSUME worker \in Workers, NEW clean \in BOOLEAN
  PROVE  /\ CoreStopped(clean) \in Workers /\ CoreStopped(clean).pc = "finish"
         /\ CoreStopped(clean).coreClean = clean
         /\ CoreStopped(clean).runtimeClean = worker.runtimeClean
         /\ CoreStopped(clean).sentinelReaped = worker.sentinelReaped
<1> DEFINE s == IF worker.coreReaped
                    THEN worker.success /\ clean /\ worker.orderly /\ core.exit = "zero"
                    ELSE IF worker.injected = "crash" THEN worker.success
                    ELSE StopOutcome(clean)
<1>1. s \in BOOLEAN
  BY DEF Workers, StopOutcome
<1>2. CoreStopped(clean) = [worker EXCEPT !.pc = "finish", !.coreClean = clean, !.success = s]
  BY DEF CoreStopped
<1> HIDE DEF s
<1> QED
  BY <1>1, <1>2 DEF Workers, WorkerPcs

LEMMA Closes ==
  ASSUME TypeInv, CoreInv, CloseDevices
  PROVE  /\ WorkRest /\ worker.pc \in Working
         /\ FinishMove \/ (WorkMove /\ WorkCore /\ WorkSentinel)
<1> DEFINE pc == AfterClose
           b == worker.blocked /\ worker.term
<1>1. WorkRest /\ worker.pc = "close" /\ sentinel' = sentinel /\ directory' = directory
          /\ group' = group /\ killed' = killed
  BY DEF CloseDevices, WorkRest, TypeInv, launchVars, budget, sentinelVars, In
<1>2. b \in BOOLEAN /\ worker' = [worker EXCEPT !.pc = pc, !.term = b]
  BY DEF CloseDevices, TypeInv, Workers
<1>3. pc \in {"finish", "group", "contain", "orderly", "term"}
          /\ (pc = "finish" <=> core.state = "none")
  BY DEF AfterClose
<1>4. core' = IF pc = "term" THEN [core EXCEPT !.term = TRUE, !.stopped = FALSE] ELSE core
  BY DEF CloseDevices
<1>5. worker.pc \in Working /\ worker \in Workers
  BY <1>1 DEF Working, TypeInv
<1>6. core' \in Cores /\ core'.state = core.state
  BY <1>4 DEF TypeInv, Cores
<1> HIDE DEF pc, b
<1>7. worker' \in Workers /\ worker'.pc = pc /\ worker'.runtimeClean = worker.runtimeClean
      /\ worker'.sentinelReaped = worker.sentinelReaped
  BY <1>2, <1>3, <1>5 DEF Workers, WorkerPcs
<1>8. CASE core.state = "none"
  <2>1. group = {} /\ pc = "finish" /\ core' = core
    BY <1>3, <1>4, <1>8 DEF CoreInv
  <2>2. FinishMove
    BY <1>1, <1>5, <1>7, <2>1 DEF FinishMove, coreVars, sentinelVars
  <2> QED
    BY <1>1, <1>5, <2>2
<1>9. CASE core.state # "none"
  <2>1. WorkMove
    BY <1>1, <1>3, <1>5, <1>7, <1>9 DEF WorkMove, Working, Starting
  <2>2. WorkCore
    BY <1>1, <1>6, <1>9 DEF WorkCore, CoreInv
  <2> QED
    BY <1>1, <1>5, <2>1, <2>2 DEF WorkSentinel
<1> QED
  BY <1>8, <1>9

LEMMA Grace ==
  ASSUME TypeInv, CoreInv, CoreGraceExpires \/ GroupGone \/ GroupGraceExpires
  PROVE  /\ WorkRest /\ worker.pc \in Working
         /\ FinishMove \/ (WorkMove /\ WorkCore /\ WorkSentinel)
<1>1. WorkRest /\ sentinel' = sentinel /\ directory' = directory /\ group' = group
  BY DEF CoreGraceExpires, GroupGone, GroupGraceExpires, WorkRest, TypeInv, console,
     launchVars, budget, sentinelVars, coreVars
<1>2. worker.pc \in Working
  BY DEF CoreGraceExpires, GroupGone, GroupGraceExpires, Working, In
<1>3. worker \in Workers /\ core \in Cores
  BY DEF TypeInv
<1>4. ASSUME NEW clean \in BOOLEAN, worker' = CoreStopped(clean), clean => group = {},
      UNCHANGED <<core, killed>>
      PROVE  FinishMove
  BY <1>1, <1>2, <1>3, <1>4, StoppedTyped DEF FinishMove, coreVars, sentinelVars
<1>5. ASSUME NEW pc \in Working \ Starting, worker' = WorkerTo(pc), core' = core
          \/ core' = [core EXCEPT !.term = TRUE, !.stopped = FALSE],
             killed' \subseteq group
      PROVE  WorkMove /\ WorkCore /\ WorkSentinel
  <2>1. worker' \in Workers /\ worker'.pc = pc /\ worker'.runtimeClean = worker.runtimeClean
        /\ worker'.sentinelReaped = worker.sentinelReaped
    <3>1. pc \in WorkerPcs
      BY DEF Working, WorkerPcs
    <3> QED
      BY <1>3, <1>5, <3>1 DEF Workers, WorkerTo
  <2>2. core' \in Cores /\ core'.state = core.state
    BY <1>3, <1>5 DEF Cores
  <2>3. WorkMove
    BY <1>2, <2>1, <1>5 DEF WorkMove, Starting
  <2> QED
    BY <1>1, <1>5, <2>2, <2>3 DEF WorkCore, WorkSentinel
<1>6. CASE CoreGraceExpires
  <2>1. CASE In("containKill") \/ In("kill")
    BY <1>4, <1>1, <1>2, <1>6, <2>1 DEF CoreGraceExpires, In
  <2>2. CASE In("contain") \/ In("orderly") \/ In("term")
    <3>1. \E pc \in Working \ Starting : worker' = WorkerTo(pc)
      BY <1>6, <2>2 DEF CoreGraceExpires, Working, Starting, In
    <3>2. (core' = core \/ core' = [core EXCEPT !.term = TRUE, !.stopped = FALSE])
              /\ killed' \subseteq group
      BY <1>6, <2>2 DEF CoreGraceExpires, In, CoreInv
    <3> QED
      BY <1>1, <1>2, <1>5, <3>1, <3>2
  <2> QED
    BY <1>6, <2>1, <2>2 DEF CoreGraceExpires
<1>7. CASE GroupGone
  BY <1>4, <1>1, <1>2, <1>7 DEF GroupGone, CoreGroupGone, coreVars
<1>8. CASE GroupGraceExpires
  <2>1. CASE In("groupKill")
    BY <1>4, <1>1, <1>2, <1>8, <2>1 DEF GroupGraceExpires, In
  <2>2. CASE In("group") \/ In("groupTerm")
    <3>1. \E pc \in Working \ Starting : worker' = WorkerTo(pc)
      BY <1>8, <2>2 DEF GroupGraceExpires, Working, Starting, In
    <3>2. core' = core /\ killed' \subseteq group
      BY <1>8, <2>2 DEF GroupGraceExpires, In, CoreInv
    <3> QED
      BY <1>1, <1>2, <1>5, <3>1, <3>2
  <2> QED
    BY <1>8, <2>1, <2>2 DEF GroupGraceExpires
<1> QED
  BY <1>6, <1>7, <1>8

LEMMA StoppingKeeps ==
  ASSUME SupervisorInv, CloseDevices \/ CoreGraceExpires \/ GroupGone \/ GroupGraceExpires
  PROVE  Kept
<1>1. TypeInv /\ CoreInv
  BY DEF SupervisorInv
<1>2. WorkRest /\ (FinishMove \/ (WorkMove /\ WorkCore /\ WorkSentinel))
  BY <1>1, Closes, Grace
<1> QED
  BY <1>2, WorkKeeps, FinishKeeps

-----------------------------------------------------------------------------
(***************************************************************************)
(* The worker's clean-up after the core, and its end.                      *)
(***************************************************************************)
Goes(pc) ==
    /\ worker' \in Workers /\ worker'.pc = pc /\ worker'.coreClean = worker.coreClean
    /\ worker'.runtimeClean = worker.runtimeClean
    /\ worker'.sentinelReaped = worker.sentinelReaped

LEMMA CleanUpKeeps ==
  ASSUME SupervisorInv, FinishSentinel \/ AwaitCleaned \/ ReapSentinel
             \/ SentinelGraceExpires \/ Unlock
  PROVE  Kept
<1>1. TypeInv /\ CoreInv /\ SentinelInv /\ worker \in Workers /\ sentinel \in Sentinels
  BY DEF SupervisorInv, TypeInv
<1>2. /\ UNCHANGED <<record, changed, launcher, sup, outcome, report, fault, core, group,
           killed, directory, launches, kills>>
      /\ worker.pc \in Cleaning \ {"exit"}
      /\ lock' = lock \/ (lock' = lock \ {"worker"} /\ worker' = WorkerTo("exit"))
  BY DEF FinishSentinel, AwaitCleaned, ReapSentinel, SentinelGraceExpires, Unlock, console,
     launchVars, coreVars, budget, sentinelVars, In, Cleaning
<1>3. worker.pc \notin Passive /\ worker.pc # "dead"
  BY <1>2 DEF Cleaning, Passive
<1> SUFFICES worker' \in Workers /\ worker'.pc \in Cleaning /\ sentinel' \in Sentinels
        /\ CoreInv' /\ SentinelInv'
  <2>1. TypeInv'
    BY <1>1, <1>2 DEF TypeInv
  <2>2. EnvStep
    <3>1. worker' = WorkerTo("exit") => worker'.pc = "exit"
      BY <1>1 DEF WorkerTo, Workers
    <3>2. "launcher" \in lock => "launcher" \in lock'
      BY <1>2
    <3> QED
      BY <1>2, <1>3, <3>1, <3>2 DEF EnvStep, Passive
  <2> QED
    BY <2>1, <2>2 DEF Kept
<1>4. ASSUME worker.runtimeClean, worker.pc \in Cleaning, worker.pc \notin {"unlock", "exit"}
      PROVE  sentinel.state = "none" /\ ~directory
  BY <1>1, <1>4 DEF SentinelInv, Goes, Cleaning
<1>5. CASE FinishSentinel
  <2>1. worker.pc = "finish"
    BY <1>5 DEF FinishSentinel, In
  <2>2. CASE worker' = WorkerTo("unlock") /\ sentinel' = sentinel
             /\ (sentinel.state = "none" \/ worker.sentinelReaped)
    <3>1. Goes("unlock")
      BY <1>1, <2>2 DEF Goes, WorkerTo, Workers, WorkerPcs
    <3>2. CoreInv'
      BY <1>1, <1>2, <2>1, <2>2, <3>1 DEF CoreInv, Goes, Working
    <3>3. SentinelInv'
      BY <1>1, <1>2, <1>4, <2>1, <2>2, <3>1 DEF SentinelInv, Goes, Cleaning
    <3> QED
      BY <1>1, <2>2, <3>1, <3>2, <3>3 DEF Cleaning, Goes
  <2>3. CASE ~worker.coreClean /\ worker' = [worker EXCEPT !.pc = "abort", !.forced = TRUE]
             /\ sentinel' = [sentinel EXCEPT !.killed = TRUE] /\ sentinel.state # "none"
    <3>1. Goes("abort")
      BY <1>1, <2>3 DEF Goes, Workers, WorkerPcs
    <3>2. /\ sentinel' \in Sentinels /\ sentinel'.killed /\ sentinel'.state = sentinel.state
          /\ sentinel'.request = sentinel.request /\ sentinel'.clean = sentinel.clean
      BY <1>1, <2>3 DEF Sentinels
    <3>3. CoreInv'
      BY <1>1, <1>2, <2>1, <2>3, <3>1, <3>2 DEF CoreInv, Goes, Working
    <3>4. SentinelInv'
      BY <1>1, <1>2, <1>4, <2>1, <2>3, <3>1, <3>2 DEF SentinelInv, Goes, Cleaning
    <3> QED
      BY <3>1, <3>2, <3>3, <3>4 DEF Cleaning, Goes
  <2>4. CASE worker.coreClean /\ worker' = WorkerTo("request")
             /\ sentinel' = [sentinel EXCEPT !.request = TRUE] /\ sentinel.state # "none"
    <3>1. Goes("request")
      BY <1>1, <2>4 DEF Goes, WorkerTo, Workers, WorkerPcs
    <3>2. /\ sentinel' \in Sentinels /\ sentinel'.killed = sentinel.killed
          /\ sentinel'.state = sentinel.state /\ sentinel'.clean = sentinel.clean
      BY <1>1, <2>4 DEF Sentinels
    <3>3. CoreInv'
      BY <1>1, <1>2, <2>1, <2>4, <3>1, <3>2 DEF CoreInv, Goes, Working
    <3>4. SentinelInv'
      BY <1>1, <1>2, <1>4, <2>1, <2>4, <3>1, <3>2 DEF SentinelInv, Goes, Cleaning
    <3> QED
      BY <3>1, <3>2, <3>3, <3>4 DEF Cleaning, Goes
  <2>5. CASE worker.coreClean /\ worker' = WorkerTo("reap") /\ sentinel' = sentinel
             /\ sentinel.state # "none"
    <3>1. Goes("reap")
      BY <1>1, <2>5 DEF Goes, WorkerTo, Workers, WorkerPcs
    <3>2. CoreInv'
      BY <1>1, <1>2, <2>1, <2>5, <3>1 DEF CoreInv, Goes, Working
    <3>3. SentinelInv'
      BY <1>1, <1>2, <1>4, <2>1, <2>5, <3>1 DEF SentinelInv, Goes, Cleaning
    <3> QED
      BY <1>1, <2>5, <3>1, <3>2, <3>3 DEF Cleaning, Goes
  <2> QED
    BY <1>5, <2>2, <2>3, <2>4, <2>5 DEF FinishSentinel
<1>6. CASE AwaitCleaned
  <2>1. worker.pc = "request" /\ sentinel' = sentinel
    BY <1>6 DEF AwaitCleaned, In, sentinelVars
  <2>2. PICK b \in BOOLEAN : worker' = [worker EXCEPT !.pc = "reap", !.reported = b]
    BY <1>6 DEF AwaitCleaned
  <2>3. Goes("reap")
    BY <1>1, <2>2 DEF Goes, Workers, WorkerPcs
  <2>4. CoreInv'
    BY <1>1, <1>2, <2>1, <2>3 DEF CoreInv, Goes, Working
  <2>5. SentinelInv'
    BY <1>1, <1>2, <1>4, <2>1, <2>3 DEF SentinelInv, Goes, Cleaning
  <2> QED
    BY <1>1, <2>1, <2>3, <2>4, <2>5 DEF Cleaning, Goes
<1>7. CASE ReapSentinel
  <2> DEFINE b == ~worker.forced /\ worker.reported /\ sentinel.clean
  <2>1. /\ worker.pc \in {"reap", "reapTerm", "reapKill", "abort"} /\ sentinel.state = "ended"
        /\ sentinel' = [NoSentinel EXCEPT !.state = "gone"]
        /\ worker' = [worker EXCEPT !.pc = "unlock", !.runtimeClean = b]
    BY <1>7 DEF ReapSentinel
  <2>2. b \in BOOLEAN /\ (b => ~directory)
    BY <1>1 DEF SentinelInv, Workers, Sentinels
  <2> HIDE DEF b
  <2>3. /\ worker' \in Workers /\ worker'.pc = "unlock" /\ worker'.coreClean = worker.coreClean
        /\ worker'.runtimeClean = b
    BY <1>1, <2>1, <2>2 DEF Workers, WorkerPcs
  <2>4. /\ sentinel' \in Sentinels /\ sentinel'.state = "gone" /\ ~sentinel'.clean
        /\ ~sentinel'.request
    BY <2>1 DEF Sentinels, SentinelStates, NoSentinel, Replies
  <2>5. CoreInv'
    BY <1>1, <1>2, <2>1, <2>3, <2>4 DEF CoreInv, Goes, Working
  <2>6. SentinelInv'
    BY <1>1, <1>2, <2>2, <2>3, <2>4 DEF SentinelInv
  <2> QED
    BY <2>3, <2>4, <2>5, <2>6 DEF Cleaning, Goes
<1>8. CASE SentinelGraceExpires
  <2>1. CASE In("reap")
    <3>1. /\ worker' = [worker EXCEPT !.pc = "reapTerm", !.forced = TRUE]
          /\ sentinel' = [sentinel EXCEPT !.term = TRUE]
      BY <1>8, <2>1 DEF SentinelGraceExpires, In
    <3>2. Goes("reapTerm")
      BY <1>1, <3>1 DEF Goes, Workers, WorkerPcs
    <3>3. /\ sentinel' \in Sentinels /\ sentinel'.killed = sentinel.killed
          /\ sentinel'.state = sentinel.state
          /\ sentinel'.request = sentinel.request /\ sentinel'.clean = sentinel.clean
      BY <1>1, <3>1 DEF Sentinels
    <3>4. CoreInv'
      BY <1>1, <1>2, <2>1, <3>2, <3>3 DEF CoreInv, Goes, Working, In
    <3>5. SentinelInv'
      BY <1>1, <1>2, <1>4, <2>1, <3>2, <3>3 DEF SentinelInv, Goes, Cleaning, In
    <3> QED
      BY <3>2, <3>3, <3>4, <3>5 DEF Cleaning, Goes
  <2>2. CASE In("reapTerm")
    <3>1. worker' = [worker EXCEPT !.pc = "reapKill"]
              /\ sentinel' = [sentinel EXCEPT !.killed = TRUE]
      BY <1>8, <2>2 DEF SentinelGraceExpires, In, WorkerTo
    <3>2. Goes("reapKill")
      BY <1>1, <3>1 DEF Goes, Workers, WorkerPcs
    <3>3. /\ sentinel' \in Sentinels /\ sentinel'.killed /\ sentinel'.state = sentinel.state
          /\ sentinel'.request = sentinel.request /\ sentinel'.clean = sentinel.clean
      BY <1>1, <3>1 DEF Sentinels
    <3>4. CoreInv'
      BY <1>1, <1>2, <2>2, <3>2, <3>3 DEF CoreInv, Goes, Working, In
    <3>5. SentinelInv'
      BY <1>1, <1>2, <1>4, <2>2, <3>2, <3>3 DEF SentinelInv, Goes, Cleaning, In
    <3> QED
      BY <3>2, <3>3, <3>4, <3>5 DEF Cleaning, Goes
  <2>3. CASE In("reapKill") \/ In("abort")
    <3>1. worker' = [worker EXCEPT !.pc = "unlock"] /\ sentinel' = sentinel
      BY <1>8, <2>3 DEF SentinelGraceExpires, In, WorkerTo
    <3>2. Goes("unlock")
      BY <1>1, <3>1 DEF Goes, Workers, WorkerPcs
    <3>4. CoreInv'
      BY <1>1, <1>2, <2>3, <3>1, <3>2 DEF CoreInv, Goes, Working, In
    <3>5. SentinelInv'
      BY <1>1, <1>2, <1>4, <2>3, <3>1, <3>2 DEF SentinelInv, Goes, Cleaning, In
    <3> QED
      BY <1>1, <3>1, <3>2, <3>4, <3>5 DEF Cleaning, Goes
  <2> QED
    BY <1>8, <2>1, <2>2, <2>3 DEF SentinelGraceExpires
<1>9. CASE Unlock
  <2>1. worker.pc = "unlock" /\ sentinel' = sentinel /\ worker' = [worker EXCEPT !.pc = "exit"]
    BY <1>9 DEF Unlock, In, WorkerTo, sentinelVars
  <2>2. Goes("exit")
    BY <1>1, <2>1 DEF Goes, Workers, WorkerPcs
  <2>3. CoreInv'
    BY <1>1, <1>2, <2>1, <2>2 DEF CoreInv, Goes, Working
  <2>4. SentinelInv'
    BY <1>1, <1>2, <2>1, <2>2 DEF SentinelInv, Goes
  <2> QED
    BY <1>1, <2>1, <2>2, <2>3, <2>4 DEF Cleaning, Goes
<1> QED
  BY <1>5, <1>6, <1>7, <1>8, <1>9

LEMMA DiesTyped ==
  ASSUME NEW how \in ExitCodes, Dies(how)
  PROVE  /\ worker' \in Workers /\ worker'.pc = "dead" /\ worker'.exit = how
         /\ ~worker'.sentinelReaped /\ lock' = lock \ {"worker"}
         /\ report' = IF report = "open" THEN "closed" ELSE report
BY DEF Dies, NoWorker, Workers, WorkerPcs, Failures, ExitCodes

LEMMA DeathKeeps ==
  ASSUME SupervisorInv, NEW how \in ExitCodes, Dies(how), WorkerAlive,
         UNCHANGED <<record, changed, launchVars, fault, coreVars, sentinelVars, launches>>,
         kills' \in Nat, how \notin {"signal", "incomplete"} => SessionOver
  PROVE  Kept
<1>1. TypeInv /\ CoreInv /\ SentinelInv /\ worker.pc \notin {"none", "dead"}
  BY DEF SupervisorInv, WorkerAlive
<1>2. UNCHANGED <<record, changed, launcher, sup, outcome, fault, core, group, killed,
      sentinel, directory, launches>>
  BY DEF launchVars, coreVars, sentinelVars
<1>3. /\ worker' \in Workers /\ worker'.pc = "dead" /\ worker'.exit = how
      /\ ~worker'.sentinelReaped /\ lock' = lock \ {"worker"}
      /\ report' = IF report = "open" THEN "closed" ELSE report
  BY DiesTyped
<1>4. TypeInv'
  BY <1>1, <1>2, <1>3 DEF TypeInv
<1>5. EnvStep
  BY <1>1, <1>2, <1>3 DEF EnvStep, Passive, SessionOver
<1>6. CoreInv'
  BY <1>1, <1>2, <1>3 DEF CoreInv, Working, Cleaning
<1>7. SentinelInv'
  BY <1>1, <1>2, <1>3 DEF SentinelInv, SessionOver
<1> QED
  BY <1>4, <1>5, <1>6, <1>7 DEF Kept

LEMMA ExitsKeep == ASSUME SupervisorInv, WorkerExits \/ WorkerKilled PROVE Kept
<1>1. CASE WorkerExits
  <2> DEFINE how == IF worker.blocked /\ worker.term THEN "signal" ELSE ExitCode
  <2>1. worker.pc = "exit" /\ worker \in Workers
    BY <1>1 DEF WorkerExits, In, SupervisorInv, TypeInv
  <2>2. how \in ExitCodes
    BY DEF ExitCode, ExitCodes
  <2>3. how \notin {"signal", "incomplete"} => worker.coreClean /\ worker.runtimeClean
    BY <2>1 DEF ExitCode, Workers
  <2>4. how \notin {"signal", "incomplete"} => SessionOver
    BY <2>1, <2>3 DEF SupervisorInv, CoreInv, SentinelInv, SessionOver, Cleaning
  <2>5. Dies(how) /\ UNCHANGED <<record, changed, launchVars, fault, coreVars, sentinelVars,
        launches>> /\ kills' \in Nat
    BY <1>1 DEF WorkerExits, budget, SupervisorInv, TypeInv
  <2> HIDE DEF how
  <2> QED
    BY <2>1, <2>2, <2>4, <2>5, DeathKeeps DEF WorkerAlive
<1>2. CASE WorkerKilled
  <2>1. kills' \in Nat
    BY <1>2 DEF WorkerKilled, SupervisorInv, TypeInv
  <2>2. "signal" \in ExitCodes
    BY DEF ExitCodes
  <2> QED
    BY <1>2, <2>1, <2>2, DeathKeeps DEF WorkerKilled
<1> QED
  BY <1>1, <1>2

-----------------------------------------------------------------------------
(***************************************************************************)
(* The core, its applications and the sentinel.                            *)
(***************************************************************************)
LEMMA CoreKeeps ==
  ASSUME SupervisorInv,
         CoreStarts \/ CoreLaunches \/ CoreAsks \/ CoreExits \/ AppExits \/ KillReachesCore
  PROVE  Kept
<1>1. TypeInv /\ CoreInv /\ SentinelInv /\ core \in Cores /\ group \subseteq {"core", "app"}
          /\ killed \subseteq group
  BY DEF SupervisorInv, TypeInv, CoreInv
<1>2. UNCHANGED <<lock, record, changed, launcher, sup, outcome, worker, report, fault,
      sentinel, directory, launches, kills>>
  BY DEF CoreStarts, CoreLaunches, CoreAsks, CoreExits, AppExits, KillReachesCore, console,
     launchVars, workVars, sentinelVars, budget
<1>3. core' \in Cores
  BY <1>1 DEF CoreStarts, CoreLaunches, CoreAsks, CoreExits, AppExits, KillReachesCore, Cores,
     CoreStates, CoreEnds, NoCore
<1>4. core'.state = "none" => core.state = "none"
  BY <1>1 DEF CoreStarts, CoreLaunches, CoreAsks, CoreExits, AppExits, KillReachesCore, Cores,
     NoCore
<1>5. killed' \subseteq group' /\ group' \subseteq {"core", "app"}
  BY <1>1 DEF CoreStarts, CoreLaunches, CoreAsks, CoreExits, AppExits, KillReachesCore, CoreRuns
<1>6. group = {} => group' = {}
  BY <1>1 DEF CoreStarts, CoreLaunches, CoreAsks, CoreExits, AppExits, KillReachesCore, CoreRuns
<1>7. TypeInv'
  BY <1>1, <1>2, <1>3, <1>5 DEF TypeInv
<1>8. EnvStep
  BY <1>1, <1>2, <1>6 DEF EnvStep, Passive, SessionOver
<1>9. CoreInv'
  BY <1>1, <1>2, <1>4, <1>5, <1>6 DEF CoreInv
<1>10. SentinelInv'
  BY <1>1, <1>2, <1>6 DEF SentinelInv, SessionOver
<1> QED
  BY <1>7, <1>8, <1>9, <1>10 DEF Kept

LEMMA SentinelKeeps ==
  ASSUME SupervisorInv, SentinelStarts \/ SentinelCleans \/ SentinelDies \/ InitReaps
  PROVE  Kept
<1>1. TypeInv /\ CoreInv /\ SentinelInv /\ core \in Cores /\ sentinel \in Sentinels
  BY DEF SupervisorInv, TypeInv, CoreInv
<1>2. UNCHANGED <<lock, record, changed, launcher, sup, outcome, worker, report, fault, group,
      killed, launches>>
  BY DEF SentinelStarts, SentinelCleans, SentinelDies, InitReaps, console, launchVars,
     workVars, coreVars, budget
<1>5. kills' \in Nat
  <2>1. kills' = kills \/ kills' = kills + 1
    BY DEF SentinelStarts, SentinelCleans, SentinelDies, InitReaps, budget
  <2> QED
    BY <1>1, <2>1 DEF TypeInv
<1>3. core' \in Cores /\ (core'.state = "none" <=> core.state = "none")
  BY <1>1 DEF SentinelStarts, SentinelCleans, SentinelDies, InitReaps, Cores, CoreStates,
     CoreEnds, NoCore, coreVars
<1>4. sentinel' \in Sentinels /\ directory' \in BOOLEAN
          /\ (sentinel'.request => sentinel.request)
  BY <1>1 DEF SentinelStarts, SentinelCleans, SentinelDies, InitReaps, Sentinels,
     SentinelStates, NoSentinel, Replies, TypeInv
<1>7. TypeInv'
  BY <1>1, <1>2, <1>3, <1>4, <1>5 DEF TypeInv
<1>9. CoreInv'
  BY <1>1, <1>2, <1>3, <1>4 DEF CoreInv
<1>10. SentinelInv' /\ (SessionOver => SessionOver')
  <2>1. CASE SentinelStarts
    <3>1. sentinel.state = "starting" /\ ~sentinel.killed
      BY <2>1 DEF SentinelStarts, SentinelRuns
    <3>2. sentinel'.state \in {"serving", "ended"} /\ sentinel'.clean = sentinel.clean
          /\ (sentinel'.state = "ended" => directory' = directory)
      BY <1>1, <2>1 DEF SentinelStarts, Sentinels
    <3> QED
      BY <1>1, <1>2, <3>1, <3>2 DEF SentinelInv, SessionOver
  <2>2. CASE SentinelCleans
    <3>1. sentinel.state = "serving" /\ ~sentinel.killed
      BY <2>2 DEF SentinelCleans, SentinelRuns
    <3>2. sentinel'.state = "ended" /\ (sentinel'.clean => ~directory')
      BY <1>1, <2>2 DEF SentinelCleans, Sentinels
    <3> QED
      BY <1>1, <1>2, <3>1, <3>2 DEF SentinelInv, SessionOver
  <2>3. CASE SentinelDies
    <3>1. sentinel.state \in {"starting", "serving"}
      BY <2>3 DEF SentinelDies
    <3>2. sentinel'.state = "ended" /\ ~sentinel'.clean /\ directory' = directory
      BY <1>1, <2>3 DEF SentinelDies, Sentinels
    <3> QED
      BY <1>1, <1>2, <3>1, <3>2 DEF SentinelInv, SessionOver
  <2>4. CASE InitReaps
    <3>1. worker.pc = "dead" /\ directory' = directory
      BY <2>4 DEF InitReaps
    <3>2. sentinel' = sentinel \/ (sentinel.state = "ended" /\ sentinel'.state = "gone"
              /\ ~sentinel'.clean)
      BY <1>1, <2>4 DEF InitReaps, NoSentinel
    <3> QED
      BY <1>1, <1>2, <3>1, <3>2 DEF SentinelInv, SessionOver
  <2> QED
    BY <2>1, <2>2, <2>3, <2>4
<1>8. EnvStep
  BY <1>1, <1>2, <1>10 DEF EnvStep, Passive
<1> QED
  BY <1>7, <1>8, <1>9, <1>10 DEF Kept

-----------------------------------------------------------------------------
(***************************************************************************)
(* The launcher.                                                           *)
(***************************************************************************)
\* The launcher goes to another place of nb_wsdisplay_session_run.
Moves(pc, result) ==
    /\ launcher' \in Launchers /\ launcher'.pc = pc /\ launcher'.result = result
    /\ launcher'.opt = launcher.opt /\ launcher'.trigger = launcher.trigger

LEMMA Moved ==
  ASSUME launcher \in Launchers, NEW pc \in LauncherPcs, NEW result \in Results,
         \/ launcher' = Goto(pc) /\ result = launcher.result
         \/ launcher' = Fail(pc) /\ result = "failed"
         \/ launcher' = [launcher EXCEPT !.pc = pc, !.result = result]
  PROVE  Moves(pc, result)
<1>1. CASE launcher' = Goto(pc) /\ result = launcher.result
  BY <1>1 DEF Goto, Moves, Launchers
<1>2. CASE launcher' = Fail(pc) /\ result = "failed"
  BY <1>2 DEF Fail, Moves, Launchers
<1>3. CASE launcher' = [launcher EXCEPT !.pc = pc, !.result = result]
  BY <1>3 DEF Moves, Launchers
<1> QED
  BY <1>1, <1>2, <1>3

\* A step of the launcher that leaves the other processes alone.
Quiet ==
    UNCHANGED <<lock, worker, report, fault, core, group, killed, sentinel, directory,
      launches, kills>>

LEMMA QuietKeeps ==
  ASSUME SupervisorInv, Quiet, launcher.pc # "off", launcher' \in Launchers,
         launcher'.opt = launcher.opt,
         sup' \in Supervisors, outcome' \in Outcomes,
         record' \in {"none", "partial", "whole"}, changed' \subseteq ConsoleParts,
         HandInv', RecordInv', ArmedInv', RunInv'
  PROVE  SupervisorInv'
<1>1. TypeInv /\ CoreInv /\ SentinelInv /\ LockInv
  BY DEF SupervisorInv
<1>2. TypeInv'
  BY <1>1 DEF TypeInv, Quiet
<1>3. CoreInv' /\ SentinelInv'
  BY <1>1 DEF CoreInv, SentinelInv, SessionOver, Quiet
<1>4. LockInv'
  BY <1>1 DEF LockInv, Quiet
<1> QED
  BY <1>2, <1>3, <1>4 DEF SupervisorInv

LEMMA LoadRecordKeeps == ASSUME SupervisorInv, LoadRecord PROVE SupervisorInv'
<1>1. Quiet /\ UNCHANGED <<record, changed, sup, outcome>> /\ launcher.pc = "load"
  BY DEF LoadRecord, At, Quiet, console, launchVars, workVars, coreVars, sentinelVars, budget
<1>2. /\ launcher \in Launchers /\ sup \in Supervisors /\ outcome \in Outcomes
      /\ HandInv /\ RecordInv /\ RunInv /\ SentinelInv /\ ArmedInv
      /\ record \in {"none", "partial", "whole"} /\ changed \subseteq ConsoleParts
      /\ launcher.result \in Results
               /\ (launcher.opt.requireTerm => launcher.opt.required = "none")
  BY DEF SupervisorInv, TypeInv, Launchers
<1>3. Moves("restore", launcher.result) \/ Moves("exit", "failed")
  BY <1>1, <1>2, Moved DEF LoadRecord, LauncherPcs, Results
<1>4. HandInv'
  BY <1>1, <1>2, <1>3 DEF HandInv, Moves, Quiet
<1>5. RecordInv'
  BY <1>1, <1>2, <1>3 DEF RecordInv, HandInv, Moves, Quiet, At
<1>6. RunInv'
  BY <1>1, <1>2, <1>3 DEF RunInv, HandInv, RecordInv, Moves, Quiet, At, SuccessMeansSettled,
     CoreGroupGone, SessionOver, Ended
<1>8. ArmedInv'
  BY <1>1, <1>2, <1>3 DEF ArmedInv, Moves
<1> QED
  BY <1>1, <1>2, <1>3, <1>4, <1>5, <1>6, <1>8, QuietKeeps DEF Moves

LEMMA CaptureConsoleKeeps == ASSUME SupervisorInv, CaptureConsole PROVE SupervisorInv'
<1>1. Quiet /\ UNCHANGED <<record, changed, sup, outcome>> /\ launcher.pc = "capture"
  BY DEF CaptureConsole, At, Quiet, console, launchVars, workVars, coreVars, sentinelVars,
     budget
<1>2. /\ launcher \in Launchers /\ sup \in Supervisors /\ outcome \in Outcomes
      /\ HandInv /\ RecordInv /\ RunInv /\ SentinelInv /\ ArmedInv
      /\ record \in {"none", "partial", "whole"} /\ changed \subseteq ConsoleParts
      /\ launcher.result \in Results
               /\ (launcher.opt.requireTerm => launcher.opt.required = "none")
  BY DEF SupervisorInv, TypeInv, Launchers
<1>3. \/ launcher.opt.action = "preflight" /\ Moves("exit", "ok")
      \/ changed = {} /\ launcher.opt.action # "preflight" /\ Moves("store", launcher.result)
      \/ Moves("gate", "failed")
  BY <1>1, <1>2, Moved DEF CaptureConsole, LauncherPcs, Results
<1>4. HandInv'
  BY <1>1, <1>2, <1>3 DEF HandInv, Moves, Quiet
<1>5. RecordInv'
  BY <1>1, <1>2, <1>3 DEF RecordInv, HandInv, Moves, Quiet, At
<1>6. RunInv'
  BY <1>1, <1>2, <1>3 DEF RunInv, HandInv, RecordInv, Moves, Quiet, At, SuccessMeansSettled,
     CoreGroupGone, SessionOver, Ended
<1>8. ArmedInv'
  BY <1>1, <1>2, <1>3 DEF ArmedInv, Moves
<1> QED
  BY <1>1, <1>2, <1>3, <1>4, <1>5, <1>6, <1>8, QuietKeeps DEF Moves

LEMMA CreateRecordKeeps == ASSUME SupervisorInv, CreateRecord PROVE SupervisorInv'
<1>1. Quiet /\ UNCHANGED <<changed, sup, outcome>> /\ launcher.pc = "store"
  BY DEF CreateRecord, At, Quiet, console, launchVars, workVars, coreVars, sentinelVars, budget
<1>2. /\ launcher \in Launchers /\ sup \in Supervisors /\ outcome \in Outcomes
      /\ HandInv /\ RecordInv /\ RunInv /\ SentinelInv /\ ArmedInv
      /\ record \in {"none", "partial", "whole"} /\ changed \subseteq ConsoleParts
      /\ launcher.result \in Results
               /\ (launcher.opt.requireTerm => launcher.opt.required = "none")
  BY DEF SupervisorInv, TypeInv, Launchers
<1>3. \/ record = "none" /\ record' = "partial" /\ Moves("write", launcher.result)
      \/ record' = record /\ Moves("gate", "failed")
  BY <1>1, <1>2, Moved DEF CreateRecord, LauncherPcs, Results
<1>4. HandInv'
  BY <1>1, <1>2, <1>3 DEF HandInv, Moves, Quiet
<1>5. RecordInv'
  BY <1>1, <1>2, <1>3 DEF RecordInv, HandInv, Moves, Quiet, At
<1>6. RunInv'
  BY <1>1, <1>2, <1>3 DEF RunInv, HandInv, RecordInv, Moves, Quiet, At, SuccessMeansSettled,
     CoreGroupGone, SessionOver, Ended
<1>8. ArmedInv'
  BY <1>1, <1>2, <1>3 DEF ArmedInv, Moves
<1> QED
  BY <1>1, <1>2, <1>3, <1>4, <1>5, <1>6, <1>8, QuietKeeps DEF Moves

LEMMA WriteRecordKeeps == ASSUME SupervisorInv, WriteRecord PROVE SupervisorInv'
<1>1. Quiet /\ UNCHANGED <<changed, sup, outcome>> /\ launcher.pc = "write"
  BY DEF WriteRecord, At, Quiet, console, launchVars, workVars, coreVars, sentinelVars, budget
<1>2. /\ launcher \in Launchers /\ sup \in Supervisors /\ outcome \in Outcomes
      /\ HandInv /\ RecordInv /\ RunInv /\ SentinelInv /\ ArmedInv
      /\ record \in {"none", "partial", "whole"} /\ changed \subseteq ConsoleParts
      /\ launcher.result \in Results
               /\ (launcher.opt.requireTerm => launcher.opt.required = "none")
  BY DEF SupervisorInv, TypeInv, Launchers
<1>3. \/ record' = "whole" /\ Moves("fork", launcher.result)
      \/ record' = "none" /\ Moves("gate", "failed")
  BY <1>1, <1>2, Moved DEF WriteRecord, LauncherPcs, Results
<1>4. HandInv'
  BY <1>1, <1>2, <1>3 DEF HandInv, Moves, Quiet
<1>5. RecordInv'
  BY <1>1, <1>2, <1>3 DEF RecordInv, HandInv, Moves, Quiet, At
<1>6. RunInv'
  BY <1>1, <1>2, <1>3 DEF RunInv, HandInv, RecordInv, Moves, Quiet, At, SuccessMeansSettled,
     CoreGroupGone, SessionOver, Ended
<1>8. ArmedInv'
  BY <1>1, <1>2, <1>3 DEF ArmedInv, Moves
<1> QED
  BY <1>1, <1>2, <1>3, <1>4, <1>5, <1>6, <1>8, QuietKeeps DEF Moves

LEMMA ForkFailsKeeps == ASSUME SupervisorInv, ForkFails PROVE SupervisorInv'
<1>1. Quiet /\ UNCHANGED <<record, changed, sup, outcome>> /\ launcher.pc = "fork"
  BY DEF ForkFails, At, Quiet, console, launchVars, workVars, coreVars, sentinelVars, budget
<1>2. /\ launcher \in Launchers /\ sup \in Supervisors /\ outcome \in Outcomes
      /\ HandInv /\ RecordInv /\ RunInv /\ SentinelInv /\ ArmedInv
      /\ record \in {"none", "partial", "whole"} /\ changed \subseteq ConsoleParts
      /\ launcher.result \in Results
               /\ (launcher.opt.requireTerm => launcher.opt.required = "none")
  BY DEF SupervisorInv, TypeInv, Launchers
<1>3. Moves("restore", "failed")
  BY <1>1, <1>2, Moved DEF ForkFails, LauncherPcs, Results
<1>4. HandInv'
  BY <1>1, <1>2, <1>3 DEF HandInv, Moves, Quiet
<1>5. RecordInv'
  BY <1>1, <1>2, <1>3 DEF RecordInv, HandInv, Moves, Quiet, At
<1>6. RunInv'
  BY <1>1, <1>2, <1>3 DEF RunInv, HandInv, RecordInv, Moves, Quiet, At, SuccessMeansSettled,
     CoreGroupGone, SessionOver, Ended
<1>8. ArmedInv'
  BY <1>1, <1>2, <1>3 DEF ArmedInv, Moves
<1> QED
  BY <1>1, <1>2, <1>3, <1>4, <1>5, <1>6, <1>8, QuietKeeps DEF Moves

LEMMA RestoreConsoleKeeps == ASSUME SupervisorInv, RestoreConsole PROVE SupervisorInv'
<1>1. Quiet /\ UNCHANGED <<record, sup, outcome>> /\ launcher.pc = "restore"
  BY DEF RestoreConsole, At, Quiet, console, launchVars, workVars, coreVars, sentinelVars,
     budget
<1>2. /\ launcher \in Launchers /\ sup \in Supervisors /\ outcome \in Outcomes
      /\ HandInv /\ RecordInv /\ RunInv /\ SentinelInv /\ ArmedInv
      /\ record \in {"none", "partial", "whole"} /\ changed \subseteq ConsoleParts
      /\ launcher.result \in Results
               /\ (launcher.opt.requireTerm => launcher.opt.required = "none")
  BY DEF SupervisorInv, TypeInv, Launchers
<1>3. changed' \subseteq changed /\ Moves("verify", launcher.result)
  BY <1>1, <1>2, Moved DEF RestoreConsole, LauncherPcs, Results
<1>4. HandInv'
  BY <1>1, <1>2, <1>3 DEF HandInv, Moves, Quiet
<1>5. RecordInv'
  BY <1>1, <1>2, <1>3 DEF RecordInv, HandInv, Moves, Quiet, At
<1>6. RunInv'
  BY <1>1, <1>2, <1>3 DEF RunInv, HandInv, RecordInv, Moves, Quiet, At, SuccessMeansSettled,
     CoreGroupGone, SessionOver, Ended
<1>8. ArmedInv'
  BY <1>1, <1>2, <1>3 DEF ArmedInv, Moves
<1> QED
  BY <1>1, <1>2, <1>3, <1>4, <1>5, <1>6, <1>8, QuietKeeps DEF Moves

LEMMA VerifyConsoleKeeps == ASSUME SupervisorInv, VerifyConsole PROVE SupervisorInv'
<1>1. Quiet /\ UNCHANGED <<record, changed, sup>> /\ launcher.pc = "verify"
  BY DEF VerifyConsole, At, Quiet, console, launchVars, workVars, coreVars, sentinelVars, budget
<1>2. /\ launcher \in Launchers /\ sup \in Supervisors /\ outcome \in Outcomes
      /\ HandInv /\ RecordInv /\ RunInv /\ SentinelInv /\ ArmedInv
      /\ record \in {"none", "partial", "whole"} /\ changed \subseteq ConsoleParts
      /\ launcher.result \in Results
               /\ (launcher.opt.requireTerm => launcher.opt.required = "none")
  BY DEF SupervisorInv, TypeInv, Launchers
<1>3. \/ changed = {} /\ (launcher.opt.action = "recover" \/ (outcome.cleanup
               /\ outcome.coreGone)) /\ Moves("remove", launcher.result)
      \/ Moves("gate", "failed") \/ Moves("exit", "failed")
  BY <1>1, <1>2, Moved DEF VerifyConsole, LauncherPcs, Results, Recovering
<1>7. /\ outcome' \in Outcomes /\ outcome'.removed = outcome.removed
      /\ outcome'.cleanup = outcome.cleanup /\ outcome'.coreGone = outcome.coreGone
      /\ outcome'.drove = outcome.drove /\ outcome'.observed = outcome.observed
  BY <1>2 DEF VerifyConsole, Outcomes
<1>4. HandInv'
  BY <1>1, <1>2, <1>3, <1>7 DEF HandInv, Moves, Quiet
<1>5. RecordInv'
  BY <1>1, <1>2, <1>3, <1>7 DEF RecordInv, HandInv, Moves, Quiet, At
<1>6. RunInv'
  BY <1>1, <1>2, <1>3, <1>7 DEF RunInv, HandInv, RecordInv, Moves, Quiet, At,
     SuccessMeansSettled, CoreGroupGone, SessionOver, Ended
<1>8. ArmedInv'
  BY <1>1, <1>2, <1>3 DEF ArmedInv, Moves
<1> QED
  BY <1>1, <1>2, <1>3, <1>4, <1>5, <1>6, <1>8, <1>7, QuietKeeps DEF Moves

LEMMA RemoveRecordKeeps == ASSUME SupervisorInv, RemoveRecord PROVE SupervisorInv'
<1>1. Quiet /\ UNCHANGED <<changed, sup>> /\ launcher.pc = "remove"
  BY DEF RemoveRecord, At, Quiet, console, launchVars, workVars, coreVars, sentinelVars, budget
<1>2. /\ launcher \in Launchers /\ sup \in Supervisors /\ outcome \in Outcomes
      /\ HandInv /\ RecordInv /\ RunInv /\ SentinelInv /\ ArmedInv
      /\ record \in {"none", "partial", "whole"} /\ changed \subseteq ConsoleParts
      /\ launcher.result \in Results
               /\ (launcher.opt.requireTerm => launcher.opt.required = "none")
  BY DEF SupervisorInv, TypeInv, Launchers
<1>3. \/ record' = "none" /\ outcome'.removed /\ launcher.opt.action = "recover"
               /\ Moves("exit", "ok")
      \/ record' = "none" /\ outcome'.removed /\ launcher.opt.action # "recover"
               /\ Moves("gate", launcher.result)
      \/ record' = record /\ outcome' = outcome /\ (Moves("gate", "failed") \/ Moves("exit",
           "failed"))
  BY <1>1, <1>2, Moved DEF RemoveRecord, LauncherPcs, Results, Recovering, Outcomes
<1>7. /\ outcome' \in Outcomes
      /\ outcome'.cleanup = outcome.cleanup /\ outcome'.coreGone = outcome.coreGone
      /\ outcome'.drove = outcome.drove /\ outcome'.observed = outcome.observed
  BY <1>2 DEF RemoveRecord, Outcomes
<1>4. HandInv'
  BY <1>1, <1>2, <1>3, <1>7 DEF HandInv, Moves, Quiet
<1>5. RecordInv'
  BY <1>1, <1>2, <1>3, <1>7 DEF RecordInv, HandInv, Moves, Quiet, At
<1>6. RunInv'
  BY <1>1, <1>2, <1>3, <1>7 DEF RunInv, HandInv, RecordInv, Moves, Quiet, At,
     SuccessMeansSettled, CoreGroupGone, SessionOver, Ended
<1>8. ArmedInv'
  BY <1>1, <1>2, <1>3 DEF ArmedInv, Moves
<1> QED
  BY <1>1, <1>2, <1>3, <1>4, <1>5, <1>6, <1>8, <1>7, QuietKeeps DEF Moves

LEMMA JudgeRunKeeps == ASSUME SupervisorInv, JudgeRun PROVE SupervisorInv'
<1>1. Quiet /\ UNCHANGED <<record, changed, sup, outcome>> /\ launcher.pc = "gate"
  BY DEF JudgeRun, At, Quiet, console, launchVars, workVars, coreVars, sentinelVars, budget
<1>2. /\ launcher \in Launchers /\ sup \in Supervisors /\ outcome \in Outcomes
      /\ HandInv /\ RecordInv /\ RunInv /\ SentinelInv /\ ArmedInv
      /\ record \in {"none", "partial", "whole"} /\ changed \subseteq ConsoleParts
      /\ launcher.result \in Results
               /\ (launcher.opt.requireTerm => launcher.opt.required = "none")
  BY DEF SupervisorInv, TypeInv, Launchers
<1>3. \/ Moves("exit", "failed")
      \/ /\ Moves("exit", "ok")
         /\ IF launcher.opt.requireTerm THEN outcome.drove /\ outcome.removed
            ELSE IF launcher.opt.required # "none"
            THEN outcome.observed = launcher.opt.required /\ outcome.removed
            ELSE launcher.result = "ok"
  BY <1>1, <1>2, Moved DEF JudgeRun, LauncherPcs, Results, SigtermGate, CoreFailureGate, Settled
<1>4. HandInv'
  BY <1>1, <1>2, <1>3 DEF HandInv, Moves, Quiet
<1>5. RecordInv'
  BY <1>1, <1>2, <1>3 DEF RecordInv, HandInv, Moves, Quiet, At
<1>6. RunInv'
  BY <1>1, <1>2, <1>3 DEF RunInv, HandInv, RecordInv, Moves, Quiet, At, SuccessMeansSettled,
     CoreGroupGone, SessionOver, Ended
<1>8. ArmedInv'
  BY <1>1, <1>2, <1>3 DEF ArmedInv, Moves
<1> QED
  BY <1>1, <1>2, <1>3, <1>4, <1>5, <1>6, <1>8, QuietKeeps DEF Moves


LEMMA OffTyped == Off \in Launchers /\ Off.pc = "off" /\ Off.opt.action = "none"
      /\ Off.opt.requireTerm = FALSE /\ NotSupervised \in Outcomes
               /\ NoSupervision \in Supervisors /\ NoSupervision.reaped = FALSE
                        /\ NoSupervision.armed = FALSE /\ Off.trigger = "none"
<1>1. Off.opt \in Options /\ Off.opt.action = "none" /\ Off.opt.requireTerm = FALSE
  BY DEF Off, Options, Failures, Signals
<1>2. Off \in Launchers /\ Off.pc = "off" /\ Off.trigger = "none"
  BY <1>1 DEF Off, Launchers, LauncherPcs, Signals, Triggers, Results
<1>3. NotSupervised \in Outcomes
  BY DEF NotSupervised, Outcomes, Failures
<1>4. NoSupervision \in Supervisors /\ NoSupervision.reaped = FALSE
          /\ NoSupervision.armed = FALSE
  BY DEF NoSupervision, Supervisors, SupervisorPcs
<1> QED
  BY <1>1, <1>2, <1>3, <1>4

LEMMA LeavesKeeps == ASSUME SupervisorInv, LauncherExits \/ LauncherKilled PROVE SupervisorInv'
<1>1. /\ UNCHANGED <<record, changed, worker, report, fault, core, group, killed, sentinel,
           directory, launches>>
      /\ launcher' = Off /\ outcome' = NotSupervised /\ lock' = lock \ {"launcher"}
  BY DEF LauncherExits, LauncherKilled, workVars, coreVars, sentinelVars, budget
<1>2. (sup' = sup \/ sup' = NoSupervision) /\ (kills' = kills \/ kills' = kills + 1)
  BY DEF LauncherExits, LauncherKilled, budget
<1>3. TypeInv /\ HandInv /\ LockInv /\ RecordInv /\ CoreInv /\ SentinelInv /\ ArmedInv
  BY DEF SupervisorInv
<1>4. TypeInv'
  <2>1. sup' \in Supervisors /\ kills' \in Nat
    BY <1>2, <1>3, OffTyped DEF TypeInv
  <2> QED
    BY <1>1, <1>3, <2>1, OffTyped DEF TypeInv
<1>5. HandInv' /\ LockInv'
  BY <1>1, <1>2, <1>3, OffTyped DEF HandInv, LockInv
<1>6. RecordInv'
  BY <1>1, <1>3, OffTyped DEF RecordInv, At
<1>7. CoreInv' /\ SentinelInv'
  BY <1>1, <1>3 DEF CoreInv, SentinelInv, SessionOver
<1>8. RunInv'
  BY <1>1, OffTyped DEF RunInv, SuccessMeansSettled, At
<1>9. ArmedInv'
  <2>1. ~sup'.armed
    <3>1. launcher.pc = "exit" \/ sup' = NoSupervision
      BY DEF LauncherExits, LauncherKilled, At
    <3> QED
      BY <1>2, <1>3, <3>1, OffTyped DEF ArmedInv
  <2> QED
    BY <1>1, <2>1, OffTyped DEF ArmedInv
<1> QED
  BY <1>4, <1>5, <1>6, <1>7, <1>8, <1>9 DEF SupervisorInv

LEMMA SignalKeeps == ASSUME SupervisorInv, SignalLauncher PROVE SupervisorInv'
<1>1. Quiet /\ UNCHANGED <<record, changed, sup, outcome>> /\ launcher.pc # "off"
  BY DEF SignalLauncher, Quiet, console, workVars, coreVars, sentinelVars, budget
<1>2. /\ launcher \in Launchers /\ sup \in Supervisors /\ outcome \in Outcomes
      /\ HandInv /\ RecordInv /\ RunInv /\ SentinelInv /\ ArmedInv
      /\ record \in {"none", "partial", "whole"} /\ changed \subseteq ConsoleParts
      /\ launcher.result \in Results
               /\ (launcher.opt.requireTerm => launcher.opt.required = "none")
  BY DEF SupervisorInv, TypeInv, Launchers
<1>3. /\ launcher' \in Launchers /\ launcher'.opt = launcher.opt
      /\ launcher'.pc = launcher.pc /\ launcher'.result = launcher.result
      /\ launcher'.trigger = "armed" => launcher.trigger = "armed" \/ sup.armed
  <2>1. launcher.opt.signals \subseteq Signals
    BY <1>2 DEF Launchers, Options
  <2>2. \/ \E s \in Signals : launcher' = [launcher EXCEPT !.signal = s]
        \/ \E t \in Triggers : launcher' = [launcher EXCEPT !.trigger = t]
                 /\ (t = "armed" => sup.armed)
    BY <2>1 DEF SignalLauncher, Triggers
  <2>3. CASE \E s \in Signals : launcher' = [launcher EXCEPT !.signal = s]
    BY <1>2, <2>3 DEF Launchers
  <2>4. CASE \E t \in Triggers : launcher' = [launcher EXCEPT !.trigger = t]
            /\ (t = "armed" => sup.armed)
    BY <1>2, <2>4 DEF Launchers
  <2> QED
    BY <2>2, <2>3, <2>4
<1>4. HandInv'
  BY <1>1, <1>2, <1>3 DEF HandInv, Moves, Quiet
<1>5. RecordInv'
  BY <1>1, <1>2, <1>3 DEF RecordInv, HandInv, Moves, Quiet, At
<1>6. RunInv'
  BY <1>1, <1>2, <1>3 DEF RunInv, Moves, Quiet, At, SuccessMeansSettled, CoreGroupGone,
     SessionOver, Ended
<1>7. ArmedInv'
  BY <1>1, <1>2, <1>3 DEF ArmedInv
<1> QED
  BY <1>1, <1>2, <1>3, <1>4, <1>5, <1>6, <1>7, QuietKeeps

LEMMA ReportKeeps == ASSUME SupervisorInv, ReadReport PROVE SupervisorInv'
<1>1. Quiet /\ UNCHANGED <<record, changed, launcher, outcome>> /\ launcher.pc # "off"
  BY DEF ReadReport, Quiet, console, workVars, coreVars, sentinelVars, budget, Supervising, At
<1>2. /\ launcher \in Launchers /\ sup \in Supervisors /\ outcome \in Outcomes
      /\ HandInv /\ RecordInv /\ RunInv /\ SentinelInv /\ ArmedInv
      /\ record \in {"none", "partial", "whole"} /\ changed \subseteq ConsoleParts
      /\ launcher.result \in Results
               /\ (launcher.opt.requireTerm => launcher.opt.required = "none")
  BY DEF SupervisorInv, TypeInv, Launchers
<1>3. sup' \in Supervisors /\ sup'.reaped = sup.reaped
      /\ (sup'.armed => sup.armed \/ launcher.opt.required # "none")
  <2> DEFINE read == IF sup.complete THEN sup
                ELSE CASE report = "sent" ->
                            [sup EXCEPT !.complete = TRUE,
                                        !.armed = launcher.opt.required # "none"]
                       [] report = "closed" -> Unreliable(sup)
                       [] OTHER -> sup
  <2>1. sup' = [read EXCEPT !.pc = "act"]
    BY DEF ReadReport
  <2>2. read \in Supervisors /\ read.reaped = sup.reaped
        /\ (read.armed => sup.armed \/ launcher.opt.required # "none")
    <3>1. [sup EXCEPT !.complete = TRUE,
          !.armed = launcher.opt.required # "none"] \in Supervisors
          /\ [sup EXCEPT !.complete = TRUE,
               !.armed = launcher.opt.required # "none"].reaped = sup.reaped
          /\ ([sup EXCEPT !.complete = TRUE, !.armed = launcher.opt.required # "none"].armed
                => launcher.opt.required # "none")
      BY <1>2 DEF Supervisors
    <3>2. Unreliable(sup) \in Supervisors /\ Unreliable(sup).reaped = sup.reaped
          /\ Unreliable(sup).armed = sup.armed
      BY <1>2 DEF Supervisors, Unreliable
    <3> QED
      BY <1>2, <3>1, <3>2
  <2> HIDE DEF read
  <2> QED
    BY <2>1, <2>2 DEF Supervisors, SupervisorPcs
<1>4. HandInv'
  BY <1>1, <1>2, <1>3 DEF HandInv, Quiet
<1>5. RecordInv'
  BY <1>1, <1>2 DEF RecordInv, Quiet, At
<1>6. RunInv'
  BY <1>1, <1>2 DEF RunInv, Quiet, At, SuccessMeansSettled, CoreGroupGone, SessionOver, Ended
<1>7. ArmedInv'
  BY <1>1, <1>2, <1>3 DEF ArmedInv, Supervising, At, ReadReport
<1> QED
  BY <1>1, <1>2, <1>3, <1>4, <1>5, <1>6, <1>7, QuietKeeps

LEMMA EndKeeps ==
  ASSUME SupervisorInv, At("supervise"), NEW gone \in BOOLEAN, SupervisionEnds(gone), Quiet,
         UNCHANGED <<record, changed>>
  PROVE  SupervisorInv'
<1>2. /\ launcher \in Launchers /\ sup \in Supervisors /\ outcome \in Outcomes
      /\ HandInv /\ RecordInv /\ RunInv /\ SentinelInv /\ ArmedInv
      /\ record \in {"none", "partial", "whole"} /\ changed \subseteq ConsoleParts
      /\ launcher.result \in Results
               /\ (launcher.opt.requireTerm => launcher.opt.required = "none")
  BY DEF SupervisorInv, TypeInv, Launchers
<1>1. worker.exit \in ExitCodes /\ sup.reaped \in BOOLEAN
          /\ (sup.reaped => worker.pc = "dead") /\ launcher.pc = "supervise"
                   /\ outcome = NotSupervised /\ launcher.opt.action = "run"
  BY <1>2 DEF SupervisorInv, TypeInv, Workers, Supervisors, HandInv, RunInv, At
<1>3. outcome' = Outcome(gone) /\ sup' = NoSupervision
  BY DEF SupervisionEnds
<1>4. /\ outcome' \in Outcomes /\ outcome'.removed = FALSE
      /\ outcome'.cleanup = WorkerFinished
      /\ outcome'.drove => sup.reaped /\ worker.exit = "ok"
      /\ outcome'.observed # "none" => sup.reaped /\ worker.exit = outcome'.observed
      /\ outcome'.ok => WorkerFinished /\ worker.exit = "ok"
  <2>1. WorkerFinished \in BOOLEAN /\ StatusIsZero(gone) \in BOOLEAN
            /\ IndependentFailure \in BOOLEAN
    BY <1>1, <1>2 DEF WorkerFinished, StatusIsZero, IndependentFailure, Supervisors
  <2>2. (sup.drove /\ ~sup.term /\ sup.reaped /\ worker.exit = "ok") \in BOOLEAN
            /\ sup.triggered \in BOOLEAN
    BY <1>2 DEF Supervisors
  <2>3. (IF sup.reaped /\ worker.exit \in {"crash",
        "hang"} THEN worker.exit ELSE "none") \in Failures
    BY DEF Failures
  <2>4. outcome' \in Outcomes
    BY <1>1, <1>3, <2>1, <2>2, <2>3 DEF Outcome, Outcomes
  <2>5. outcome'.removed = FALSE /\ outcome'.cleanup = WorkerFinished
    BY <1>3 DEF Outcome
  <2>6. outcome'.drove => sup.reaped /\ worker.exit = "ok"
    BY <1>3 DEF Outcome
  <2>7. outcome'.observed # "none" => sup.reaped /\ worker.exit = outcome'.observed
    BY <1>3 DEF Outcome
  <2>8. outcome'.ok => WorkerFinished /\ worker.exit = "ok"
    BY <1>3 DEF Outcome, StatusIsZero
  <2> QED
    BY <2>4, <2>5, <2>6, <2>7, <2>8
<1>5. \/ sup.reaped /\ Moves("restore", "failed")
      \/ sup.reaped /\ outcome'.ok /\ Moves("restore", "ok")
      \/ Moves("gate", "failed") /\ ~sup.reaped
  <2>1. ~sup.reaped => ~Outcome(gone).ok
    BY DEF Outcome, StatusIsZero, WorkerFinished
  <2>2. launcher' = [launcher EXCEPT !.pc = IF sup.reaped THEN "restore" ELSE "gate",
                                     !.result = IF Outcome(gone).ok THEN "ok" ELSE "failed"]
    BY DEF SupervisionEnds
  <2>3. Moves(IF sup.reaped THEN "restore" ELSE "gate",
        IF Outcome(gone).ok THEN "ok" ELSE "failed")
    <3>1. (IF sup.reaped THEN "restore" ELSE "gate") \in LauncherPcs
          /\ (IF Outcome(gone).ok THEN "ok" ELSE "failed") \in Results
      BY DEF LauncherPcs, Results
    <3> QED
      BY <1>2, <2>2, <3>1, Moved
  <2> QED
    BY <1>3, <2>1, <2>3
<1>6. WorkerFinished => worker.pc = "dead" /\ SessionOver
  BY <1>1, <1>2 DEF WorkerFinished, SentinelInv
<1>7. HandInv'
  <2>1. NoSupervision.reaped = FALSE
    BY OffTyped
  <2> QED
    BY <1>1, <1>2, <1>3, <1>4, <1>5, <1>6, <2>1 DEF HandInv, Moves, Quiet, Passive
<1>8. RecordInv'
  BY <1>2, <1>5 DEF RecordInv, Moves, Quiet, At
<1>9. RunInv'
  BY <1>1, <1>2, <1>4, <1>5, <1>6 DEF RunInv, Moves, Quiet, At, SuccessMeansSettled,
     CoreGroupGone, SessionOver, Ended
<1>10. ArmedInv'
  BY <1>1, <1>2, <1>3, <1>5, OffTyped DEF ArmedInv, Moves
<1> QED
  BY <1>1, <1>2, <1>3, <1>4, <1>5, <1>7, <1>8, <1>9, <1>10, QuietKeeps, OffTyped DEF Moves

SameWorker ==
    /\ worker'.pc = worker.pc /\ worker'.exit = worker.exit /\ lock' = lock
    /\ worker'.coreClean = worker.coreClean /\ worker'.runtimeClean = worker.runtimeClean
    /\ worker'.sentinelReaped = worker.sentinelReaped

DiedBySignal ==
    /\ worker.pc # "dead" /\ worker'.pc = "dead" /\ worker'.exit = "signal"
    /\ ~worker'.sentinelReaped /\ lock' = lock \ {"worker"}

LEMMA SupervisionKeeps ==
  ASSUME SupervisorInv, launcher.pc = "supervise", Moves("supervise", launcher.result),
         sup' \in Supervisors, sup'.armed => sup.armed, sup'.reaped => worker'.pc = "dead",
         worker' \in Workers, SameWorker \/ DiedBySignal,
         core' \in Cores, core'.state = core.state, killed' \subseteq group,
         report' \in {"open", "sent", "closed"}, fault' \in {"open", "closed", "crash", "hang"},
         UNCHANGED <<record, changed, outcome, group, sentinel, directory, launches, kills>>
  PROVE  SupervisorInv'
<1>1. TypeInv /\ LockInv /\ HandInv /\ RecordInv /\ CoreInv /\ SentinelInv /\ RunInv
      /\ ArmedInv
  BY DEF SupervisorInv
<1>2. lock' = lock \/ lock' = lock \ {"worker"}
  BY DEF SameWorker, DiedBySignal
<1>3. TypeInv'
  BY <1>1, <1>2 DEF TypeInv, Moves
<1>4. LockInv' /\ HandInv'
  BY <1>1 DEF LockInv, HandInv, Moves, SameWorker, DiedBySignal, Passive
<1>5. RecordInv'
  BY <1>1 DEF RecordInv, Moves, SameWorker, DiedBySignal, Passive, At
<1>6. CoreInv'
  BY <1>1 DEF CoreInv, SameWorker, DiedBySignal, Working, Cleaning
<1>7. SentinelInv'
  BY <1>1 DEF SentinelInv, SessionOver, SameWorker, DiedBySignal
<1>8. RunInv'
  BY <1>1 DEF RunInv, Moves, NotSupervised, SuccessMeansSettled, At
<1>9. ArmedInv'
  BY <1>1 DEF ArmedInv, Moves
<1> QED
  BY <1>3, <1>4, <1>5, <1>6, <1>7, <1>8, <1>9 DEF SupervisorInv

\* Heeding signals and deadlines keeps what is known of the worker.
Heeds(t, s) == t \in Supervisors /\ t.reaped = s.reaped /\ t.armed = s.armed

LEMMA HeedTyped ==
  ASSUME NEW s \in Supervisors, NEW passed \in BOOLEAN
  PROVE  /\ Heeds(s, s) /\ Heeds(Unreliable(s), s) /\ Heeds(ForcedBySignal(s), s)
         /\ Heeds(EarlyTrigger(s), s) /\ Heeds(Command(s), s)
         /\ Heeds(FaultDeadline(s, passed), s) /\ Heeds(ReportDeadline(s, passed), s)
<1>1. Heeds(s, s)
  BY DEF Heeds
<1>2. Heeds(Unreliable(s), s)
  BY DEF Heeds, Unreliable, Supervisors
<1>3. Heeds([s EXCEPT !.forced = TRUE], s)
  BY DEF Heeds, Supervisors
<1>4. Heeds([s EXCEPT !.triggered = TRUE, !.handled = TRUE, !.independent = TRUE,
                      !.forced = TRUE], s)
  BY DEF Heeds, Supervisors
<1>5. Heeds([s EXCEPT !.triggered = TRUE], s)
  BY DEF Heeds, Supervisors
<1>6. Heeds([s EXCEPT !.triggered = TRUE, !.handled = TRUE, !.commanded = TRUE], s)
  BY DEF Heeds, Supervisors
<1>7. Heeds([s EXCEPT !.independent = TRUE, !.forced = TRUE], s)
  BY DEF Heeds, Supervisors
<1>8. Heeds(ForcedBySignal(s), s)
  BY <1>1, <1>3 DEF ForcedBySignal
<1>9. Heeds(EarlyTrigger(s), s)
  BY <1>1, <1>4 DEF EarlyTrigger
<1>10. Heeds(Command(s), s)
  BY <1>1, <1>4, <1>5, <1>6 DEF Command
<1>11. Heeds(FaultDeadline(s, passed), s)
  BY <1>1, <1>7 DEF FaultDeadline
<1>12. Heeds(ReportDeadline(s, passed), s)
  BY <1>1, <1>2 DEF ReportDeadline
<1> QED
  BY <1>1, <1>2, <1>8, <1>9, <1>10, <1>11, <1>12

LEMMA HeededTyped ==
  ASSUME sup \in Supervisors, NEW faultPassed \in BOOLEAN, NEW reportPassed \in BOOLEAN
  PROVE  /\ Heeded(faultPassed, reportPassed) \in Supervisors
         /\ Heeded(faultPassed, reportPassed).reaped = (worker.pc = "dead")
         /\ Heeded(faultPassed, reportPassed).armed = sup.armed
<1> DEFINE reaped == [sup EXCEPT !.reaped = worker.pc = "dead"]
           forced == ForcedBySignal(reaped)
           early == EarlyTrigger(forced)
           commanded == Command(early)
           waited == FaultDeadline(commanded, faultPassed)
<1>1. /\ reaped \in Supervisors /\ reaped.reaped = (worker.pc = "dead")
      /\ reaped.armed = sup.armed
  BY DEF Supervisors
<1>2. Heeded(faultPassed, reportPassed) = ReportDeadline(waited, reportPassed)
  BY DEF Heeded
<1> HIDE DEF reaped
<1>3. Heeds(forced, reaped)
  BY <1>1, HeedTyped
<1> HIDE DEF forced
<1>4. Heeds(early, forced)
  BY <1>3, HeedTyped DEF Heeds
<1> HIDE DEF early
<1>5. Heeds(commanded, early)
  BY <1>4, HeedTyped DEF Heeds
<1> HIDE DEF commanded
<1>6. Heeds(waited, commanded)
  BY <1>5, HeedTyped DEF Heeds
<1> HIDE DEF waited
<1>7. Heeds(ReportDeadline(waited, reportPassed), waited)
  BY <1>6, HeedTyped DEF Heeds
<1> QED
  BY <1>1, <1>2, <1>3, <1>4, <1>5, <1>6, <1>7 DEF Heeds

LEMMA AskTyped ==
  ASSUME NEW s \in Supervisors, NEW delivered \in BOOLEAN
  PROVE  Heeds(AskCore(s, delivered), s)
<1> DEFINE b == s.independent \/ ~delivered
<1>1. b \in BOOLEAN
  OBVIOUS
<1>2. AskCore(s, delivered) =
        IF AskCoreDue(s) THEN [s EXCEPT !.coreTerm = TRUE, !.drove = delivered,
          !.independent = b]
        ELSE s
  BY DEF AskCore
<1> HIDE DEF b
<1>3. Heeds([s EXCEPT !.coreTerm = TRUE, !.drove = delivered, !.independent = b], s)
  BY <1>1 DEF Heeds, Supervisors
<1>4. Heeds(s, s)
  BY DEF Heeds
<1> QED
  BY <1>2, <1>3, <1>4

\* Whatever the iteration ends with: the worker is told, is killed, or is left alone.
LEMMA IterationEnds ==
  ASSUME worker \in Workers, NEW s \in Supervisors, s.reaped = (worker.pc = "dead"),
         Sleep(s) \/ Escalation(s), report \in {"open", "sent", "closed"}
  PROVE  /\ sup' \in Supervisors /\ (sup'.reaped => worker'.pc = "dead")
         /\ sup'.armed = s.armed
         /\ worker' \in Workers /\ (SameWorker \/ DiedBySignal)
         /\ report' \in {"open", "sent", "closed"}
<1>1. "signal" \in ExitCodes
  BY DEF ExitCodes
<1>2. CASE Sleep(s) \/ WorkerReaped(s) \/ GiveUp(s)
  <2>1. UNCHANGED <<lock, worker, report>>
            /\ \E pc \in SupervisorPcs : sup' = [s EXCEPT !.pc = pc]
    BY <1>2 DEF Sleep, WorkerReaped, GiveUp, SupervisorPcs
  <2>2. sup' \in Supervisors /\ sup'.reaped = s.reaped /\ sup'.armed = s.armed
    BY <2>1 DEF Supervisors
  <2> QED
    BY <2>1, <2>2 DEF SameWorker
<1>3. CASE TermWorker(s)
  <2>1. sup' \in Supervisors /\ sup'.reaped = s.reaped /\ sup'.armed = s.armed /\ ~s.reaped
    <3>1. (s.independent \/ s.drove) \in BOOLEAN /\ "report" \in SupervisorPcs
      BY DEF SupervisorPcs
    <3> QED
      BY <1>3, <3>1 DEF TermWorker, MayEscalate, Supervisors
  <2>2. CASE worker' = [worker EXCEPT !.term = TRUE] /\ UNCHANGED <<lock, report>>
    <3>1. worker' \in Workers /\ SameWorker
      BY <2>2 DEF Workers, SameWorker
    <3> QED
      BY <2>1, <2>2, <3>1
  <2>3. CASE Dies("signal")
    BY <1>1, <2>1, <2>3, DiesTyped DEF DiedBySignal
  <2> QED
    BY <1>3, <2>2, <2>3 DEF TermWorker
<1>4. CASE KillWorker(s)
  <2>1. sup' \in Supervisors /\ sup'.reaped = s.reaped /\ sup'.armed = s.armed /\ ~s.reaped
    <3>1. "report" \in SupervisorPcs
      BY DEF SupervisorPcs
    <3> QED
      BY <1>4, <3>1 DEF KillWorker, MayEscalate, Supervisors
  <2>2. CASE UNCHANGED <<worker, lock, report>>
    BY <2>1, <2>2 DEF SameWorker
  <2>3. CASE Dies("signal")
    BY <1>1, <2>1, <2>3, DiesTyped DEF DiedBySignal
  <2> QED
    BY <1>4, <2>2, <2>3 DEF KillWorker
<1> QED
  BY <1>2, <1>3, <1>4 DEF Escalation

LEMMA SuperviseKeeps == ASSUME SupervisorInv, Supervise PROVE SupervisorInv'
<1>1. /\ launcher.pc = "supervise" /\ launcher \in Launchers /\ sup \in Supervisors
      /\ worker \in Workers /\ core \in Cores /\ report \in {"open", "sent", "closed"}
      /\ fault \in {"open", "closed", "crash", "hang"} /\ killed \subseteq group
  BY DEF SupervisorInv, TypeInv, Supervise, Iteration, Supervising, At, CoreInv
<1>2. PICK faultPassed \in BOOLEAN, reportPassed \in BOOLEAN :
        /\ core' = IF AskCoreDue(Heeded(faultPassed, reportPassed)) /\ CoreSignallable
                   THEN [core EXCEPT !.term = TRUE] ELSE core
        /\ \/ Sleep(AskCore(Heeded(faultPassed, reportPassed), CoreSignallable))
           \/ Escalation(AskCore(Heeded(faultPassed, reportPassed), CoreSignallable))
  BY DEF Supervise, Iteration
<1>3. UNCHANGED <<record, changed, outcome, group, killed, sentinel, directory, launches,
      kills>>
  BY DEF Supervise, Iteration, sentinelVars, budget
<1> DEFINE asked == AskCore(Heeded(faultPassed, reportPassed), CoreSignallable)
<1>4. asked \in Supervisors /\ asked.reaped = (worker.pc = "dead") /\ asked.armed = sup.armed
  <2>1. CoreSignallable \in BOOLEAN
    BY DEF CoreSignallable
  <2> QED
    BY <1>1, <2>1, HeededTyped, AskTyped DEF Heeds
<1>5. Sleep(asked) \/ Escalation(asked)
  BY <1>2
<1>6. core' \in Cores /\ core'.state = core.state
  BY <1>1, <1>2 DEF Cores
<1> HIDE DEF asked
<1>7. /\ sup' \in Supervisors /\ (sup'.reaped => worker'.pc = "dead") /\ sup'.armed = sup.armed
      /\ worker' \in Workers /\ (SameWorker \/ DiedBySignal)
      /\ report' \in {"open", "sent", "closed"}
  BY <1>1, <1>4, <1>5, IterationEnds
<1>8. fault' \in {"open", "closed", "crash", "hang"}
  <2>1. fault' = fault \/ (CommandDue(sup) /\ FaultOpen /\ fault' = launcher.opt.required)
    BY DEF Supervise, Iteration
  <2>2. CommandDue(sup) => launcher.opt.required # "none"
    BY DEF CommandDue, SupervisorInv, ArmedInv
  <2>3. launcher.opt.required \in Failures
    BY <1>1 DEF Launchers, Options
  <2> QED
    BY <1>1, <2>1, <2>2, <2>3 DEF Failures
<1>9. Moves("supervise", launcher.result)
  <2>1. launcher' = launcher \/ launcher' = [launcher EXCEPT !.signal = "INT"]
    BY DEF Supervise, Iteration
  <2>2. "INT" \in Signals
    BY DEF Signals
  <2> QED
    BY <1>1, <2>1, <2>2 DEF Moves, Launchers
<1> QED
  BY <1>1, <1>3, <1>6, <1>7, <1>8, <1>9, SupervisionKeeps

LEMMA StopKeeps ==
  ASSUME SupervisorInv,
         CoreAccounted \/ SupervisorTermsCore \/ SupervisorKillsCore \/ SupervisorLeavesCore
  PROVE  SupervisorInv'
<1>1. At("supervise") /\ UNCHANGED <<console, workVars, group, sentinelVars, budget>>
  BY DEF CoreAccounted, SupervisorTermsCore, SupervisorKillsCore, SupervisorLeavesCore,
         Supervising, coreVars
<1>2. CASE \E gone \in BOOLEAN : SupervisionEnds(gone) /\ UNCHANGED coreVars
  <2>1. Quiet /\ UNCHANGED <<record, changed>>
    BY <1>1, <1>2 DEF Quiet, console, workVars, coreVars, sentinelVars, budget
  <2> QED
    BY <1>1, <1>2, <2>1, EndKeeps
<1>3. ASSUME NEW pc \in SupervisorPcs, sup' = [sup EXCEPT !.pc = pc], UNCHANGED <<launcher,
      outcome>>,
             core' = core \/ core' = [core EXCEPT !.term = TRUE, !.stopped = FALSE],
             killed' \subseteq group
      PROVE  SupervisorInv'
  <2>1. /\ sup \in Supervisors /\ worker \in Workers /\ core \in Cores /\ launcher \in Launchers
        /\ launcher.pc = "supervise" /\ (sup.reaped => worker.pc = "dead")
        /\ report \in {"open", "sent", "closed"} /\ fault \in {"open", "closed", "crash",
             "hang"}
    BY <1>1 DEF SupervisorInv, TypeInv, HandInv, At
  <2>2. sup' \in Supervisors /\ sup'.reaped = sup.reaped /\ sup'.armed = sup.armed
    BY <1>3, <2>1 DEF Supervisors
  <2>3. core' \in Cores /\ core'.state = core.state
    BY <1>3, <2>1 DEF Cores
  <2>4. Moves("supervise", launcher.result) /\ SameWorker
    BY <1>1, <1>3, <2>1 DEF Moves, SameWorker, console, workVars
  <2>5. /\ UNCHANGED <<record, changed, worker, report, fault, outcome, group, sentinel,
                       directory, launches, kills>>
    BY <1>1, <1>3 DEF console, workVars, sentinelVars, budget
  <2> QED
    BY <1>3, <2>1, <2>2, <2>3, <2>4, <2>5, SupervisionKeeps
<1>4. CASE CoreAccounted
  BY <1>2, <1>4 DEF CoreAccounted
<1>5. CASE SupervisorTermsCore
  <2>1. "coreTerm" \in SupervisorPcs /\ killed \subseteq group
    BY DEF SupervisorPcs, SupervisorInv, CoreInv
  <2> QED
    BY <1>3, <1>5, <2>1 DEF SupervisorTermsCore
<1>6. CASE SupervisorKillsCore
  <2>1. "coreKill" \in SupervisorPcs
    BY DEF SupervisorPcs
  <2>2. CASE CoreGroupGone
    BY <1>2, <1>6, <2>2 DEF SupervisorKillsCore, coreVars
  <2>3. CASE ~CoreGroupGone
    BY <1>3, <1>6, <2>1, <2>3 DEF SupervisorKillsCore
  <2> QED
    BY <2>2, <2>3
<1>7. CASE SupervisorLeavesCore
  BY <1>2, <1>7 DEF SupervisorLeavesCore, CoreGroupGone
<1> QED
  BY <1>4, <1>5, <1>6, <1>7

LEMMA RecordsTyped ==
  /\ NoWorker \in Workers /\ NoCore \in Cores /\ NoSentinel \in Sentinels
  /\ NoWorker.pc = "none" /\ ~NoWorker.sentinelReaped /\ NoCore.state = "none"
  /\ NoSentinel.state = "none" /\ ~NoSentinel.request /\ ~NoSentinel.clean
<1>1. NoWorker \in Workers
  BY DEF NoWorker, Workers, WorkerPcs, Failures, ExitCodes
<1>2. NoCore \in Cores
  BY DEF NoCore, Cores, CoreStates, CoreEnds
<1>3. NoSentinel \in Sentinels
  BY DEF NoSentinel, Sentinels, SentinelStates, Replies
<1> QED
  BY <1>1, <1>2, <1>3 DEF NoWorker, NoCore, NoSentinel

LEMMA InitHolds == ASSUME Init PROVE SupervisorInv
<1>1. /\ lock = {} /\ record = "none" /\ changed = {} /\ group = {} /\ killed = {}
      /\ report = "closed" /\ fault = "closed" /\ directory = FALSE
      /\ launches = 0 /\ kills = 0
      /\ launcher = Off /\ sup = NoSupervision /\ outcome = NotSupervised
      /\ worker = NoWorker /\ core = NoCore /\ sentinel = NoSentinel
  BY DEF Init
<1>2. TypeInv
  BY <1>1, OffTyped, RecordsTyped DEF TypeInv
<1>3. LockInv /\ HandInv /\ RecordInv /\ ArmedInv
  BY <1>1, OffTyped, RecordsTyped DEF LockInv, HandInv, RecordInv, ArmedInv, Passive, At
<1>4. CoreInv /\ SentinelInv
  BY <1>1, RecordsTyped DEF CoreInv, SentinelInv, Working
<1>5. RunInv
  BY <1>1, OffTyped DEF RunInv, SuccessMeansSettled, At
<1> QED
  BY <1>2, <1>3, <1>4, <1>5 DEF SupervisorInv

LEMMA LaunchKeeps == ASSUME SupervisorInv, Launch PROVE SupervisorInv'
<1>1. PICK opt \in Launches[launches + 1] :
        /\ lock = {} /\ (opt.action = "run" => CoreGroupGone /\ sentinel.state \in {"none",
             "gone"})
        /\ launcher' = [Off EXCEPT !.opt = opt,
                                   !.pc = IF opt.action = "recover" THEN "load" ELSE "capture"]
        /\ directory' = (opt.action # "run" /\ directory)
  BY DEF Launch
<1>2. /\ UNCHANGED <<record, changed, worker, report, fault, core, group, killed, sentinel,
           kills>>
      /\ lock' = {"launcher"} /\ launches' = launches + 1 /\ sup' = NoSupervision
      /\ outcome' = NotSupervised
  BY DEF Launch, workVars, coreVars
<1>3. TypeInv /\ LockInv /\ RecordInv /\ CoreInv /\ SentinelInv
  BY DEF SupervisorInv
<1>4. /\ opt.action \in {"run", "preflight", "recover"} /\ opt \in Options
      /\ opt.requireTerm => opt.required = "none"
  <2>1. launches + 1 \in DOMAIN Launches
    BY <1>3, SupervisorAssumption DEF Launch, TypeInv
  <2>2. Launches[launches + 1] \subseteq [action : {"run", "preflight", "recover"},
                               required : {"none", "crash", "hang"},
                               requireTerm : BOOLEAN,
                               signals : SUBSET {"TERM", "INT", "USR1"}]
    BY <2>1, SupervisorAssumption
  <2>3. opt \in [action : {"run", "preflight", "recover"}, required : {"none", "crash", "hang"},
                 requireTerm : BOOLEAN, signals : SUBSET {"TERM", "INT", "USR1"}]
    BY <2>2
  <2>4. opt \in Options /\ opt.action \in {"run", "preflight", "recover"}
    BY <2>3 DEF Options, Failures, Signals
  <2> QED
    BY <2>1, <2>4, SupervisorAssumption
<1>5. /\ launcher' \in Launchers /\ launcher'.opt = opt /\ launcher'.result = "none"
      /\ launcher'.pc = IF opt.action = "recover" THEN "load" ELSE "capture"
      /\ launcher'.trigger = "none"
  <2>1. (IF opt.action = "recover" THEN "load" ELSE "capture") \in LauncherPcs
    BY DEF LauncherPcs
  <2>2. Off \in Launchers /\ Off.result = "none" /\ Off.trigger = "none"
    BY OffTyped DEF Off
  <2> QED
    BY <1>1, <1>4, <2>1, <2>2 DEF Launchers
<1>6. directory' \in BOOLEAN /\ (directory' => directory)
  BY <1>1, <1>3 DEF TypeInv
<1>7. TypeInv'
  BY <1>2, <1>3, <1>4, <1>5, <1>6, OffTyped DEF TypeInv
<1>8. worker.pc \in Passive
  BY <1>1, <1>3 DEF LockInv
<1>9. LockInv' /\ HandInv' /\ ArmedInv'
  BY <1>2, <1>5, <1>8, OffTyped DEF LockInv, HandInv, ArmedInv
<1>10. RecordInv'
  BY <1>2, <1>3, <1>5 DEF RecordInv, At
<1>11. CoreInv' /\ SentinelInv'
  BY <1>2, <1>3, <1>6 DEF CoreInv, SentinelInv, SessionOver
<1>12. RunInv'
  <2>1. opt.action = "run" => SessionOver'
    BY <1>1, <1>2 DEF SessionOver, CoreGroupGone
  <2>2. ~outcome'.removed /\ ~outcome'.drove /\ outcome'.observed = "none"
    BY <1>2 DEF NotSupervised
  <2> QED
    BY <1>2, <1>4, <1>5, <2>1, <2>2 DEF RunInv, SuccessMeansSettled, At
<1> QED
  BY <1>7, <1>9, <1>10, <1>11, <1>12 DEF SupervisorInv

LEMMA ForkKeeps == ASSUME SupervisorInv, ForkWorker PROVE SupervisorInv'
<1>1. /\ launcher.pc = "fork" /\ launcher' = Goto("supervise") /\ lock' = lock \cup {"worker"}
      /\ worker' = [NoWorker EXCEPT !.pc = "start", !.blocked = TRUE]
      /\ report' = "open" /\ fault' = "open" /\ core' = NoCore /\ group' = {} /\ killed' = {}
      /\ sentinel' = NoSentinel
      /\ UNCHANGED <<record, changed, outcome, directory, launches, kills>>
  BY DEF ForkWorker, At, budget
<1>2. PICK reliable \in BOOLEAN :
        sup' = [NoSupervision EXCEPT !.pc = "report", !.reliable = reliable,
                                     !.complete = ~reliable, !.forced = ~reliable,
                                     !.independent = ~reliable]
  BY DEF ForkWorker
<1>3. TypeInv /\ LockInv /\ HandInv /\ RecordInv /\ RunInv /\ ArmedInv
  BY DEF SupervisorInv
<1>4. /\ launcher' \in Launchers /\ launcher'.opt = launcher.opt /\ launcher'.pc = "supervise"
      /\ launcher'.result = launcher.result /\ launcher'.trigger = launcher.trigger
  BY <1>1, <1>3 DEF TypeInv, Goto, Launchers, LauncherPcs
<1>5. sup' \in Supervisors /\ ~sup'.reaped /\ ~sup'.armed
  <2>1. (~reliable) \in BOOLEAN /\ "report" \in SupervisorPcs
    BY DEF SupervisorPcs
  <2>2. NoSupervision \in Supervisors /\ ~NoSupervision.reaped /\ ~NoSupervision.armed
    BY OffTyped
  <2> QED
    BY <1>2, <2>1, <2>2 DEF Supervisors
<1>6. /\ worker' \in Workers /\ worker'.pc = "start" /\ ~worker'.sentinelReaped
  BY <1>1, RecordsTyped DEF Workers, WorkerPcs
<1>7. TypeInv'
  BY <1>1, <1>3, <1>4, <1>5, <1>6, RecordsTyped DEF TypeInv
<1>8. LockInv' /\ HandInv' /\ ArmedInv'
  BY <1>1, <1>3, <1>4, <1>5, <1>6 DEF LockInv, HandInv, ArmedInv
<1>9. RecordInv'
  BY <1>1, <1>3, <1>4 DEF RecordInv, At
<1>10. CoreInv'
  BY <1>1, <1>6, RecordsTyped DEF CoreInv
<1>11. launcher.opt.action = "run" /\ outcome = NotSupervised /\ launcher.result = "none"
           /\ ~directory
  BY <1>1, <1>3 DEF RunInv, SessionOver
<1>12. SentinelInv'
  BY <1>1, <1>6, <1>11, RecordsTyped DEF SentinelInv
<1>13. RunInv'
  BY <1>1, <1>4, <1>11 DEF RunInv, NotSupervised, SuccessMeansSettled, At
<1> QED
  BY <1>7, <1>8, <1>9, <1>10, <1>12, <1>13 DEF SupervisorInv

-----------------------------------------------------------------------------
(***************************************************************************)
(* Theorems.                                                               *)
(***************************************************************************)
LEMMA LauncherKeeps == ASSUME SupervisorInv, Launcher PROVE SupervisorInv'
BY LoadRecordKeeps, CaptureConsoleKeeps, CreateRecordKeeps, WriteRecordKeeps, ForkKeeps,
   ForkFailsKeeps, ReportKeeps, SuperviseKeeps, StopKeeps, RestoreConsoleKeeps,
   VerifyConsoleKeeps, RemoveRecordKeeps, JudgeRunKeeps, LeavesKeeps
   DEF Launcher

LEMMA EnvironmentKeeps ==
  ASSUME SupervisorInv, Worker \/ Others
  PROVE  SupervisorInv'
<1>1. CASE SignalLauncher \/ LauncherKilled
  BY <1>1, SignalKeeps, LeavesKeeps
<1>2. CASE Worker
  BY <1>2, WorkActionKeeps, StoppingKeeps, CleanUpKeeps, ExitsKeep, EnvKeeps
     DEF Worker, WorkAction
<1>3. CASE Others
  BY <1>1, <1>3, CoreKeeps, SentinelKeeps, ExitsKeep, EnvKeeps DEF Others
<1> QED
  BY <1>2, <1>3

LEMMA StutterKeeps == ASSUME SupervisorInv, UNCHANGED vars PROVE SupervisorInv'
<1>1. /\ UNCHANGED <<lock, record, changed, launcher, sup, outcome, worker, report, fault,
           core>>
      /\ UNCHANGED <<group, killed, sentinel, directory, launches, kills>>
  BY DEF vars, console, launchVars, workVars, coreVars, sentinelVars, budget
<1>2. TypeInv'
  BY <1>1 DEF SupervisorInv, TypeInv
<1>3. CoreInv' /\ SentinelInv'
  BY <1>1 DEF SupervisorInv, CoreInv, SentinelInv, SessionOver
<1>4. EnvStep
  BY <1>1 DEF EnvStep, SessionOver
<1> QED
  BY <1>2, <1>3, <1>4, EnvKeeps DEF Kept

\* The conjunction of everything above holds in every state of every sequence of sessions
\* (wsdisplay_session.c).
THEOREM SupervisorInvariant == Spec => []SupervisorInv
<1>1. Init => SupervisorInv
  BY InitHolds
<1>2. SupervisorInv /\ [Next]_vars => SupervisorInv'
  BY LaunchKeeps, LauncherKeeps, EnvironmentKeeps, StutterKeeps DEF Next
<1> QED
  BY <1>1, <1>2, PTL DEF Spec

\* Every variable keeps its type (the structures of wsdisplay_session.c).
THEOREM SupervisorTypeCorrect == Spec => []SupervisorTypeOK
<1>1. SupervisorInv => SupervisorTypeOK
  <2> SUFFICES ASSUME SupervisorInv PROVE SupervisorTypeOK
    OBVIOUS
  <2>1. TypeInv /\ killed \subseteq group
    BY DEF SupervisorInv, CoreInv
  <2>2. core.state \in CoreStates /\ sentinel.state \in SentinelStates
    BY <2>1 DEF TypeInv, Cores, Sentinels
  <2> QED
    BY <2>1, <2>2 DEF TypeInv, SupervisorTypeOK, CoreStates, SentinelStates
<1> QED
  BY <1>1, SupervisorInvariant, PTL

\* A console that is not as it was captured has a whole recovery record, whoever was killed
\* (nb_wsdisplay_recovery_store before the fork, nb_wsdisplay_recovery_remove after the
\* verification).
THEOREM TakenConsoleRecorded == Spec => []TakenConsoleHasRecord
<1>1. SupervisorInv => TakenConsoleHasRecord
  BY DEF SupervisorInv, RecordInv, TakenConsoleHasRecord
<1> QED
  BY <1>1, SupervisorInvariant, PTL

\* The launcher has the console in hand only when no worker has (the session lock, and
\* supervise_device_worker's wait).
THEOREM OneHandOnConsole == Spec => []ConsoleHasOneHand
<1>1. SupervisorInv => ConsoleHasOneHand
  BY DEF SupervisorInv, HandInv, ConsoleHasOneHand, WorkerHasDevice, Passive
<1> QED
  BY <1>1, SupervisorInvariant, PTL

\* A run that succeeds has left nothing behind, and ended as required
\* (nb_wsdisplay_session_run's result and its two gates).
THEOREM SuccessIsSettled == Spec => []SuccessMeansSettled
<1>1. SupervisorInv => SuccessMeansSettled
  BY DEF SupervisorInv, RunInv
<1> QED
  BY <1>1, SupervisorInvariant, PTL

\* The record is given up only for a console that was restored, after everything the session
\* started is gone (the last calls of nb_wsdisplay_session_run).
THEOREM RecordKeptForSession == Spec => RecordOutlivesSession
<1>1. SupervisorInv /\ [Next]_vars =>
        (record = "whole" /\ record' # "whole" =>
           /\ changed = {} /\ worker.pc \in {"none", "exit", "dead"}
           /\ launcher.opt.action = "run" => CoreGroupGone /\ ~directory)
  <2> SUFFICES ASSUME SupervisorInv, [Next]_vars, record = "whole", record' # "whole"
               PROVE  /\ changed = {} /\ worker.pc \in {"none", "exit", "dead"}
                      /\ launcher.opt.action = "run" => CoreGroupGone /\ ~directory
    OBVIOUS
  <2>1. ~(Worker \/ Others \/ UNCHANGED vars)
    <3>1. ASSUME Kept PROVE record' = record
      BY <3>1 DEF Kept, EnvStep
    <3>2. ~Worker
      BY <3>1, WorkActionKeeps, StoppingKeeps, CleanUpKeeps, ExitsKeep DEF Worker, WorkAction
    <3>3. ~(SignalLauncher \/ LauncherKilled \/ UNCHANGED vars)
      BY DEF SignalLauncher, LauncherKilled, vars, console
    <3>4. ~Others
      BY <3>1, <3>3, CoreKeeps, SentinelKeeps, ExitsKeep DEF Others
    <3> QED
      BY <3>2, <3>3, <3>4
  <2>2. CreateRecord \/ WriteRecord \/ RemoveRecord
    <3>1. ~Launch
      BY DEF Launch
    <3>2. ~(LoadRecord \/ CaptureConsole \/ ForkFails \/ ReadReport \/ CoreAccounted
            \/ SupervisorTermsCore \/ SupervisorKillsCore \/ SupervisorLeavesCore
            \/ VerifyConsole \/ JudgeRun)
      BY DEF LoadRecord, CaptureConsole, ForkFails, ReadReport, CoreAccounted,
             SupervisorTermsCore, SupervisorKillsCore, SupervisorLeavesCore, VerifyConsole,
             JudgeRun, console
    <3>3. ~(ForkWorker \/ Supervise \/ RestoreConsole \/ LauncherExits)
      BY DEF ForkWorker, Supervise, Iteration, RestoreConsole, LauncherExits
    <3> QED
      BY <2>1, <3>1, <3>2, <3>3 DEF Next, Launcher
  <2>3. ~CreateRecord
    BY DEF CreateRecord
  <2>4. ~WriteRecord
    BY DEF WriteRecord, SupervisorInv, RecordInv
  <2>5. At("remove")
    BY <2>2, <2>3, <2>4 DEF RemoveRecord
  <2> QED
    BY <2>5 DEF SupervisorInv, HandInv, RecordInv, RunInv, Passive, SessionOver, CoreGroupGone,
       At
<1> QED
  BY <1>1, SupervisorInvariant, PTL DEF Spec, RecordOutlivesSession

\* The session's directory is removed when its core and applications are gone, or by the
\* sentinel of a dead worker (finish_runtime_sentinel, nb_session_runtime_sentinel_run).
THEOREM DirectoryKeptForCore == Spec => DirectoryOutlivesCore
<1>1. SupervisorInv /\ [Next]_vars =>
        (directory /\ ~directory' => CoreGroupGone \/ worker.pc = "dead")
  <2> SUFFICES ASSUME SupervisorInv, [Next]_vars, directory, ~directory', worker.pc # "dead"
               PROVE  CoreGroupGone
    OBVIOUS
  <2>1. Launch \/ SentinelCleans
    <3>1. ~Worker
      <4>1. ~WorkAction
        BY WorkLeaves DEF SupervisorInv
      <4>2. ~(CloseDevices \/ CoreGraceExpires \/ GroupGone \/ GroupGraceExpires)
        BY Closes, Grace DEF SupervisorInv, WorkRest
      <4>3. ~(FinishSentinel \/ AwaitCleaned \/ ReapSentinel \/ SentinelGraceExpires \/ Unlock
              \/ WorkerExits)
        BY DEF FinishSentinel, AwaitCleaned, ReapSentinel, SentinelGraceExpires, Unlock,
               WorkerExits, sentinelVars
      <4> QED
        BY <4>1, <4>2, <4>3 DEF Worker, WorkAction
    <3>2. ~(Others /\ ~SentinelCleans)
      <4>1. ~(CoreStarts \/ CoreLaunches \/ CoreAsks \/ CoreExits \/ AppExits \/ KillReachesCore
              \/ SignalLauncher \/ LauncherKilled \/ WorkerKilled)
        BY DEF CoreStarts, CoreLaunches, CoreAsks, CoreExits, AppExits, KillReachesCore,
               SignalLauncher, LauncherKilled, WorkerKilled, sentinelVars
      <4>2. ~(SentinelStarts \/ SentinelDies \/ InitReaps)
        BY DEF SentinelStarts, SentinelDies, InitReaps
      <4> QED
        BY <4>1, <4>2 DEF Others
    <3>3. ~Launcher
      BY DEF Launcher, LoadRecord, CaptureConsole, CreateRecord, WriteRecord, ForkWorker,
             ForkFails, ReadReport, Supervise, Iteration, CoreAccounted, SupervisorTermsCore,
             SupervisorKillsCore, SupervisorLeavesCore, RestoreConsole, VerifyConsole,
             RemoveRecord, JudgeRun, LauncherExits, sentinelVars
    <3>4. ~UNCHANGED vars
      BY DEF vars, sentinelVars
    <3> QED
      BY <3>1, <3>2, <3>3, <3>4 DEF Next
  <2>2. CASE Launch
    BY <2>2 DEF Launch
  <2>3. CASE SentinelCleans
    <3>1. /\ sentinel.state = "serving" /\ ~sentinel.killed
          /\ sentinel.request \/ ~ControllerOpen
      BY <2>3 DEF SentinelCleans, SentinelRuns
    <3>2. worker.pc \in WorkerPcs
      BY DEF SupervisorInv, TypeInv, Workers
    <3>3. ~ControllerOpen =>
            worker.pc \in {"none", "start", "reap", "reapTerm", "reapKill", "unlock", "exit"}
      BY <3>2 DEF ControllerOpen, WorkerPcs
    <3> QED
      BY <3>1, <3>3 DEF SupervisorInv, CoreInv, SentinelInv, CoreGroupGone, Cleaning
  <2> QED
    BY <2>1, <2>2, <2>3
<1> QED
  BY <1>1, SupervisorInvariant, PTL DEF Spec, DirectoryOutlivesCore

=============================================================================
