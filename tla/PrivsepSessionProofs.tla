------------------------ MODULE PrivsepSessionProofs ------------------------
(***************************************************************************)
(* What holds of a whole session, core, worker, socket and user together,  *)
(* for every number of regions, generations, switches, inputs, heartbeats  *)
(* and frames and for queues and sockets of every capacity.                *)
(*                                                                         *)
(* The worker's steps turn out to be steps of PrivsepHelper, so what       *)
(* PrivsepHelperProofs shows against an arbitrary core and worker holds    *)
(* here.  That needs to know that everything on its way is well formed,    *)
(* which rests on what the client keeps of its frame.                      *)
(***************************************************************************)
EXTENDS PrivsepSession, PrivsepHelperProofs, FiniteSetTheorems

USE DEF failed, presentationPending

(***************************************************************************)
(* Types.                                                                  *)
(***************************************************************************)
Phases == {"none", "begin", "data", "commit", "abort", "wait"}

CoreFrames ==
    [phase : Phases, generation : Nat, serial : Nat, damage : SUBSET Regions, whole : BOOLEAN,
     offset : SUBSET Regions, begun : BOOLEAN, cancel : BOOLEAN, drop : BOOLEAN]

\* The frame a client sends is one the helper may see, and pieces are left while data is sent.
FrameFits(f) ==
    /\ f \in CoreFrames
    /\ f.phase # "none" => /\ f.generation \in Generations /\ f.serial \in Serials
                           /\ f.damage # {} /\ f.offset \subseteq f.damage
                           /\ f.whole => f.damage = Regions
    /\ f.phase = "begin" => f.offset = {}
    /\ f.phase = "data" => f.offset # f.damage
    /\ f.phase \in {"data", "commit", "abort", "wait"} => f.begun

\* A staged message of a frame is of the phase the frame is in.
StagedFits(w, f) ==
    \/ w = << >>
    \/ /\ w \in Seq(CoreMessage) /\ Len(w) = 1
       /\ w[1].type \in {"begin", "data", "commit", "abort"} => f.phase = w[1].type
       /\ w[1].type = "data" => w[1].region \in f.damage \ f.offset

Waiting == Hellos \cup Pongs(Tokens)

States == {"suspended", "active", "release_pending", "acquire_pending", "failed"}

ClientType ==
    /\ cGeneration \in Generations \cup {0}
    /\ cState \in States
    /\ cGeneration = 0 => cState \in {"suspended", "failed"}
    /\ controls \in Seq(Waiting)
    /\ FrameFits(cFrame)
    /\ StagedFits(wire, cFrame)

CoreType ==
    /\ ClientType
    /\ nextSerial \in Nat \ {0}
    /\ corePc \in {"handshake", "start"} => nextSerial = 1
    /\ damage \in SUBSET Regions
    /\ fullDamage \in BOOLEAN

Submissions == [submitted : Serials \cup {0}, generation : Nat, abandoned : Nat]

WorkerType ==
    /\ completions \in Seq(Serials)
    /\ wFrame \in Submissions
    /\ wFrame.submitted # 0 => wFrame.generation \in Generations
    /\ pings \in Nat

SocketType ==
    /\ toHelper \in Seq(CoreMessage)
    /\ toCore \in Seq(HelperMessages)

SessionType == HelperTypeOK /\ QueueInv /\ WorkerType /\ CoreType /\ SocketType

-----------------------------------------------------------------------------
(***************************************************************************)
(* The client.                                                             *)
(***************************************************************************)
\* What the helper says of a generation or of a heartbeat is in range.
LEMMA HelperFields ==
    ASSUME NEW m \in HelperMessages
    PROVE  /\ m.type \in {"ready", "suspend", "resume", "input", "complete"}
                  => m.generation \in Generations
           /\ m.type = "complete" => m.serial \in Serials
           /\ m.type = "ping" => m.token \in Tokens
BY DEF HelperMessages, ControlMessages, ReadyMessage, ResumeMessage, SuspendMessage,
       FrameComplete, Ping, ShutdownAccepted, Fatal, InputMessage

LEMMA NoFrameFits == FrameFits(NoFrame) /\ StagedFits(<< >>, NoFrame)
BY DEF NoFrame, FrameFits, CoreFrames, Phases, StagedFits

\* A failed client has nothing left to send.
LEMMA FailType ==
    ASSUME ClientType, NEW cause, fail_client(cause), UNCHANGED cGeneration
    PROVE  ClientType'
BY NoFrameFits DEF ClientType, fail_client, States

\* An event is queued, or the client fails.
LEMMA PushEffect ==
    ASSUME NEW queue, NEW e, NEW state, NEW frm, push_event(queue, e, state, frm)
    PROVE  \/ /\ events' = Append(queue, e) /\ cState' = state /\ cFrame' = frm
              /\ UNCHANGED <<controls, wire, cError>>
           \/ fail_client("event_overflow")
BY DEF push_event

LEMMA PushType ==
    ASSUME ClientType, NEW queue, NEW e, NEW state \in States, NEW frm,
           push_event(queue, e, state, frm), FrameFits(frm), StagedFits(wire, frm),
           cGeneration' \in Generations \cup {0},
           cGeneration' = 0 => state \in {"suspended", "failed"}
    PROVE  ClientType'
<1>1. CASE /\ cState' = state /\ cFrame' = frm
           /\ UNCHANGED <<controls, wire, cError>>
  BY <1>1 DEF ClientType
<1>2. CASE fail_client("event_overflow")
  BY <1>2, NoFrameFits DEF ClientType, fail_client, States
<1> QED
  BY <1>1, <1>2, PushEffect

\* A frame given up is still a frame that fits what is staged.
LEMMA AbortedFits ==
    ASSUME ClientType
    PROVE  FrameFits(AbortedFrame) /\ StagedFits(wire, AbortedFrame)
<1>1. /\ FrameFits(cFrame) /\ StagedFits(wire, cFrame) /\ cFrame \in CoreFrames
      /\ cFrame.phase \in Phases /\ cFrame.begun \in BOOLEAN
  BY DEF ClientType, FrameFits, CoreFrames
<1>2. /\ WireType \in {"begin", "data", "commit", "abort"} =>
            /\ cFrame.phase = WireType /\ wire # << >> /\ wire[1].type = WireType
      /\ cFrame.phase \in {"data", "commit", "abort", "wait"} => cFrame.begun
  BY <1>1 DEF StagedFits, FrameFits, WireType
<1>3. CASE cFrame.phase = "none"
  BY <1>1, <1>2, <1>3 DEF AbortedFrame
<1>4. CASE WireType = "commit"
  <2>1. AbortedFrame = [cFrame EXCEPT !.cancel = TRUE, !.drop = TRUE]
    BY <1>1, <1>2, <1>4 DEF AbortedFrame
  <2> QED
    BY <1>1, <2>1 DEF FrameFits, StagedFits, CoreFrames
<1>5. CASE cFrame.phase = "wait" \/ (cFrame.phase = "begin" /\ ~cFrame.begun /\ WireType # "begin")
  <2>1. AbortedFrame = NoFrame
    BY <1>2, <1>5 DEF AbortedFrame
  <2>2. wire # << >> => wire[1].type \notin {"begin", "data", "commit", "abort"}
    BY <1>2, <1>5 DEF WireType
  <2> QED
    BY <1>1, <2>1, <2>2, NoFrameFits DEF StagedFits
<1>6. CASE /\ cFrame.phase \notin {"none", "wait"} /\ WireType # "commit"
           /\ cFrame.begun \/ WireType = "begin"
  <2>1. AbortedFrame = [cFrame EXCEPT !.cancel = TRUE,
                          !.phase = IF WireType \in {"begin", "data"} THEN @ ELSE "abort"]
    BY <1>2, <1>6 DEF AbortedFrame
  <2>2. CASE WireType \in {"begin", "data"}
    <3>1. AbortedFrame = [cFrame EXCEPT !.cancel = TRUE]
      BY <1>1, <2>1, <2>2 DEF CoreFrames
    <3> QED
      BY <1>1, <3>1 DEF FrameFits, StagedFits, CoreFrames
  <2>3. CASE WireType \notin {"begin", "data"}
    <3>1. AbortedFrame = [cFrame EXCEPT !.cancel = TRUE, !.phase = "abort"]
      BY <2>1, <2>3
    <3>2. wire # << >> => wire[1].type \notin {"begin", "data", "commit"}
      BY <1>6, <2>3 DEF WireType
    <3> QED
      BY <1>1, <1>2, <1>6, <2>3, <3>1, <3>2 DEF FrameFits, StagedFits, CoreFrames, Phases
  <2> QED
    BY <2>2, <2>3
<1>7. \/ cFrame.phase = "none" \/ WireType = "commit" \/ cFrame.phase = "wait"
      \/ cFrame.phase = "begin" /\ ~cFrame.begun /\ WireType # "begin"
      \/ /\ cFrame.phase \notin {"none", "wait"} /\ WireType # "commit"
         /\ cFrame.begun \/ WireType = "begin"
  BY <1>1, <1>2 DEF Phases
<1> QED
  BY <1>3, <1>4, <1>5, <1>6, <1>7

\* Every kind of message of the core, with what the parser asks of it.
LEMMA CoreMessagesAre ==
    /\ \A t \in BOOLEAN : Hello(t) \in CoreMessage
    /\ ShutdownRequest \in CoreMessage
    /\ \A t \in Tokens : Pong(t) \in CoreMessage
    /\ \A g \in Generations, s \in Serials :
          /\ Commit(g, s) \in CoreMessage /\ Abort(g, s) \in CoreMessage
          /\ \A o \in SUBSET Regions, r \in Regions : Data(g, s, o, r) \in CoreMessage
          /\ \A d \in SUBSET Regions, w \in BOOLEAN :
                d # {} /\ (w => d = Regions) => Begin(g, s, d, w, TRUE) \in CoreMessage
<1>1. \A t \in BOOLEAN : Hello(t) \in CoreMessage
  BY DEF CoreMessage, CoreMessages, Hellos
<1>2. ShutdownRequest \in CoreMessage
  BY DEF CoreMessage, CoreMessages
<1>3. \A t \in Tokens : Pong(t) \in CoreMessage
  BY DEF CoreMessage, CoreMessages, Pongs
<1>4. ASSUME NEW g \in Generations, NEW s \in Serials
      PROVE  /\ Commit(g, s) \in CoreMessage /\ Abort(g, s) \in CoreMessage
             /\ \A o \in SUBSET Regions, r \in Regions : Data(g, s, o, r) \in CoreMessage
             /\ \A d \in SUBSET Regions, w \in BOOLEAN :
                  d # {} /\ (w => d = Regions) => Begin(g, s, d, w, TRUE) \in CoreMessage
  <2>1. Commit(g, s) \in CoreMessage /\ Abort(g, s) \in CoreMessage
    BY DEF CoreMessage, CoreMessages, Ends
  <2>2. ASSUME NEW o \in SUBSET Regions, NEW r \in Regions
        PROVE  Data(g, s, o, r) \in CoreMessage
    BY DEF CoreMessage, CoreMessages, Pieces
  <2>3. ASSUME NEW d \in SUBSET Regions, NEW w \in BOOLEAN, d # {}, w => d = Regions
        PROVE  Begin(g, s, d, w, TRUE) \in CoreMessage
    BY <2>3 DEF CoreMessage, CoreMessages, Begins, Begin, Damage
  <2> QED
    BY <2>1, <2>2, <2>3
<1> QED
  BY <1>1, <1>2, <1>3, <1>4

\* Staging takes the next message, which is well formed and of the frame's phase.
LEMMA NextFits ==
    ASSUME ClientType, NextMessage # << >>
    PROVE  StagedFits(NextMessage, cFrame)
<1>1. FrameFits(cFrame) /\ controls \in Seq(Waiting)
  BY DEF ClientType
<1>2. CASE controls # << >>
  <2>1. NextMessage = <<Head(controls)>> /\ Head(controls) \in Waiting
    BY <1>1, <1>2 DEF NextMessage
  <2>2. \A m \in Waiting : m \in CoreMessage /\ m.type \in {"hello", "pong"}
    BY DEF Waiting, Hellos, Pongs, Hello, Pong, CoreMessage, CoreMessages
  <2> QED
    BY <2>1, <2>2 DEF StagedFits
<1>3. CASE controls = << >> /\ ShutdownDue
  <2>1. NextMessage = <<ShutdownRequest>> /\ ShutdownRequest.type = "shutdown"
    BY <1>3 DEF NextMessage, ShutdownRequest
  <2> QED
    BY <2>1, CoreMessagesAre DEF StagedFits
<1>4. CASE controls = << >> /\ ~ShutdownDue
  <2> DEFINE g == cFrame.generation
             s == cFrame.serial
  <2>0. /\ cFrame.phase \in {"begin", "data", "commit", "abort"}
        /\ g \in Generations /\ s \in Serials
        /\ cFrame.damage \in SUBSET Regions /\ cFrame.offset \in SUBSET Regions
        /\ cFrame.whole \in BOOLEAN /\ cFrame.damage # {}
        /\ cFrame.whole => cFrame.damage = Regions
    BY <1>1, <1>4 DEF NextMessage, FrameFits, CoreFrames, Phases
  <2>1. CASE cFrame.phase = "begin"
    <3> DEFINE m == Begin(g, s, cFrame.damage, cFrame.whole, TRUE)
    <3>1. NextMessage = <<m>>
      BY <1>4, <2>1 DEF NextMessage
    <3>2. m \in CoreMessage
      BY <2>0, CoreMessagesAre
    <3>3. m.type = "begin"
      BY DEF Begin
    <3> HIDE DEF m
    <3> QED
      BY <2>1, <3>1, <3>2, <3>3 DEF StagedFits
  <2>2. CASE cFrame.phase = "data"
    <3> DEFINE m == Data(g, s, cFrame.offset, NextPiece)
    <3>0. cFrame.damage \ cFrame.offset # {}
      BY <1>1, <2>2 DEF FrameFits
    <3>1. NextPiece \in cFrame.damage \ cFrame.offset
      BY <3>0 DEF NextPiece
    <3>2. NextMessage = <<m>>
      BY <1>4, <2>2 DEF NextMessage
    <3>3. m \in CoreMessage
      BY <2>0, <3>1, CoreMessagesAre
    <3>4. m.type = "data" /\ m.region = NextPiece
      BY DEF Data
    <3> HIDE DEF m
    <3> QED
      BY <2>2, <3>1, <3>2, <3>3, <3>4 DEF StagedFits
  <2>3. CASE cFrame.phase = "commit"
    <3>1. NextMessage = <<Commit(g, s)>> /\ Commit(g, s).type = "commit"
      BY <1>4, <2>3 DEF NextMessage, Commit
    <3>2. Commit(g, s) \in CoreMessage
      BY <2>0, CoreMessagesAre
    <3> QED
      BY <2>3, <3>1, <3>2 DEF StagedFits
  <2>4. CASE cFrame.phase = "abort"
    <3>1. NextMessage = <<Abort(g, s)>> /\ Abort(g, s).type = "abort"
      BY <1>4, <2>4 DEF NextMessage, Abort
    <3>2. Abort(g, s) \in CoreMessage
      BY <2>0, CoreMessagesAre
    <3> QED
      BY <2>4, <3>1, <3>2 DEF StagedFits
  <2> QED
    BY <2>0, <2>1, <2>2, <2>3, <2>4
<1> QED
  BY <1>2, <1>3, <1>4

\* What is left of the controls is controls.
LEMMA ControlsLeft ==
    ASSUME ClientType
    PROVE  ControlsAfterStaging \in Seq(Waiting)
BY DEF ClientType, ControlsAfterStaging

\* The frame after its message has gone.
LEMMA FrameAfterFits ==
    ASSUME NEW m, FrameFits(cFrame), StagedFits(<<m>>, cFrame)
    PROVE  FrameFits(FrameAfter(m))
<1>1. /\ m \in CoreMessage
      /\ m.type \in {"begin", "data", "commit", "abort"} => cFrame.phase = m.type
      /\ m.type = "data" => m.region \in cFrame.damage \ cFrame.offset
      /\ cFrame \in CoreFrames
  BY DEF StagedFits, FrameFits
<1>2. CASE m.type = "begin"
  <2> DEFINE phase == IF cFrame.cancel THEN "abort" ELSE "data"
  <2>1. FrameAfter(m) = [cFrame EXCEPT !.begun = TRUE, !.phase = phase]
    BY <1>2 DEF FrameAfter
  <2>2. phase \in {"abort", "data"}
    OBVIOUS
  <2> HIDE DEF phase
  <2> QED
    BY <1>1, <1>2, <2>1, <2>2 DEF FrameFits, CoreFrames, Phases
<1>3. CASE m.type = "data"
  <2> DEFINE sent == cFrame.offset \cup {m.region}
             phase == IF cFrame.cancel THEN "abort"
                      ELSE IF sent = cFrame.damage THEN "commit" ELSE "data"
  <2>1. FrameAfter(m) = [cFrame EXCEPT !.offset = sent, !.phase = phase]
    BY <1>1, <1>3 DEF FrameAfter, CoreFrames
  <2>2. /\ phase \in {"abort", "data", "commit"} /\ (phase = "data" => sent # cFrame.damage)
    OBVIOUS
  <2>3. sent \in SUBSET Regions /\ sent \subseteq cFrame.damage
    BY <1>1, <1>3 DEF FrameFits, CoreFrames, Phases
  <2> HIDE DEF phase, sent
  <2> QED
    BY <1>1, <1>3, <2>1, <2>2, <2>3 DEF FrameFits, CoreFrames, Phases
<1>4. CASE m.type = "commit"
  <2>1. CASE cFrame.drop
    BY <1>4, <2>1, NoFrameFits DEF FrameAfter
  <2>2. CASE ~cFrame.drop
    <3>1. FrameAfter(m) = [cFrame EXCEPT !.offset = {}, !.phase = "wait"]
      BY <1>4, <2>2 DEF FrameAfter
    <3> QED
      BY <1>1, <1>4, <3>1 DEF FrameFits, CoreFrames, Phases
  <2> QED
    BY <2>1, <2>2
<1>5. CASE m.type = "abort"
  BY <1>5, NoFrameFits DEF FrameAfter
<1>6. CASE m.type \notin {"begin", "data", "commit", "abort"}
  BY <1>6 DEF FrameAfter
<1> QED
  BY <1>2, <1>3, <1>4, <1>5, <1>6

\* What leaves the client is well formed.
LEMMA SendType ==
    ASSUME ClientType, SendMessage
    PROVE  Outgoing[1] \in CoreMessage /\ ClientType'
<1>1. Outgoing # << >> /\ StagedFits(Outgoing, cFrame)
  BY NextFits DEF SendMessage, Outgoing, ClientType
<1> DEFINE m == Outgoing[1]
<1>2. Outgoing = <<m>> /\ m \in CoreMessage
  BY <1>1 DEF StagedFits
<1>3. FrameFits(FrameAfter(m))
  BY <1>1, <1>2, FrameAfterFits DEF ClientType
<1>4. /\ wire' = << >> /\ controls' = ControlsAfterStaging /\ cFrame' = FrameAfter(m)
      /\ UNCHANGED <<cGeneration, cState>>
  BY DEF SendMessage, ownershipVars
<1> HIDE DEF m
<1>5. StagedFits(wire', cFrame')
  BY <1>4 DEF StagedFits
<1> QED
  BY <1>2, <1>3, <1>4, <1>5, ControlsLeft DEF ClientType, m

LEMMA StageType ==
    ASSUME ClientType, StageMessage
    PROVE  ClientType'
BY NextFits, ControlsLeft DEF ClientType, StageMessage, ownershipVars

\* A message of the helper, refused or handled.
LEMMA ReceiveClientType ==
    ASSUME ClientType, NEW m \in HelperMessages, ClientReceive(m)
    PROVE  ClientType'
<1>0. /\ FrameFits(cFrame) /\ StagedFits(wire, cFrame)
      /\ cState \in States /\ cGeneration \in Generations \cup {0}
      /\ cGeneration = 0 => cState \in {"suspended", "failed"}
      /\ 0 \notin Generations
  BY DEF ClientType, Generations
<1>1. CASE OutOfOrder
  BY <1>1, FailType DEF OutOfOrder, ownershipVars
<1>2. CASE UNCHANGED <<cGeneration, failVars>>
  BY <1>2 DEF ClientType, failVars
<1>3. CASE m.type = "ready" /\ handle_ready(m)
  <2>1. CASE ~(helloSent /\ ~hasOutput /\ cState = "suspended")
    BY <1>1, <1>3, <2>1 DEF handle_ready
  <2>2. CASE helloSent /\ ~hasOutput /\ cState = "suspended"
    <3>1. m.generation \in Generations
      BY <1>3, HelperFields
    <3>2. cGeneration' = m.generation /\ push_event(events, Event("output"), "active", cFrame)
      BY <1>3, <2>2 DEF handle_ready
    <3> QED
      BY <1>0, <3>1, <3>2, PushType DEF States
  <2> QED
    BY <2>1, <2>2
<1>4. CASE m.type = "suspend" /\ handle_suspend(m)
  <2>1. CASE ~ExpectedSuspend(m)
    BY <1>1, <1>4, <2>1 DEF handle_suspend
  <2>2. CASE ExpectedSuspend(m)
    <3>1. m.generation \in Generations /\ cGeneration' = m.generation
      BY <1>4, <2>2, HelperFields DEF handle_suspend
    <3>2. CASE cState = "active"
      <4>1. push_event(discard_queued_input(events), Event("release"),
                       "release_pending", AbortedFrame)
        BY <1>4, <2>2, <3>2 DEF handle_suspend
      <4> QED
        BY <1>0, <3>1, <4>1, PushType, AbortedFits DEF States
    <3>3. CASE cState # "active"
      <4>1. cFrame' = AbortedFrame /\ UNCHANGED <<cState, controls, wire, cError>>
        BY <1>4, <2>2, <3>3 DEF handle_suspend
      <4> QED
        BY <1>0, <3>1, <4>1, AbortedFits DEF ClientType
    <3> QED
      BY <3>2, <3>3
  <2> QED
    BY <2>1, <2>2
<1>5. CASE m.type = "resume" /\ handle_resume(m)
  <2>1. CASE ~ExpectedResume(m)
    BY <1>1, <1>5, <2>1 DEF handle_resume
  <2>2. CASE ExpectedResume(m)
    <3>1. m.generation \in Generations /\ cGeneration = m.generation /\ cGeneration' = cGeneration
      BY <1>5, <2>2, HelperFields DEF handle_resume, ExpectedResume
    <3>2. CASE cState = "suspended"
      <4>1. push_event(events, Event("acquire"), "acquire_pending", cFrame)
        BY <1>5, <2>2, <3>2 DEF handle_resume
      <4> QED
        BY <1>0, <3>1, <4>1, PushType DEF States
    <3>3. CASE cState # "suspended"
      BY <1>2, <1>5, <2>2, <3>3 DEF handle_resume
    <3> QED
      BY <3>2, <3>3
  <2> QED
    BY <2>1, <2>2
<1>6. CASE handle_input(m)
  <2>1. CASE ~input_message_is_valid(m)
    BY <1>1, <1>6, <2>1 DEF handle_input
  <2>2. CASE input_message_is_valid(m) /\ push_input_event(InputEvent(m.generation))
    <3>1. cGeneration' = cGeneration
      BY <1>6, <2>2 DEF handle_input, ownershipVars
    <3>2. CASE \E queue : push_event(queue, InputEvent(m.generation), cState, cFrame)
      BY <1>0, <3>1, <3>2, PushType
    <3>3. CASE UNCHANGED failVars
      BY <1>2, <3>1, <3>3
    <3> QED
      BY <2>2, <3>2, <3>3 DEF push_input_event
  <2>3. CASE input_message_is_valid(m) /\ UNCHANGED <<events, failVars>>
    BY <1>2, <1>6, <2>3 DEF handle_input, ownershipVars
  <2> QED
    BY <1>6, <2>1, <2>2, <2>3 DEF handle_input
<1>7. CASE handle_frame_complete(m)
  <2>1. CASE OutOfOrder
    BY <1>1, <2>1
  <2>2. CASE UNCHANGED ownershipVars
             /\ push_event(events, CompleteEvent(cFrame.serial), cState, NoFrame)
             /\ cFrame.phase = "wait"
    <3>1. StagedFits(wire, NoFrame)
      BY <1>0, <2>2 DEF StagedFits
    <3> QED
      BY <1>0, <2>2, <3>1, PushType, NoFrameFits DEF ownershipVars
  <2> QED
    BY <1>7, <2>1, <2>2 DEF handle_frame_complete
<1>8. CASE m.type = "ping" /\ handle_ping(m)
  <2>0. cGeneration' = cGeneration
    BY <1>8 DEF handle_ping, ownershipVars
  <2>1. CASE UNCHANGED failVars
    BY <1>2, <2>0, <2>1
  <2>2. CASE fail_client("control_overflow")
    BY <2>0, <2>2, FailType
  <2>3. CASE controls' = Append(controls, Pong(m.token)) /\ UNCHANGED <<cState, wire, cFrame, cError>>
    <3>1. Pong(m.token) \in Waiting
      BY <1>8, HelperFields DEF Waiting, Pongs
    <3>2. controls' \in Seq(Waiting)
      BY <2>3, <3>1 DEF ClientType
    <3> QED
      BY <1>0, <2>0, <2>3, <3>2 DEF ClientType
  <2> QED
    BY <1>8, <2>1, <2>2, <2>3 DEF handle_ping
<1>9. CASE handle_shutdown_accepted
  <2>1. CASE OutOfOrder
    BY <1>1, <2>1
  <2>2. CASE UNCHANGED <<ownershipVars, failVars>>
    BY <1>2, <2>2 DEF ownershipVars
  <2> QED
    BY <1>9, <2>1, <2>2 DEF handle_shutdown_accepted
<1>10. CASE handle_fatal(m)
  <2>1. CASE OutOfOrder
    BY <1>1, <2>1
  <2>2. CASE fail_client("fatal") /\ UNCHANGED ownershipVars
    BY <2>2, FailType DEF ownershipVars
  <2> QED
    BY <1>10, <2>1, <2>2 DEF handle_fatal
<1>11. m.type \in {"ready", "suspend", "resume", "input", "complete", "ping", "accepted", "fatal"}
  BY DEF HelperMessages, ControlMessages, ReadyMessage, ResumeMessage, SuspendMessage,
         FrameComplete, Ping, ShutdownAccepted, Fatal, InputMessage
<1> QED
  BY <1>3, <1>4, <1>5, <1>6, <1>7, <1>8, <1>9, <1>10, <1>11 DEF ClientReceive

\* A frame presented is one the helper may see.
LEMMA PresentFits ==
    ASSUME ClientType, NEW serial \in Serials, NEW d \in SUBSET Regions, NEW whole \in BOOLEAN,
           d # {}, whole => d = Regions, present(serial, d, whole)
    PROVE  ClientType'
<1>1. /\ cGeneration \in Generations /\ cFrame.phase = "none"
      /\ cFrame' = [NoFrame EXCEPT !.phase = "begin", !.generation = cGeneration,
                                   !.serial = serial, !.damage = d, !.whole = whole]
      /\ UNCHANGED <<cGeneration, cState, controls, wire>>
  BY DEF present, PresentableState, ClientType, ownershipVars
<1>2. FrameFits(cFrame')
  BY <1>1, Ranges DEF FrameFits, NoFrame, CoreFrames, Phases
<1>3. StagedFits(wire', cFrame')
  BY <1>1 DEF ClientType, StagedFits
<1> QED
  BY <1>1, <1>2, <1>3 DEF ClientType

\* The answers to a release and to an acquire.
LEMMA AnswerType ==
    ASSUME ClientType, UNCHANGED cGeneration, NEW rest,
           complete_console_release(rest) \/ complete_console_acquire(rest)
    PROVE  ClientType'
<1>0. /\ FrameFits(cFrame) /\ StagedFits(wire, cFrame)
      /\ cGeneration \in Generations
  BY DEF ClientType, complete_console_release, complete_console_acquire
<1>1. CASE \E e : \E state \in {"acquire_pending", "release_pending"} :
              push_event(rest, e, state, cFrame)
  BY <1>0, <1>1, PushType DEF States, Generations
<1>2. CASE cState' \in {"suspended", "active"} /\ UNCHANGED <<controls, wire, cFrame, cError>>
  BY <1>0, <1>2 DEF ClientType, States, Generations
<1> QED
  BY <1>1, <1>2 DEF complete_console_release, complete_console_acquire

-----------------------------------------------------------------------------
(***************************************************************************)
(* The core.                                                               *)
(***************************************************************************)
ClientStays == UNCHANGED <<cGeneration, cState, controls, wire, cFrame>>

LEMMA StaysType == ASSUME ClientType, ClientStays PROVE ClientType'
BY DEF ClientType, ClientStays

\* A desktop drawn is presented with damage the helper accepts.
LEMMA PresentType ==
    ASSUME CoreType, NEW whole \in BOOLEAN, NEW dirty \in SUBSET Regions, whole \/ dirty # {},
           present_desktop(dirty, whole), nextSerial <= MaxFrame, corePc' = "loop"
    PROVE  CoreType'
<1> DEFINE d == IF whole THEN Regions ELSE dirty
<1>1. nextSerial \in Serials
  BY SessionAssumption, CoreAssumption, HelperAssumption DEF CoreType, Serials
<1>2. d \in SUBSET Regions /\ d # {} /\ (whole => d = Regions)
  BY SessionAssumption
<1>3. present(nextSerial, d, whole)
  BY DEF present_desktop
<1> HIDE DEF d
<1>4. ClientType'
  BY <1>1, <1>2, <1>3, PresentFits DEF CoreType
<1>5. nextSerial' = nextSerial + 1 /\ damage' = {} /\ fullDamage' = FALSE
  BY DEF present_desktop
<1>6. nextSerial' \in Nat \ {0}
  BY <1>5 DEF CoreType
<1> QED
  BY <1>4, <1>5, <1>6 DEF CoreType

\* Whatever the core does, its state and what it writes are well formed.
LEMMA CoreStepType ==
    ASSUME CoreType, SocketType, CoreStep \/ CoreChoice
    PROVE  CoreType' /\ SocketType'
<1> DEFINE Drawn == UNCHANGED <<nextSerial, damage, fullDamage>>
                    /\ (corePc' = corePc \/ corePc' = "stopped")
           Piped == UNCHANGED <<toHelper, toCore>>
<1>0. ClientType /\ SocketType
  BY DEF CoreType
<1>1. ASSUME ClientType', Drawn PROVE CoreType'
  BY <1>1 DEF CoreType
<1>2. ASSUME Piped PROVE SocketType'
  BY <1>2 DEF SocketType
<1>3. CASE CoreRead
  <2>1. Head(toCore) \in HelperMessages /\ toCore' \in Seq(HelperMessages)
    BY <1>3 DEF CoreRead, SocketType
  <2>2. ClientType'
    BY <1>0, <1>3, <2>1, ReceiveClientType DEF CoreRead
  <2> QED
    BY <1>1, <1>3, <2>1, <2>2 DEF CoreRead, SocketType, coreVars, drawVars
<1>4. CASE CoreReadsEnd \/ CoreWriteFails
  <2>1. ClientType'
    BY <1>0, <1>4, FailType
       DEF CoreReadsEnd, CoreWriteFails, ClientDisconnected, ownershipVars
  <2> QED
    BY <1>1, <1>2, <1>4, <2>1 DEF CoreReadsEnd, CoreWriteFails, coreVars, drawVars, socketVars
<1>5. CASE CoreWrite
  <2>1. Outgoing[1] \in CoreMessage /\ ClientType'
    BY <1>0, <1>5, SendType DEF CoreWrite
  <2> QED
    BY <1>1, <1>5, <2>1 DEF CoreWrite, SocketType, coreVars, drawVars
<1>6. CASE CoreWriteBlocks
  <2>1. ClientType'
    BY <1>0, <1>6, StageType DEF CoreWriteBlocks
  <2> QED
    BY <1>1, <1>2, <1>6, <2>1 DEF CoreWriteBlocks, coreVars, drawVars, socketVars
<1>7. CASE CoreIsReady
  <2>1. ClientType'
    BY <1>0, <1>7, StaysType DEF CoreIsReady, ClientStays, ownershipVars, failVars
  <2> QED
    BY <1>2, <1>7, <2>1 DEF CoreIsReady, CoreType, drawVars, socketVars
<1>8. CASE CoreStarts
  <2>0. SocketType'
    BY <1>2, <1>8 DEF CoreStarts, socketVars
  <2>1. CASE PresentableState /\ MaxFrame > 0
    <3>1. present_desktop({}, TRUE) /\ corePc' = "loop"
      BY <1>8, <2>1 DEF CoreStarts
    <3>2. nextSerial <= MaxFrame
      BY <1>8, <2>1, CoreAssumption DEF CoreStarts, CoreType
    <3> QED
      BY <2>0, <3>1, <3>2, PresentType
  <2>2. CASE ~(PresentableState /\ MaxFrame > 0)
    <3>1. ClientType'
      BY <1>0, <1>8, <2>2, StaysType
         DEF CoreStarts, ClientStays, clientVars, ownershipVars, failVars
    <3> QED
      BY <1>8, <2>0, <2>2, <3>1 DEF CoreStarts, CoreType
  <2> QED
    BY <2>1, <2>2
<1>9. CASE CorePresents
  <2>1. SocketType' /\ nextSerial <= MaxFrame /\ corePc' = "loop"
        /\ present_desktop(damage, fullDamage)
    BY <1>2, <1>9 DEF CorePresents, CanPresent, socketVars
  <2>2. damage \in SUBSET Regions /\ fullDamage \in BOOLEAN /\ (fullDamage \/ damage # {})
    BY <1>9 DEF CorePresents, CanPresent, redrawNeeded, CoreType
  <2> QED
    BY <2>1, <2>2, PresentType
<1>10. CASE CoreReleases \/ CoreAcquires
  <2>1. ClientType'
    BY <1>0, <1>10, AnswerType DEF CoreReleases, CoreAcquires, ownershipVars
  <2> QED
    BY <1>2, <1>10, <2>1 DEF CoreReleases, CoreAcquires, Stay, TakesEvent, CoreType
<1>11. CASE CoreHandlesInput
  <2>1. ClientType'
    BY <1>0, <1>11, StaysType DEF CoreHandlesInput, ClientStays, ownershipVars, failVars
  <2> QED
    BY <1>1, <1>2, <1>11, <2>1 DEF CoreHandlesInput, coreVars, drawVars, socketVars
<1>12. CASE CoreFrameCompletes \/ CoreQuits
  <2>1. ClientType'
    BY <1>0, <1>12, StaysType
       DEF CoreFrameCompletes, CoreQuits, ClientStays, ownershipVars, failVars
  <2> QED
    BY <1>1, <1>2, <1>12, <2>1 DEF CoreFrameCompletes, CoreQuits, drawVars, Stay, Exit
<1>13. CASE CoreFails \/ CoreTimesOut \/ CoreCrashes
  <2>1. ClientType'
    BY <1>0, <1>13, StaysType
       DEF CoreFails, CoreTimesOut, CoreCrashes, ClientStays, clientVars, ownershipVars, failVars
  <2> QED
    BY <1>1, <1>2, <1>13, <2>1 DEF CoreFails, CoreTimesOut, CoreCrashes, drawVars, Exit
<1>14. CASE CoreDraws
  <2>1. ClientType'
    BY <1>0, <1>14, StaysType
       DEF CoreDraws, ClientStays, clientVars, ownershipVars, failVars
  <2>2. damage' \in SUBSET Regions /\ fullDamage' \in BOOLEAN
    BY <1>14 DEF CoreDraws, CoreType
  <2> QED
    BY <1>2, <1>14, <2>1, <2>2 DEF CoreDraws, CoreType, socketVars
<1>15. CASE CoreLogsOut
  <2>1. ClientType'
    BY <1>0, <1>15, StaysType DEF CoreLogsOut, ClientStays, ownershipVars, failVars
  <2> QED
    BY <1>2, <1>15, <2>1 DEF CoreLogsOut, CoreType, socketVars
<1> QED
  BY <1>3, <1>4, <1>5, <1>6, <1>7, <1>8, <1>9, <1>10, <1>11, <1>12, <1>13, <1>14, <1>15
     DEF CoreStep, CoreChoice

-----------------------------------------------------------------------------
(***************************************************************************)
(* The worker.                                                             *)
(***************************************************************************)
\* Whatever the worker does, the helper takes a step of its own or none.
LEMMA WorkerStepsHelper ==
    ASSUME WorkerType, SocketType, WorkerStep
    PROVE  [HelperNext]_helperVars
<1>1. CASE WorkerDrain
  <2>1. Head(toHelper) \in CoreMessage
    BY <1>1 DEF WorkerDrain, SocketType
  <2>2. Receive(Head(toHelper), HostPresents(Head(toHelper)))
    BY <1>1 DEF WorkerDrain
  <2>3. HostPresents(Head(toHelper)) \in BOOLEAN
    BY DEF HostPresents
  <2> QED
    BY <2>1, <2>2, <2>3 DEF HelperNext, FromCore
<1>2. CASE WorkerInput
  BY <1>2 DEF WorkerInput, HelperNext, FromWorker
<1>3. CASE WorkerFlush
  BY <1>3 DEF WorkerFlush, HelperNext, FromWorker
<1>4. CASE WorkerFlushBlocked
  BY <1>4 DEF WorkerFlushBlocked, HelperNext, FromWorker
<1>5. CASE WorkerTakePong \/ WorkerExpires
  BY <1>5 DEF WorkerTakePong, WorkerExpires, HelperNext, FromWorker
<1>6. CASE WorkerPing
  <2>1. pings + 1 \in Tokens
    BY <1>6, SessionAssumption, WorkerAssumption DEF WorkerPing, WorkerType
  <2> QED
    BY <1>6, <2>1 DEF WorkerPing, HelperNext, FromWorker
<1>7. CASE WorkerRelease
  BY <1>7 DEF WorkerRelease, HelperNext, FromWorker, SuspendScreen
<1>8. CASE WorkerAcquire
  BY <1>8 DEF WorkerAcquire, HelperNext, FromWorker
<1>9. CASE WorkerComplete
  <2> DEFINE serial == Head(completions)
  <2>1. serial \in Serials
    BY <1>9 DEF WorkerComplete, WorkerType
  <2>2. CASE complete_frame(wFrame.generation, serial) /\ serial = wFrame.submitted
    <3>1. wFrame.generation \in Generations
      BY <2>1, <2>2 DEF WorkerType, Serials
    <3> QED
      BY <2>1, <2>2, <3>1 DEF HelperNext, FromWorker
  <2>3. CASE UNCHANGED helperVars
    BY <2>3
  <2> QED
    BY <1>9, <2>2, <2>3 DEF WorkerComplete
<1>10. CASE UNCHANGED helperVars
  BY <1>10
<1> QED
  BY <1>1, <1>2, <1>3, <1>4, <1>5, <1>6, <1>7, <1>8, <1>9, <1>10
     DEF WorkerStep, WorkerCoreGone, WorkerDrained, WorkerEmergency, WorkerInputDone,
         WorkerFlushDone, WorkerFlushFails, WorkerNoPing, WorkerReleaseFails,
         WorkerAcquireFails, WorkerNoEvent

\* The worker's own state and what it writes are well formed.
LEMMA WorkerStepType ==
    ASSUME HelperTypeOK, QueueInv, WorkerType, SocketType, WorkerStep
    PROVE  WorkerType' /\ SocketType'
<1> DEFINE Held == UNCHANGED <<completions, wFrame, pings>>
           Piped == UNCHANGED <<toHelper, toCore>>
<1>1. ASSUME Held PROVE WorkerType'
  BY <1>1 DEF WorkerType
<1>2. ASSUME Piped PROVE SocketType'
  BY <1>2 DEF SocketType
<1>3. CASE WorkerDrain
  <2> DEFINE m == Head(toHelper)
  <2>1. m \in CoreMessage /\ toHelper' \in Seq(CoreMessage) /\ toCore' = toCore /\ pings' = pings
    BY <1>3 DEF WorkerDrain, SocketType
  <2>2. CASE UNCHANGED <<completions, wFrame>>
    BY <1>1, <2>1, <2>2 DEF SocketType
  <2>3. CASE /\ ReachesPresent(m) /\ completions' = Append(completions, m.serial)
             /\ wFrame' = [wFrame EXCEPT !.submitted = m.serial, !.generation = generation]
    <3>1. m.type = "commit"
      BY <2>3 DEF ReachesPresent
    <3>2. m.serial \in Serials
      BY <2>1, <3>1
         DEF CoreMessage, CoreMessages, Hellos, Hello, ShutdownRequest, Pongs, Pong, Begins,
             Pieces, Data, Ends, Commit, Abort
    <3>3. generation \in Generations
      BY DEF HelperTypeOK
    <3> HIDE DEF m
    <3>4. completions' \in Seq(Serials)
      BY <2>3, <3>2 DEF WorkerType
    <3>5. wFrame' \in Submissions /\ wFrame'.generation \in Generations
      BY <2>3, <3>2, <3>3, Ranges DEF WorkerType, Submissions
    <3> QED
      BY <2>1, <3>4, <3>5 DEF WorkerType, SocketType
  <2> QED
    BY <1>3, <2>2, <2>3 DEF WorkerDrain
<1>4. CASE WorkerFlush
  <2>1. Head(outbound) \in Records
    BY <1>4 DEF WorkerFlush, ConsumeHead, QueueInv
  <2>2. Head(outbound).message \in HelperMessages
    BY <2>1 DEF Records
  <2> QED
    BY <1>1, <1>4, <2>2 DEF WorkerFlush, SocketType, workerVars, deviceVars, loopVars
<1>5. CASE WorkerPing
  BY <1>5, SessionAssumption, WorkerAssumption DEF WorkerPing, WorkerType, SocketType, deviceVars
<1>6. CASE WorkerRelease \/ WorkerReleaseFails
  <2>1. wFrame' = frame_abandon(wFrame) /\ UNCHANGED <<completions, pings, toHelper, toCore>>
    BY <1>6 DEF WorkerRelease, WorkerReleaseFails
  <2>2. wFrame' \in Submissions /\ (wFrame'.submitted # 0 => wFrame'.generation \in Generations)
    BY <2>1, Ranges DEF frame_abandon, WorkerType, Submissions
  <2> QED
    BY <1>2, <2>1, <2>2 DEF WorkerType
<1>7. CASE WorkerComplete
  <2>1. completions' \in Seq(Serials) /\ UNCHANGED <<pings, toHelper, toCore>>
    BY <1>7 DEF WorkerComplete, WorkerType
  <2>2. wFrame' = wFrame \/ wFrame' = [wFrame EXCEPT !.submitted = 0]
    BY <1>7 DEF WorkerComplete
  <2>3. wFrame' \in Submissions /\ (wFrame'.submitted # 0 => wFrame'.generation \in Generations)
    BY <2>2 DEF WorkerType, Submissions
  <2> QED
    BY <1>2, <2>1, <2>3 DEF WorkerType
<1>8. CASE WorkerFlushBlocked \/ WorkerExpires \/ WorkerCoreGone \/ WorkerDrained
            \/ WorkerInput \/ WorkerEmergency \/ WorkerInputDone
  BY <1>1, <1>2, <1>8
     DEF WorkerFlushBlocked, WorkerExpires, WorkerCoreGone, WorkerDrained, WorkerInput,
         WorkerEmergency, WorkerInputDone, deviceVars
<1>9. CASE WorkerFlushDone \/ WorkerFlushFails \/ WorkerTakePong \/ WorkerNoPing
            \/ WorkerAcquire \/ WorkerAcquireFails \/ WorkerNoEvent
  BY <1>1, <1>2, <1>9
     DEF WorkerFlushDone, WorkerFlushFails, WorkerTakePong, WorkerNoPing, WorkerAcquire,
         WorkerAcquireFails, WorkerNoEvent, deviceVars, loopVars, workerVars, socketVars
<1> QED
  BY <1>3, <1>4, <1>5, <1>6, <1>7, <1>8, <1>9 DEF WorkerStep

-----------------------------------------------------------------------------
(***************************************************************************)
(* The session's types, and the helper's steps in it.                      *)
(***************************************************************************)
LEMMA SessionSteps ==
    ASSUME SessionType, [Next]_vars
    PROVE  \/ WorkerStep /\ UNCHANGED coreSide
           \/ (CoreStep \/ CoreChoice) /\ UNCHANGED workerSide
           \/ (SwitchAway \/ SwitchBack) /\ UNCHANGED coreSide
           \/ UNCHANGED vars
BY DEF Next, Worker, Core, CoreMay, User, Terminated

LEMMA InitSession == Init => SessionType
<1> SUFFICES ASSUME Init PROVE SessionType
  OBVIOUS
<1>1. HelperInit /\ WorkerInit /\ CoreInit /\ ClientInit /\ SocketInit
  BY DEF Init, WorkerInit, CoreInit
<1>2. HelperTypeOK
  BY <1>1, InitType
<1>3. QueueInv
  BY <1>1 DEF HelperInit, QueueInv, Fresh, Silent
<1>4. WorkerType
  BY <1>1 DEF WorkerInit, WorkerType, Submissions
<1>5. ClientType
  <2> DEFINE first == Hello(TRUE)
  <2>1. first \in Waiting
    BY DEF Waiting, Hellos
  <2>2. controls = <<first>>
    BY <1>1 DEF ClientInit
  <2>3. controls \in Seq(Waiting)
    <3> HIDE DEF first
    <3> QED
      BY <2>1, <2>2
  <2> QED
    BY <1>1, <2>3, NoFrameFits DEF ClientInit, ClientType, States
<1>6. CoreType
  <2>1. nextSerial = 1 /\ damage = {}
    BY <1>1 DEF CoreInit
  <2>2. fullDamage \in BOOLEAN
    BY <1>1, Zenon DEF CoreInit
  <2> QED
    BY <1>5, <2>1, <2>2 DEF CoreType
<1>7. SocketType
  BY <1>1 DEF SocketInit, SocketType
<1> QED
  BY <1>2, <1>3, <1>4, <1>6, <1>7 DEF SessionType

\* A step of the session, as the helper sees it.
LEMMA StepsHelper ==
    ASSUME SessionType, [Next]_vars
    PROVE  [HelperNext]_helperVars
<1>1. CASE WorkerStep
  BY <1>1, WorkerStepsHelper DEF SessionType
<1>2. CASE UNCHANGED helperVars
  BY <1>2
<1> QED
  BY <1>1, <1>2, SessionSteps DEF workerSide, SwitchAway, SwitchBack, vars

LEMMA SessionStep ==
    ASSUME SessionType, [Next]_vars
    PROVE  SessionType'
<1>0. HelperTypeOK /\ QueueInv /\ WorkerType /\ CoreType /\ SocketType
  BY DEF SessionType
<1>1. HelperTypeOK' /\ QueueInv'
  BY <1>0, StepsHelper, StepType, QueueStep
<1>2. CASE WorkerStep /\ UNCHANGED coreSide
  <2>1. CoreType'
    BY <1>0, <1>2 DEF coreSide, clientVars, ownershipVars, failVars, coreVars, drawVars,
                      CoreType, ClientType
  <2> QED
    BY <1>0, <1>1, <1>2, <2>1, WorkerStepType DEF SessionType
<1>3. CASE (CoreStep \/ CoreChoice) /\ UNCHANGED workerSide
  <2>1. WorkerType'
    BY <1>0, <1>3 DEF workerSide, workerVars, deviceVars, loopVars, WorkerType
  <2> QED
    BY <1>0, <1>1, <1>3, <2>1, CoreStepType DEF SessionType
<1>4. CASE (SwitchAway \/ SwitchBack) /\ UNCHANGED coreSide
  <2>1. UNCHANGED <<deviceVars, loopVars, socketVars>>
    BY <1>4 DEF SwitchAway, SwitchBack
  <2> QED
    BY <1>0, <1>1, <1>4, <2>1
       DEF coreSide, clientVars, ownershipVars, failVars, coreVars, drawVars, deviceVars,
           loopVars, socketVars, SessionType, WorkerType, CoreType, ClientType, SocketType
<1>5. CASE UNCHANGED vars
  BY <1>0, <1>1, <1>5
     DEF vars, workerVars, socketVars, clientVars, ownershipVars, failVars, coreVars,
         drawVars, deviceVars, loopVars, SessionType, WorkerType, CoreType, ClientType, SocketType
<1> QED
  BY <1>2, <1>3, <1>4, <1>5, SessionSteps

\* Every message on its way, in either direction and in every queue, is one its
\* reader's parser knows, with generations, serials and tokens in range; so is
\* every frame a side keeps.
THEOREM SessionTypeCorrect == Spec => []SessionType
<1>1. Init => SessionType
  BY InitSession
<1>2. SessionType /\ [Next]_vars => SessionType'
  BY SessionStep
<1> QED
  BY <1>1, <1>2, PTL DEF Spec

\* The worker drives the helper (calls of device_worker.c into privsep_helper.c)
\* only in ways its specification allows.
THEOREM WorkerKeepsHelper == Spec => WorkerKeepsHelperSpec
<1>1. Init => HelperInit
  BY DEF Init, WorkerInit
<1>2. SessionType /\ [Next]_vars => [HelperNext]_helperVars
  BY StepsHelper
<1> QED
  BY <1>1, <1>2, SessionTypeCorrect, PTL DEF Spec, WorkerKeepsHelperSpec, HelperSpec

\* So the screen of a whole session shows only complete frames of the ownership
\* in progress, the first of each replacing it all.
THEOREM SessionImplementsConsoleDisplay == Spec => ImplementsConsoleDisplay
BY WorkerKeepsHelper, HelperImplementsConsoleDisplay, PTL DEF WorkerKeepsHelperSpec

\* What the helper keeps, it keeps in a session.
LEMMA HelperInSession == Spec => [](HelperInv /\ QueueInv)
BY WorkerKeepsHelper, InvAlways, QueueAlways, PTL DEF WorkerKeepsHelperSpec

-----------------------------------------------------------------------------
(***************************************************************************)
(* The calls into the helper, as the display sees them.                    *)
(***************************************************************************)
\* A message leaves picture and presentation alone, ends the helper's work, or
\* presents its frame because the host did.
LEMMA ReceiveOutcome ==
    ASSUME NEW m, NEW presented \in BOOLEAN, Receive(m, presented)
    PROVE  /\ failed => failed'
           /\ shutdownRequested => shutdownRequested'
           /\ \/ UNCHANGED <<screen, generation>>
                 /\ (pending' = pending \/ failed' \/ shutdownRequested')
              \/ presented /\ helloReceived /\ ~shutdownRequested /\ PresentFrame(m)
<1> DEFINE Rest == /\ shutdownRequested => shutdownRequested'
                   /\ UNCHANGED <<screen, generation>>
                   /\ pending' = pending \/ failed' \/ shutdownRequested'
<1>0. ~failed
  BY DEF Receive
<1>1. ASSUME NEW cause, cause # "none", Reject(cause) PROVE Rest
  BY <1>1, FailEffect DEF Reject, pixelVars, sessionVars, controlVars
<1>2. CASE ReceiveHello(m)
  <2>1. UNCHANGED <<pixelVars, generation, controlVars>>
    BY <1>2 DEF ReceiveHello
  <2>2. pending' = pending \/ failed'
    BY <1>2, EnqueueEffect DEF ReceiveHello, queueVars
  <2> QED
    BY <1>0, <2>1, <2>2 DEF pixelVars, controlVars
<1>3. CASE RejectHello(m)
  BY <1>0, <1>1, <1>3 DEF RejectHello
<1>4. CASE \/ helloReceived /\ shutdownRequested /\ Reject("after_shutdown")
           \/ m.type = "hello" /\ Reject("duplicate_hello")
  BY <1>0, <1>1, <1>4
<1>5. CASE handle_frame_begin(m)
  BY <1>0, <1>1, <1>5 DEF handle_frame_begin, sessionVars, pixelVars, controlVars
<1>6. CASE handle_frame_data(m)
  BY <1>0, <1>1, <1>6 DEF handle_frame_data, sessionVars, controlVars
<1>7. CASE helloReceived /\ ~shutdownRequested /\ handle_frame_reference(m, presented)
  <2>1. CASE DropFrame(m)
    BY <1>0, <2>1 DEF DropFrame, sessionVars, controlVars
  <2>2. CASE presented /\ PresentFrame(m)
    BY <1>0, <1>7, <2>2
  <2>3. CASE PresentFails(m) \/ RejectReference(m)
    BY <1>0, <1>1, <2>3 DEF PresentFails, RejectReference
  <2> QED
    BY <1>7, <2>1, <2>2, <2>3 DEF handle_frame_reference
<1>8. CASE handle_pong(m)
  BY <1>0, <1>1, <1>8 DEF handle_pong, sessionVars, pixelVars, queueVars
<1>9. CASE handle_shutdown
  BY <1>0, <1>9 DEF handle_shutdown, sessionVars, pixelVars
<1> QED
  BY <1>0, <1>2, <1>3, <1>4, <1>5, <1>6, <1>7, <1>8, <1>9 DEF Receive

\* A commit the host presents is presented.
LEMMA CommitPresents ==
    ASSUME NEW m, Receive(m, TRUE), helloReceived, ~shutdownRequested, Presentable(m)
    PROVE  PresentFrame(m)
<1>1. m.type = "commit" /\ EndsOpenFrame(m) /\ frame.received = frame.damage /\ ~frame.stale
  BY DEF Presentable
<1>2. handle_frame_reference(m, TRUE)
  BY <1>1 DEF Receive, ReceiveHello, RejectHello
<1> QED
  BY <1>1, <1>2 DEF handle_frame_reference, DropFrame, PresentFails, RejectReference

\* The worker's calls that neither draw nor settle a presentation.
Calm ==
    /\ UNCHANGED <<screen, generation, shutdownRequested>>
    /\ failed => failed'
    /\ pending' = pending \/ failed'

LEMMA CallsAreCalm ==
    ASSUME \/ send_input \/ take_pong \/ report_fatal \/ StartHead \/ ConsumeHead
           \/ resume(FALSE) \/ (\E token : send_ping(token)) \/ UNCHANGED helperVars
    PROVE  Calm
<1>1. ASSUME NEW queue, NEW m, NEW frm, enqueue_or_fail(queue, m, frm, pending)
      PROVE  pending' = pending \/ failed'
  BY <1>1, EnqueueEffect
<1>2. CASE send_input
  BY <1>1, <1>2 DEF send_input, CanSendInput, Calm, sessionVars, pixelVars, controlVars
<1>3. CASE \E token : send_ping(token)
  BY <1>1, <1>3 DEF send_ping, CanPing, Calm, sessionVars, pixelVars
<1>4. CASE resume(FALSE)
  <2>1. UNCHANGED <<screen, generation, controlVars>> /\ ~failed
    BY <1>4 DEF resume, CanResume
  <2>2. pending' = pending \/ failed'
    BY <1>1, <1>4 DEF resume, queueVars
  <2> QED
    BY <2>1, <2>2 DEF Calm, controlVars
<1>5. CASE report_fatal
  BY <1>5, FailEffect DEF report_fatal, Reject, Calm, sessionVars, pixelVars, controlVars
<1>6. CASE take_pong \/ StartHead \/ ConsumeHead \/ UNCHANGED helperVars
  BY <1>6 DEF take_pong, StartHead, ConsumeHead, helperVars, Calm, sessionVars, pixelVars,
              queueVars, controlVars
<1> QED
  BY <1>2, <1>3, <1>4, <1>5, <1>6

-----------------------------------------------------------------------------
(***************************************************************************)
(* The console: the kernel's view, the signals not yet acted on and the    *)
(* host's state agree at every step of a worker that runs.                 *)
(***************************************************************************)
Hosts ==
    [state : {"active", "release_pending", "suspended", "acquire_pending", "failed"},
     acqPending : BOOLEAN, release : BOOLEAN, acquire : BOOLEAN]

At(h, state) ==
    /\ h \in Hosts
    /\ h.state = state
    /\ ~h.acqPending
    /\ h.release <=> state = "release_pending"
    /\ h.acquire <=> state = "acquire_pending"

Signalled(rel, acq) == (relSig <=> rel) /\ (acqSig <=> acq)

VtAgrees ==
    /\ relSig \in BOOLEAN /\ acqSig \in BOOLEAN
    /\ \/ vt = "ours" /\ At(host, "active") /\ Signalled(FALSE, FALSE)
       \/ vt = "leaving" /\ At(host, "active") /\ Signalled(TRUE, FALSE)
       \/ vt = "leaving" /\ At(host, "release_pending") /\ Signalled(FALSE, FALSE)
       \/ vt = "away" /\ At(host, "suspended") /\ Signalled(FALSE, FALSE)
       \/ vt = "returning" /\ At(host, "suspended") /\ Signalled(FALSE, TRUE)
       \/ vt = "returning" /\ At(host, "acquire_pending") /\ Signalled(FALSE, FALSE)

VtInv == wPc # "stopped" => VtAgrees

\* What acting on the signals leads to.
LEMMA IngestedAgrees ==
    ASSUME VtAgrees
    PROVE  /\ vt = "ours" => At(IngestedHost, "active")
           /\ vt = "leaving" => At(IngestedHost, "release_pending")
           /\ vt = "away" => At(IngestedHost, "suspended")
           /\ vt = "returning" => At(IngestedHost, "acquire_pending")
           /\ vt \in {"ours", "leaving", "away", "returning"}
<1>0. host \in Hosts /\ ~host.acqPending
  BY DEF VtAgrees, At
<1>1. CASE vt = "ours" \/ vt = "away" \/ (vt = "leaving" /\ At(host, "release_pending"))
            \/ (vt = "returning" /\ At(host, "acquire_pending"))
  <2>1. ~relSig /\ ~acqSig
    BY <1>1 DEF VtAgrees, Signalled, At
  <2>2. IngestedHost = host
    BY <1>0, <2>1 DEF IngestedHost, Lifecycle
  <2> QED
    BY <1>1, <2>2 DEF VtAgrees, At
<1>2. CASE vt = "leaving" /\ At(host, "active")
  <2>1. relSig /\ ~acqSig
    BY <1>2 DEF VtAgrees, Signalled, At
  <2>2. IngestedHost = [host EXCEPT !.state = "release_pending", !.release = TRUE]
    BY <1>0, <1>2, <2>1 DEF IngestedHost, Lifecycle, At
  <2> QED
    BY <1>0, <1>2, <2>2 DEF At, Hosts
<1>3. CASE vt = "returning" /\ At(host, "suspended")
  <2>1. ~relSig /\ acqSig
    BY <1>3 DEF VtAgrees, Signalled, At
  <2>2. IngestedHost = [host EXCEPT !.state = "acquire_pending", !.acquire = TRUE,
                                    !.acqPending = FALSE]
    BY <1>0, <1>3, <2>1 DEF IngestedHost, Lifecycle, At
  <2> QED
    BY <1>0, <1>3, <2>2 DEF At, Hosts
<1> QED
  BY <1>1, <1>2, <1>3 DEF VtAgrees

\* Signals acted on leave kernel and host in agreement.
LEMMA TakenAgrees ==
    ASSUME VtAgrees, SignalsTaken, host' = IngestedHost, vt' = vt
    PROVE  VtAgrees'
<1>1. ~relSig' /\ ~acqSig' /\ relSig' \in BOOLEAN /\ acqSig' \in BOOLEAN
  BY Zenon DEF SignalsTaken
<1> QED
  BY <1>1, IngestedAgrees DEF VtAgrees, Signalled, At

\* A console released or acquired, with every signal taken.
LEMMA AnsweredAgrees ==
    ASSUME SignalsTaken, \/ vt' = "away" /\ At(host', "suspended")
                         \/ vt' = "ours" /\ At(host', "active")
    PROVE  VtAgrees'
<1>1. ~relSig' /\ ~acqSig' /\ relSig' \in BOOLEAN /\ acqSig' \in BOOLEAN
  BY Zenon DEF SignalsTaken
<1> QED
  BY <1>1 DEF VtAgrees, Signalled, At

LEMMA VtStep ==
    ASSUME SessionType, VtInv, [Next]_vars
    PROVE  VtInv'
<1> SUFFICES ASSUME wPc' # "stopped" PROVE VtAgrees'
  BY DEF VtInv
<1>0. ASSUME VtAgrees, UNCHANGED <<vt, relSig, acqSig, host>> PROVE VtAgrees'
  BY <1>0 DEF VtAgrees, Signalled, At
<1>1. CASE WorkerStep
  <2>0. wPc # "stopped" /\ VtAgrees
    BY <1>1 DEF VtInv, WorkerStep, WorkerDrain, WorkerCoreGone, WorkerDrained, Draining,
         WorkerInput, WorkerEmergency, WorkerInputDone, WorkerFlush, WorkerFlushBlocked,
         WorkerFlushDone, WorkerFlushFails, Flushing, WorkerTakePong, WorkerPing, WorkerNoPing,
         WorkerExpires, WorkerRelease, WorkerReleaseFails, WorkerAcquire, WorkerAcquireFails,
         WorkerComplete, WorkerNoEvent
  <2>1. ASSUME NEW reason, Stop(reason) PROVE FALSE
    BY <2>1 DEF Stop
  <2>2. ASSUME NEW pc, NEW reason, ContinueUnlessFailed(pc, reason) PROVE vt' = vt
    BY <2>1, <2>2 DEF ContinueUnlessFailed, ContinueAt
  <2>3. CASE WorkerDrain
    <3>1. vt' = vt
      BY <2>2, <2>3 DEF WorkerDrain
    <3>2. CASE host' = IngestedHost /\ SignalsTaken
      BY <2>0, <3>1, <3>2, TakenAgrees
    <3>3. CASE UNCHANGED <<host, relSig, acqSig>>
      BY <1>0, <2>0, <3>1, <3>3
    <3> QED
      BY <2>3, <3>2, <3>3 DEF WorkerDrain
  <2>4. CASE WorkerDrained \/ WorkerInput \/ WorkerInputDone \/ WorkerTakePong \/ WorkerPing
              \/ WorkerNoPing \/ WorkerExpires \/ WorkerFlush
    <3>1. vt' = vt
      BY <2>2, <2>4, <2>1 DEF WorkerDrained, WorkerInput, WorkerInputDone, WorkerTakePong,
           WorkerPing, WorkerNoPing, WorkerExpires, WorkerFlush, ContinueAt, workerVars, vtVars
    <3>2. UNCHANGED <<host, relSig, acqSig>>
      BY <2>4 DEF WorkerDrained, WorkerInput, WorkerInputDone, WorkerTakePong,
           WorkerPing, WorkerNoPing, WorkerExpires, WorkerFlush, workerVars, vtVars, deviceVars
    <3> QED
      BY <1>0, <2>0, <3>1, <3>2
  <2>5. CASE WorkerFlushBlocked \/ WorkerFlushDone
    <3>1. UNCHANGED <<host, relSig, acqSig>>
      BY <2>5 DEF WorkerFlushBlocked, WorkerFlushDone, deviceVars
    <3>2. vt' = vt
      BY <2>1, <2>5 DEF WorkerFlushBlocked, WorkerFlushDone, Flushing, ContinueAt
    <3> QED
      BY <1>0, <2>0, <3>1, <3>2
  <2>6. CASE WorkerCoreGone \/ WorkerEmergency \/ WorkerFlushFails
    BY <2>1, <2>6 DEF WorkerCoreGone, WorkerEmergency, WorkerFlushFails
  <2>7. CASE WorkerReleaseFails \/ WorkerAcquireFails
    BY <2>7 DEF WorkerReleaseFails, WorkerAcquireFails
  <2>8. CASE WorkerRelease
    <3>1. At(IngestedHost, "release_pending")
      BY <2>0, <2>8, IngestedAgrees DEF WorkerRelease, At
    <3> DEFINE freed == [IngestedHost EXCEPT !.state = "suspended", !.release = FALSE]
    <3>2. At(freed, "suspended") /\ ~IngestedHost.acqPending
      BY <3>1 DEF At, Hosts
    <3>3. host' = freed
      BY <2>8, <3>2 DEF WorkerRelease, Lifecycle
    <3> HIDE DEF freed
    <3> QED
      BY <2>8, <3>2, <3>3, AnsweredAgrees DEF WorkerRelease
  <2>9. CASE WorkerAcquire
    <3>1. At(IngestedHost, "acquire_pending")
      BY <2>0, <2>9, IngestedAgrees DEF WorkerAcquire, At
    <3>2. At(host', "active")
      BY <2>9, <3>1 DEF WorkerAcquire, At, Hosts
    <3> QED
      BY <2>9, <3>2, AnsweredAgrees DEF WorkerAcquire
  <2>10. CASE WorkerComplete \/ WorkerNoEvent
    <3>1. SignalsTaken /\ host' = IngestedHost
      BY <2>10 DEF WorkerComplete, WorkerNoEvent
    <3>2. vt' = vt
      BY <2>1, <2>2, <2>10 DEF WorkerComplete, WorkerNoEvent, ContinueAt
    <3> QED
      BY <2>0, <3>1, <3>2, TakenAgrees
  <2> QED
    BY <1>1, <2>3, <2>4, <2>5, <2>6, <2>7, <2>8, <2>9, <2>10 DEF WorkerStep
<1>2. CASE UNCHANGED <<vt, relSig, acqSig, host, wPc>>
  BY <1>0, <1>2 DEF VtInv
<1>3. CASE SwitchAway \/ SwitchBack
  <2>0. wPc # "stopped" /\ VtAgrees
    BY <1>3 DEF VtInv, SwitchAway, SwitchBack, loopVars
  <2>1. CASE SwitchAway
    <3>1. relSig' \in BOOLEAN /\ relSig'
      BY <2>1, Zenon DEF SwitchAway
    <3>2. vt = "ours" /\ vt' = "leaving" /\ acqSig' = acqSig /\ host' = host
      BY <2>1 DEF SwitchAway, deviceVars
    <3> QED
      BY <2>0, <3>1, <3>2 DEF VtAgrees, Signalled, At
  <2>2. CASE SwitchBack
    <3>1. acqSig' \in BOOLEAN /\ acqSig'
      BY <2>2, Zenon DEF SwitchBack
    <3>2. vt = "away" /\ vt' = "returning" /\ relSig' = relSig /\ host' = host
      BY <2>2 DEF SwitchBack, deviceVars
    <3> QED
      BY <2>0, <3>1, <3>2 DEF VtAgrees, Signalled, At
  <2> QED
    BY <1>3, <2>1, <2>2
<1> QED
  BY <1>1, <1>2, <1>3, SessionSteps
     DEF vars, workerSide, workerVars, vtVars, deviceVars, loopVars

LEMMA VtAlways == Spec => []VtInv
<1>1. Init => VtInv
  <2> SUFFICES ASSUME Init PROVE VtAgrees
    BY DEF VtInv
  <2>1. relSig \in BOOLEAN /\ acqSig \in BOOLEAN /\ ~relSig /\ ~acqSig
    BY Zenon DEF Init, WorkerInit
  <2>2. vt = "ours" /\ host = [state |-> "active", acqPending |-> FALSE,
                               release |-> FALSE, acquire |-> FALSE]
    BY DEF Init, WorkerInit
  <2>3. At(host, "active")
    BY <2>2 DEF At, Hosts
  <2> QED
    BY <2>1, <2>2, <2>3 DEF VtAgrees, Signalled
<1> QED
  BY <1>1, VtStep, SessionTypeCorrect, PTL DEF Spec

\* Who changes the picture: a commit presented, and the release.
LEMMA PictureChanges ==
    ASSUME WorkerStep
    PROVE  \/ UNCHANGED screen
           \/ WorkerDrain /\ HostPresents(Head(toHelper)) /\ vt' = vt
           \/ WorkerDrain /\ HostPresents(Head(toHelper)) /\ wPc' = "stopped"
           \/ screen' = Blank
<1>1. CASE WorkerDrain
  <2> DEFINE m == Head(toHelper)
  <2>1. HostPresents(m) \in BOOLEAN
    BY DEF HostPresents
  <2>2. UNCHANGED screen \/ HostPresents(m)
    BY <1>1, <2>1, ReceiveOutcome DEF WorkerDrain
  <2>3. vt' = vt \/ wPc' = "stopped"
    BY <1>1 DEF WorkerDrain, ContinueUnlessFailed, ContinueAt, Stop
  <2> QED
    BY <1>1, <2>2, <2>3
<1>2. CASE WorkerRelease
  BY <1>2 DEF WorkerRelease
<1>3. CASE WorkerInput
  BY <1>3, CallsAreCalm DEF WorkerInput, Calm
<1>4. CASE WorkerFlush \/ WorkerFlushBlocked
  BY <1>4, CallsAreCalm DEF WorkerFlush, WorkerFlushBlocked, Calm
<1>5. CASE WorkerTakePong \/ WorkerPing \/ WorkerExpires
  BY <1>5, CallsAreCalm DEF WorkerTakePong, WorkerPing, WorkerExpires, Calm
<1>6. CASE WorkerAcquire
  BY <1>6, CallsAreCalm DEF WorkerAcquire, Calm
<1>7. CASE WorkerComplete
  <2>1. ASSUME NEW gen, NEW serial, complete_frame(gen, serial) PROVE UNCHANGED screen
    BY <2>1 DEF complete_frame, Reject, helperVars, pixelVars
  <2>2. CASE UNCHANGED helperVars
    BY <2>2 DEF helperVars, pixelVars
  <2> QED
    BY <1>7, <2>1, <2>2 DEF WorkerComplete
<1>8. CASE UNCHANGED helperVars
  BY <1>8 DEF helperVars, pixelVars
<1> QED
  BY <1>1, <1>2, <1>3, <1>4, <1>5, <1>6, <1>7, <1>8
     DEF WorkerStep, WorkerCoreGone, WorkerDrained, WorkerEmergency, WorkerInputDone,
         WorkerFlushDone, WorkerFlushFails, WorkerNoPing, WorkerReleaseFails,
         WorkerAcquireFails, WorkerNoEvent

LEMMA ScreenStep ==
    ASSUME SessionType, VtInv, [Next]_vars, screen' # screen, screen' # Blank
    PROVE  vt = "ours"
<1>1. WorkerStep
  BY SessionSteps
     DEF vars, workerSide, helperVars, pixelVars, SwitchAway, SwitchBack
<1>2. WorkerDrain /\ HostPresents(Head(toHelper))
  BY <1>1, PictureChanges
<1>3. IngestedHost.state = "active" /\ VtAgrees
  BY <1>2 DEF HostPresents, WorkerDrain, Draining, VtInv
<1> QED
  BY <1>3, IngestedAgrees DEF At

\* Video memory is written only while the kernel has not asked for it back
\* (present ingests the signals first, host_wsdisplay.c).
THEOREM OwnConsoleOnly == Spec => WritesOnlyOwnConsole
<1>1. SessionType /\ VtInv /\ [Next]_vars
        => [(screen' # screen /\ screen' # Blank) => vt = "ours"]_vars
  BY ScreenStep
<1> QED
  BY <1>1, SessionTypeCorrect, VtAlways, PTL DEF Spec, WritesOnlyOwnConsole

-----------------------------------------------------------------------------
(***************************************************************************)
(* The frame the display holds.                                            *)
(***************************************************************************)
Takes == wPc # "stopped" /\ ~failed /\ ~shutdownRequested

Done(i) == completions[i]

Books ==
    Takes =>
        /\ wFrame.submitted = pending.serial
        /\ presentationPending => /\ wFrame.generation = pending.generation
                                  /\ pending.serial \in Serials
        /\ wFrame.submitted = 0 \/ wFrame.abandoned < wFrame.submitted
        /\ \A i \in DOMAIN completions :
              Done(i) = wFrame.submitted \/ Done(i) <= wFrame.abandoned
        /\ \A i, j \in DOMAIN completions :
              Done(i) = wFrame.submitted /\ Done(j) = wFrame.submitted => i = j

LEMMA DoneType ==
    ASSUME WorkerType, NEW i \in DOMAIN completions
    PROVE  Done(i) \in Serials /\ Done(i) \in Nat /\ Done(i) # 0
<1>1. completions \in Seq(Serials)
  BY DEF WorkerType
<1>2. completions[i] \in Serials
  BY <1>1
<1>3. \A s \in Serials : s \in Nat /\ s # 0
  BY HelperAssumption DEF Serials
<1> QED
  BY <1>2, <1>3 DEF Done

\* A step that leaves presentation and books alone.
LEMMA BooksKept ==
    ASSUME Books, Takes' => Takes, UNCHANGED <<completions, wFrame>>, Takes' => pending' = pending
    PROVE  Books'
BY DEF Books, Done

\* The worker goes on only where it was going on.
LEMMA TakesStays ==
    ASSUME WorkerType, SocketType, WorkerStep, Takes'
    PROVE  Takes
<1>1. wPc # "stopped"
  BY DEF WorkerStep, WorkerDrain, WorkerCoreGone, WorkerDrained, Draining,
         WorkerInput, WorkerEmergency, WorkerInputDone, WorkerFlush, WorkerFlushBlocked,
         WorkerFlushDone, WorkerFlushFails, Flushing, WorkerTakePong, WorkerPing, WorkerNoPing,
         WorkerExpires, WorkerRelease, WorkerReleaseFails, WorkerAcquire, WorkerAcquireFails,
         WorkerComplete, WorkerNoEvent
<1>2. (failed => failed') /\ (shutdownRequested => shutdownRequested')
  <2>1. CASE \E m \in CoreMessage, presented \in BOOLEAN : Receive(m, presented)
    BY <2>1, ReceiveOutcome
  <2>2. CASE ReceiveMalformed
    BY <2>2 DEF ReceiveMalformed, Reject, controlVars
  <2>3. CASE FromWorker
    <3>1. CASE Quiet
      BY <3>1 DEF Quiet
    <3>2. CASE suspend \/ (\E resized \in BOOLEAN : resume(resized))
      BY <3>2 DEF suspend, CanSuspend, resume, CanResume, controlVars
    <3> QED
      BY <2>3, <3>1, <3>2, WorkerCases
  <2>4. CASE UNCHANGED helperVars
    BY <2>4 DEF helperVars, queueVars, controlVars
  <2> QED
    BY <2>1, <2>2, <2>3, <2>4, WorkerStepsHelper DEF HelperNext, FromCore
<1> QED
  BY <1>1, <1>2 DEF Takes

\* The worker's entry for each frame it gets to present is new and the only one.
LEMMA BooksPresent ==
    ASSUME Books, Takes, WorkerType, HelperTypeOK, PiecesAreStaged, NEW m \in CoreMessage,
           ReachesPresent(m), HostPresents(m), PresentFrame(m),
           completions' = Append(completions, m.serial),
           wFrame' = [wFrame EXCEPT !.submitted = m.serial, !.generation = generation]
    PROVE  Books'
<1>1. /\ m.serial = frame.serial /\ m.serial \in Serials /\ m.serial > wFrame.abandoned
      /\ wFrame.submitted = 0
  <2>1. m.serial = frame.serial /\ m.type = "commit"
    BY DEF ReachesPresent, Presentable, EndsOpenFrame
  <2>2. m.serial \in Serials
    BY <2>1
       DEF CoreMessage, CoreMessages, Hellos, Hello, ShutdownRequest, Pongs, Pong, Begins,
           Pieces, Data, Ends, Commit, Abort
  <2> QED
    BY <2>1, <2>2 DEF HostPresents
<1>2. pending' = [generation |-> generation, serial |-> m.serial]
  BY <1>1 DEF PresentFrame
<1>3. wFrame'.submitted = m.serial /\ wFrame'.generation = generation
      /\ wFrame'.abandoned = wFrame.abandoned
  BY DEF WorkerType, Submissions
<1>4. \A i \in DOMAIN completions' :
          \/ i \in DOMAIN completions /\ Done(i)' = Done(i)
          \/ i = Len(completions) + 1 /\ Done(i)' = m.serial
  BY <1>1 DEF WorkerType, Done
<1>5. \A i \in DOMAIN completions : Done(i) <= wFrame.abandoned /\ Done(i) # m.serial
  <2> TAKE i \in DOMAIN completions
  <2>1. Done(i) \in Serials /\ wFrame.abandoned \in Nat
    BY DEF WorkerType, Done, Submissions
  <2>2. Done(i) = 0 \/ Done(i) <= wFrame.abandoned
    BY <1>1 DEF Books
  <2> QED
    BY <1>1, <2>1, <2>2 DEF Serials
<1>6. Len(completions) \in Nat /\ DOMAIN completions = 1 .. Len(completions)
  BY DEF WorkerType
<1>7. pending'.serial = m.serial /\ pending'.generation = generation
  BY <1>2
<1> QED
  BY <1>1, <1>3, <1>4, <1>5, <1>6, <1>7 DEF Books

\* The console is given up: the frame submitted, if any, will complete late.
LEMMA BooksSuspend ==
    ASSUME Books, Takes, WorkerType, suspend, Takes', wFrame' = frame_abandon(wFrame),
           UNCHANGED completions
    PROVE  Books'
<1>1. pending' = NoPresentation
  BY EnqueueEffect DEF suspend, Takes
<1>2. CASE wFrame.submitted = 0
  <2>1. wFrame' = wFrame
    BY <1>2 DEF frame_abandon
  <2> QED
    BY <1>1, <1>2, <2>1 DEF Books, Done, NoPresentation
<1>3. CASE wFrame.submitted # 0
  <2>1. wFrame'.submitted = 0 /\ wFrame'.abandoned = wFrame.submitted
    BY <1>3 DEF frame_abandon, WorkerType, Submissions
  <2>2. wFrame.abandoned < wFrame.submitted /\ wFrame.submitted \in Nat /\ wFrame.abandoned \in Nat
    BY <1>3 DEF Books, WorkerType, Submissions, Serials
  <2>3. \A i \in DOMAIN completions : Done(i) \in Serials /\ Done(i) <= wFrame.submitted
    <3> TAKE i \in DOMAIN completions
    <3>1. Done(i) \in Serials /\ Done(i) \in Nat
      BY DoneType
    <3>2. Done(i) = wFrame.submitted \/ Done(i) <= wFrame.abandoned
      BY DEF Books
    <3> QED
      BY <2>2, <3>1, <3>2
  <2> QED
    BY <1>1, <2>1, <2>3 DEF Books, Done, NoPresentation, Serials
<1> QED
  BY <1>2, <1>3

\* A completion taken: the one awaited, or one abandoned earlier.
LEMMA BooksComplete ==
    ASSUME Books, Takes, WorkerType, HelperTypeOK, OneFrameInFlight, WorkerComplete, Takes'
    PROVE  Books'
<1> DEFINE serial == Head(completions)
<1>1. /\ completions # << >> /\ completions' = Tail(completions)
      /\ serial \in Serials /\ 1 \in DOMAIN completions /\ Done(1) = serial
      /\ \A i \in DOMAIN completions' : i + 1 \in DOMAIN completions /\ i + 1 # 1
                                        /\ Done(i)' = Done(i + 1)
  BY DEF WorkerComplete, WorkerType, Done
<1>2. CASE UNCHANGED <<helperVars, wFrame>>
  <2>1. pending' = pending
    BY <1>2 DEF helperVars, queueVars
  <2>2. \A i, j \in DOMAIN completions' :
            Done(i)' = wFrame.submitted /\ Done(j)' = wFrame.submitted => i + 1 = j + 1
    BY <1>1 DEF Books
  <2>3. \A i \in DOMAIN completions' : i \in Nat
    BY <1>1 DEF WorkerType
  <2> QED
    BY <1>1, <1>2, <2>1, <2>2, <2>3 DEF Books
<1>3. CASE /\ serial = wFrame.submitted
           /\ wFrame' = [wFrame EXCEPT !.submitted = 0]
           /\ complete_frame(wFrame.generation, serial)
  <2>1. /\ wFrame'.submitted = 0 /\ wFrame'.abandoned = wFrame.abandoned
    BY <1>3 DEF WorkerType, Submissions
  <2>2. pending.serial = serial /\ serial # 0 /\ presentationPending
    BY <1>1, <1>3 DEF Books, Serials, NoPresentation
  <2>3. pending = [generation |-> generation, serial |-> lastSubmitted]
    BY <2>2 DEF OneFrameInFlight
  <2>4. wFrame.generation = generation
    BY <2>2, <2>3 DEF Books
  <2>5. ~CompletesOlder(wFrame.generation, serial)
    BY <2>4, Ranges DEF CompletesOlder, HelperTypeOK
  <2>6. pending' = NoPresentation
    <3>1. \/ error' # "none"
          \/ enqueue_or_fail(outbound, FrameComplete(wFrame.generation, serial), frame,
                             NoPresentation)
      BY <1>3, <2>5 DEF complete_frame, Takes, Reject, fail_helper, CompletionError
    <3> QED
      BY <3>1, EnqueueEffect DEF Takes
  <2>7. \A i \in DOMAIN completions' : Done(i)' <= wFrame.abandoned
    <3> TAKE i \in DOMAIN completions'
    <3>1. Done(i + 1) # wFrame.submitted
      BY <1>1, <1>3 DEF Books
    <3> QED
      BY <1>1, <3>1 DEF Books
  <2>8. \A i \in DOMAIN completions : Done(i) # 0
    BY DoneType
  <2> QED
    BY <1>1, <2>1, <2>6, <2>7, <2>8 DEF Books, NoPresentation
<1> QED
  BY <1>2, <1>3 DEF WorkerComplete, ContinueAt, Stop, Takes

LEMMA BooksStep ==
    ASSUME SessionType, HelperInv, Books, [Next]_vars
    PROVE  Books'
<1>0. WorkerType /\ SocketType /\ HelperTypeOK
  BY DEF SessionType
<1> SUFFICES ASSUME Takes' PROVE Books'
  BY DEF Books
<1>1. CASE WorkerStep
  <2>0. Takes
    BY <1>0, <1>1, TakesStays
  <2>1. ASSUME Calm, UNCHANGED <<completions, wFrame>> PROVE Books'
    BY <2>0, <2>1, BooksKept DEF Calm, Takes
  <2>2. CASE WorkerDrain
    <3> DEFINE m == Head(toHelper)
    <3>1. m \in CoreMessage /\ Receive(m, HostPresents(m))
      BY <1>0, <2>2 DEF WorkerDrain, SocketType
    <3>0. HostPresents(m) \in BOOLEAN
      BY DEF HostPresents
    <3>2. CASE HostPresents(m) /\ helloReceived /\ ~shutdownRequested /\ PresentFrame(m)
      <4>1. ReachesPresent(m)
        BY <3>2 DEF ReachesPresent, PresentFrame, Presentable, HostPresents
      <4>2. /\ completions' = Append(completions, m.serial)
            /\ wFrame' = [wFrame EXCEPT !.submitted = m.serial, !.generation = generation]
        BY <2>2, <3>2, <4>1 DEF WorkerDrain
      <4> HIDE DEF m
      <4> QED
        BY <1>0, <2>0, <3>1, <3>2, <4>1, <4>2, BooksPresent DEF HelperInv
    <3>3. CASE pending' = pending
      <4>1. CASE UNCHANGED <<completions, wFrame>>
        BY <2>0, <3>3, <4>1, BooksKept
      <4>2. CASE ReachesPresent(m) /\ HostPresents(m)
        <5>1. PresentFrame(m)
          BY <3>1, <4>2, CommitPresents DEF ReachesPresent
        <5> QED
          BY <3>2, <4>2, <5>1 DEF ReachesPresent
      <4> QED
        BY <2>2, <4>1, <4>2 DEF WorkerDrain
    <3> QED
      BY <3>0, <3>1, <3>2, <3>3, ReceiveOutcome DEF Takes
  <2>3. CASE WorkerRelease
    BY <1>0, <2>0, <2>3, BooksSuspend DEF WorkerRelease
  <2>4. CASE WorkerComplete
    BY <1>0, <2>0, <2>4, BooksComplete DEF HelperInv
  <2>5. CASE WorkerReleaseFails \/ WorkerAcquireFails \/ WorkerEmergency
    BY <2>5 DEF WorkerReleaseFails, WorkerAcquireFails, WorkerEmergency, Stop, Takes
  <2>6. CASE WorkerInput \/ WorkerFlush \/ WorkerFlushBlocked \/ WorkerTakePong \/ WorkerPing
    BY <2>1, <2>6, CallsAreCalm DEF WorkerInput, WorkerFlush, WorkerFlushBlocked,
       WorkerTakePong, WorkerPing, deviceVars, workerVars
  <2>7. CASE WorkerExpires \/ WorkerAcquire
    BY <2>1, <2>7, CallsAreCalm DEF WorkerExpires, WorkerAcquire, deviceVars
  <2>8. CASE WorkerCoreGone \/ WorkerDrained \/ WorkerInputDone \/ WorkerFlushDone
                \/ WorkerFlushFails \/ WorkerNoPing \/ WorkerNoEvent
    BY <2>1, <2>8, CallsAreCalm DEF WorkerCoreGone, WorkerDrained, WorkerInputDone,
       WorkerFlushDone, WorkerFlushFails, WorkerNoPing, WorkerNoEvent, deviceVars
  <2> QED
    BY <1>1, <2>2, <2>3, <2>4, <2>5, <2>6, <2>7, <2>8 DEF WorkerStep
<1>2. CASE UNCHANGED <<helperVars, completions, wFrame, wPc>>
  BY <1>2, BooksKept DEF helperVars, queueVars, controlVars, Takes
<1> QED
  BY <1>1, <1>2, SessionSteps
     DEF vars, workerSide, workerVars, deviceVars, loopVars, SwitchAway, SwitchBack

LEMMA BooksAlways == Spec => []Books
<1>1. Init => Books
  BY DEF Init, WorkerInit, HelperInit, Books, NoPresentation
<1>2. Books /\ SessionType /\ HelperInv /\ [Next]_vars => Books'
  BY BooksStep
<1> QED
  BY <1>1, <1>2, SessionTypeCorrect, HelperInSession, PTL DEF Spec

\* The worker, the host and the helper agree on the frame the display holds
\* (submitted_generation and frame_abandon of device_worker.c, the completion events
\* of host_wsdisplay.c, pending of privsep_helper.c): every completion the worker takes
\* is the one the helper waits for or one of a frame given up.
THEOREM FrameBookkeeping == Spec => []FrameBookkeepingAgrees
<1>1. SessionType /\ Books => FrameBookkeepingAgrees
  <2> SUFFICES ASSUME SessionType, Books, Takes
               PROVE  /\ wFrame.submitted = pending.serial
                      /\ presentationPending => wFrame.generation = pending.generation
                      /\ {completions[i] : i \in DOMAIN completions} \subseteq
                            {wFrame.submitted} \cup 1 .. wFrame.abandoned
    BY DEF FrameBookkeepingAgrees, Takes
  <2>1. \A i \in DOMAIN completions : completions[i] \in Serials /\ wFrame.abandoned \in Nat
    BY DEF SessionType, WorkerType, Submissions
  <2> QED
    BY <2>1 DEF Books, Done, Serials
<1> QED
  BY <1>1, SessionTypeCorrect, BooksAlways, PTL

-----------------------------------------------------------------------------
(***************************************************************************)
(* The generations.  Helper, client and core agree on how often the console*)
(* has changed hands, for queues of every capacity and any number of       *)
(* switches: the core is behind by the SUSPENDs under way, and the event it*)
(* must answer is queued exactly once while the client waits for the answer.*)
(***************************************************************************)

USE DEF failed, presentationPending

(***************************************************************************)
(* Counting.                                                               *)
(***************************************************************************)
One(e, type) == IF e.type = type THEN 1 ELSE 0

LEMMA CountNone == ASSUME NEW type PROVE Count(<< >>, type) = 0
<1>1. {i \in DOMAIN << >> : << >>[i].type = type} = {}
  OBVIOUS
<1> QED
  BY <1>1, FS_EmptySet DEF Count

LEMMA CountAppend ==
    ASSUME NEW S, NEW q \in Seq(S), NEW e \in S, NEW type
    PROVE  /\ Count(q, type) \in Nat
           /\ Count(Append(q, e), type) = Count(q, type) + One(e, type)
<1> DEFINE a == Append(q, e)
           n == Len(q) + 1
           before == {i \in DOMAIN q : q[i].type = type}
           after == {i \in DOMAIN a : a[i].type = type}
<1>1. /\ Len(q) \in Nat /\ DOMAIN q = 1 .. Len(q)
      /\ DOMAIN a = DOMAIN q \cup {n} /\ n \notin DOMAIN q
      /\ a[n] = e /\ \A i \in DOMAIN q : a[i] = q[i]
  OBVIOUS
<1>2. IsFiniteSet(before) /\ Cardinality(before) \in Nat
  <2>1. IsFiniteSet(1 .. Len(q)) /\ before \in SUBSET (1 .. Len(q))
    BY <1>1, FS_Interval
  <2> HIDE DEF before
  <2>2. IsFiniteSet(before)
    BY <2>1, FS_Subset
  <2> QED
    BY <2>2, FS_CardinalityType
<1>3. n \notin before
  BY <1>1
<1>6. Count(q, type) = Cardinality(before) /\ Count(a, type) = Cardinality(after)
  BY DEF Count
<1> HIDE DEF a, n
<1>4. CASE e.type = type
  <2>1. after = before \cup {n}
    BY <1>1, <1>4
  <2> HIDE DEF before, after
  <2>2. Cardinality(after) = Cardinality(before) + 1
    BY <1>2, <1>3, <2>1, FS_AddElement
  <2> QED
    BY <1>2, <1>4, <1>6, <2>2 DEF One, a
<1>5. CASE e.type # type
  <2>1. after = before
    BY <1>1, <1>5
  <2> HIDE DEF before, after
  <2> QED
    BY <1>2, <1>5, <1>6, <2>1 DEF One, a
<1> QED
  BY <1>4, <1>5

LEMMA AppendAssociates ==
    ASSUME NEW S, NEW a \in Seq(S), NEW p \in Seq(S), NEW e \in S
    PROVE  a \o p \in Seq(S) /\ a \o Append(p, e) = Append(a \o p, e)
OBVIOUS

LEMMA CountConcat ==
    ASSUME NEW S, NEW a \in Seq(S), NEW b \in Seq(S), NEW type
    PROVE  Count(a \o b, type) = Count(a, type) + Count(b, type)
<1> DEFINE N == Len(b)
           part == [n \in 0 .. N |-> SubSeq(b, 1, n)]
           Sums(n) == Count(a \o part[n], type) = Count(a, type) + Count(part[n], type)
           H == {n \in 0 .. N : Sums(n)}
<1>0. \A q \in Seq(S) : Count(q, type) \in Nat
  <2> TAKE q \in Seq(S)
  <2>1. CASE q = << >>
    BY <2>1, CountNone
  <2>2. CASE q # << >>
    <3>1. q[1] \in S
      BY <2>2
    <3> QED
      BY <3>1, CountAppend
  <2> QED
    BY <2>1, <2>2
<1>1. /\ N \in Nat /\ part[N] = b /\ part[0] = << >>
      /\ \A n \in 0 .. N : part[n] \in Seq(S)
      /\ \A n \in 1 .. N : part[n] = Append(part[n - 1], b[n]) /\ b[n] \in S
  OBVIOUS
<1> HIDE DEF part
<1>2. 0 \in H
  <2>1. part[0] = << >> /\ a \o << >> = a
    BY <1>1
  <2>2. a \o part[0] = a /\ Count(part[0], type) = 0 /\ Count(a, type) \in Nat
    BY <1>0, <2>1, CountNone
  <2>3. Sums(0)
    BY <2>2
  <2> HIDE DEF Sums
  <2> QED
    BY <1>1, <2>3
<1>3. ASSUME NEW n \in 1 .. N, n - 1 \in H PROVE n \in H
  <2> DEFINE p == part[n - 1]
             e == b[n]
  <2>1. p \in Seq(S) /\ e \in S /\ part[n] = Append(p, e) /\ n \in 0 .. N
    BY <1>1
  <2>2. Sums(n - 1)
    <3> HIDE DEF Sums
    <3> QED
      BY <1>3
  <2>3. part[n] = Append(p, e)
    BY <2>1
  <2> HIDE DEF p, e
  <2>4. a \o p \in Seq(S) /\ a \o Append(p, e) = Append(a \o p, e)
    BY <2>1, AppendAssociates
  <2>5. Count(a \o part[n], type) = Count(a \o p, type) + One(e, type)
    <3> DEFINE c == a \o p
    <3>1. c \in Seq(S) /\ e \in S
      BY <2>1, <2>4
    <3>2. a \o part[n] = Append(c, e)
      BY <2>3, <2>4
    <3> HIDE DEF c
    <3>3. Count(Append(c, e), type) = Count(c, type) + One(e, type)
      BY <3>1, CountAppend
    <3> QED
      BY <3>2, <3>3 DEF c
  <2>6. Count(part[n], type) = Count(p, type) + One(e, type)
    BY <2>1, <2>3, CountAppend
  <2>7. Count(p, type) \in Nat /\ Count(a, type) \in Nat /\ One(e, type) \in Nat
    BY <1>0, <2>1 DEF One
  <2>8. Count(a \o p, type) = Count(a, type) + Count(p, type)
    BY <2>2 DEF p
  <2>9. Sums(n)
    BY <2>5, <2>6, <2>7, <2>8
  <2> HIDE DEF Sums
  <2> QED
    BY <2>1, <2>9
<1>4. Sums(N)
  <2>1. H \in SUBSET Nat
    OBVIOUS
  <2>2. N \in H
    <3> HIDE DEF H, N
    <3> QED
      BY <1>1, <1>2, <1>3, <2>1, Induct
  <2> HIDE DEF Sums
  <2> QED
    BY <2>2
<1> QED
  BY <1>1, <1>4

LEMMA CountTail ==
    ASSUME NEW S, NEW q \in Seq(S), q # << >>, NEW type
    PROVE  Count(q, type) = One(Head(q), type) + Count(Tail(q), type)
<1>1. << >> \in Seq(S) /\ Head(q) \in S /\ <<Head(q)>> \in Seq(S) /\ Tail(q) \in Seq(S)
      /\ q = <<Head(q)>> \o Tail(q) /\ <<Head(q)>> = Append(<< >>, Head(q))
  OBVIOUS
<1>2. Count(<<Head(q)>>, type) = One(Head(q), type)
  <2>1. Count(Append(<< >>, Head(q)), type) = Count(<< >>, type) + One(Head(q), type)
    BY <1>1, CountAppend
  <2> QED
    BY <1>1, <2>1, CountNone DEF One
<1> DEFINE h == <<Head(q)>>
           t == Tail(q)
<1>3. h \in Seq(S) /\ t \in Seq(S) /\ q = h \o t /\ Count(h, type) = One(Head(q), type)
  BY <1>1, <1>2
<1> HIDE DEF h, t
<1>4. Count(q, type) = Count(h, type) + Count(t, type)
  BY <1>3, CountConcat
<1> QED
  BY <1>3, <1>4 DEF t

-----------------------------------------------------------------------------
(***************************************************************************)
(* Input forgotten leaves every other event where it was.                  *)
(***************************************************************************)
IsRest(queue, f) ==
    f = [n \in 0 .. Len(queue) |->
          IF n = 0 THEN << >>
          ELSE IF ~event_is_input(queue[n]) THEN Append(f[n - 1], queue[n]) ELSE f[n - 1]]

Rest(queue) == CHOOSE f : IsRest(queue, f)

\* The events discard_queued_input has kept of the first n.
LEMMA RestPass ==
  ASSUME NEW S, NEW queue \in Seq(S)
  PROVE  /\ discard_queued_input(queue) = Rest(queue)[Len(queue)]
         /\ Rest(queue) \in [0 .. Len(queue) -> Seq(S)]
         /\ Rest(queue)[0] = << >>
         /\ \A n \in 1 .. Len(queue) : Rest(queue)[n] =
              IF ~event_is_input(queue[n]) THEN Append(Rest(queue)[n - 1], queue[n])
              ELSE Rest(queue)[n - 1]
<1> DEFINE N == Len(queue)
           stay == {n \in 1 .. N : ~event_is_input(queue[n])}
           items == [n \in 1 .. N |-> queue[n]]
           T == S
<1>1. N \in Nat /\ items \in [1 .. N -> T]
  OBVIOUS
<1>2. PICK f \in [0 .. N -> Seq(T)] : Passes(f, N, items, stay)
  <2> HIDE DEF N, stay, items, T
  <2> QED
    BY <1>1, PassExists
<1>3. IsRest(queue, f)
  <2>1. ASSUME NEW n \in 1 .. N
        PROVE  f[n] = IF ~event_is_input(queue[n]) THEN Append(f[n - 1], queue[n]) ELSE f[n - 1]
    <3>1. (n \in stay <=> ~event_is_input(queue[n])) /\ items[n] = queue[n]
      OBVIOUS
    <3> HIDE DEF stay, items
    <3> QED
      BY <1>2, <3>1, Zenon DEF Passes
  <2>2. ASSUME NEW n \in 0 .. N
        PROVE  f[n] = IF n = 0 THEN << >>
                      ELSE IF ~event_is_input(queue[n]) THEN Append(f[n - 1], queue[n])
                      ELSE f[n - 1]
    <3>1. CASE n = 0
      BY <1>2, <3>1, Zenon DEF Passes
    <3>2. CASE n # 0
      <4>1. n \in 1 .. N
        BY <1>1, <3>2
      <4> QED
        BY <2>1, <3>2, <4>1, Zenon
    <3> QED
      BY <3>1, <3>2
  <2> QED
    BY <2>2, Zenon DEF IsRest
<1>4. IsRest(queue, Rest(queue))
  BY <1>3 DEF Rest
<1>5. discard_queued_input(queue) = Rest(queue)[Len(queue)]
  BY DEF discard_queued_input, Rest, IsRest
<1>6. Rest(queue)[0] = << >> /\ \A n \in 1 .. N : Rest(queue)[n] =
          IF ~event_is_input(queue[n]) THEN Append(Rest(queue)[n - 1], queue[n])
          ELSE Rest(queue)[n - 1]
  <2>1. ASSUME NEW n \in 0 .. N
        PROVE  Rest(queue)[n] =
                 IF n = 0 THEN << >>
                 ELSE IF ~event_is_input(queue[n]) THEN Append(Rest(queue)[n - 1], queue[n])
                 ELSE Rest(queue)[n - 1]
    BY <1>4, Zenon DEF IsRest
  <2> QED
    BY <1>1, <2>1
<1>7. Rest(queue) \in [0 .. N -> Seq(T)]
  <2> DEFINE k == Rest(queue)
  <2>1. k = [n \in 0 .. N |-> k[n]]
    BY <1>4 DEF IsRest
  <2>2. ASSUME NEW n \in 1 .. N PROVE k[n] = k[n - 1] \/ k[n] = Append(k[n - 1], items[n])
    <3>1. items[n] = queue[n]
      OBVIOUS
    <3> QED
      BY <1>6, <3>1, Zenon
  <2>3. k[0] = << >>
    BY <1>6
  <2> HIDE DEF k, N, items, T
  <2>4. k \in [0 .. N -> Seq(T)]
    BY <1>1, <2>1, <2>2, <2>3, PassTyped
  <2> QED
    BY <2>4 DEF k
<1> QED
  BY <1>5, <1>6, <1>7

LEMMA DiscardCounts ==
    ASSUME NEW S, NEW q \in Seq(S), NEW type, type # "input"
    PROVE  /\ discard_queued_input(q) \in Seq(S)
           /\ Count(discard_queued_input(q), type) = Count(q, type)
<1> DEFINE k == Rest(q)
           N == Len(q)
           part(n) == SubSeq(q, 1, n)
           H == {n \in 0 .. N : Count(k[n], type) = Count(part(n), type)}
<1>1. /\ N \in Nat /\ k \in [0 .. N -> Seq(S)] /\ k[0] = << >>
      /\ discard_queued_input(q) = k[N] /\ \A n \in 1 .. N : q[n] \in S
  BY RestPass
<1>2. \A n \in 1 .. N : k[n] = IF ~event_is_input(q[n]) THEN Append(k[n - 1], q[n]) ELSE k[n - 1]
  BY RestPass
<1>3. part(N) = q /\ part(0) = << >> /\ \A n \in 0 .. N : part(n) \in Seq(S)
  OBVIOUS
<1>4. \A n \in 1 .. N : part(n) = Append(part(n - 1), q[n])
  OBVIOUS
<1> HIDE DEF k, part
<1>5. 0 \in H
  BY <1>1, <1>3
<1>6. ASSUME NEW n \in 1 .. N, n - 1 \in H PROVE n \in H
  <2>1. /\ k[n - 1] \in Seq(S) /\ part(n - 1) \in Seq(S) /\ q[n] \in S
        /\ Count(k[n - 1], type) = Count(part(n - 1), type) /\ n \in 0 .. N
    BY <1>1, <1>3, <1>6
  <2>2. /\ Count(part(n), type) = Count(part(n - 1), type) + One(q[n], type)
        /\ Count(part(n - 1), type) \in Nat
    <3> DEFINE c == part(n - 1)
               e == q[n]
    <3>1. c \in Seq(S) /\ e \in S /\ part(n) = Append(c, e)
      BY <1>4, <2>1
    <3> HIDE DEF c, e
    <3>2. Count(c, type) \in Nat /\ Count(Append(c, e), type) = Count(c, type) + One(e, type)
      BY <3>1, CountAppend
    <3> QED
      BY <3>1, <3>2 DEF c, e
  <2>3. CASE ~event_is_input(q[n])
    <3>1. k[n] = Append(k[n - 1], q[n])
      BY <1>2, <2>3, Zenon
    <3>2. Count(k[n], type) = Count(k[n - 1], type) + One(q[n], type)
      BY <2>1, <3>1, CountAppend
    <3> QED
      BY <2>1, <2>2, <3>2
  <2>4. CASE event_is_input(q[n])
    <3>1. k[n] = k[n - 1]
      BY <1>2, <2>4, Zenon
    <3>2. One(q[n], type) = 0
      BY <2>4 DEF event_is_input, One
    <3> QED
      BY <2>1, <2>2, <3>1, <3>2
  <2> QED
    BY <2>3, <2>4
<1>7. N \in H
  <2>1. H \in SUBSET Nat
    OBVIOUS
  <2> HIDE DEF H, N
  <2> QED
    BY <1>1, <1>5, <1>6, <2>1, Induct
<1> QED
  BY <1>1, <1>3, <1>7

LEMMA DiscardOldestCounts ==
    ASSUME NEW S, NEW q \in Seq(S), HasInput(q), NEW type, type # "input"
    PROVE  /\ discard_oldest_queued_input(q) \in Seq(S)
           /\ Count(discard_oldest_queued_input(q), type) = Count(q, type)
<1> DEFINE Oldest(i) == /\ event_is_input(q[i])
                        /\ \A j \in 1 .. i - 1 : ~event_is_input(q[j])
           oldest == CHOOSE i \in DOMAIN q : Oldest(i)
<1>0. DOMAIN q = 1 .. Len(q) /\ Len(q) \in Nat
  OBVIOUS
<1>1. \E i \in DOMAIN q : Oldest(i)
  <2> DEFINE I == {i \in DOMAIN q : event_is_input(q[i])}
  <2>1. I # {} /\ I \in SUBSET Nat
    BY <1>0 DEF HasInput
  <2>2. PICK i \in I : \A k \in I : i <= k
    <3> HIDE DEF I
    <3> QED
      BY <2>1, LeastOf
  <2>3. \A j \in 1 .. i - 1 : j \notin I
    BY <1>0, <2>2
  <2> QED
    BY <1>0, <2>2, <2>3
<1>2. oldest \in 1 .. Len(q) /\ event_is_input(q[oldest])
  BY <1>0, <1>1
<1>3. discard_oldest_queued_input(q)
        = SubSeq(q, 1, oldest - 1) \o SubSeq(q, oldest + 1, Len(q))
  BY DEF discard_oldest_queued_input
<1> HIDE DEF oldest
<1> DEFINE a == SubSeq(q, 1, oldest - 1)
           b == SubSeq(q, oldest + 1, Len(q))
           c == SubSeq(q, oldest, Len(q))
<1>4. /\ a \in Seq(S) /\ b \in Seq(S) /\ c \in Seq(S) /\ q = a \o c
      /\ c # << >> /\ Tail(c) = b /\ Head(c) = q[oldest]
  <2>1. a \in Seq(S) /\ b \in Seq(S) /\ c \in Seq(S)
    BY <1>0, <1>2
  <2>2. q = a \o c
    BY <1>0, <1>2
  <2>3. Len(c) = Len(q) - oldest + 1 /\ c # << >>
    <3>1. oldest \in Nat /\ oldest <= Len(q) /\ Len(q) <= Len(q) /\ oldest >= 1
      BY <1>0, <1>2
    <3>2. Len(c) = Len(q) - oldest + 1
      BY <1>0, <3>1
    <3>3. Len(c) # 0
      BY <1>0, <3>1, <3>2
    <3>4. Len(<< >>) = 0
      OBVIOUS
    <3> HIDE DEF c
    <3>5. c # << >>
      BY <3>3, <3>4
    <3> QED
      BY <3>2, <3>5
  <2>4. Head(c) = q[oldest]
    BY <1>0, <1>2, <2>3
  <2>5. Tail(c) = b
    BY <1>0, <1>2, <2>1, <2>3
  <2> QED
    BY <2>1, <2>2, <2>3, <2>4, <2>5
<1> HIDE DEF a, b, c
<1>5. Count(q, type) = Count(a, type) + Count(c, type)
  BY <1>4, CountConcat
<1>6. Count(c, type) = One(q[oldest], type) + Count(b, type)
  BY <1>4, CountTail
<1>7. Count(a \o b, type) = Count(a, type) + Count(b, type) /\ a \o b \in Seq(S)
  BY <1>4, CountConcat
<1>8. One(q[oldest], type) = 0
  BY <1>2 DEF event_is_input, One
<1>9. Count(b, type) \in Nat
  <2>1. q[oldest] \in S
    BY <1>2
  <2> QED
    BY <1>4, <2>1, CountAppend
<1> QED
  BY <1>3, <1>5, <1>6, <1>7, <1>8, <1>9 DEF a, b

-----------------------------------------------------------------------------
(***************************************************************************)
(* The event the core owes an answer to.                                   *)
(***************************************************************************)
HostEvents ==
    [type : {"output", "release", "acquire", "input", "complete", "quit"},
     generation : Nat, serial : Nat]

\* The events of a queue that wait for an answer are those the state asks for.
Owed(queue, state) ==
    /\ Count(queue, "release") = (IF state = "release_pending" THEN 1 ELSE 0)
    /\ Count(queue, "acquire") = (IF state = "acquire_pending" THEN 1 ELSE 0)

Listens == cError = "none" /\ ~shutdownAccepted

OwedInv ==
    /\ events \in Seq(HostEvents)
    /\ Listens => Owed(events, cState)

LEMMA EventTypes ==
    /\ \A type \in {"output", "release", "acquire", "input", "complete", "quit"} :
          Event(type) \in HostEvents /\ Event(type).type = type
    /\ \A n \in Nat : /\ InputEvent(n) \in HostEvents /\ InputEvent(n).type = "input"
                      /\ CompleteEvent(n) \in HostEvents /\ CompleteEvent(n).type = "complete"
BY DEF Event, InputEvent, CompleteEvent, HostEvents

LEMMA AppendCounts ==
    ASSUME NEW queue \in Seq(HostEvents), NEW e \in HostEvents, NEW type
    PROVE  /\ Append(queue, e) \in Seq(HostEvents)
           /\ Count(Append(queue, e), type) = Count(queue, type) + (IF e.type = type THEN 1 ELSE 0)
           /\ Count(queue, type) \in Nat
BY CountAppend DEF One

\* An event pushed, or the client fails.
LEMMA PushOwes ==
    ASSUME NEW queue \in Seq(HostEvents), NEW e \in HostEvents, NEW state, NEW frm,
           push_event(queue, e, state, frm), Listens => Owed(Append(queue, e), state),
           UNCHANGED shutdownAccepted
    PROVE  OwedInv'
<1>1. Append(queue, e) \in Seq(HostEvents)
  BY AppendCounts
<1>2. CASE Len(queue) < EventCapacity
  BY <1>1, <1>2 DEF push_event, OwedInv, Listens
<1>3. CASE ~(Len(queue) < EventCapacity)
  BY <1>3 DEF push_event, fail_client, OwedInv, Listens
<1> QED
  BY <1>2, <1>3

\* An event that waits for no answer.
LEMMA OtherOwes ==
    ASSUME NEW queue \in Seq(HostEvents), NEW e \in HostEvents, NEW state,
           e.type \notin {"release", "acquire"}, Owed(queue, state)
    PROVE  Owed(Append(queue, e), state)
BY AppendCounts DEF Owed

\* Nothing of the client's that matters here changes, or it fails.
LEMMA FailOwes ==
    ASSUME OwedInv, UNCHANGED events, NEW cause, cause # "none", fail_client(cause)
    PROVE  OwedInv'
BY DEF OwedInv, Listens, fail_client

LEMMA StayOwes ==
    ASSUME OwedInv, UNCHANGED <<events, cState, cError, shutdownAccepted>>
    PROVE  OwedInv'
BY DEF OwedInv, Listens, Owed

LEMMA ReceiveOwes ==
    ASSUME OwedInv, ClientType, NEW m \in HelperMessages, ClientReceive(m)
    PROVE  OwedInv'
<1>0. Listens /\ events \in Seq(HostEvents) /\ Owed(events, cState)
  BY DEF ClientReceive, CanIngest, OwedInv, Listens
<1>1. CASE OutOfOrder
  BY <1>1, FailOwes DEF OutOfOrder
<1>2. CASE UNCHANGED <<events, failVars, shutdownAccepted>>
  BY <1>2, StayOwes DEF failVars
<1>3. CASE handle_ready(m)
  <2>1. CASE helloSent /\ ~hasOutput /\ cState = "suspended"
    <3>1. Owed(events, "active")
      BY <1>0, <2>1 DEF Owed
    <3>2. push_event(events, Event("output"), "active", cFrame) /\ UNCHANGED shutdownAccepted
      BY <1>3, <2>1 DEF handle_ready, shutdownVars
    <3>3. Event("output") \in HostEvents /\ Event("output").type = "output"
      BY EventTypes
    <3> QED
      BY <1>0, <3>1, <3>2, <3>3, PushOwes, OtherOwes
  <2> QED
    BY <1>1, <1>3, <2>1 DEF handle_ready
<1>4. CASE handle_suspend(m)
  <2> DEFINE rest == discard_queued_input(events)
  <2>1. CASE ~ExpectedSuspend(m)
    BY <1>1, <1>4, <2>1 DEF handle_suspend
  <2>2. CASE ExpectedSuspend(m)
    <3>1. rest \in Seq(HostEvents) /\ Owed(rest, cState)
      BY <1>0, DiscardCounts DEF Owed
    <3> HIDE DEF rest
    <3>2. UNCHANGED shutdownAccepted
      BY <1>4, <2>2 DEF handle_suspend, shutdownVars
    <3>3. CASE cState = "active"
      <4>1. push_event(rest, Event("release"), "release_pending", AbortedFrame)
        BY <1>4, <2>2, <3>3 DEF handle_suspend, rest
      <4>2. Event("release") \in HostEvents /\ Event("release").type = "release"
        BY EventTypes
      <4>3. Owed(Append(rest, Event("release")), "release_pending")
        BY <3>1, <3>3, <4>2, AppendCounts DEF Owed
      <4> QED
        BY <3>1, <3>2, <4>1, <4>2, <4>3, PushOwes
    <3>4. CASE cState # "active"
      <4>1. events' = rest /\ UNCHANGED <<cState, cError>>
        BY <1>4, <2>2, <3>4 DEF handle_suspend, rest
      <4> QED
        BY <3>1, <3>2, <4>1 DEF OwedInv, Owed
    <3> QED
      BY <3>3, <3>4
  <2> QED
    BY <2>1, <2>2
<1>5. CASE handle_resume(m)
  <2>1. CASE ~ExpectedResume(m)
    BY <1>1, <1>5, <2>1 DEF handle_resume
  <2>2. CASE ExpectedResume(m)
    <3>1. UNCHANGED shutdownAccepted
      BY <1>5, <2>2 DEF handle_resume, shutdownVars
    <3>2. CASE cState = "suspended"
      <4>1. push_event(events, Event("acquire"), "acquire_pending", cFrame)
        BY <1>5, <2>2, <3>2 DEF handle_resume
      <4>2. Event("acquire") \in HostEvents /\ Event("acquire").type = "acquire"
        BY EventTypes
      <4>3. Owed(Append(events, Event("acquire")), "acquire_pending")
        BY <1>0, <3>2, <4>2, AppendCounts DEF Owed
      <4> QED
        BY <1>0, <3>1, <4>1, <4>2, <4>3, PushOwes
    <3>3. CASE cState # "suspended"
      BY <1>2, <1>5, <2>2, <3>1, <3>3 DEF handle_resume
    <3> QED
      BY <3>2, <3>3
  <2> QED
    BY <2>1, <2>2
<1>6. CASE m.type = "input" /\ handle_input(m)
  <2> DEFINE e == InputEvent(m.generation)
  <2>1. e \in HostEvents /\ e.type = "input"
    <3>1. m.generation \in Nat
      BY <1>6, HelperFields, Ranges
    <3> QED
      BY <3>1, EventTypes
  <2> HIDE DEF e
  <2>2. CASE ~input_message_is_valid(m)
    BY <1>1, <1>6, <2>2 DEF handle_input
  <2>3. CASE input_message_is_valid(m) /\ push_input_event(e)
    <3>1. UNCHANGED shutdownAccepted
      BY <1>6, <2>3 DEF handle_input, shutdownVars
    <3>2. CASE push_event(events, e, cState, cFrame)
      BY <1>0, <2>1, <3>1, <3>2, PushOwes, OtherOwes
    <3>3. CASE HasInput(events)
               /\ push_event(discard_oldest_queued_input(events), e, cState, cFrame)
      <4> DEFINE rest == discard_oldest_queued_input(events)
      <4>1. rest \in Seq(HostEvents) /\ Owed(rest, cState)
        BY <1>0, <3>3, DiscardOldestCounts DEF Owed
      <4>2. push_event(rest, e, cState, cFrame)
        BY <3>3
      <4> HIDE DEF rest
      <4> QED
        BY <2>1, <3>1, <4>1, <4>2, PushOwes, OtherOwes
    <3>4. CASE UNCHANGED <<events, failVars>>
      BY <1>2, <3>1, <3>4
    <3> QED
      BY <2>3, <3>2, <3>3, <3>4 DEF push_input_event
  <2>4. CASE input_message_is_valid(m) /\ UNCHANGED <<events, failVars>>
    BY <1>2, <1>6, <2>4 DEF handle_input, shutdownVars
  <2> QED
    BY <1>6, <2>2, <2>3, <2>4 DEF handle_input, e
<1>7. CASE handle_frame_complete(m)
  <2>1. CASE OutOfOrder
    BY <1>1, <2>1
  <2>2. CASE UNCHANGED shutdownVars
             /\ push_event(events, CompleteEvent(cFrame.serial), cState, NoFrame)
    <3>1. cFrame.serial \in Nat
      BY DEF ClientType, FrameFits, CoreFrames
    <3>2. CompleteEvent(cFrame.serial) \in HostEvents
          /\ CompleteEvent(cFrame.serial).type = "complete"
      BY <3>1, EventTypes
    <3> QED
      BY <1>0, <2>2, <3>2, PushOwes, OtherOwes DEF shutdownVars
  <2> QED
    BY <1>7, <2>1, <2>2 DEF handle_frame_complete
<1>8. CASE handle_ping(m)
  <2>0. UNCHANGED <<shutdownAccepted, events>>
    BY <1>8 DEF handle_ping, shutdownVars
  <2>1. CASE UNCHANGED failVars
    BY <1>2, <2>0, <2>1
  <2>2. CASE fail_client("control_overflow")
    BY <2>0, <2>2, FailOwes
  <2>3. CASE UNCHANGED <<cState, cError>>
    BY <2>0, <2>3, StayOwes
  <2> QED
    BY <1>8, <2>1, <2>2, <2>3 DEF handle_ping
<1>9. CASE handle_shutdown_accepted
  <2>1. CASE OutOfOrder
    BY <1>1, <2>1
  <2>2. CASE shutdownAccepted' = TRUE /\ events' = <<Event("quit")>>
    <3> DEFINE e == Event("quit")
    <3>1. e \in HostEvents
      BY EventTypes
    <3>2. events' = <<e>>
      BY <2>2
    <3>3. shutdownAccepted'
      BY <2>2, Zenon
    <3> HIDE DEF e
    <3> QED
      BY <3>1, <3>2, <3>3 DEF OwedInv, Listens
  <2> QED
    BY <1>9, <2>1, <2>2, Zenon DEF handle_shutdown_accepted
<1>10. CASE handle_fatal(m)
  <2>1. CASE OutOfOrder
    BY <1>1, <2>1
  <2>2. CASE fail_client("fatal") /\ UNCHANGED events
    BY <2>2, FailOwes
  <2> QED
    BY <1>10, <2>1, <2>2 DEF handle_fatal
<1>11. m.type \in {"ready", "suspend", "resume", "input", "complete", "ping", "accepted", "fatal"}
  BY DEF HelperMessages, ControlMessages, ReadyMessage, ResumeMessage, SuspendMessage,
         FrameComplete, Ping, ShutdownAccepted, Fatal, InputMessage
<1> QED
  BY <1>3, <1>4, <1>5, <1>6, <1>7, <1>8, <1>9, <1>10, <1>11 DEF ClientReceive

\* The core takes the event at the head, and answers it if it must.
LEMMA TakeOwes ==
    ASSUME OwedInv, NEW type, TakesEvent(type)
    PROVE  /\ Tail(events) \in Seq(HostEvents) /\ (Listens => Owed(events, cState))
           /\ \A t : Count(events, t) = (IF type = t THEN 1 ELSE 0) + Count(Tail(events), t)
           /\ \A t : Count(Tail(events), t) \in Nat
<1>1. events \in Seq(HostEvents) /\ events # << >> /\ Head(events).type = type
  BY DEF OwedInv, TakesEvent
<1>2. Tail(events) \in Seq(HostEvents) /\ Head(events) \in HostEvents
  BY <1>1
<1>3. ASSUME NEW t PROVE /\ Count(events, t) = (IF type = t THEN 1 ELSE 0) + Count(Tail(events), t)
                         /\ Count(Tail(events), t) \in Nat
  BY <1>1, <1>2, CountTail, AppendCounts DEF One
<1> QED
  BY <1>2, <1>3 DEF OwedInv

LEMMA AnswerOwes ==
    ASSUME OwedInv, UNCHANGED shutdownAccepted,
           \/ TakesEvent("release") /\ complete_console_release(Tail(events))
           \/ TakesEvent("acquire") /\ complete_console_acquire(Tail(events))
    PROVE  OwedInv'
<1> DEFINE rest == Tail(events)
<1>1. rest \in Seq(HostEvents)
  BY TakeOwes
<1>2. Listens => Count(rest, "release") = 0 /\ Count(rest, "acquire") = 0
  <2>1. CASE TakesEvent("release") /\ complete_console_release(rest)
    BY <2>1, TakeOwes DEF complete_console_release, Owed
  <2>2. CASE TakesEvent("acquire") /\ complete_console_acquire(rest)
    BY <2>2, TakeOwes DEF complete_console_acquire, Owed
  <2> QED
    BY <2>1, <2>2
<1>3. \/ push_event(rest, Event("acquire"), "acquire_pending", cFrame)
      \/ push_event(rest, Event("release"), "release_pending", cFrame)
      \/ events' = rest /\ cState' \in {"suspended", "active"} /\ cError' = cError
  BY DEF complete_console_release, complete_console_acquire
<1> HIDE DEF rest
<1>4. ASSUME NEW type \in {"release", "acquire"}
      PROVE  Event(type) \in HostEvents /\ Event(type).type = type
  BY EventTypes
<1>5. CASE push_event(rest, Event("acquire"), "acquire_pending", cFrame)
  <2>1. Listens => Owed(Append(rest, Event("acquire")), "acquire_pending")
    BY <1>1, <1>2, <1>4, AppendCounts DEF Owed
  <2> QED
    BY <1>1, <1>4, <1>5, <2>1, PushOwes
<1>6. CASE push_event(rest, Event("release"), "release_pending", cFrame)
  <2>1. Listens => Owed(Append(rest, Event("release")), "release_pending")
    BY <1>1, <1>2, <1>4, AppendCounts DEF Owed
  <2> QED
    BY <1>1, <1>4, <1>6, <2>1, PushOwes
<1>7. CASE events' = rest /\ cState' \in {"suspended", "active"} /\ cError' = cError
  BY <1>1, <1>2, <1>7 DEF OwedInv, Listens, Owed
<1> QED
  BY <1>3, <1>5, <1>6, <1>7

LEMMA OwedStep ==
    ASSUME SessionType, OwedInv, [Next]_vars
    PROVE  OwedInv'
<1>0. ClientType /\ SocketType
  BY DEF SessionType, CoreType
<1>1. ASSUME NEW type, type \notin {"release", "acquire"}, TakesEvent(type), events' = Tail(events),
             UNCHANGED <<cState, cError, shutdownAccepted>>
      PROVE  OwedInv'
  BY <1>1, TakeOwes DEF OwedInv, Listens, Owed
<1>2. CASE CoreRead
  <2>1. Head(toCore) \in HelperMessages
    BY <1>0, <1>2 DEF CoreRead, SocketType
  <2> QED
    BY <1>0, <1>2, <2>1, ReceiveOwes DEF CoreRead
<1>3. CASE CoreReadsEnd \/ CoreWriteFails
  BY <1>3, FailOwes DEF CoreReadsEnd, CoreWriteFails, ClientDisconnected
<1>4. CASE CoreIsReady
  <2>1. /\ events \in Seq(HostEvents) /\ events # << >> /\ Head(events).type = "output"
        /\ events' = Tail(events) /\ UNCHANGED <<cState, cError, shutdownAccepted>>
    BY <1>4 DEF CoreIsReady, OwedInv, failVars, shutdownVars
  <2>2. /\ Tail(events) \in Seq(HostEvents)
        /\ Count(events, "release") = 0 + Count(Tail(events), "release")
        /\ Count(events, "acquire") = 0 + Count(Tail(events), "acquire")
    BY <2>1, CountTail DEF One
  <2>3. Count(Tail(events), "release") \in Nat /\ Count(Tail(events), "acquire") \in Nat
    <3>1. Head(events) \in HostEvents
      BY <2>1
    <3> QED
      BY <2>2, <3>1, AppendCounts
  <2> QED
    BY <2>1, <2>2, <2>3 DEF OwedInv, Listens, Owed
<1>5. CASE CoreReleases \/ CoreAcquires
  BY <1>5, AnswerOwes DEF CoreReleases, CoreAcquires, shutdownVars
<1>6. CASE CoreHandlesInput \/ CoreFrameCompletes \/ CoreQuits
  BY <1>1, <1>6 DEF CoreHandlesInput, CoreFrameCompletes, CoreQuits, failVars, shutdownVars
<1>7. CASE UNCHANGED <<events, cState, cError, shutdownAccepted>>
  BY <1>7, StayOwes
<1>8. CASE CoreStarts \/ CorePresents
  BY <1>7, <1>8 DEF CoreStarts, CorePresents, present_desktop, present, clientVars, failVars,
                    shutdownVars
<1>9. CASE CoreWrite \/ CoreWriteBlocks
  BY <1>7, <1>9 DEF CoreWrite, CoreWriteBlocks, SendMessage, StageMessage, shutdownVars
<1>10. CASE CoreFails \/ CoreChoice
  BY <1>7, <1>10 DEF CoreFails, CoreChoice, CoreDraws, CoreLogsOut, CoreTimesOut, CoreCrashes,
                     clientVars, failVars, shutdownVars
<1>11. CASE UNCHANGED clientVars
  BY <1>7, <1>11 DEF clientVars, failVars, shutdownVars
<1> QED
  BY <1>2, <1>3, <1>4, <1>5, <1>6, <1>8, <1>9, <1>10, <1>11, SessionSteps
     DEF CoreStep, coreSide, vars

LEMMA OwedAlways == Spec => []OwedInv
<1>1. Init => OwedInv
  BY CountNone DEF Init, CoreInit, ClientInit, OwedInv, Owed
<1> QED
  BY <1>1, OwedStep, SessionTypeCorrect, PTL DEF Spec

\* While the client waits for an answer to a change of ownership, the event that
\* asks for it is queued, once, whatever input was discarded around it
\* (push_input_event, discard_queued_input and the handlers of
\* host_privsep_client.c).
THEOREM EventIsQueued == Spec => []LifecycleEventIsQueued
<1>1. OwedInv => LifecycleEventIsQueued
  BY DEF OwedInv, Listens, Owed, LifecycleEventIsQueued
<1> QED
  BY <1>1, OwedAlways, PTL

-----------------------------------------------------------------------------
(***************************************************************************)
(* What the helper says of ownership, one step at a time.                  *)
(***************************************************************************)
Spoken == Controls(outbound)

\* Messages that say nothing of who owns the console from when on.
Others == {m \in HelperMessages : m.type \notin {"ready", "suspend"}}

SaysOther ==
    /\ UNCHANGED <<generation, readySent>>
    /\ Spoken' = Spoken \/ \E m \in Others : Spoken' = Append(Spoken, m)

SaysReady ==
    /\ ~readySent /\ readySent' /\ generation' = generation
    /\ Spoken' = Append(Spoken, ReadyMessage(generation))

SaysSuspend ==
    /\ readySent /\ readySent' /\ generation' = generation + 1 /\ generation + 1 \in Generations
    /\ \E s \in Nat : Spoken' = Append(Spoken, SuspendMessage(generation + 1, s))

\* A suspension before READY is not told: READY will name the later generation.
SuspendsUnsaid ==
    /\ ~readySent /\ ~readySent' /\ generation' = generation + 1
    /\ Spoken' = Spoken

HelperSays ==
    \/ error' = "outbound_full"
    \/ SaysOther
    \/ SaysReady
    \/ SaysSuspend
    \/ SuspendsUnsaid

LEMMA OtherMessages ==
    /\ \A g \in Generations : /\ ResumeMessage(g) \in Others /\ Fatal(g) \in Others
                              /\ InputMessage(g) \in Others
    /\ \A g \in Generations, s \in Serials : FrameComplete(g, s) \in Others
    /\ \A t \in Tokens : Ping(t) \in Others
    /\ ShutdownAccepted \in Others
BY Messages DEF Others, ResumeMessage, Fatal, InputMessage, FrameComplete, Ping, ShutdownAccepted

\* A message queued, in the words of the controls.
LEMMA EnqueueSays ==
    ASSUME NEW queue \in Seq(Records), Controls(queue) = Spoken, NEW m \in HelperMessages,
           outbound' = enqueue_message(queue, m)
    PROVE  Spoken' = IF IsInput(m) THEN Spoken ELSE Append(Spoken, m)
<1> DEFINE e == [message |-> m, started |-> FALSE]
<1>1. e \in Records /\ e.message = m /\ outbound' = Append(queue, e)
  BY DEF Records, enqueue_message
<1> HIDE DEF e
<1>2. Controls(Append(queue, e)) = IF ~IsInput(e.message) THEN Append(Controls(queue), e.message)
                                   ELSE Controls(queue)
  BY <1>1, ControlsAppend
<1> QED
  BY <1>1, <1>2 DEF Spoken

LEMMA OtherSays ==
    ASSUME QueueInv, NEW m \in Others, NEW frm, NEW pnd, enqueue_or_fail(outbound, m, frm, pnd),
           UNCHANGED <<generation, readySent>>
    PROVE  HelperSays
<1>1. CASE outbound' = enqueue_message(outbound, m)
  <2>1. m \in HelperMessages /\ outbound \in Seq(Records) /\ Controls(outbound) = Spoken
    BY DEF Others, QueueInv, Spoken
  <2>2. Spoken' = IF IsInput(m) THEN Spoken ELSE Append(Spoken, m)
    BY <1>1, <2>1, EnqueueSays
  <2> QED
    BY <2>2 DEF HelperSays, SaysOther
<1>2. CASE error' = "outbound_full"
  BY <1>2 DEF HelperSays
<1> QED
  BY <1>1, <1>2 DEF enqueue_or_fail, fail_helper

LEMMA RejectSays ==
    ASSUME HelperTypeOK, QueueInv, NEW cause, Reject(cause)
    PROVE  HelperSays
<1>1. /\ UNCHANGED <<generation, readySent>> /\ generation \in Generations
      /\ Fatal(generation) \in Others
  BY OtherMessages DEF HelperTypeOK, Reject, sessionVars
<1>2. \/ outbound' = enqueue_message(outbound, Fatal(generation))
      \/ outbound' = outbound
  BY <1>1 DEF Reject, fail_helper
<1>3. CASE outbound' = enqueue_message(outbound, Fatal(generation))
  <2>1. Fatal(generation) \in HelperMessages /\ outbound \in Seq(Records)
        /\ Controls(outbound) = Spoken
    BY <1>1 DEF Others, QueueInv, Spoken
  <2>2. Spoken' = IF IsInput(Fatal(generation)) THEN Spoken ELSE Append(Spoken, Fatal(generation))
    BY <1>3, <2>1, EnqueueSays
  <2> QED
    BY <1>1, <2>2 DEF HelperSays, SaysOther
<1> QED
  BY <1>1, <1>2, <1>3 DEF HelperSays, SaysOther, Spoken

LEMMA SilentSays ==
    ASSUME UNCHANGED <<generation, readySent, outbound>>
    PROVE  HelperSays
BY DEF HelperSays, SaysOther, Spoken

LEMMA ReadySays ==
    ASSUME HelperTypeOK, QueueInv, ~failed, ~readySent,
           enqueue_or_fail(outbound, ReadyMessage(generation), frame, pending),
           readySent' \/ error' # "none", generation' = generation
    PROVE  HelperSays
<1>1. ReadyMessage(generation) \in HelperMessages /\ ~IsInput(ReadyMessage(generation))
  BY Messages DEF HelperTypeOK
<1>2. CASE outbound' = enqueue_message(outbound, ReadyMessage(generation)) /\ error' = error
  <2>1. outbound \in Seq(Records) /\ Controls(outbound) = Spoken
    BY DEF QueueInv, Spoken
  <2>2. Spoken' = Append(Spoken, ReadyMessage(generation))
    BY <1>1, <1>2, <2>1, EnqueueSays
  <2> QED
    BY <1>2, <2>2 DEF HelperSays, SaysReady
<1>3. CASE error' = "outbound_full"
  BY <1>3 DEF HelperSays
<1> QED
  BY <1>2, <1>3 DEF enqueue_or_fail, fail_helper

LEMMA ReceiveSays ==
    ASSUME HelperTypeOK, QueueInv, NEW m \in CoreMessage, NEW presented \in BOOLEAN,
           Receive(m, presented)
    PROVE  HelperSays
<1>1. CASE ReceiveHello(m)
  <2>1. generation' = generation /\ ~readySent
    BY <1>1 DEF ReceiveHello, QueueInv
  <2>2. CASE suspended
    BY <1>1, <2>1, <2>2, SilentSays DEF ReceiveHello, queueVars
  <2>3. CASE ~suspended
    <3>1. /\ enqueue_or_fail(outbound, ReadyMessage(generation), frame, pending)
          /\ readySent' = (error' = "none")
      BY <1>1, <2>3 DEF ReceiveHello
    <3>2. readySent' \/ error' # "none"
      BY <3>1, Zenon
    <3> QED
      BY <2>1, <3>1, <3>2, ReadySays DEF Receive
  <2> QED
    BY <2>2, <2>3
<1>2. CASE Reject("hello_first") \/ Reject("credentials") \/ Reject("after_shutdown")
           \/ Reject("duplicate_hello") \/ Reject("begin_order") \/ Reject("begin_damage")
           \/ Reject("data_order") \/ Reject("data_size") \/ Reject("presentation")
           \/ Reject("terminator") \/ Reject("incomplete") \/ Reject("pong")
  BY <1>2, RejectSays
<1>3. CASE UNCHANGED <<sessionVars, outbound>>
  BY <1>3, SilentSays DEF sessionVars
<1>4. CASE handle_shutdown
  BY <1>4, OtherSays, OtherMessages DEF handle_shutdown, sessionVars
<1>5. CASE RejectHello(m)
  BY <1>2, <1>5 DEF RejectHello
<1>6. CASE handle_frame_begin(m)
  BY <1>2, <1>3, <1>6 DEF handle_frame_begin
<1>7. CASE handle_frame_data(m)
  BY <1>2, <1>3, <1>7 DEF handle_frame_data
<1>8. CASE handle_frame_reference(m, presented)
  BY <1>2, <1>3, <1>8
     DEF handle_frame_reference, DropFrame, PresentFrame, PresentFails, RejectReference
<1>9. CASE handle_pong(m)
  BY <1>2, <1>3, <1>9 DEF handle_pong, queueVars
<1> QED
  BY <1>1, <1>2, <1>4, <1>5, <1>6, <1>7, <1>8, <1>9 DEF Receive

LEMMA SuspendSays ==
    ASSUME HelperTypeOK, QueueInv, suspend
    PROVE  HelperSays
<1> DEFINE kept == purge_unsent_input(outbound)
           s == AbandonedSerial
           m == SuspendMessage(generation + 1, s)
<1>1. /\ generation' = generation + 1 /\ readySent' = readySent /\ s \in Nat
      /\ generation + 1 \in Generations
  BY HelperAssumption
     DEF suspend, CanSuspend, AbandonedSerial, Generations, HelperTypeOK, FrameType
<1>2. CASE ~readySent
  BY <1>1, <1>2 DEF suspend, HelperSays, SuspendsUnsaid, Spoken
<1>3. CASE readySent
  <2>1. outbound' = enqueue_message(kept, m) \/ error' = "outbound_full"
    BY <1>3 DEF suspend, enqueue_or_fail, fail_helper
  <2>2. kept \in Seq(Records) /\ Controls(kept) = Spoken
    BY ControlsPurge, KeptStay DEF QueueInv, Spoken
  <2>3. m \in HelperMessages /\ ~IsInput(m)
    <3> HIDE DEF s
    <3> QED
      BY <1>1, Messages
  <2>4. CASE outbound' = enqueue_message(kept, m)
    <3> HIDE DEF kept, s
    <3>1. Spoken' = Append(Spoken, m)
      BY <2>2, <2>3, <2>4, EnqueueSays
    <3> QED
      BY <1>1, <1>3, <3>1 DEF HelperSays, SaysSuspend
  <2>5. CASE error' = "outbound_full"
    BY <2>5 DEF HelperSays
  <2> QED
    BY <2>1, <2>4, <2>5
<1> QED
  BY <1>2, <1>3

\* Every call of the worker but the one that hands a message to the socket.
Calls ==
    \/ suspend
    \/ \E resized \in BOOLEAN : resume(resized)
    \/ send_input
    \/ \E gen \in Generations, serial \in Serials : complete_frame(gen, serial)
    \/ \E token \in Tokens : send_ping(token)
    \/ take_pong
    \/ report_fatal
    \/ StartHead

LEMMA CallSays ==
    ASSUME HelperTypeOK, QueueInv, Calls
    PROVE  HelperSays
<1>0. generation \in Generations
  BY DEF HelperTypeOK
<1>1. CASE suspend
  BY <1>1, SuspendSays
<1>2. CASE \E resized \in BOOLEAN : resume(resized)
  <2>1. PICK resized \in BOOLEAN : resume(resized)
    BY <1>2
  <2>2. generation' = generation /\ ~failed
    BY <2>1 DEF resume, CanResume
  <2>3. CASE ~helloReceived
    BY <2>1, <2>2, <2>3, SilentSays DEF resume, queueVars
  <2>4. CASE helloReceived /\ readySent
    <3>1. enqueue_or_fail(outbound, ResumeMessage(generation), frame, pending)
      BY <2>1, <2>4 DEF resume
    <3>2. readySent' = readySent
      <4>1. readySent'
        BY <2>1, <2>4, Zenon DEF resume
      <4>2. readySent \in BOOLEAN
        BY DEF HelperTypeOK
      <4>3. readySent' = (readySent \/ error' = "none")
        BY <2>1, <2>4 DEF resume
      <4> QED
        BY <2>4, <4>2, <4>3
    <3> QED
      BY <1>0, <2>2, <3>1, <3>2, OtherSays, OtherMessages
  <2>5. CASE helloReceived /\ ~readySent
    <3>1. enqueue_or_fail(outbound, ReadyMessage(generation), frame, pending)
      BY <2>1, <2>5 DEF resume
    <3>2. readySent' \/ error' # "none"
      BY <2>1, <2>5, Zenon DEF resume
    <3> QED
      BY <2>2, <2>5, <3>1, <3>2, ReadySays
  <2> QED
    BY <2>3, <2>4, <2>5
<1>3. CASE report_fatal
  BY <1>3, RejectSays DEF report_fatal
<1>4. CASE send_input
  BY <1>0, <1>4, OtherSays, OtherMessages DEF send_input, sessionVars
<1>5. CASE \E gen \in Generations, serial \in Serials : complete_frame(gen, serial)
  <2>1. PICK gen \in Generations, serial \in Serials : complete_frame(gen, serial)
    BY <1>5
  <2>2. CASE UNCHANGED helperVars
    BY <2>2, SilentSays DEF helperVars, sessionVars, queueVars
  <2>3. CASE Reject(CompletionError)
    BY <2>3, RejectSays
  <2>4. CASE UNCHANGED sessionVars
             /\ enqueue_or_fail(outbound, FrameComplete(gen, serial), frame, NoPresentation)
    BY <2>4, OtherSays, OtherMessages DEF sessionVars
  <2> QED
    BY <2>1, <2>2, <2>3, <2>4 DEF complete_frame
<1>6. CASE \E token \in Tokens : send_ping(token)
  BY <1>6, OtherSays, OtherMessages DEF send_ping, sessionVars
<1>7. CASE take_pong
  BY <1>7, SilentSays DEF take_pong, sessionVars, queueVars
<1>8. CASE StartHead
  <2>1. Spoken' = Spoken
    <3>1. outbound # << >> /\ outbound \in Seq(Records)
          /\ outbound' = [outbound EXCEPT ![1].started = TRUE]
      BY <1>8 DEF StartHead, QueueInv
    <3> QED
      BY <3>1, ControlsStart DEF Spoken
  <2> QED
    BY <1>8, <2>1 DEF StartHead, sessionVars, HelperSays, SaysOther
<1> QED
  BY <1>1, <1>2, <1>3, <1>4, <1>5, <1>6, <1>7, <1>8 DEF Calls

-----------------------------------------------------------------------------
(***************************************************************************)
(* How far the core is behind.                                             *)
(***************************************************************************)
UnderWay == Count(toCore, "suspend") + Count(Spoken, "suspend")

\* READY names the generation of its moment.
Announced(q) ==
    \A i \in DOMAIN q : q[i].type = "ready" => generation = q[i].generation + UnderWay

Unannounced(q) == \A i \in DOMAIN q : q[i].type \notin {"ready", "suspend"}

\* Both sides still take what they hear for true.
Trusted == cError = "none" /\ error # "outbound_full"

LagInv ==
    Trusted =>
        /\ hasOutput => generation = cGeneration + UnderWay
        /\ ~hasOutput => ~helperActive /\ cGeneration = 0 /\ Announced(toCore) /\ Announced(Spoken)
        /\ ~readySent => ~hasOutput /\ Unannounced(toCore) /\ Unannounced(Spoken)

LEMMA CountZero ==
    ASSUME NEW q, NEW type, \A i \in DOMAIN q : q[i].type # type
    PROVE  Count(q, type) = 0
<1>1. {i \in DOMAIN q : q[i].type = type} = {}
  OBVIOUS
<1> QED
  BY <1>1, FS_EmptySet DEF Count

LEMMA CountType ==
    ASSUME NEW S, NEW q \in Seq(S), NEW type
    PROVE  Count(q, type) \in Nat
<1>1. CASE q = << >>
  BY <1>1, CountNone
<1>2. CASE q # << >>
  <2>1. q[1] \in S
    BY <1>2
  <2> QED
    BY <2>1, CountAppend
<1> QED
  BY <1>1, <1>2

LEMMA Waypoints ==
    ASSUME SessionType
    PROVE  /\ toCore \in Seq(HelperMessages) /\ Spoken \in Seq(HelperMessages)
           /\ generation \in Nat /\ cGeneration \in Nat /\ generation \in Generations
           /\ UnderWay \in Nat
           /\ Count(toCore, "suspend") \in Nat /\ Count(Spoken, "suspend") \in Nat
<1>1. toCore \in Seq(HelperMessages) /\ Spoken \in Seq(HelperMessages)
  BY ControlsType DEF SessionType, SocketType, QueueInv, Spoken
<1>2. Count(toCore, "suspend") \in Nat /\ Count(Spoken, "suspend") \in Nat
  BY <1>1, CountType
<1>3. generation \in Generations /\ cGeneration \in Generations \cup {0}
  BY DEF SessionType, HelperTypeOK, CoreType, ClientType
<1> QED
  BY <1>1, <1>2, <1>3, Ranges DEF UnderWay

\* A message said, and where the others are.
LEMMA SpokenMore ==
    ASSUME SessionType, NEW m \in HelperMessages, Spoken' = Append(Spoken, m), UNCHANGED toCore
    PROVE  /\ UnderWay' = UnderWay + One(m, "suspend")
           /\ \A i \in DOMAIN Spoken' :
                 \/ i \in DOMAIN Spoken /\ Spoken'[i] = Spoken[i]
                 \/ Spoken'[i] = m
<1>1. Spoken \in Seq(HelperMessages) /\ Count(toCore, "suspend") \in Nat
      /\ Count(Spoken, "suspend") \in Nat
  BY Waypoints
<1>2. Count(Append(Spoken, m), "suspend") = Count(Spoken, "suspend") + One(m, "suspend")
  BY <1>1, CountAppend
<1>3. UnderWay' = UnderWay + One(m, "suspend")
  BY <1>1, <1>2 DEF UnderWay, One
<1>4. \A i \in DOMAIN Append(Spoken, m) :
          \/ i \in DOMAIN Spoken /\ Append(Spoken, m)[i] = Spoken[i]
          \/ Append(Spoken, m)[i] = m
  BY <1>1
<1> QED
  BY <1>3, <1>4

\* The helper speaks, and nothing is heard.
LEMMA LagSpeaks ==
    ASSUME SessionType, LagInv, Trusted, HelperSays, UNCHANGED <<toCore, ownershipVars, cError>>
    PROVE  LagInv'
<1>0. /\ generation \in Nat /\ cGeneration \in Nat /\ UnderWay \in Nat
      /\ generation \in Generations
  BY Waypoints
<1>1. UNCHANGED <<hasOutput, helperActive, cGeneration>>
  BY DEF ownershipVars
<1>2. CASE error' = "outbound_full"
  BY <1>2 DEF LagInv, Trusted
<1>3. ASSUME Spoken' = Spoken, UNCHANGED <<generation, readySent>> PROVE LagInv'
  <2>1. UnderWay' = UnderWay
    BY <1>3 DEF UnderWay
  <2> QED
    BY <1>1, <1>3, <2>1 DEF LagInv, Announced, Unannounced
<1>4. ASSUME NEW m \in Others, Spoken' = Append(Spoken, m), UNCHANGED <<generation, readySent>>
      PROVE  LagInv'
  <2>1. m \in HelperMessages /\ m.type \notin {"ready", "suspend"}
    BY DEF Others
  <2>2. UnderWay' = UnderWay
    BY <1>0, <1>4, <2>1, SpokenMore DEF One
  <2>3. \A i \in DOMAIN Spoken' : \/ i \in DOMAIN Spoken /\ Spoken'[i] = Spoken[i]
                                  \/ Spoken'[i] = m
    BY <1>4, <2>1, SpokenMore
  <2>4. Announced(Spoken) => Announced(Spoken)'
    BY <1>4, <2>1, <2>2, <2>3 DEF Announced
  <2>5. Unannounced(Spoken) => Unannounced(Spoken)'
    BY <2>1, <2>3 DEF Unannounced
  <2>6. (Announced(toCore) => Announced(toCore)') /\ (Unannounced(toCore) => Unannounced(toCore)')
    BY <1>4, <2>2 DEF Announced, Unannounced
  <2> QED
    BY <1>1, <1>4, <2>2, <2>4, <2>5, <2>6 DEF LagInv
<1>5. ASSUME ~readySent
      PROVE  ~hasOutput /\ Unannounced(toCore) /\ Unannounced(Spoken) /\ UnderWay = 0
  <2>1. ~hasOutput /\ Unannounced(toCore) /\ Unannounced(Spoken)
    BY <1>5 DEF LagInv
  <2>2. Count(toCore, "suspend") = 0 /\ Count(Spoken, "suspend") = 0
    BY <2>1, CountZero DEF Unannounced
  <2> QED
    BY <2>1, <2>2 DEF UnderWay
<1>6. CASE SaysReady
  <2> DEFINE m == ReadyMessage(generation)
  <2>1. m \in HelperMessages /\ m.type = "ready" /\ m.generation = generation
    BY <1>0, Messages DEF ReadyMessage
  <2>2. Spoken' = Append(Spoken, m) /\ ~readySent /\ readySent' /\ generation' = generation
    BY <1>6 DEF SaysReady
  <2> HIDE DEF m
  <2>3. UnderWay' = 0
    BY <1>5, <2>1, <2>2, SpokenMore DEF One
  <2>4. \A i \in DOMAIN Spoken' : \/ i \in DOMAIN Spoken /\ Spoken'[i] = Spoken[i]
                                  \/ Spoken'[i] = m
    BY <2>1, <2>2, SpokenMore
  <2>5. Announced(Spoken)' /\ Announced(toCore)'
    BY <1>0, <1>5, <2>1, <2>2, <2>3, <2>4 DEF Announced, Unannounced
  <2> QED
    BY <1>1, <1>5, <2>2, <2>5 DEF LagInv
<1>7. CASE SaysSuspend
  <2>1. PICK s \in Nat : Spoken' = Append(Spoken, SuspendMessage(generation + 1, s))
    BY <1>7 DEF SaysSuspend
  <2> DEFINE m == SuspendMessage(generation + 1, s)
  <2>2. /\ Spoken' = Append(Spoken, m) /\ readySent' /\ generation' = generation + 1
        /\ m.type = "suspend"
    BY <1>7, <2>1 DEF SaysSuspend, SuspendMessage
  <2>3. CASE m \in HelperMessages
    <3> HIDE DEF m
    <3>1. UnderWay' = UnderWay + 1
      BY <2>2, <2>3, SpokenMore DEF One
    <3>2. \A i \in DOMAIN Spoken' : \/ i \in DOMAIN Spoken /\ Spoken'[i] = Spoken[i]
                                    \/ Spoken'[i] = m
      BY <2>2, <2>3, SpokenMore
    <3>3. Announced(toCore) => Announced(toCore)'
      <4> SUFFICES ASSUME Announced(toCore), NEW i \in DOMAIN toCore, toCore[i].type = "ready"
                   PROVE  generation' = toCore[i].generation + UnderWay'
        BY DEF Announced
      <4>1. toCore[i] \in HelperMessages
        BY Waypoints
      <4>2. toCore[i].generation \in Nat
        BY <4>1, HelperFields, Ranges
      <4> QED
        BY <1>0, <2>2, <3>1, <4>2 DEF Announced
    <3>4. Announced(Spoken) => Announced(Spoken)'
      <4> SUFFICES ASSUME Announced(Spoken), NEW i \in DOMAIN Spoken', Spoken'[i].type = "ready"
                   PROVE  generation' = Spoken'[i].generation + UnderWay'
        BY DEF Announced
      <4>1. i \in DOMAIN Spoken /\ Spoken'[i] = Spoken[i]
        BY <2>2, <3>2
      <4>2. Spoken[i] \in HelperMessages
        BY <4>1, Waypoints
      <4>3. Spoken[i].type = "ready"
        BY <4>1
      <4>4. Spoken[i].generation \in Nat /\ generation = Spoken[i].generation + UnderWay
        BY <4>1, <4>2, <4>3, HelperFields, Ranges DEF Announced
      <4> DEFINE x == Spoken[i].generation
      <4>5. x \in Nat /\ generation = x + UnderWay
        BY <4>4
      <4> HIDE DEF x
      <4>6. generation' = x + UnderWay'
        BY <1>0, <2>2, <3>1, <4>5
      <4> QED
        BY <4>1, <4>6, Zenon DEF x
    <3> QED
      BY <1>0, <1>1, <2>2, <3>1, <3>3, <3>4 DEF LagInv
  <2>4. m \in HelperMessages
    BY <1>7, Messages DEF SaysSuspend
  <2> QED
    BY <2>3, <2>4
<1>8. CASE SuspendsUnsaid
  <2>1. Spoken' = Spoken /\ ~readySent /\ ~readySent'
    BY <1>8 DEF SuspendsUnsaid
  <2>2. Announced(Spoken)' /\ Announced(toCore)'
    BY <1>5, <2>1 DEF Announced, Unannounced
  <2> QED
    BY <1>1, <1>5, <2>1, <2>2 DEF LagInv, Unannounced
<1> QED
  BY <1>2, <1>3, <1>4, <1>6, <1>7, <1>8 DEF HelperSays, SaysOther

\* What is on its way to the core, in the helper's queue or in the socket.
OnItsWay(m) == (\E i \in DOMAIN toCore : m = toCore[i]) \/ (\E i \in DOMAIN Spoken : m = Spoken[i])

\* The head of the helper's queue goes into the socket.
LEMMA FlushMoves ==
    ASSUME SessionType, ConsumeHead, toCore' = Append(toCore, Head(outbound).message)
    PROVE  /\ UnderWay' = UnderWay
           /\ \A i \in DOMAIN toCore' : toCore'[i].type = "input" \/ OnItsWay(toCore'[i])
           /\ \A i \in DOMAIN Spoken' : OnItsWay(Spoken'[i])
<1> DEFINE h == Head(outbound)
           m == h.message
<1>1. /\ outbound \in Seq(Records) /\ outbound # << >> /\ outbound' = Tail(outbound)
      /\ h \in Records /\ m \in HelperMessages
  <2>1. outbound \in Seq(Records) /\ outbound # << >> /\ outbound' = Tail(outbound)
    BY DEF ConsumeHead, SessionType, QueueInv
  <2>2. h \in Records
    BY <2>1
  <2> HIDE DEF h
  <2> QED
    BY <2>1, <2>2 DEF Records
<1>2. Spoken = Controls(<<h>>) \o Spoken'
  BY <1>1, ControlsTail DEF Spoken
<1>3. Controls(<<h>>) = IF IsInput(m) THEN << >> ELSE <<m>>
  <2>1. << >> \in Seq(Records) /\ Append(<< >>, h) = <<h>> /\ Controls(<< >>) = << >>
    BY <1>1, ControlsType
  <2>2. Controls(Append(<< >>, h)) = IF ~IsInput(m) THEN Append(<< >>, m) ELSE << >>
    <3> HIDE DEF h
    <3> QED
      BY <1>1, <2>1, ControlsAppend
  <2> QED
    BY <2>1, <2>2
<1>4. /\ Spoken' \in Seq(HelperMessages) /\ toCore \in Seq(HelperMessages)
      /\ Count(toCore, "suspend") \in Nat /\ Count(Spoken', "suspend") \in Nat
  <2>1. outbound' \in Seq(Records)
    BY <1>1
  <2>2. Spoken' \in Seq(HelperMessages)
    BY <2>1, ControlsType DEF Spoken
  <2> QED
    BY <2>2, Waypoints, CountType
<1>5. toCore' = Append(toCore, m)
  OBVIOUS
<1> HIDE DEF h, m
<1>6. /\ Count(toCore', "suspend") = Count(toCore, "suspend") + One(m, "suspend")
      /\ \A i \in DOMAIN toCore' : \/ i \in DOMAIN toCore /\ toCore'[i] = toCore[i]
                                   \/ toCore'[i] = m
  <2>1. Count(Append(toCore, m), "suspend") = Count(toCore, "suspend") + One(m, "suspend")
    BY <1>1, <1>4, CountAppend
  <2>2. \A i \in DOMAIN Append(toCore, m) :
            \/ i \in DOMAIN toCore /\ Append(toCore, m)[i] = toCore[i]
            \/ Append(toCore, m)[i] = m
    BY <1>1, <1>4
  <2> QED
    BY <1>5, <2>1, <2>2
<1>7. CASE IsInput(m)
  <2>1. Spoken = Spoken'
    BY <1>2, <1>3, <1>4, <1>7
  <2>2. One(m, "suspend") = 0 /\ m.type = "input"
    BY <1>7 DEF IsInput, One
  <2> QED
    BY <1>4, <1>6, <2>1, <2>2 DEF UnderWay, OnItsWay
<1>8. CASE ~IsInput(m)
  <2>0. Controls(<<h>>) = <<m>>
    BY <1>3, <1>8, Zenon
  <2>1. Spoken = <<m>> \o Spoken' /\ <<m>> \in Seq(HelperMessages)
    <3>1. Spoken = <<m>> \o Spoken'
      BY <1>2, <2>0, Zenon
    <3>2. <<m>> \in Seq(HelperMessages)
      BY <1>1
    <3> QED
      BY <3>1, <3>2
  <2>2. Count(<<m>>, "suspend") = One(m, "suspend")
    <3>1. << >> \in Seq(HelperMessages) /\ Append(<< >>, m) = <<m>>
      BY <1>1
    <3>2. Count(Append(<< >>, m), "suspend") = Count(<< >>, "suspend") + One(m, "suspend")
      BY <1>1, <3>1, CountAppend
    <3> QED
      BY <3>1, <3>2, CountNone DEF One
  <2>3. Count(Spoken, "suspend") = One(m, "suspend") + Count(Spoken', "suspend")
    <3> DEFINE a == <<m>>
               b == Spoken'
    <3>1. a \in Seq(HelperMessages) /\ b \in Seq(HelperMessages) /\ Spoken = a \o b
      BY <1>4, <2>1
    <3> HIDE DEF a, b
    <3>2. Count(Spoken, "suspend") = Count(a, "suspend") + Count(b, "suspend")
      BY <3>1, CountConcat
    <3> QED
      BY <2>2, <3>2 DEF a, b
  <2>4. UnderWay' = UnderWay
    BY <1>4, <1>6, <2>3 DEF UnderWay, One
  <2>5. 1 \in DOMAIN Spoken /\ Spoken[1] = m
        /\ \A i \in DOMAIN Spoken' : i + 1 \in DOMAIN Spoken /\ Spoken'[i] = Spoken[i + 1]
    BY <1>4, <2>1
  <2> QED
    BY <1>6, <2>4, <2>5 DEF OnItsWay
<1> QED
  BY <1>7, <1>8

LEMMA LagFlushes ==
    ASSUME SessionType, LagInv, ConsumeHead, toCore' = Append(toCore, Head(outbound).message),
           UNCHANGED <<ownershipVars, cError>>
    PROVE  LagInv'
<1>1. UNCHANGED <<hasOutput, helperActive, cGeneration, generation, readySent, error, cError>>
  BY DEF ConsumeHead, sessionVars, ownershipVars
<1>2. /\ UnderWay' = UnderWay
      /\ \A i \in DOMAIN toCore' : toCore'[i].type = "input" \/ OnItsWay(toCore'[i])
      /\ \A i \in DOMAIN Spoken' : OnItsWay(Spoken'[i])
  BY FlushMoves
<1>3. ASSUME Announced(toCore), Announced(Spoken) PROVE Announced(toCore)' /\ Announced(Spoken)'
  <2>1. \A m : OnItsWay(m) /\ m.type = "ready" => generation = m.generation + UnderWay
    BY <1>3 DEF Announced, OnItsWay
  <2> QED
    BY <1>1, <1>2, <2>1 DEF Announced
<1>4. ASSUME Unannounced(toCore), Unannounced(Spoken)
      PROVE  Unannounced(toCore)' /\ Unannounced(Spoken)'
  <2>1. \A m : OnItsWay(m) => m.type \notin {"ready", "suspend"}
    BY <1>4 DEF Unannounced, OnItsWay
  <2> QED
    BY <1>2, <2>1 DEF Unannounced
<1> QED
  BY <1>1, <1>2, <1>3, <1>4 DEF LagInv, Trusted

\* The client hears the message at the head of the socket.
LEMMA LagHears ==
    ASSUME SessionType, LagInv, Trusted, CoreRead, UNCHANGED workerSide
    PROVE  LagInv'
<1> DEFINE m == Head(toCore)
<1>1. /\ toCore # << >> /\ ClientReceive(m) /\ toCore' = Tail(toCore)
      /\ UNCHANGED <<generation, readySent, error, Spoken>>
  BY DEF CoreRead, workerSide, helperVars, sessionVars, queueVars, Spoken
<1>2. /\ toCore \in Seq(HelperMessages) /\ generation \in Nat /\ cGeneration \in Nat
      /\ UnderWay \in Nat /\ Count(Spoken, "suspend") \in Nat
  BY Waypoints
<1>3. m \in HelperMessages /\ 1 \in DOMAIN toCore /\ m = toCore[1]
      /\ \A i \in DOMAIN toCore' : i + 1 \in DOMAIN toCore /\ toCore'[i] = toCore[i + 1]
  BY <1>1, <1>2
<1>17. toCore' \in Seq(HelperMessages)
  BY <1>1, <1>2
<1>4. UnderWay = One(m, "suspend") + UnderWay' /\ UnderWay' \in Nat
  <2>1. Count(toCore, "suspend") = One(m, "suspend") + Count(toCore', "suspend")
    BY <1>1, <1>2, CountTail
  <2>2. Count(toCore', "suspend") \in Nat
    <3> DEFINE t == toCore'
    <3>1. t \in Seq(HelperMessages)
      BY <1>1, <1>2, <1>17
    <3> HIDE DEF t
    <3>2. Count(t, "suspend") \in Nat
      BY <3>1, CountType
    <3> QED
      BY <3>2 DEF t
  <2> QED
    BY <1>1, <1>2, <2>1, <2>2 DEF UnderWay, One
<1>18. m.type # "suspend" => UnderWay' = UnderWay
  <2>1. m.type # "suspend" => One(m, "suspend") = 0
    BY Zenon DEF One
  <2> QED
    BY <1>2, <1>4, <2>1
<1>5. Unannounced(toCore) => Unannounced(toCore)' /\ m.type \notin {"ready", "suspend"}
  BY <1>3 DEF Unannounced
<1>6. ASSUME UnderWay' = UnderWay PROVE Announced(toCore) => Announced(toCore)'
  BY <1>1, <1>3, <1>6 DEF Announced
<1>7. ASSUME UnderWay' = UnderWay PROVE Announced(Spoken) => Announced(Spoken)'
  BY <1>1, <1>7 DEF Announced
<1>8. Unannounced(Spoken) => Unannounced(Spoken)'
  BY <1>1 DEF Unannounced
<1> HIDE DEF m
<1>9. SUFFICES ASSUME cError' = "none" PROVE LagInv'
  BY DEF LagInv, Trusted
<1>10. ~OutOfOrder /\ \A cause : cause # "none" => ~fail_client(cause)
  BY <1>9 DEF OutOfOrder, fail_client
<1>11. CASE UNCHANGED ownershipVars /\ m.type # "suspend"
  <2>1. UnderWay' = UnderWay
    BY <1>11, <1>18
  <2>2. UNCHANGED <<hasOutput, helperActive, cGeneration>>
    BY <1>11 DEF ownershipVars
  <2> QED
    BY <1>1, <1>5, <1>6, <1>7, <1>8, <2>1, <2>2 DEF LagInv
<1>12. CASE m.type = "ready"
  <2>1. ~hasOutput /\ cGeneration' = m.generation /\ hasOutput'
    BY <1>1, <1>10, <1>12, Zenon DEF ClientReceive, handle_ready
  <2>2. UnderWay' = UnderWay
    BY <1>12, <1>18
  <2>3. generation = m.generation + UnderWay
    BY <1>3, <1>12, <2>1 DEF LagInv, Announced
  <2>4. readySent
    BY <1>5, <1>12 DEF LagInv
  <2> QED
    BY <1>1, <2>1, <2>2, <2>3, <2>4 DEF LagInv
<1>13. CASE m.type = "suspend"
  <2>1. ExpectedSuspend(m) /\ cGeneration' = m.generation /\ hasOutput' = hasOutput
    BY <1>1, <1>10, <1>13 DEF ClientReceive, handle_suspend
  <2>2. hasOutput
    BY <2>1 DEF ExpectedSuspend, LagInv
  <2>3. m.generation = cGeneration + 1
    BY <2>1 DEF ExpectedSuspend
  <2>4. UnderWay = 1 + UnderWay'
    BY <1>4, <1>13 DEF One
  <2>5. generation = cGeneration + UnderWay /\ readySent
    BY <2>2 DEF LagInv
  <2> QED
    BY <1>1, <1>2, <1>4, <2>1, <2>2, <2>3, <2>4, <2>5 DEF LagInv
<1>14. CASE m.type = "resume"
  <2>1. ExpectedResume(m) /\ UNCHANGED <<cGeneration, hasOutput>>
    BY <1>1, <1>10, <1>14 DEF ClientReceive, handle_resume
  <2>2. m.generation \in Nat /\ m.generation # 0
    BY <1>3, <1>14, HelperFields DEF Generations
  <2>3. hasOutput
    BY <2>1, <2>2 DEF ExpectedResume, LagInv
  <2>4. UnderWay' = UnderWay
    BY <1>14, <1>18
  <2> QED
    BY <1>1, <2>1, <2>3, <2>4 DEF LagInv
<1>15. ASSUME m.type \notin {"ready", "suspend", "resume"} PROVE UNCHANGED ownershipVars
  <2>1. CASE m.type = "input"
    BY <1>1, <1>10, <2>1 DEF ClientReceive, handle_input
  <2>2. CASE m.type = "complete"
    BY <1>1, <1>10, <2>2 DEF ClientReceive, handle_frame_complete
  <2>3. CASE m.type = "ping"
    BY <1>1, <2>3 DEF ClientReceive, handle_ping
  <2>4. CASE m.type = "accepted"
    BY <1>1, <1>10, <2>4 DEF ClientReceive, handle_shutdown_accepted
  <2>5. CASE m.type = "fatal"
    BY <1>1, <1>10, <2>5 DEF ClientReceive, handle_fatal
  <2> QED
    BY <1>3, <1>15, <2>1, <2>2, <2>3, <2>4, <2>5
       DEF HelperMessages, ControlMessages, ReadyMessage, ResumeMessage, SuspendMessage,
           FrameComplete, Ping, ShutdownAccepted, Fatal, InputMessage
<1> QED
  BY <1>11, <1>12, <1>13, <1>14, <1>15

\* What the worker makes the helper say, and what it leaves in the socket.
LEMMA WorkerSays ==
    ASSUME SessionType, WorkerStep
    PROVE  \/ HelperSays /\ UNCHANGED toCore
           \/ ConsumeHead /\ toCore' = Append(toCore, Head(outbound).message)
<1>0. HelperTypeOK /\ QueueInv /\ WorkerType /\ SocketType
  BY DEF SessionType
<1>1. CASE WorkerDrain
  <2>1. Head(toHelper) \in CoreMessage
    BY <1>0, <1>1 DEF WorkerDrain, SocketType
  <2>2. Receive(Head(toHelper), HostPresents(Head(toHelper))) /\ UNCHANGED toCore
    BY <1>1 DEF WorkerDrain
  <2>3. HostPresents(Head(toHelper)) \in BOOLEAN
    BY DEF HostPresents
  <2> QED
    BY <1>0, <2>1, <2>2, <2>3, ReceiveSays
<1>2. ASSUME Calls PROVE HelperSays
  BY <1>0, <1>2, CallSays
<1>3. ASSUME UNCHANGED helperVars PROVE HelperSays
  BY <1>3, SilentSays DEF helperVars, sessionVars, queueVars
<1>4. CASE WorkerFlush
  BY <1>4 DEF WorkerFlush
<1>5. CASE WorkerInput \/ WorkerFlushBlocked \/ WorkerTakePong \/ WorkerExpires \/ WorkerRelease
             \/ WorkerAcquire
  BY <1>2, <1>3, <1>5
     DEF WorkerInput, WorkerFlushBlocked, WorkerTakePong, WorkerExpires, WorkerRelease,
         WorkerAcquire, Calls, socketVars
<1>6. CASE WorkerPing
  <2>1. pings + 1 \in Tokens
    BY <1>0, <1>6, SessionAssumption, WorkerAssumption DEF WorkerPing, WorkerType
  <2> QED
    BY <1>2, <1>6, <2>1 DEF WorkerPing, Calls
<1>7. CASE WorkerComplete
  <2> DEFINE serial == Head(completions)
  <2>1. serial \in Serials /\ UNCHANGED toCore
    BY <1>0, <1>7 DEF WorkerComplete, WorkerType
  <2>2. CASE complete_frame(wFrame.generation, serial) /\ serial = wFrame.submitted
    <3>1. wFrame.generation \in Generations
      BY <1>0, <2>1, <2>2 DEF WorkerType, Serials
    <3> QED
      BY <1>2, <2>1, <2>2, <3>1 DEF Calls
  <2> QED
    BY <1>3, <1>7, <2>1, <2>2 DEF WorkerComplete
<1>8. CASE UNCHANGED <<helperVars, toCore>>
  BY <1>3, <1>8
<1> QED
  BY <1>1, <1>4, <1>5, <1>6, <1>7, <1>8
     DEF WorkerStep, WorkerCoreGone, WorkerDrained, WorkerEmergency, WorkerInputDone,
         WorkerFlushDone, WorkerFlushFails, WorkerNoPing, WorkerReleaseFails,
         WorkerAcquireFails, WorkerNoEvent

\* Neither side forgets a failure.
LEMMA FullStays ==
    ASSUME [HelperNext]_helperVars, error = "outbound_full"
    PROVE  error' = "outbound_full"
BY DEF HelperNext, FromCore, FromWorker, Receive, ReceiveMalformed, suspend, CanSuspend, resume,
       CanResume, ResumeOutOfMemory, send_input, CanSendInput, complete_frame, send_ping, CanPing,
       take_pong, report_fatal, StartHead, ConsumeHead, helperVars, queueVars

LEMMA ErrorStays ==
    ASSUME [Next]_vars, cError # "none"
    PROVE  cError' # "none"
<1>1. CASE CoreStep
  <2>1. CASE CoreRead \/ CoreReadsEnd \/ CoreWriteFails
    BY <2>1 DEF CoreRead, CoreReadsEnd, CoreWriteFails, ClientReceive, CanIngest, ClientDisconnected
  <2>2. CASE CoreWrite \/ CoreWriteBlocks \/ CoreIsReady \/ CoreStarts \/ CorePresents
    BY <2>2 DEF CoreWrite, CoreWriteBlocks, SendMessage, StageMessage, CoreIsReady, CoreStarts,
                CorePresents, present_desktop, present, clientVars, failVars
  <2>3. CASE CoreReleases \/ CoreAcquires
    BY <2>3 DEF CoreReleases, CoreAcquires, complete_console_release, complete_console_acquire,
                push_event, fail_client
  <2>4. CASE CoreHandlesInput \/ CoreFrameCompletes \/ CoreQuits \/ CoreFails
    BY <2>4 DEF CoreHandlesInput, CoreFrameCompletes, CoreQuits, CoreFails, clientVars, failVars
  <2> QED
    BY <1>1, <2>1, <2>2, <2>3, <2>4 DEF CoreStep
<1>2. CASE CoreChoice
  BY <1>2 DEF CoreChoice, CoreDraws, CoreLogsOut, CoreTimesOut, CoreCrashes, clientVars, failVars
<1>3. CASE UNCHANGED clientVars
  BY <1>3 DEF clientVars, failVars
<1> QED
  BY <1>1, <1>2, <1>3
     DEF Next, Worker, Core, CoreMay, User, Terminated, coreSide, vars

\* What the core does but for hearing the helper tells nothing of ownership.
LEMMA CoreKeepsOwnership ==
    ASSUME CoreStep \/ CoreChoice
    PROVE  CoreRead \/ UNCHANGED <<ownershipVars, toCore>>
<1>1. CASE CoreReadsEnd \/ CoreWriteFails \/ CoreWrite \/ CoreWriteBlocks \/ CoreIsReady
  BY <1>1 DEF CoreReadsEnd, CoreWriteFails, ClientDisconnected, CoreWrite, CoreWriteBlocks,
              SendMessage, StageMessage, CoreIsReady, socketVars
<1>2. CASE CoreStarts \/ CorePresents \/ CoreReleases \/ CoreAcquires
  BY <1>2 DEF CoreStarts, CorePresents, present_desktop, present, CoreReleases, CoreAcquires,
              clientVars, socketVars
<1>3. CASE CoreHandlesInput \/ CoreFrameCompletes \/ CoreQuits \/ CoreFails \/ CoreChoice
  BY <1>3 DEF CoreHandlesInput, CoreFrameCompletes, CoreQuits, CoreFails, CoreChoice, CoreDraws,
              CoreLogsOut, CoreTimesOut, CoreCrashes, clientVars, socketVars
<1> QED
  BY <1>1, <1>2, <1>3 DEF CoreStep

LEMMA LagStep ==
    ASSUME SessionType, LagInv, [Next]_vars
    PROVE  LagInv'
<1>1. CASE ~Trusted
  <2>1. CASE cError # "none"
    BY <2>1, ErrorStays DEF LagInv, Trusted
  <2>2. CASE error = "outbound_full"
    BY <2>2, FullStays, StepsHelper DEF LagInv, Trusted
  <2> QED
    BY <1>1, <2>1, <2>2 DEF Trusted
<1>2. CASE Trusted /\ WorkerStep /\ UNCHANGED coreSide
  <2>1. UNCHANGED <<ownershipVars, cError>>
    BY <1>2 DEF coreSide, clientVars, failVars
  <2> QED
    BY <1>2, <2>1, WorkerSays, LagSpeaks, LagFlushes
<1>3. CASE Trusted /\ UNCHANGED <<helperVars, toCore, ownershipVars>>
  <2>1. HelperSays
    BY <1>3, SilentSays DEF helperVars, sessionVars, queueVars
  <2>2. CASE cError' = cError
    BY <1>3, <2>1, <2>2, LagSpeaks
  <2>3. CASE cError' # cError
    BY <1>3, <2>3 DEF LagInv, Trusted
  <2> QED
    BY <2>2, <2>3
<1>4. CASE Trusted /\ CoreRead /\ UNCHANGED workerSide
  BY <1>4, LagHears
<1> QED
  BY <1>1, <1>2, <1>3, <1>4, SessionSteps, CoreKeepsOwnership
     DEF workerSide, coreSide, clientVars, SwitchAway, SwitchBack, socketVars, vars

LEMMA LagAlways == Spec => []LagInv
<1>1. Init => LagInv
  <2> SUFFICES ASSUME Init PROVE LagInv
    OBVIOUS
  <2>1. toCore = << >> /\ outbound = << >> /\ ~hasOutput /\ ~helperActive /\ cGeneration = 0
    BY Zenon DEF Init, WorkerInit, CoreInit, ClientInit, HelperInit, SocketInit
  <2>2. << >> \in Seq(Records)
    OBVIOUS
  <2>3. Spoken = << >>
    BY <2>1, <2>2, ControlsType DEF Spoken
  <2> QED
    BY <2>1, <2>3 DEF LagInv, Announced, Unannounced
<1> QED
  BY <1>1, LagStep, SessionTypeCorrect, PTL DEF Spec

\* The core is behind the helper by exactly the SUSPENDs still under way, in the
\* outbound queue or in the socket (enqueue_message and purge_unsent_input of
\* privsep_helper.c, handle_suspend of host_privsep_client.c).
THEOREM CoreLag == Spec => []CoreLagsBySuspendsInFlight
<1>1. SessionType /\ LagInv => CoreLagsBySuspendsInFlight
  <2> SUFFICES ASSUME SessionType, LagInv, hasOutput, Trusted
               PROVE  generation = cGeneration + Count(toCore, "suspend")
                                     + Count(Controls(outbound), "suspend")
    BY DEF CoreLagsBySuspendsInFlight, Trusted
  <2> QED
    BY Waypoints DEF LagInv, UnderWay, Spoken
<1> QED
  BY <1>1, LagAlways, SessionTypeCorrect, PTL

\* So helper, client and core agree on how often the console has changed hands,
\* whatever the socket and the queues do.
THEOREM LifecycleInStep == Spec => []LifecycleIsInStep
BY CoreLag, EventIsQueued, PTL DEF LifecycleIsInStep

=============================================================================
