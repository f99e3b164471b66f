------------------------- MODULE PrivsepHelperProofs -------------------------
(***************************************************************************)
(* What holds of the privileged helper for every number of regions,        *)
(* generations, serials, tokens and queue records, against every core and  *)
(* every worker PrivsepHelper allows.                                      *)
(*                                                                         *)
(* Most operations only queue a message, close the frame or do neither:    *)
(* they are Quiet, and one lemma settles them all.  Six touch pixels or    *)
(* ownership: the accepted FRAME_BEGIN and FRAME_DATA, the dropped and the *)
(* presented frame, suspend and resume.                                    *)
(***************************************************************************)
EXTENDS PrivsepHelper, SequenceTheorems, WellFoundedInduction, TLAPS

USE DEF failed, presentationPending

(***************************************************************************)
(* Messages and the outbound queue.                                        *)
(***************************************************************************)
\* The fields of a message the parser delivers are in range.
LEMMA MessageFields ==
    ASSUME NEW m \in CoreMessage
    PROVE  /\ m.type = "begin" => /\ m.generation \in Generations
                                  /\ m.serial \in Serials
                                  /\ m.damage \in SUBSET Regions
                                  /\ m.whole => m.damage = Regions
           /\ m.type = "data" => /\ m.generation \in Generations
                                 /\ m.serial \in Serials
                                 /\ m.region \in Regions
           /\ m.type = "pong" => m.token \in Tokens
<1>1. CASE m \in Hellos \cup {ShutdownRequest} \cup Ends(Generations, Serials)
  BY <1>1 DEF Hellos, Hello, ShutdownRequest, Ends, Commit, Abort
<1>2. CASE m \in Begins(Generations, Serials)
  BY <1>2 DEF Begins, Damage
<1>3. CASE m \in Pieces(Generations, Serials)
  BY <1>3 DEF Pieces, Data
<1>4. CASE m \in Pongs(Tokens)
  BY <1>4 DEF Pongs, Pong
<1> QED
  BY <1>1, <1>2, <1>3, <1>4 DEF CoreMessage, CoreMessages

\* fail_helper records the cause and closes the frame.
LEMMA FailEffect ==
    ASSUME NEW queue, NEW cause, fail_helper(queue, cause)
    PROVE  error' = cause /\ frame' = ClosedFrame /\ pending' = NoPresentation
BY DEF fail_helper

\* enqueue_or_fail leaves the frame state it is given, or fails.
LEMMA EnqueueEffect ==
    ASSUME NEW queue, NEW m, NEW frm, NEW pnd, enqueue_or_fail(queue, m, frm, pnd)
    PROVE  \/ error' = error /\ frame' = frm /\ pending' = pnd
           \/ error' = "outbound_full" /\ frame' = ClosedFrame /\ pending' = NoPresentation
BY DEF enqueue_or_fail, fail_helper

-----------------------------------------------------------------------------
(***************************************************************************)
(* Quiet steps.                                                            *)
(***************************************************************************)
Quiet ==
    /\ UNCHANGED <<pixelVars, generation, suspended>>
    /\ shutdownRequested => shutdownRequested'
    /\ failed => failed'
    /\ pending' = pending \/ pending' = NoPresentation
    /\ \/ frame' = frame /\ (readySent => readySent')
       \/ frame' = ClosedFrame /\ (failed' \/ shutdownRequested')

\* A rejection is a quiet step.
LEMMA RejectIsQuiet ==
    ASSUME NEW cause, cause # "none", Reject(cause)
    PROVE  Quiet
BY FailEffect DEF Reject, Quiet, sessionVars, pixelVars, controlVars

\* Whatever is not an accepted piece, end, suspension or resumption is quiet.
LEMMA ReceiveCases ==
    ASSUME NEW m, NEW presented, Receive(m, presented)
    PROVE  \/ Quiet
           \/ m.type = "begin" /\ BeginInOrder(m) /\ DamageAcceptable(m) /\ handle_frame_begin(m)
           \/ m.type = "data" /\ DataInOrder(m) /\ DataFits(m) /\ handle_frame_data(m)
           \/ DropFrame(m)
           \/ ~failed /\ ~shutdownRequested /\ PresentFrame(m)
<1>1. CASE ReceiveHello(m)
  <2>1. CASE suspended
    BY <1>1, <2>1 DEF ReceiveHello, Quiet, queueVars, pixelVars, controlVars
  <2>2. CASE ~suspended
    <3>1. enqueue_or_fail(outbound, ReadyMessage(generation), frame, pending)
      BY <1>1, <2>2 DEF ReceiveHello
    <3>2. \/ error' = error /\ frame' = frame /\ pending' = pending
          \/ error' = "outbound_full" /\ frame' = ClosedFrame /\ pending' = NoPresentation
      BY <3>1, EnqueueEffect
    <3> QED
      BY <1>1, <2>2, <3>2 DEF ReceiveHello, Receive, Quiet, pixelVars, controlVars
  <2> QED BY <2>1, <2>2
<1>2. CASE RejectHello(m)
  BY <1>2, RejectIsQuiet DEF RejectHello
<1>3. CASE helloReceived /\ shutdownRequested /\ Reject("after_shutdown")
  BY <1>3, RejectIsQuiet
<1>4. CASE m.type = "hello" /\ Reject("duplicate_hello")
  BY <1>4, RejectIsQuiet
<1>5. CASE m.type = "begin" /\ handle_frame_begin(m)
  BY <1>5, RejectIsQuiet DEF handle_frame_begin
<1>6. CASE m.type = "data" /\ handle_frame_data(m)
  BY <1>6, RejectIsQuiet DEF handle_frame_data
<1>7. CASE ~shutdownRequested /\ handle_frame_reference(m, presented)
  BY <1>7, RejectIsQuiet DEF handle_frame_reference, PresentFails, RejectReference, Receive
<1>8. CASE handle_pong(m)
  <2>1. CASE Reject("pong")
    BY <2>1, RejectIsQuiet
  <2>2. CASE ~Reject("pong")
    BY <1>8, <2>2 DEF handle_pong, Quiet, sessionVars, pixelVars, queueVars
  <2> QED BY <2>1, <2>2
<1>9. CASE handle_shutdown
  <2>1. \/ error' = error /\ frame' = ClosedFrame /\ pending' = NoPresentation
        \/ error' = "outbound_full" /\ frame' = ClosedFrame /\ pending' = NoPresentation
    BY <1>9, EnqueueEffect DEF handle_shutdown
  <2> QED BY <1>9, <2>1 DEF handle_shutdown, Quiet, sessionVars, pixelVars
<1> QED
  BY <1>1, <1>2, <1>3, <1>4, <1>5, <1>6, <1>7, <1>8, <1>9 DEF Receive

\* Of the worker's calls only suspend and resume are not quiet.
LEMMA WorkerCases ==
    ASSUME FromWorker
    PROVE  \/ Quiet
           \/ suspend /\ SuspendScreen
           \/ \E resized \in BOOLEAN : resume(resized)
<1> DEFINE Kept == \/ error' = error /\ frame' = frame
                      /\ (pending' = pending \/ pending' = NoPresentation)
                   \/ error' = "outbound_full" /\ frame' = ClosedFrame
                      /\ pending' = NoPresentation
<1>1. CASE ResumeOutOfMemory
  BY <1>1, RejectIsQuiet DEF ResumeOutOfMemory
<1>2. CASE send_input
  <2>1. Kept
    BY <1>2, EnqueueEffect DEF send_input
  <2> QED BY <1>2, <2>1 DEF send_input, CanSendInput, Quiet, sessionVars, pixelVars, controlVars
<1>3. CASE \E gen \in Generations, serial \in Serials : complete_frame(gen, serial)
  <2>1. PICK gen \in Generations, serial \in Serials : complete_frame(gen, serial)
    BY <1>3
  <2>2. CASE UNCHANGED helperVars
    BY <2>2 DEF Quiet, helperVars, sessionVars, pixelVars, queueVars, controlVars
  <2>3. CASE Reject(CompletionError)
    BY <2>3, RejectIsQuiet DEF CompletionError
  <2>4. CASE /\ UNCHANGED <<sessionVars, pixelVars, controlVars>>
             /\ enqueue_or_fail(outbound, FrameComplete(gen, serial), frame, NoPresentation)
    <3>1. Kept
      BY <2>4, EnqueueEffect
    <3> QED BY <2>4, <3>1 DEF Quiet, sessionVars, pixelVars, controlVars
  <2> QED BY <2>1, <2>2, <2>3, <2>4 DEF complete_frame
<1>4. CASE \E token \in Tokens : send_ping(token)
  <2>1. PICK token \in Tokens : send_ping(token)
    BY <1>4
  <2>2. Kept
    BY <2>1, EnqueueEffect DEF send_ping
  <2> QED BY <2>1, <2>2 DEF send_ping, CanPing, Quiet, sessionVars, pixelVars
<1>5. CASE take_pong
  BY <1>5 DEF take_pong, Quiet, sessionVars, pixelVars, queueVars
<1>6. CASE report_fatal
  BY <1>6, RejectIsQuiet DEF report_fatal
<1>7. CASE StartHead \/ ConsumeHead
  BY <1>7 DEF StartHead, ConsumeHead, Quiet, sessionVars, pixelVars, controlVars
<1> QED
  BY <1>1, <1>2, <1>3, <1>4, <1>5, <1>6, <1>7 DEF FromWorker

-----------------------------------------------------------------------------
(***************************************************************************)
(* Type correctness.                                                       *)
(***************************************************************************)
Presentations == [generation : Nat, serial : Nat]

\* The closed frame and the empty presentation have their types.
LEMMA ClosedTypes == ClosedFrame \in FrameType /\ NoPresentation \in Presentations
BY DEF ClosedFrame, FrameType, NoPresentation, Presentations

\* The ranges of generations, serials and tokens are ranges of naturals.
LEMMA Ranges == Generations \subseteq Nat /\ Serials \subseteq Nat /\ Tokens \subseteq Nat
BY HelperAssumption DEF Generations, Serials

\* A rejection keeps the types.
LEMMA RejectType ==
    ASSUME HelperTypeOK, NEW cause \in Errors, Reject(cause)
    PROVE  HelperTypeOK'
BY FailEffect, ClosedTypes
   DEF Reject, HelperTypeOK, Presentations, sessionVars, pixelVars, controlVars

\* Queueing a message, or failing to, keeps the types it may change.
LEMMA EnqueueType ==
    ASSUME error \in Errors, NEW queue, NEW m, NEW frm \in FrameType,
           NEW pnd \in Presentations, enqueue_or_fail(queue, m, frm, pnd)
    PROVE  error' \in Errors /\ frame' \in FrameType /\ pending' \in Presentations
BY EnqueueEffect, ClosedTypes DEF Errors

\* Every message of the core keeps the types.
LEMMA ReceiveType ==
    ASSUME HelperTypeOK, NEW m \in CoreMessage, NEW presented \in BOOLEAN,
           Receive(m, presented)
    PROVE  HelperTypeOK'
<1> USE DEF Presentations
<1>1. CASE ReceiveHello(m)
  <2>1. CASE suspended
    BY <1>1, <2>1 DEF ReceiveHello, HelperTypeOK, queueVars, pixelVars, controlVars
  <2>2. CASE ~suspended
    <3>1. error' \in Errors /\ frame' \in FrameType /\ pending' \in Presentations
      BY <1>1, <2>2, EnqueueType DEF ReceiveHello, HelperTypeOK
    <3>2. helloReceived' \in BOOLEAN /\ readySent' \in BOOLEAN
      BY <1>1, <2>2 DEF ReceiveHello
    <3> QED
      BY <1>1, <2>2, <3>1, <3>2 DEF ReceiveHello, HelperTypeOK, pixelVars, controlVars
  <2> QED BY <2>1, <2>2
<1>2. CASE RejectHello(m)
  BY <1>2, RejectType DEF RejectHello, Errors
<1>3. CASE Reject("after_shutdown") \/ Reject("duplicate_hello")
  BY <1>3, RejectType DEF Errors
<1>4. CASE m.type = "begin" /\ handle_frame_begin(m)
  <2>1. CASE Reject("begin_order") \/ Reject("begin_damage")
    BY <2>1, RejectType DEF Errors
  <2>2. CASE /\ frame' = [open |-> TRUE, stale |-> FALSE, generation |-> m.generation,
                          serial |-> m.serial, damage |-> m.damage, received |-> {}]
             /\ UNCHANGED <<sessionVars, pixelVars, controlVars, pending, outbound, error>>
    <3>1. m.generation \in Nat /\ m.serial \in Nat /\ m.damage \in SUBSET Regions
      BY <1>4, MessageFields, Ranges
    <3>2. frame' \in FrameType
      BY <2>2, <3>1 DEF FrameType
    <3> QED BY <2>2, <3>2 DEF HelperTypeOK, sessionVars, pixelVars, controlVars
  <2> QED BY <1>4, <2>1, <2>2 DEF handle_frame_begin
<1>5. CASE m.type = "data" /\ handle_frame_data(m)
  <2>1. CASE Reject("data_order") \/ Reject("data_size")
    BY <2>1, RejectType DEF Errors
  <2>2. CASE /\ frame' = [frame EXCEPT !.received = @ \cup {m.region}]
             /\ staging' = IF frame.stale THEN staging
                           ELSE [staging EXCEPT ![m.region] = <<m.generation, m.serial>>]
             /\ UNCHANGED <<sessionVars, controlVars, lastSubmitted, stagingValid, screen,
                            pending, outbound, error>>
    <3>1. m.generation \in Nat /\ m.serial \in Nat /\ m.region \in Regions
      BY <1>5, MessageFields, Ranges
    <3>2. frame' \in FrameType
      BY <2>2, <3>1 DEF FrameType, HelperTypeOK
    <3>3. <<m.generation, m.serial>> \in Stamps
      BY <3>1 DEF Stamps
    <3>4. staging' \in [Regions -> Stamps]
      BY <2>2, <3>1, <3>3 DEF HelperTypeOK
    <3> QED BY <2>2, <3>2, <3>4 DEF HelperTypeOK, sessionVars, controlVars
  <2> QED BY <1>5, <2>1, <2>2 DEF handle_frame_data
<1>6. CASE handle_frame_reference(m, presented)
  <2>1. CASE DropFrame(m)
    BY <2>1, ClosedTypes DEF DropFrame, HelperTypeOK, sessionVars, controlVars
  <2>2. CASE PresentFrame(m)
    <3>1. screen' \in [Regions -> Stamps]
      BY <2>2 DEF PresentFrame, HelperTypeOK
    <3>2. pending' \in Presentations /\ lastSubmitted' \in Nat
      BY <2>2, Ranges DEF PresentFrame, HelperTypeOK, FrameType
    <3> QED
      BY <2>2, <3>1, <3>2, ClosedTypes
         DEF PresentFrame, HelperTypeOK, sessionVars, controlVars
  <2>3. CASE PresentFails(m) \/ RejectReference(m)
    BY <2>3, RejectType DEF PresentFails, RejectReference, Errors
  <2> QED BY <1>6, <2>1, <2>2, <2>3 DEF handle_frame_reference
<1>7. CASE handle_pong(m)
  <2>1. CASE Reject("pong")
    BY <2>1, RejectType DEF Errors
  <2>2. CASE ~Reject("pong")
    BY <1>7, <2>2 DEF handle_pong, HelperTypeOK, sessionVars, pixelVars, queueVars
  <2> QED BY <2>1, <2>2
<1>8. CASE handle_shutdown
  <2>1. error' \in Errors /\ frame' \in FrameType /\ pending' \in Presentations
    BY <1>8, EnqueueType, ClosedTypes DEF handle_shutdown, HelperTypeOK
  <2> QED BY <1>8, <2>1 DEF handle_shutdown, HelperTypeOK, sessionVars, pixelVars
<1> QED
  BY <1>1, <1>2, <1>3, <1>4, <1>5, <1>6, <1>7, <1>8 DEF Receive

\* Marking the open frame stale keeps its type.
LEMMA StaleType ==
    ASSUME frame \in FrameType
    PROVE  StaleFrame \in FrameType
BY DEF StaleFrame, FrameType

\* Every call of the worker keeps the types.
LEMMA CallType ==
    ASSUME HelperTypeOK, FromWorker
    PROVE  HelperTypeOK'
<1> USE DEF Presentations
<1>1. CASE suspend /\ SuspendScreen
  <2>1. generation' \in Generations
    BY <1>1, HelperAssumption DEF suspend, CanSuspend, HelperTypeOK, Generations
  <2>2. error' \in Errors /\ frame' \in FrameType /\ pending' \in Presentations
    BY <1>1, EnqueueType, StaleType, ClosedTypes DEF suspend, HelperTypeOK
  <2>3. screen' \in [Regions -> Stamps]
    BY <1>1 DEF SuspendScreen, Blank, Foreign, Stamps, HelperTypeOK
  <2> QED
    BY <1>1, <2>1, <2>2, <2>3 DEF suspend, HelperTypeOK, controlVars
<1>2. CASE \E resized \in BOOLEAN : resume(resized)
  <2>1. PICK resized \in BOOLEAN : resume(resized)
    BY <1>2
  <2>2. staging' \in [Regions -> Stamps]
    BY <2>1 DEF resume, Blank, Foreign, Stamps, HelperTypeOK
  <2>3. error' \in Errors /\ frame' \in FrameType /\ pending' \in Presentations
    BY <2>1, EnqueueType DEF resume, HelperTypeOK, queueVars
  <2>4. readySent' \in BOOLEAN
    BY <2>1, Zenon DEF resume, HelperTypeOK
  <2> QED
    BY <2>1, <2>2, <2>3, <2>4 DEF resume, HelperTypeOK, controlVars
<1>3. CASE ResumeOutOfMemory \/ report_fatal
  BY <1>3, RejectType DEF ResumeOutOfMemory, report_fatal, Errors
<1>4. CASE send_input
  <2>1. error' \in Errors /\ frame' \in FrameType /\ pending' \in Presentations
    BY <1>4, EnqueueType DEF send_input, HelperTypeOK
  <2> QED BY <1>4, <2>1 DEF send_input, HelperTypeOK, sessionVars, pixelVars, controlVars
<1>5. CASE \E gen \in Generations, serial \in Serials : complete_frame(gen, serial)
  <2>1. PICK gen \in Generations, serial \in Serials : complete_frame(gen, serial)
    BY <1>5
  <2>2. CASE UNCHANGED helperVars
    BY <2>2 DEF HelperTypeOK, helperVars, sessionVars, pixelVars, queueVars, controlVars
  <2>3. CASE Reject(CompletionError)
    BY <2>3, RejectType DEF CompletionError, Errors
  <2>4. CASE /\ UNCHANGED <<sessionVars, pixelVars, controlVars>>
             /\ enqueue_or_fail(outbound, FrameComplete(gen, serial), frame, NoPresentation)
    <3>1. error' \in Errors /\ frame' \in FrameType /\ pending' \in Presentations
      BY <2>4, EnqueueType, ClosedTypes DEF HelperTypeOK
    <3> QED BY <2>4, <3>1 DEF HelperTypeOK, sessionVars, pixelVars, controlVars
  <2> QED BY <2>1, <2>2, <2>3, <2>4 DEF complete_frame
<1>6. CASE \E token \in Tokens : send_ping(token)
  <2>1. PICK token \in Tokens : send_ping(token)
    BY <1>6
  <2>2. error' \in Errors /\ frame' \in FrameType /\ pending' \in Presentations
    BY <2>1, EnqueueType DEF send_ping, HelperTypeOK
  <2>3. ping' \in [outstanding : BOOLEAN, token : Nat, pong : BOOLEAN]
    BY <2>1, Ranges DEF send_ping, HelperTypeOK
  <2> QED BY <2>1, <2>2, <2>3 DEF send_ping, HelperTypeOK, sessionVars, pixelVars
<1>7. CASE take_pong
  BY <1>7 DEF take_pong, HelperTypeOK, sessionVars, pixelVars, queueVars
<1>8. CASE StartHead \/ ConsumeHead
  BY <1>8 DEF StartHead, ConsumeHead, HelperTypeOK, sessionVars, pixelVars, controlVars
<1> QED
  BY <1>1, <1>2, <1>3, <1>4, <1>5, <1>6, <1>7, <1>8 DEF FromWorker

\* The initial state has the types.
LEMMA InitType == HelperInit => HelperTypeOK
<1> SUFFICES ASSUME HelperInit PROVE HelperTypeOK
  OBVIOUS
<1> USE DEF HelperInit
<1>1. generation \in Generations
  BY HelperAssumption DEF Generations
<1>2. staging \in [Regions -> Stamps] /\ screen \in [Regions -> Stamps]
  BY DEF Blank, Foreign, Stamps
<1>3. frame \in FrameType /\ pending \in [generation : Nat, serial : Nat]
  BY ClosedTypes DEF Presentations
<1>4. ping \in [outstanding : BOOLEAN, token : Nat, pong : BOOLEAN]
  OBVIOUS
<1> QED
  BY <1>1, <1>2, <1>3, <1>4 DEF HelperTypeOK, Errors

\* Every step keeps the types.
LEMMA StepType == HelperTypeOK /\ [HelperNext]_helperVars => HelperTypeOK'
<1> SUFFICES ASSUME HelperTypeOK, [HelperNext]_helperVars PROVE HelperTypeOK'
  OBVIOUS
<1>1. CASE FromCore
  BY <1>1, ReceiveType, RejectType DEF FromCore, ReceiveMalformed, Errors
<1>2. CASE FromWorker
  BY <1>2, CallType
<1>3. CASE UNCHANGED helperVars
  BY <1>3 DEF HelperTypeOK, helperVars, sessionVars, pixelVars, queueVars, controlVars
<1> QED
  BY <1>1, <1>2, <1>3 DEF HelperNext

\* Whatever the core sends and whenever the worker suspends, resumes, forwards
\* input, completes frames or pings, the helper's fields keep their types and
\* the generation stays in the range its wire field holds.
THEOREM HelperTypeCorrect == HelperSpec => []HelperTypeOK
<1>1. HelperInit => HelperTypeOK
  BY InitType
<1>2. HelperTypeOK /\ [HelperNext]_helperVars => HelperTypeOK'
  BY StepType
<1> QED
  BY <1>1, <1>2, PTL DEF HelperSpec

-----------------------------------------------------------------------------
(***************************************************************************)
(* The inductive invariant.  The checked invariants say nothing of a frame *)
(* that is half received; these two parts do.                              *)
(***************************************************************************)
\* What the pieces received so far have done to the staging buffer.
PiecesAreStaged ==
    /\ ~frame.open => frame.received = {}
    /\ frame.open => frame.serial \in Serials
    /\ (frame.open /\ ~frame.stale) =>
           /\ \A r \in frame.received : staging[r] = <<frame.generation, frame.serial>>
           /\ ~stagingValid => frame.damage = Regions

\* Where the open frame has not drawn, usable staging still equals the screen.
RestIsRetained ==
    (stagingValid /\ ~shutdownRequested /\ ~failed) =>
        \A r \in Regions \ frame.received : staging[r] = screen[r]

HelperInv ==
    /\ HelperTypeOK
    /\ OneFrameInFlight
    /\ PiecesAreStaged
    /\ RestIsRetained
    /\ FullReplacementAfterAcquire

\* A quiet step keeps every part.
LEMMA QuietKeeps ==
    ASSUME HelperInv, Quiet, HelperTypeOK'
    PROVE  HelperInv'
<1> USE DEF HelperInv, Quiet, pixelVars
<1>1. OneFrameInFlight'
  BY DEF OneFrameInFlight, ClosedFrame
<1>2. PiecesAreStaged'
  BY DEF PiecesAreStaged, ClosedFrame
<1>3. RestIsRetained'
  BY DEF RestIsRetained
<1>4. FullReplacementAfterAcquire'
  BY DEF FullReplacementAfterAcquire
<1> QED
  BY <1>1, <1>2, <1>3, <1>4

\* An accepted FRAME_BEGIN opens a frame of this ownership, a complete one when
\* nothing is retained.
LEMMA BeginKeeps ==
    ASSUME HelperInv, HelperTypeOK', NEW m \in CoreMessage, m.type = "begin",
           BeginInOrder(m), DamageAcceptable(m), handle_frame_begin(m)
    PROVE  HelperInv' \/ Quiet
<1>1. CASE Quiet
  BY <1>1
<1>2. CASE /\ frame' = [open |-> TRUE, stale |-> FALSE, generation |-> m.generation,
                        serial |-> m.serial, damage |-> m.damage, received |-> {}]
           /\ UNCHANGED <<sessionVars, pixelVars, controlVars, pending, outbound, error>>
  <2> USE <1>2 DEF HelperInv, sessionVars, pixelVars, controlVars
  <2>1. OneFrameInFlight'
    BY DEF OneFrameInFlight, BeginInOrder
  <2>2. ~stagingValid => m.damage = Regions
    BY MessageFields DEF DamageAcceptable
  <2>3. m.serial \in Serials
    BY MessageFields
  <2>4. PiecesAreStaged'
    BY <2>2, <2>3 DEF PiecesAreStaged
  <2>5. RestIsRetained'
    BY DEF RestIsRetained, PiecesAreStaged, BeginInOrder
  <2>6. FullReplacementAfterAcquire'
    BY DEF FullReplacementAfterAcquire
  <2> QED
    BY <2>1, <2>4, <2>5, <2>6
<1> QED
  BY <1>1, <1>2, RejectIsQuiet DEF handle_frame_begin

\* An accepted FRAME_DATA stages its region, and only that one.
LEMMA DataKeeps ==
    ASSUME HelperInv, HelperTypeOK', NEW m \in CoreMessage, m.type = "data",
           DataInOrder(m), DataFits(m), handle_frame_data(m)
    PROVE  HelperInv' \/ Quiet
<1>1. CASE Quiet
  BY <1>1
<1>2. CASE /\ frame' = [frame EXCEPT !.received = @ \cup {m.region}]
           /\ staging' = IF frame.stale THEN staging
                         ELSE [staging EXCEPT ![m.region] = <<m.generation, m.serial>>]
           /\ UNCHANGED <<sessionVars, controlVars, lastSubmitted, stagingValid, screen,
                          pending, outbound, error>>
  <2> USE <1>2 DEF HelperInv, sessionVars, controlVars
  <2>1. /\ frame' = [frame EXCEPT !.received = frame.received \cup {m.region}]
        /\ frame'.open /\ frame'.stale = frame.stale /\ frame'.serial = frame.serial
        /\ frame'.generation = frame.generation /\ frame'.damage = frame.damage
        /\ frame'.received = frame.received \cup {m.region}
    BY DEF HelperTypeOK, FrameType, DataInOrder
  <2>2. OneFrameInFlight'
    BY <2>1 DEF OneFrameInFlight, DataInOrder
  <2>3. m.region \in Regions
    BY MessageFields
  <2>4. ~frame.stale => \A r \in Regions :
            staging'[r] = IF r = m.region THEN <<frame.generation, frame.serial>>
                          ELSE staging[r]
    BY <2>3 DEF HelperTypeOK, DataInOrder
  <2>5. frame.received \subseteq Regions
    BY DEF HelperTypeOK, FrameType
  <2>6. PiecesAreStaged'
    BY <2>1, <2>3, <2>4, <2>5 DEF PiecesAreStaged, DataInOrder
  <2>7. RestIsRetained'
    <3>1. CASE frame.stale
      BY <2>1, <3>1 DEF RestIsRetained, OneFrameInFlight, DataInOrder
    <3>2. CASE ~frame.stale
      BY <2>1, <2>4, <3>2 DEF RestIsRetained
    <3> QED BY <3>1, <3>2
  <2>8. FullReplacementAfterAcquire'
    BY DEF FullReplacementAfterAcquire
  <2> QED
    BY <2>2, <2>6, <2>7, <2>8
<1> QED
  BY <1>1, <1>2, RejectIsQuiet DEF handle_frame_data

\* A dropped frame gives the staging buffer up.
LEMMA DropKeeps ==
    ASSUME HelperInv, HelperTypeOK', NEW m, DropFrame(m)
    PROVE  HelperInv'
<1> USE DEF HelperInv, DropFrame, sessionVars, ClosedFrame
<1>1. OneFrameInFlight'
  BY DEF OneFrameInFlight, EndsOpenFrame
<1>2. PiecesAreStaged' /\ RestIsRetained' /\ FullReplacementAfterAcquire'
  BY DEF PiecesAreStaged, RestIsRetained, FullReplacementAfterAcquire
<1> QED
  BY <1>1, <1>2

\* What a presented frame leaves on the screen: its own stamp where it drew,
\* the ownership's elsewhere, and the staging buffer everywhere.
LEMMA PresentEffect ==
    ASSUME HelperInv, NEW m, ~failed, ~shutdownRequested, PresentFrame(m)
    PROVE  /\ frame.damage \subseteq Regions
           /\ screen' = [r \in Regions |->
                           IF r \in frame.damage THEN <<generation, frame.serial>>
                           ELSE screen[r]]
           /\ \A r \in Regions \ frame.damage : screen[r][1] = generation
           /\ \A r \in Regions : screen'[r] = staging[r]
<1> USE DEF HelperInv
<1>1. frame.open /\ ~frame.stale /\ frame.received = frame.damage
  BY DEF PresentFrame, Presentable, EndsOpenFrame
<1>2. frame.damage \subseteq Regions
  BY DEF HelperTypeOK, FrameType
<1>3. \A r \in frame.damage : staging[r] = <<generation, frame.serial>>
  BY <1>1 DEF PiecesAreStaged, OneFrameInFlight
<1>4. \A r \in Regions \ frame.damage :
          staging[r] = screen[r] /\ screen[r][1] = generation
  BY <1>1 DEF PiecesAreStaged, RestIsRetained, FullReplacementAfterAcquire
<1>5. screen' = [r \in Regions |-> IF r \in frame.damage THEN staging[r] ELSE screen[r]]
  BY DEF PresentFrame
<1>6. screen' = [r \in Regions |->
                    IF r \in frame.damage THEN <<generation, frame.serial>>
                    ELSE screen[r]]
  BY <1>3, <1>5
<1>7. \A r \in Regions : screen'[r] = staging[r]
  BY <1>4, <1>5
<1> QED
  BY <1>2, <1>4, <1>6, <1>7

\* A presented frame completes the retained picture.
LEMMA PresentKeeps ==
    ASSUME HelperInv, HelperTypeOK', NEW m, ~failed, ~shutdownRequested, PresentFrame(m)
    PROVE  HelperInv'
<1> USE DEF HelperInv
<1>1. frame.open /\ ~frame.stale
  BY DEF PresentFrame, Presentable, EndsOpenFrame
<1>2. OneFrameInFlight'
  BY <1>1 DEF OneFrameInFlight, PresentFrame, ClosedFrame, sessionVars
<1>3. PiecesAreStaged'
  BY DEF PiecesAreStaged, PresentFrame, ClosedFrame
<1>4. RestIsRetained'
  BY PresentEffect DEF RestIsRetained, PresentFrame, ClosedFrame
<1>5. FullReplacementAfterAcquire'
  <2>1. \A r \in Regions : screen'[r][1] = generation
    BY PresentEffect
  <2> QED BY <2>1 DEF FullReplacementAfterAcquire, PresentFrame, sessionVars
<1> QED
  BY <1>2, <1>3, <1>4, <1>5

\* A suspension ends the ownership: the frame in flight becomes stale.
LEMMA SuspendKeeps ==
    ASSUME HelperInv, HelperTypeOK', suspend, SuspendScreen
    PROVE  HelperInv'
<1> USE DEF HelperInv
<1>1. pending' = NoPresentation /\ (frame' = StaleFrame \/ frame' = ClosedFrame)
  BY EnqueueEffect DEF suspend
<1>2. ~stagingValid' /\ generation' = generation + 1 /\ lastSubmitted' = lastSubmitted
  BY DEF suspend
<1>3. frame'.open => /\ frame.open /\ frame'.stale /\ frame'.serial = frame.serial
                     /\ frame'.generation = frame.generation
  BY <1>1 DEF StaleFrame, ClosedFrame, HelperTypeOK, FrameType
<1>4. ~frame'.open => frame'.received = {}
  BY <1>1 DEF StaleFrame, ClosedFrame, PiecesAreStaged, HelperTypeOK, FrameType
<1>5. frame.open => frame.generation < generation'
  <2>1. generation \in Nat
    BY HelperAssumption DEF HelperTypeOK, Generations
  <2>2. frame.open => frame.generation = generation \/ frame.generation < generation
    BY DEF OneFrameInFlight
  <2>3. frame.generation \in Nat
    BY DEF HelperTypeOK, FrameType
  <2> QED BY <1>2, <2>1, <2>2, <2>3
<1>6. OneFrameInFlight'
  BY <1>1, <1>2, <1>3, <1>5 DEF OneFrameInFlight
<1>7. PiecesAreStaged'
  BY <1>3, <1>4 DEF PiecesAreStaged
<1>8. RestIsRetained' /\ FullReplacementAfterAcquire'
  BY <1>2 DEF RestIsRetained, FullReplacementAfterAcquire
<1> QED
  BY <1>6, <1>7, <1>8

\* A resumption reopens the helper with nothing retained.
LEMMA ResumeKeeps ==
    ASSUME HelperInv, HelperTypeOK', NEW resized, resume(resized)
    PROVE  HelperInv'
<1> USE DEF HelperInv
<1>1. \/ frame' = frame /\ pending' = pending
      \/ frame' = ClosedFrame /\ pending' = NoPresentation
  BY EnqueueEffect DEF resume, queueVars
<1>2. ~stagingValid' /\ generation' = generation /\ lastSubmitted' = lastSubmitted
  BY DEF resume
<1>3. ~presentationPending /\ (frame.open => frame.stale)
  BY DEF resume, CanResume, OneFrameInFlight
<1>4. OneFrameInFlight'
  BY <1>1, <1>2, <1>3 DEF OneFrameInFlight, ClosedFrame
<1>5. PiecesAreStaged'
  BY <1>1, <1>3 DEF PiecesAreStaged, ClosedFrame
<1>6. RestIsRetained' /\ FullReplacementAfterAcquire'
  BY <1>2 DEF RestIsRetained, FullReplacementAfterAcquire
<1> QED
  BY <1>4, <1>5, <1>6

\* The invariant holds initially.
LEMMA InitInv == HelperInit => HelperInv
<1> SUFFICES ASSUME HelperInit PROVE HelperInv
  OBVIOUS
<1>1. HelperTypeOK
  BY InitType
<1>2. OneFrameInFlight
  BY DEF HelperInit, OneFrameInFlight, ClosedFrame
<1>3. PiecesAreStaged /\ RestIsRetained /\ FullReplacementAfterAcquire
  BY DEF HelperInit, PiecesAreStaged, RestIsRetained, FullReplacementAfterAcquire,
         ClosedFrame
<1> QED
  BY <1>1, <1>2, <1>3 DEF HelperInv

\* Every step keeps the invariant.
LEMMA StepInv == HelperInv /\ [HelperNext]_helperVars => HelperInv'
<1> SUFFICES ASSUME HelperInv, [HelperNext]_helperVars PROVE HelperInv'
  OBVIOUS
<1>1. HelperTypeOK'
  BY StepType DEF HelperInv
<1>2. CASE Quiet
  BY <1>1, <1>2, QuietKeeps
<1>3. CASE \E m \in CoreMessage, presented \in BOOLEAN : Receive(m, presented)
  <2>1. PICK m \in CoreMessage, presented \in BOOLEAN : Receive(m, presented)
    BY <1>3
  <2> QED
    BY <1>1, <1>2, <2>1, ReceiveCases, BeginKeeps, DataKeeps, DropKeeps, PresentKeeps
<1>4. CASE ReceiveMalformed
  BY <1>2, <1>4, RejectIsQuiet DEF ReceiveMalformed
<1>5. CASE FromWorker
  BY <1>1, <1>2, <1>5, WorkerCases, SuspendKeeps, ResumeKeeps
<1>6. CASE UNCHANGED helperVars
  BY <1>2, <1>6 DEF Quiet, helperVars, sessionVars, pixelVars, queueVars, controlVars
<1> QED
  BY <1>3, <1>4, <1>5, <1>6 DEF HelperNext, FromCore

\* The invariant holds in every reachable state.
LEMMA InvAlways == HelperSpec => []HelperInv
<1>1. HelperInit => HelperInv
  BY InitInv
<1>2. HelperInv /\ [HelperNext]_helperVars => HelperInv'
  BY StepInv
<1> QED
  BY <1>1, <1>2, PTL DEF HelperSpec

-----------------------------------------------------------------------------
(***************************************************************************)
(* The safety properties of the helper.                                    *)
(***************************************************************************)
\* At most one frame is between FRAME_BEGIN and its completion, and a frame
\* that survived a suspension never makes the staging buffer usable.
THEOREM OneFrame == HelperSpec => []OneFrameInFlight
<1>1. HelperInv => OneFrameInFlight
  BY DEF HelperInv
<1> QED
  BY <1>1, InvAlways, PTL

\* The staging buffer partial damage may build on equals what the screen shows.
THEOREM RetainedFrame == HelperSpec => []RetainedFrameIsOnScreen
<1>1. HelperInv => RetainedFrameIsOnScreen
  <2> SUFFICES ASSUME HelperInv, stagingValid, ~frame.open, ~shutdownRequested, ~failed
               PROVE  staging = screen
    BY DEF RetainedFrameIsOnScreen
  <2>1. \A r \in Regions : staging[r] = screen[r]
    BY DEF HelperInv, RestIsRetained, PiecesAreStaged
  <2> QED
    BY <2>1 DEF HelperInv, HelperTypeOK
<1> QED
  BY <1>1, InvAlways, PTL

\* A retained picture was painted completely in the ownership in progress.
THEOREM FullReplacement == HelperSpec => []FullReplacementAfterAcquire
<1>1. HelperInv => FullReplacementAfterAcquire
  BY DEF HelperInv
<1> QED
  BY <1>1, InvAlways, PTL

-----------------------------------------------------------------------------
(***************************************************************************)
(* The helper implements ConsoleDisplay.                                   *)
(***************************************************************************)
\* Every step of the helper shows a frame, loses the console, regains it or
\* changes nothing of the display.
LEMMA StepRefines ==
    HelperInv /\ [HelperNext]_helperVars => [Display!Next]_Display!displayVars
<1> SUFFICES ASSUME HelperInv, [HelperNext]_helperVars,
                    ~UNCHANGED <<suspended, generation, lastSubmitted, screen>>
             PROVE  Display!Next
  BY DEF Display!displayVars
<1>1. ~Quiet
  BY DEF Quiet, pixelVars
<1>2. ASSUME NEW m, ~failed, ~shutdownRequested, PresentFrame(m)
      PROVE  Display!Show(frame.serial, frame.damage)
  <2>1. frame.open /\ ~frame.stale
    BY <1>2 DEF PresentFrame, Presentable, EndsOpenFrame
  <2>2. ~suspended /\ frame.serial > lastSubmitted
    BY <2>1 DEF HelperInv, OneFrameInFlight
  <2>3. UNCHANGED <<suspended, generation>> /\ lastSubmitted' = frame.serial
    BY <1>2 DEF PresentFrame, sessionVars
  <2> QED
    BY <1>2, <2>2, <2>3, PresentEffect DEF Display!Show, Display!ThisEpoch
<1>3. ASSUME NEW m, ~failed, ~shutdownRequested, PresentFrame(m)
      PROVE  Display!Next
  <2>1. frame.serial \in Serials /\ frame.damage \in SUBSET Regions
    BY <1>3 DEF HelperInv, PiecesAreStaged, HelperTypeOK, FrameType, PresentFrame,
                Presentable, EndsOpenFrame
  <2> QED
    BY <1>2, <1>3, <2>1 DEF Display!Next
<1>4. CASE \E m \in CoreMessage, presented \in BOOLEAN : Receive(m, presented)
  <2>1. PICK m \in CoreMessage, presented \in BOOLEAN : Receive(m, presented)
    BY <1>4
  <2>2. ~handle_frame_begin(m) /\ ~handle_frame_data(m) /\ ~DropFrame(m)
    BY <1>1, RejectIsQuiet
       DEF handle_frame_begin, handle_frame_data, DropFrame, sessionVars, pixelVars
  <2> QED
    BY <1>1, <1>3, <2>1, <2>2, ReceiveCases
<1>5. CASE ReceiveMalformed
  BY <1>1, <1>5, RejectIsQuiet DEF ReceiveMalformed
<1>6. CASE suspend /\ SuspendScreen
  BY <1>6 DEF suspend, CanSuspend, SuspendScreen, Display!Lose, Display!Next
<1>7. CASE \E resized \in BOOLEAN : resume(resized)
  BY <1>7 DEF resume, CanResume, Display!Regain, Display!Next
<1>8. CASE FromWorker
  BY <1>1, <1>6, <1>7, <1>8, WorkerCases
<1>9. CASE UNCHANGED helperVars
  BY <1>9 DEF helperVars, sessionVars, pixelVars
<1> QED
  BY <1>4, <1>5, <1>8, <1>9 DEF HelperNext, FromCore

\* Whatever the core sends, the screen goes from one complete picture of this
\* session to the next: a frame is shown as a whole, in serial order, only
\* while the console is owned, and the first of every ownership covers all.
THEOREM HelperImplementsConsoleDisplay == HelperSpec => ImplementsConsoleDisplay
<1>1. HelperInit => Display!Init
  BY DEF HelperInit, Display!Init
<1>2. HelperInv /\ [HelperNext]_helperVars => [Display!Next]_Display!displayVars
  BY StepRefines
<1> QED
  BY <1>1, <1>2, InvAlways, PTL DEF HelperSpec, ImplementsConsoleDisplay, Display!Spec

-----------------------------------------------------------------------------
(***************************************************************************)
(* The outbound queue: what a pass over its records leaves.                *)
(***************************************************************************)
\* What the helper says to the core, but for input.
ControlMessages ==
    {ReadyMessage(g) : g \in Generations} \cup {ResumeMessage(g) : g \in Generations}
      \cup {SuspendMessage(g, s) : g \in Generations, s \in Nat}
      \cup {FrameComplete(g, s) : g \in Generations, s \in Serials} \cup {Ping(t) : t \in Tokens}
      \cup {ShutdownAccepted} \cup {Fatal(g) : g \in Generations}

HelperMessages == ControlMessages \cup {InputMessage(g) : g \in Generations}

Records == [message : HelperMessages, started : BOOLEAN]

\* A non-empty set of naturals has a least element.
LEMMA LeastOf ==
  ASSUME NEW S \in SUBSET Nat, S # {}
  PROVE  \E n \in S : \A k \in S : n <= k
<1>1. PICK n \in S : \A k \in S : <<k, n>> \notin OpToRel(<, Nat)
  BY NatLessThanWellFounded, WFMin
<1>2. ASSUME NEW k \in S PROVE n <= k
  <2>1. OpToRel(<, Nat) = {ss \in Nat \X Nat : ss[1] < ss[2]}
    BY Zenon DEF OpToRel
  <2>2. <<k, n>> \notin {ss \in Nat \X Nat : ss[1] < ss[2]}
    BY <1>1, <2>1, Zenon
  <2> QED
    BY <2>2
<1> QED
  BY <1>2

\* A property of naturals that passes from each to the next holds of all.
LEMMA Induct ==
  ASSUME NEW H \in SUBSET Nat, NEW n \in Nat, 0 \in H, \A k \in 1 .. n : k - 1 \in H => k \in H
  PROVE  n \in H
<1> SUFFICES ASSUME n \notin H PROVE FALSE
  OBVIOUS
<1> DEFINE B == (0 .. n) \ H
<1>0. B \in SUBSET Nat /\ B # {}
  OBVIOUS
<1>1. PICK k \in B : \A l \in B : k <= l
  <2> HIDE DEF B
  <2> QED
    BY <1>0, LeastOf
<1>2. k \in 1 .. n /\ k - 1 \in 0 .. n /\ ~(k <= k - 1)
  BY <1>1
<1> QED
  BY <1>1, <1>2

Steps(N, T) == [1 .. N -> [T -> T]]

\* Primitive recursion over an interval has a result.
LEMMA Recursion ==
  ASSUME NEW T, NEW N \in Nat, NEW base \in T, NEW step \in Steps(N, T)
  PROVE  \E f \in [0 .. N -> T] : f[0] = base /\ \A k \in 1 .. N : f[k] = step[k][f[k - 1]]
<1> DEFINE Upto(n, f) == f[0] = base /\ \A k \in 1 .. n : f[k] = step[k][f[k - 1]]
           H == {n \in 0 .. N : \E f \in [0 .. n -> T] : Upto(n, f)}
<1>0. step \in [1 .. N -> [T -> T]]
  BY DEF Steps
<1>1. 0 \in H
  <2> DEFINE g == [k \in 0 .. 0 |-> base]
  <2>1. g \in [0 .. 0 -> T] /\ Upto(0, g)
    OBVIOUS
  <2>2. \E f \in [0 .. 0 -> T] : Upto(0, f)
    BY <2>1
  <2> QED
    BY <2>2
<1>2. ASSUME NEW n \in 1 .. N, n - 1 \in H
      PROVE  n \in H
  <2>1. PICK f \in [0 .. n - 1 -> T] : Upto(n - 1, f)
    BY <1>2
  <2> DEFINE g == [k \in 0 .. n |-> IF k = n THEN step[n][f[n - 1]] ELSE f[k]]
  <2>2. g \in [0 .. n -> T]
    BY <1>0
  <2>3. g[n] = step[n][f[n - 1]] /\ \A k \in 0 .. n - 1 : g[k] = f[k]
    OBVIOUS
  <2> HIDE DEF g
  <2>4. ASSUME NEW k \in 1 .. n PROVE g[k] = step[k][g[k - 1]]
    <3>1. g[k - 1] = f[k - 1]
      BY <2>3
    <3>2. CASE k = n
      BY <2>3, <3>1, <3>2
    <3>3. CASE k # n
      BY <2>1, <2>3, <3>1, <3>3
    <3> QED
      BY <3>2, <3>3
  <2>5. g[0] = base
    BY <2>1, <2>3
  <2>6. Upto(n, g)
    BY <2>4, <2>5
  <2> HIDE DEF Upto
  <2> QED
    BY <2>2, <2>6
<1>3. N \in H
  <2>1. H \in SUBSET Nat
    OBVIOUS
  <2> HIDE DEF H
  <2> QED
    BY <1>1, <1>2, <2>1, Induct
<1> QED
  BY <1>3

Passes(f, N, item, stay) ==
    /\ f[0] = << >>
    /\ \A n \in 1 .. N : f[n] = IF n \in stay THEN Append(f[n - 1], item[n]) ELSE f[n - 1]

\* A pass over a sequence that appends some of its items has a result ...
LEMMA PassExists ==
  ASSUME NEW T, NEW N \in Nat, NEW item \in [1 .. N -> T], NEW stay
  PROVE  \E f \in [0 .. N -> Seq(T)] : Passes(f, N, item, stay)
<1> DEFINE step == [n \in 1 .. N |-> [q \in Seq(T) |-> IF n \in stay THEN Append(q, item[n]) ELSE q]]
           Q == Seq(T)
           nothing == << >>
<1>1. step \in Steps(N, Q) /\ nothing \in Q
  BY DEF Steps
<1>2. PICK f \in [0 .. N -> Q] : f[0] = nothing /\ \A k \in 1 .. N : f[k] = step[k][f[k - 1]]
  <2> HIDE DEF step, Q, nothing
  <2> QED
    BY <1>1, Recursion
<1>3. ASSUME NEW k \in 1 .. N
      PROVE  f[k] = IF k \in stay THEN Append(f[k - 1], item[k]) ELSE f[k - 1]
  <2>1. f[k - 1] \in Seq(T)
    OBVIOUS
  <2>2. step[k][f[k - 1]] = IF k \in stay THEN Append(f[k - 1], item[k]) ELSE f[k - 1]
    BY <2>1, Zenon
  <2> QED
    BY <1>2, <2>2
<1> QED
  BY <1>2, <1>3 DEF Passes

\* ... and any result of it is made of sequences of the items.
LEMMA PassTyped ==
  ASSUME NEW T, NEW N \in Nat, NEW item \in [1 .. N -> T], NEW k, k[0] = << >>,
         k = [n \in 0 .. N |-> k[n]],
         \A n \in 1 .. N : k[n] = k[n - 1] \/ k[n] = Append(k[n - 1], item[n])
  PROVE  k \in [0 .. N -> Seq(T)]
<1> DEFINE H == {n \in 0 .. N : k[n] \in Seq(T)}
<1>1. 0 \in H /\ H \in SUBSET Nat
  <2>1. << >> \in Seq(T) /\ 0 \in 0 .. N
    OBVIOUS
  <2> QED
    BY <2>1
<1>2. ASSUME NEW n \in 1 .. N, n - 1 \in H PROVE n \in H
  <2>1. k[n - 1] \in Seq(T) /\ item[n] \in T /\ n \in 0 .. N
    BY <1>2
  <2>2. Append(k[n - 1], item[n]) \in Seq(T)
    BY <2>1, AppendProperties
  <2>3. k[n] \in Seq(T)
    BY <2>1, <2>2
  <2> QED
    BY <2>1, <2>3
<1>3. \A n \in 0 .. N : n \in H
  <2> SUFFICES ASSUME NEW n \in 0 .. N PROVE n \in H
    OBVIOUS
  <2> HIDE DEF H
  <2> QED
    BY <1>1, <1>2, Induct
<1> QED
  BY <1>3

\* The passes of purge_unsent_input and of Controls over the first n records.
IsKept(queue, f) ==
    f = [n \in 0 .. Len(queue) |->
          IF n = 0 THEN << >>
          ELSE IF StaysQueued(queue[n]) THEN Append(f[n - 1], queue[n]) ELSE f[n - 1]]

IsControls(queue, f) ==
    f = [n \in 0 .. Len(queue) |->
          IF n = 0 THEN << >>
          ELSE IF ~IsInput(queue[n].message) THEN Append(f[n - 1], queue[n].message)
          ELSE f[n - 1]]

Kept(queue) == CHOOSE f : IsKept(queue, f)
Said(queue) == CHOOSE f : IsControls(queue, f)

\* What the pass of purge_unsent_input has kept after n records.
LEMMA KeptPass ==
  ASSUME NEW S, NEW queue \in Seq(S)
  PROVE  /\ purge_unsent_input(queue) = Kept(queue)[Len(queue)]
         /\ Kept(queue) \in [0 .. Len(queue) -> Seq(S)]
         /\ Kept(queue)[0] = << >>
         /\ \A n \in 1 .. Len(queue) : Kept(queue)[n] =
              IF StaysQueued(queue[n]) THEN Append(Kept(queue)[n - 1], queue[n])
              ELSE Kept(queue)[n - 1]
<1> DEFINE N == Len(queue)
           stay == {n \in 1 .. N : StaysQueued(queue[n])}
           items == [n \in 1 .. N |-> queue[n]]
           T == S
<1>1. N \in Nat /\ items \in [1 .. N -> T]
  OBVIOUS
<1>2. PICK f \in [0 .. N -> Seq(T)] : Passes(f, N, items, stay)
  <2> HIDE DEF N, stay, items, T
  <2> QED
    BY <1>1, PassExists
<1>3. IsKept(queue, f)
  <2>1. ASSUME NEW n \in 1 .. N
        PROVE  f[n] = IF StaysQueued(queue[n]) THEN Append(f[n - 1], queue[n]) ELSE f[n - 1]
    <3>1. (n \in stay <=> StaysQueued(queue[n])) /\ items[n] = queue[n]
      OBVIOUS
    <3> HIDE DEF stay, items
    <3> QED
      BY <1>2, <3>1, Zenon DEF Passes
  <2>2. ASSUME NEW n \in 0 .. N
        PROVE  f[n] = IF n = 0 THEN << >>
                      ELSE IF StaysQueued(queue[n]) THEN Append(f[n - 1], queue[n])
                      ELSE f[n - 1]
    <3>1. CASE n = 0
      BY <1>2, <3>1, Zenon DEF Passes
    <3>2. CASE n # 0
      <4>1. n \in 1 .. N
        BY <1>1, <3>2
      <4> QED
        BY <2>1, <3>2, <4>1, Zenon
    <3> QED
      BY <3>1, <3>2
  <2> QED
    BY <2>2, Zenon DEF IsKept
<1>4. IsKept(queue, Kept(queue))
  BY <1>3 DEF Kept
<1>5. purge_unsent_input(queue) = Kept(queue)[Len(queue)]
  BY DEF purge_unsent_input, Kept, IsKept
<1>6. Kept(queue)[0] = << >> /\ \A n \in 1 .. N : Kept(queue)[n] =
          IF StaysQueued(queue[n]) THEN Append(Kept(queue)[n - 1], queue[n])
          ELSE Kept(queue)[n - 1]
  <2>1. ASSUME NEW n \in 0 .. N
        PROVE  Kept(queue)[n] =
                 IF n = 0 THEN << >>
                 ELSE IF StaysQueued(queue[n]) THEN Append(Kept(queue)[n - 1], queue[n])
                 ELSE Kept(queue)[n - 1]
    BY <1>4, Zenon DEF IsKept
  <2> QED
    BY <1>1, <2>1
<1>7. Kept(queue) \in [0 .. N -> Seq(T)]
  <2> DEFINE k == Kept(queue)
  <2>1. k = [n \in 0 .. N |-> k[n]]
    BY <1>4 DEF IsKept
  <2>2. ASSUME NEW n \in 1 .. N PROVE k[n] = k[n - 1] \/ k[n] = Append(k[n - 1], items[n])
    <3>1. items[n] = queue[n]
      OBVIOUS
    <3> QED
      BY <1>6, <3>1, Zenon
  <2>3. k[0] = << >>
    BY <1>6
  <2> HIDE DEF k, N, items, T
  <2>4. k \in [0 .. N -> Seq(T)]
    BY <1>1, <2>1, <2>2, <2>3, PassTyped
  <2> QED
    BY <2>4 DEF k
<1> QED
  BY <1>5, <1>6, <1>7

\* The control messages among the first n records.
LEMMA SaidPass ==
  ASSUME NEW queue \in Seq(Records)
  PROVE  /\ Controls(queue) = Said(queue)[Len(queue)]
         /\ Said(queue) \in [0 .. Len(queue) -> Seq(HelperMessages)]
         /\ Said(queue)[0] = << >>
         /\ \A n \in 1 .. Len(queue) : Said(queue)[n] =
              IF ~IsInput(queue[n].message) THEN Append(Said(queue)[n - 1], queue[n].message)
              ELSE Said(queue)[n - 1]
<1> DEFINE N == Len(queue)
           stay == {n \in 1 .. N : ~IsInput(queue[n].message)}
           items == [n \in 1 .. N |-> queue[n].message]
           T == HelperMessages
<1>1. N \in Nat /\ items \in [1 .. N -> T]
  <2>1. N \in Nat /\ \A n \in 1 .. N : queue[n] \in Records
    OBVIOUS
  <2>2. \A r \in Records : r.message \in HelperMessages
    BY DEF Records
  <2> QED
    BY <2>1, <2>2
<1>2. PICK f \in [0 .. N -> Seq(T)] : Passes(f, N, items, stay)
  <2> HIDE DEF N, stay, items, T
  <2> QED
    BY <1>1, PassExists
<1>3. IsControls(queue, f)
  <2>1. ASSUME NEW n \in 1 .. N
        PROVE  f[n] = IF ~IsInput(queue[n].message) THEN Append(f[n - 1], queue[n].message) ELSE f[n - 1]
    <3>1. (n \in stay <=> ~IsInput(queue[n].message)) /\ items[n] = queue[n].message
      OBVIOUS
    <3> HIDE DEF stay, items
    <3> QED
      BY <1>2, <3>1, Zenon DEF Passes
  <2>2. ASSUME NEW n \in 0 .. N
        PROVE  f[n] = IF n = 0 THEN << >>
                      ELSE IF ~IsInput(queue[n].message) THEN Append(f[n - 1], queue[n].message)
                      ELSE f[n - 1]
    <3>1. CASE n = 0
      BY <1>2, <3>1, Zenon DEF Passes
    <3>2. CASE n # 0
      <4>1. n \in 1 .. N
        BY <1>1, <3>2
      <4> QED
        BY <2>1, <3>2, <4>1, Zenon
    <3> QED
      BY <3>1, <3>2
  <2> QED
    BY <2>2, Zenon DEF IsControls
<1>4. IsControls(queue, Said(queue))
  BY <1>3 DEF Said
<1>5. Controls(queue) = Said(queue)[Len(queue)]
  BY DEF Controls, Said, IsControls
<1>6. Said(queue)[0] = << >> /\ \A n \in 1 .. N : Said(queue)[n] =
          IF ~IsInput(queue[n].message) THEN Append(Said(queue)[n - 1], queue[n].message)
          ELSE Said(queue)[n - 1]
  <2>1. ASSUME NEW n \in 0 .. N
        PROVE  Said(queue)[n] =
                 IF n = 0 THEN << >>
                 ELSE IF ~IsInput(queue[n].message) THEN Append(Said(queue)[n - 1], queue[n].message)
                 ELSE Said(queue)[n - 1]
    BY <1>4, Zenon DEF IsControls
  <2> QED
    BY <1>1, <2>1
<1>7. Said(queue) \in [0 .. N -> Seq(T)]
  <2> DEFINE k == Said(queue)
  <2>1. k = [n \in 0 .. N |-> k[n]]
    BY <1>4 DEF IsControls
  <2>2. ASSUME NEW n \in 1 .. N PROVE k[n] = k[n - 1] \/ k[n] = Append(k[n - 1], items[n])
    <3>1. items[n] = queue[n].message
      OBVIOUS
    <3> QED
      BY <1>6, <3>1, Zenon
  <2>3. k[0] = << >>
    BY <1>6
  <2> HIDE DEF k, N, items, T
  <2>4. k \in [0 .. N -> Seq(T)]
    BY <1>1, <2>1, <2>2, <2>3, PassTyped
  <2> QED
    BY <2>4 DEF k
<1> QED
  BY <1>5, <1>6, <1>7

\* What is kept is whole records that stay.
LEMMA KeptStay ==
  ASSUME NEW S, NEW queue \in Seq(S)
  PROVE  /\ purge_unsent_input(queue) \in Seq(S)
         /\ \A i \in DOMAIN purge_unsent_input(queue) :
               StaysQueued(purge_unsent_input(queue)[i])
<1> DEFINE k == Kept(queue)
           N == Len(queue)
           H == {n \in 0 .. N : \A i \in DOMAIN k[n] : StaysQueued(k[n][i])}
<1>1. /\ N \in Nat /\ k \in [0 .. N -> Seq(S)] /\ k[0] = << >>
      /\ purge_unsent_input(queue) = k[N]
  BY KeptPass
<1>2. \A n \in 1 .. N : k[n] = IF StaysQueued(queue[n]) THEN Append(k[n - 1], queue[n])
                               ELSE k[n - 1]
  BY KeptPass
<1> HIDE DEF k, N
<1>3. 0 \in H
  BY <1>1
<1>4. ASSUME NEW n \in 1 .. N, n - 1 \in H PROVE n \in H
  <2>1. k[n - 1] \in Seq(S) /\ queue[n] \in S
    BY <1>1 DEF N
  <2>2. CASE StaysQueued(queue[n])
    <3>1. k[n] = Append(k[n - 1], queue[n])
      BY <1>2, <2>2, Zenon
    <3>2. ASSUME NEW i \in DOMAIN k[n] PROVE StaysQueued(k[n][i])
      <4>1. (i \in DOMAIN k[n - 1] /\ k[n][i] = k[n - 1][i]) \/ k[n][i] = queue[n]
        BY <2>1, <3>1
      <4> QED
        BY <1>4, <2>2, <4>1
    <3> QED
      BY <3>2
  <2>3. CASE ~StaysQueued(queue[n])
    BY <1>2, <1>4, <2>3
  <2> QED
    BY <2>2, <2>3
<1>5. N \in H
  <2>1. H \in SUBSET Nat
    OBVIOUS
  <2> HIDE DEF H
  <2> QED
    BY <1>1, <1>3, <1>4, <2>1, Induct
<1> QED
  BY <1>1, <1>5

\* Queues that agree on their first messages agree on the control messages among them.
LEMMA SaidLocal ==
  ASSUME NEW q \in Seq(Records), NEW r \in Seq(Records), NEW N \in Nat,
         N <= Len(q), N <= Len(r), \A i \in 1 .. N : q[i].message = r[i].message
  PROVE  Said(q)[N] = Said(r)[N]
<1> DEFINE H == {n \in 0 .. N : Said(q)[n] = Said(r)[n]}
<1>1. 0 \in H
  BY SaidPass
<1>2. ASSUME NEW n \in 1 .. N, n - 1 \in H PROVE n \in H
  <2>1. n \in 1 .. Len(q) /\ n \in 1 .. Len(r) /\ q[n].message = r[n].message
    OBVIOUS
  <2>2. Said(q)[n - 1] = Said(r)[n - 1]
    BY <1>2
  <2>3. Said(q)[n] = IF ~IsInput(q[n].message) THEN Append(Said(q)[n - 1], q[n].message)
                     ELSE Said(q)[n - 1]
    BY <2>1, SaidPass
  <2>4. Said(r)[n] = IF ~IsInput(r[n].message) THEN Append(Said(r)[n - 1], r[n].message)
                     ELSE Said(r)[n - 1]
    BY <2>1, SaidPass
  <2> QED
    BY <2>1, <2>2, <2>3, <2>4
<1>3. N \in H
  <2>1. H \in SUBSET Nat
    OBVIOUS
  <2> HIDE DEF H
  <2> QED
    BY <1>1, <1>2, <2>1, Induct
<1> QED
  BY <1>3

\* Controls is a sequence of messages, and empty for the empty queue.
LEMMA ControlsType ==
  ASSUME NEW q \in Seq(Records)
  PROVE  Controls(q) \in Seq(HelperMessages) /\ Controls(<< >>) = << >>
<1>1. << >> \in Seq(Records) /\ Len(<< >>) = 0 /\ Len(q) \in Nat
  OBVIOUS
<1>2. Controls(<< >>) = << >>
  BY <1>1, SaidPass
<1>3. Controls(q) = Said(q)[Len(q)] /\ Said(q) \in [0 .. Len(q) -> Seq(HelperMessages)]
  BY SaidPass
<1> QED
  BY <1>1, <1>2, <1>3

\* A record at the end adds its message, if it is a control message.
LEMMA ControlsAppend ==
  ASSUME NEW q \in Seq(Records), NEW e \in Records
  PROVE  Controls(Append(q, e)) = IF ~IsInput(e.message) THEN Append(Controls(q), e.message)
                                  ELSE Controls(q)
<1> DEFINE a == Append(q, e)
           N == Len(q)
<1>1. /\ N \in Nat /\ a \in Seq(Records) /\ Len(a) = N + 1 /\ a[N + 1] = e
      /\ \A i \in 1 .. N : a[i] = q[i]
  OBVIOUS
<1>2. N + 1 \in 1 .. Len(a) /\ N + 1 - 1 = N /\ N <= N /\ N <= Len(a)
  BY <1>1
<1>3. Said(a)[N + 1] = IF ~IsInput(e.message) THEN Append(Said(a)[N], e.message)
                       ELSE Said(a)[N]
  <2>1. \A j \in 1 .. Len(a) : Said(a)[j] =
          IF ~IsInput(a[j].message) THEN Append(Said(a)[j - 1], a[j].message)
          ELSE Said(a)[j - 1]
    <3> HIDE DEF a
    <3> QED
      BY <1>1, SaidPass
  <2>2. PICK j \in 1 .. Len(a) : j = N + 1 /\ j - 1 = N /\ a[j] = e
    <3> HIDE DEF a, N
    <3> QED
      BY <1>1, <1>2
  <2>3. Said(a)[j] = IF ~IsInput(a[j].message) THEN Append(Said(a)[j - 1], a[j].message)
                     ELSE Said(a)[j - 1]
    BY <2>1, Zenon
  <2> HIDE DEF a, N
  <2> QED
    BY <2>2, <2>3, Zenon
<1>4. Said(a)[N] = Said(q)[N]
  <2> HIDE DEF a
  <2> QED
    BY <1>1, <1>2, SaidLocal
<1>5. Controls(q) = Said(q)[N] /\ Controls(a) = Said(a)[N + 1]
  <2>1. Controls(a) = Said(a)[Len(a)]
    <3> HIDE DEF a
    <3> QED
      BY <1>1, SaidPass
  <2> QED
    BY <1>1, <2>1, SaidPass
<1> QED
  BY <1>1, <1>2, <1>3, <1>4, <1>5

\* A purge drops no control message.
LEMMA ControlsPurge ==
  ASSUME NEW q \in Seq(Records)
  PROVE  Controls(purge_unsent_input(q)) = Controls(q)
<1> DEFINE k == Kept(q)
           N == Len(q)
           H == {n \in 0 .. N : Controls(k[n]) = Said(q)[n]}
<1>1. /\ N \in Nat /\ k \in [0 .. N -> Seq(Records)] /\ k[0] = << >>
      /\ purge_unsent_input(q) = k[N] /\ \A n \in 1 .. N : q[n] \in Records
  BY KeptPass
<1>2. \A n \in 1 .. N : k[n] = IF StaysQueued(q[n]) THEN Append(k[n - 1], q[n]) ELSE k[n - 1]
  BY KeptPass
<1>3. /\ Said(q)[0] = << >>
      /\ \A n \in 1 .. N : Said(q)[n] =
           IF ~IsInput(q[n].message) THEN Append(Said(q)[n - 1], q[n].message)
           ELSE Said(q)[n - 1]
  BY SaidPass
<1> HIDE DEF k
<1>4. 0 \in H
  BY <1>1, <1>3, ControlsType
<1>5. ASSUME NEW n \in 1 .. N, n - 1 \in H PROVE n \in H
  <2>1. k[n - 1] \in Seq(Records) /\ q[n] \in Records /\ Controls(k[n - 1]) = Said(q)[n - 1]
    BY <1>1, <1>5
  <2>2. CASE ~IsInput(q[n].message)
    <3>1. k[n] = Append(k[n - 1], q[n])
      BY <1>2, <2>2, Zenon DEF StaysQueued
    <3>2. Controls(k[n]) = Append(Said(q)[n - 1], q[n].message)
      BY <2>1, <2>2, <3>1, ControlsAppend
    <3>3. Said(q)[n] = Append(Said(q)[n - 1], q[n].message)
      BY <1>3, <2>2, Zenon
    <3>4. n \in 0 .. N
      OBVIOUS
    <3> QED
      BY <3>2, <3>3, <3>4, Zenon
  <2>3. CASE IsInput(q[n].message)
    <3>1. k[n] = k[n - 1] \/ k[n] = Append(k[n - 1], q[n])
      BY <1>2, Zenon
    <3>2. Controls(k[n]) = Controls(k[n - 1])
      BY <2>1, <2>3, <3>1, ControlsAppend
    <3>3. Said(q)[n] = Said(q)[n - 1]
      BY <1>3, <2>3, Zenon
    <3> QED
      BY <2>1, <3>2, <3>3
  <2> QED
    BY <2>2, <2>3
<1>6. N \in H
  <2>1. H \in SUBSET Nat
    OBVIOUS
  <2> HIDE DEF H, N
  <2> QED
    BY <1>1, <1>4, <1>5, <2>1, Induct
<1> QED
  BY <1>1, <1>6, SaidPass

\* The control messages of a queue are that of its head, if any, and those of the rest.
LEMMA ControlsTail ==
  ASSUME NEW q \in Seq(Records), q # << >>
  PROVE  Controls(q) = Controls(<<Head(q)>>) \o Controls(Tail(q))
<1> DEFINE t == Tail(q)
           h == <<Head(q)>>
           N == Len(t)
           H == {n \in 0 .. N : Said(q)[n + 1] = Controls(h) \o Said(t)[n]}
<1>1. /\ N \in Nat /\ Len(q) = N + 1 /\ t \in Seq(Records) /\ h \in Seq(Records)
      /\ Len(h) = 1 /\ h[1] = q[1] /\ \A n \in 1 .. N : t[n] = q[n + 1]
  OBVIOUS
<1> HIDE DEF t, h
<1>2. Controls(h) = Said(h)[1] /\ Said(h)[1] = Said(q)[1] /\ Controls(h) \in Seq(HelperMessages)
  <2>1. Controls(h) = Said(h)[Len(h)]
    BY <1>1, SaidPass
  <2>2. Said(h)[1] = Said(q)[1]
    <3>1. 1 \in Nat /\ 1 <= Len(h) /\ 1 <= Len(q) /\ \A i \in 1 .. 1 : h[i].message = q[i].message
      BY <1>1
    <3> QED
      BY <1>1, <3>1, SaidLocal
  <2> QED
    BY <1>1, <2>1, <2>2, ControlsType
<1>3. 0 \in H
  <2>1. Said(t)[0] = << >>
    BY <1>1, SaidPass
  <2>2. Controls(h) \o << >> = Controls(h)
    BY <1>2
  <2>3. Said(q)[0 + 1] = Controls(h) \o Said(t)[0]
    BY <1>2, <2>1, <2>2
  <2> QED
    BY <1>1, <2>3
<1>4. ASSUME NEW n \in 1 .. N, n - 1 \in H PROVE n \in H
  <2>1. /\ n \in 1 .. Len(t) /\ n + 1 \in 1 .. Len(q) /\ n - 1 + 1 = n /\ n + 1 - 1 = n
        /\ t[n] = q[n + 1] /\ n - 1 \in 0 .. Len(t)
    BY <1>1
  <2>2. Said(t)[n] = IF ~IsInput(t[n].message) THEN Append(Said(t)[n - 1], t[n].message)
                     ELSE Said(t)[n - 1]
    BY <1>1, <2>1, SaidPass
  <2>3. Said(q)[n + 1] = IF ~IsInput(t[n].message) THEN Append(Said(q)[n], t[n].message)
                     ELSE Said(q)[n]
    <3>1. \A j \in 1 .. Len(q) : Said(q)[j] =
            IF ~IsInput(q[j].message) THEN Append(Said(q)[j - 1], q[j].message)
            ELSE Said(q)[j - 1]
      BY SaidPass
    <3> QED
      BY <2>1, <3>1
  <2>4. Said(q)[n] = Controls(h) \o Said(t)[n - 1]
    BY <1>4, <2>1
  <2>5. Said(t)[n - 1] \in Seq(HelperMessages) /\ t[n].message \in HelperMessages
    <3>1. Said(t) \in [0 .. Len(t) -> Seq(HelperMessages)] /\ t[n] \in Records
      BY <1>1, <2>1, SaidPass
    <3> QED
      BY <2>1, <3>1 DEF Records
  <2>6. Append(Controls(h) \o Said(t)[n - 1], t[n].message)
          = Controls(h) \o Append(Said(t)[n - 1], t[n].message)
    <3> DEFINE a == Controls(h)
               b == Said(t)[n - 1]
               e == t[n].message
               M == HelperMessages
    <3>1. a \in Seq(M) /\ b \in Seq(M) /\ e \in M
      BY <1>2, <2>5
    <3> HIDE DEF a, b, e, M
    <3>2. a \o b \in Seq(M) /\ <<e>> \in Seq(M)
      BY <3>1
    <3>3. Append(a \o b, e) = (a \o b) \o <<e>> /\ Append(b, e) = b \o <<e>>
      BY <3>1, <3>2, AppendIsConcat
    <3>4. (a \o b) \o <<e>> = a \o (b \o <<e>>)
      BY <3>1, <3>2, ConcatAssociative
    <3>5. Append(a \o b, e) = a \o Append(b, e)
      BY <3>3, <3>4
    <3> QED
      BY <3>5 DEF a, b, e
  <2>7. Said(q)[n + 1] = Controls(h) \o Said(t)[n]
    <3>1. CASE IsInput(t[n].message)
      BY <2>2, <2>3, <2>4, <3>1, Zenon
    <3>2. CASE ~IsInput(t[n].message)
      BY <2>2, <2>3, <2>4, <2>6, <3>2, Zenon
    <3> QED
      BY <3>1, <3>2
  <2> QED
    BY <2>7
<1>5. N \in H
  <2>1. H \in SUBSET Nat
    OBVIOUS
  <2> HIDE DEF H, N
  <2> QED
    BY <1>1, <1>3, <1>4, <2>1, Induct
<1>6. Controls(q) = Said(q)[Len(q)] /\ Controls(t) = Said(t)[Len(t)]
  BY <1>1, SaidPass
<1> QED
  BY <1>1, <1>5, <1>6 DEF t, h

\* Starting a record, the head's, changes no message.
LEMMA ControlsStart ==
  ASSUME NEW q \in Seq(Records), q # << >>
  PROVE  LET p == [q EXCEPT ![1].started = TRUE]
         IN  p \in Seq(Records) /\ Controls(p) = Controls(q)
<1> DEFINE p == [q EXCEPT ![1].started = TRUE]
           h == [q[1] EXCEPT !.started = TRUE]
<1>1. Len(q) \in Nat /\ 1 \in 1 .. Len(q) /\ \A i \in 1 .. Len(q) : q[i] \in Records
  OBVIOUS
<1>2. h \in Records /\ h.message = q[1].message
  BY <1>1 DEF Records
<1>3. p = [q EXCEPT ![1] = h]
  OBVIOUS
<1> HIDE DEF p, h
<1>4. /\ p \in Seq(Records) /\ Len(p) = Len(q)
      /\ \A i \in 1 .. Len(q) : p[i] = IF i = 1 THEN h ELSE q[i]
  BY <1>1, <1>2, <1>3, ExceptSeq
<1>5. \A i \in 1 .. Len(q) : p[i].message = q[i].message
  BY <1>2, <1>4
<1>6. Said(p)[Len(q)] = Said(q)[Len(q)]
  BY <1>1, <1>4, <1>5, SaidLocal
<1>7. Controls(p) = Controls(q)
  BY <1>4, <1>6, SaidPass
<1> QED
  BY <1>4, <1>7 DEF p

\* A sequence extends itself, and what it was before a message was appended.
LEMMA ExtendsReflexive ==
  ASSUME NEW S, NEW s \in Seq(S)
  PROVE  /\ Extends(s, s)
         /\ \A e \in S : Extends(Append(s, e), s)
<1>1. Extends(s, s)
  BY DEF Extends
<1>2. ASSUME NEW e \in S PROVE Extends(Append(s, e), s)
  <2>1. SubSeq(Append(s, e), 1, Len(s)) = s
    OBVIOUS
  <2> QED
    BY <2>1 DEF Extends
<1> QED
  BY <1>1, <1>2

\* What may be queued.
LEMMA Messages ==
  /\ \A g \in Generations :
                    /\ ReadyMessage(g) \in ControlMessages /\ ResumeMessage(g) \in ControlMessages
                    /\ Fatal(g) \in ControlMessages /\ InputMessage(g) \in HelperMessages
                    /\ IsInput(InputMessage(g)) /\ InputMessage(g).generation = g
  /\ \A g \in Generations, s \in Nat : SuspendMessage(g, s) \in ControlMessages
  /\ \A g \in Generations, s \in Serials : FrameComplete(g, s) \in ControlMessages
  /\ \A t \in Tokens : Ping(t) \in ControlMessages
  /\ ShutdownAccepted \in ControlMessages
  /\ \A m \in ControlMessages : m \in HelperMessages /\ ~IsInput(m)
<1>1. \A m \in ControlMessages : ~IsInput(m)
  BY DEF ControlMessages, ReadyMessage, ResumeMessage, SuspendMessage, FrameComplete, Ping,
         ShutdownAccepted, Fatal, IsInput
<1>2. \A g \in Generations : IsInput(InputMessage(g)) /\ InputMessage(g).generation = g
  BY DEF InputMessage, IsInput
<1> QED
  BY <1>1, <1>2 DEF ControlMessages, HelperMessages

\* The queue is left as it is given, or with one control message more.
Adds(queue) ==
    \/ outbound' = queue
    \/ \E m \in ControlMessages : outbound' = enqueue_message(queue, m)

LEMMA FailAdds ==
  ASSUME NEW queue, NEW cause, fail_helper(queue, cause), generation' \in Generations
  PROVE  Adds(queue)
BY Messages DEF fail_helper, Adds

LEMMA EnqueueAdds ==
  ASSUME NEW queue, NEW m \in ControlMessages, NEW frm, NEW pnd,
         enqueue_or_fail(queue, m, frm, pnd), generation' \in Generations
  PROVE  Adds(queue)
BY FailAdds DEF enqueue_or_fail, Adds

\* A step that queues a control message at most, in the ownership in progress or at its
\* resumption.
QueuesControl ==
    /\ Adds(outbound) /\ generation' = generation /\ (suspended' => suspended)
    /\ readySent => readySent' /\ helloReceived'
    /\ readySent' => helloReceived'

LEMMA RejectQueues ==
  ASSUME HelperTypeOK, readySent => helloReceived, NEW cause, Reject(cause)
  PROVE  QueuesControl
<1>1. generation' = generation /\ generation \in Generations
  BY DEF HelperTypeOK, Reject, sessionVars
<1> QED
  BY <1>1, FailAdds DEF Reject, QueuesControl, sessionVars

\* Every message of the core, and every call of the worker but suspend, input and the two
\* that write to the socket.
LEMMA ReceiveQueues ==
  ASSUME HelperTypeOK, readySent => helloReceived,
         NEW m \in CoreMessage, NEW presented \in BOOLEAN, Receive(m, presented)
  PROVE  QueuesControl
<1>0. generation \in Generations
  BY DEF HelperTypeOK
<1>1. CASE ReceiveHello(m)
  <2>1. generation' = generation /\ suspended' = suspended /\ helloReceived' /\ ~readySent
    BY <1>1 DEF ReceiveHello
  <2>2. CASE suspended
    BY <1>1, <2>1, <2>2 DEF ReceiveHello, QueuesControl, Adds, queueVars
  <2>3. CASE ~suspended
    BY <1>0, <1>1, <2>1, <2>3, EnqueueAdds, Messages DEF ReceiveHello, QueuesControl
  <2> QED
    BY <2>2, <2>3
<1>2. CASE Reject("hello_first") \/ Reject("credentials") \/ Reject("after_shutdown")
           \/ Reject("duplicate_hello") \/ Reject("begin_order") \/ Reject("begin_damage")
           \/ Reject("data_order") \/ Reject("data_size") \/ Reject("presentation")
           \/ Reject("terminator") \/ Reject("incomplete") \/ Reject("pong")
  BY <1>2, RejectQueues
<1>3. CASE UNCHANGED <<sessionVars, outbound>>
  BY <1>3 DEF sessionVars, QueuesControl, Adds
<1>4. CASE handle_shutdown
  BY <1>0, <1>4, EnqueueAdds, Messages DEF handle_shutdown, sessionVars, QueuesControl
<1>5. CASE RejectHello(m)
  BY <1>2, <1>5 DEF RejectHello
<1>6. CASE handle_frame_begin(m)
  BY <1>2, <1>3, <1>6 DEF handle_frame_begin
<1>7. CASE handle_frame_data(m)
  BY <1>2, <1>3, <1>7 DEF handle_frame_data
<1>8. CASE handle_frame_reference(m, presented)
  BY <1>2, <1>3, <1>8
     DEF handle_frame_reference, DropFrame, PresentFrame, PresentFails, RejectReference
<1>9. CASE handle_pong(m)
  BY <1>2, <1>3, <1>9 DEF handle_pong, queueVars
<1> QED
  BY <1>1, <1>2, <1>4, <1>5, <1>6, <1>7, <1>8, <1>9 DEF Receive

QueuesInput ==
    /\ ~suspended /\ readySent /\ UNCHANGED sessionVars
    /\ outbound' = enqueue_message(outbound, InputMessage(generation))

Suspends ==
    /\ generation' = generation + 1 /\ UNCHANGED <<helloReceived, readySent>>
    /\ IF readySent THEN Adds(purge_unsent_input(outbound)) ELSE outbound' = outbound

LEMMA WorkerQueues ==
  ASSUME HelperTypeOK, readySent => helloReceived, FromWorker
  PROVE  \/ QueuesControl \/ QueuesInput \/ Suspends
         \/ (StartHead \/ ConsumeHead) /\ UNCHANGED sessionVars
<1>0. generation \in Generations /\ frame.serial \in Nat /\ pending.serial \in Nat
  BY DEF HelperTypeOK, FrameType
<1>1. CASE suspend
  <2>1. generation' = generation + 1 /\ UNCHANGED <<helloReceived, readySent>>
        /\ generation + 1 \in Generations /\ AbandonedSerial \in Nat
    BY <1>0, <1>1, HelperAssumption DEF suspend, CanSuspend, AbandonedSerial, Generations
  <2>2. CASE readySent
    BY <1>1, <2>1, <2>2, EnqueueAdds, Messages DEF suspend, Suspends
  <2>3. CASE ~readySent
    BY <1>1, <2>1, <2>3 DEF suspend, Suspends
  <2> QED
    BY <2>2, <2>3
<1>2. CASE \E resized \in BOOLEAN : resume(resized)
  <2>1. PICK resized \in BOOLEAN : resume(resized)
    BY <1>2
  <2>2. generation' = generation /\ ~suspended' /\ helloReceived' = helloReceived
    BY <2>1 DEF resume
  <2>3. CASE helloReceived
    <3>1. readySent => readySent'
      BY <2>1, <2>3, Zenon DEF resume
    <3> QED
      BY <1>0, <2>1, <2>2, <2>3, <3>1, EnqueueAdds, Messages DEF resume, QueuesControl
  <2>4. CASE ~helloReceived
    BY <2>1, <2>2, <2>4 DEF resume, QueuesControl, Adds, queueVars
  <2> QED
    BY <2>3, <2>4
<1>3. CASE ResumeOutOfMemory \/ report_fatal
  BY <1>3, RejectQueues DEF ResumeOutOfMemory, report_fatal
<1>4. CASE send_input
  <2>1. ~suspended /\ readySent /\ UNCHANGED sessionVars
        /\ enqueue_or_fail(outbound, InputMessage(generation), frame, pending)
    BY <1>4 DEF send_input, CanSendInput
  <2>2. CASE outbound' = enqueue_message(outbound, InputMessage(generation))
    BY <2>1, <2>2 DEF QueuesInput
  <2>3. CASE fail_helper(outbound, "outbound_full")
    BY <1>0, <2>1, <2>3, FailAdds DEF QueuesControl, sessionVars
  <2> QED
    BY <2>1, <2>2, <2>3 DEF enqueue_or_fail
<1>5. CASE \E gen \in Generations, serial \in Serials : complete_frame(gen, serial)
  <2>1. PICK gen \in Generations, serial \in Serials : complete_frame(gen, serial)
    BY <1>5
  <2>2. FrameComplete(gen, serial) \in ControlMessages
    BY Ranges, Messages
  <2>3. CASE UNCHANGED helperVars
    BY <2>3 DEF helperVars, sessionVars, queueVars, QueuesControl, Adds
  <2>4. CASE Reject(CompletionError)
    BY <2>4, RejectQueues
  <2>5. CASE UNCHANGED sessionVars
             /\ enqueue_or_fail(outbound, FrameComplete(gen, serial), frame, NoPresentation)
    BY <1>0, <2>2, <2>5, EnqueueAdds DEF sessionVars, QueuesControl
  <2> QED
    BY <2>1, <2>3, <2>4, <2>5 DEF complete_frame
<1>6. CASE \E token \in Tokens : send_ping(token)
  <2>1. PICK token \in Tokens : send_ping(token)
    BY <1>6
  <2>2. Ping(token) \in ControlMessages
    BY Ranges, Messages
  <2> QED
    BY <1>0, <2>1, <2>2, EnqueueAdds DEF send_ping, sessionVars, QueuesControl
<1>7. CASE take_pong
  BY <1>7 DEF take_pong, sessionVars, queueVars, QueuesControl, Adds
<1>8. CASE StartHead \/ ConsumeHead
  BY <1>8 DEF StartHead, ConsumeHead
<1> QED
  BY <1>1, <1>2, <1>3, <1>4, <1>5, <1>6, <1>7, <1>8 DEF FromWorker

\* Every step of the helper, as the queue sees it.
LEMMA StepQueues ==
  ASSUME HelperTypeOK, readySent => helloReceived, [HelperNext]_helperVars
  PROVE  \/ QueuesControl \/ QueuesInput \/ Suspends
         \/ (StartHead \/ ConsumeHead) /\ UNCHANGED sessionVars
<1>1. CASE UNCHANGED helperVars
  BY <1>1 DEF helperVars, sessionVars, queueVars, QueuesControl, Adds
<1>2. CASE \E m \in CoreMessage, presented \in BOOLEAN : Receive(m, presented)
  BY <1>2, ReceiveQueues
<1>3. CASE ReceiveMalformed
  BY <1>3, RejectQueues DEF ReceiveMalformed
<1> QED
  BY <1>1, <1>2, <1>3, WorkerQueues DEF HelperNext, FromCore

-----------------------------------------------------------------------------
(***************************************************************************)
(* The queue's invariant.  Before READY was sent no input is queued: a     *)
(* suspension then has nothing to purge.                                   *)
(***************************************************************************)
Fresh(queue) ==
    \A i \in DOMAIN queue : IsInput(queue[i].message) /\ ~queue[i].started
        => queue[i].message.generation = generation /\ ~suspended

Silent(queue) == \A i \in DOMAIN queue : ~IsInput(queue[i].message)

QueueInv ==
    /\ outbound \in Seq(Records)
    /\ Fresh(outbound)
    /\ readySent => helloReceived
    /\ ~readySent => Silent(outbound)

\* Queueing a message that is no input leaves the input of a queue as it was.
LEMMA QueueOne ==
  ASSUME NEW queue \in Seq(Records), NEW m \in HelperMessages
  PROVE  LET q == enqueue_message(queue, m)
         IN  /\ q \in Seq(Records)
             /\ \A i \in DOMAIN q : \/ i \in DOMAIN queue /\ q[i] = queue[i]
                                    \/ q[i].message = m
<1>1. [message |-> m, started |-> FALSE] \in Records
  BY DEF Records
<1> QED
  BY <1>1 DEF enqueue_message

LEMMA AddsOne ==
  ASSUME NEW queue \in Seq(Records), Adds(queue)
  PROVE  /\ outbound' \in Seq(Records)
         /\ \A i \in DOMAIN outbound' : \/ i \in DOMAIN queue /\ outbound'[i] = queue[i]
                                        \/ ~IsInput(outbound'[i].message)
         /\ Extends(Controls(outbound'), Controls(queue))
<1>1. CASE outbound' = queue
  BY <1>1, ControlsType, ExtendsReflexive
<1>2. ASSUME NEW m \in ControlMessages, outbound' = enqueue_message(queue, m)
      PROVE  /\ outbound' \in Seq(Records)
             /\ \A i \in DOMAIN outbound' : \/ i \in DOMAIN queue /\ outbound'[i] = queue[i]
                                            \/ ~IsInput(outbound'[i].message)
             /\ Extends(Controls(outbound'), Controls(queue))
  <2>1. m \in HelperMessages /\ ~IsInput(m)
    BY Messages
  <2> DEFINE e == [message |-> m, started |-> FALSE]
  <2>2. e \in Records /\ e.message = m
    BY <2>1 DEF Records
  <2>3. outbound' = Append(queue, e)
    BY <1>2 DEF enqueue_message
  <2>4. Controls(outbound') = Append(Controls(queue), m)
    <3> HIDE DEF e
    <3> QED
      BY <2>1, <2>2, <2>3, ControlsAppend
  <2>5. Extends(Controls(outbound'), Controls(queue))
    BY <2>1, <2>4, ControlsType, ExtendsReflexive
  <2> QED
    BY <1>2, <2>1, <2>5, QueueOne
<1> QED
  BY <1>1, <1>2 DEF Adds

LEMMA QueueStep ==
  ASSUME HelperTypeOK, QueueInv, [HelperNext]_helperVars
  PROVE  /\ QueueInv'
         /\ \/ Extends(Controls(outbound'), Controls(outbound))
            \/ /\ outbound' = Tail(outbound)
               /\ Controls(outbound) = Controls(<<Head(outbound)>>) \o Controls(outbound')
<1> USE DEF QueueInv
<1>1. CASE QueuesControl
  <2>1. /\ outbound' \in Seq(Records) /\ Extends(Controls(outbound'), Controls(outbound))
        /\ \A i \in DOMAIN outbound' : \/ i \in DOMAIN outbound /\ outbound'[i] = outbound[i]
                                       \/ ~IsInput(outbound'[i].message)
    BY <1>1, AddsOne DEF QueuesControl
  <2>2. Fresh(outbound)'
    BY <1>1, <2>1 DEF QueuesControl, Fresh
  <2>3. ~readySent' => Silent(outbound)'
    BY <1>1, <2>1 DEF QueuesControl, Silent
  <2>4. readySent' => helloReceived'
    BY <1>1 DEF QueuesControl
  <2> QED
    BY <2>1, <2>2, <2>3, <2>4
<1>2. CASE QueuesInput
  <2>1. generation \in Generations
    BY DEF HelperTypeOK
  <2> DEFINE m == InputMessage(generation)
             e == [message |-> m, started |-> FALSE]
  <2>2. m \in HelperMessages /\ IsInput(m) /\ m.generation = generation
    BY <2>1, Messages
  <2>3. e \in Records /\ e.message = m
    BY <2>2 DEF Records
  <2>4. outbound' = enqueue_message(outbound, m) /\ ~suspended /\ readySent
        /\ UNCHANGED sessionVars
    BY <1>2 DEF QueuesInput
  <2>5. outbound' = Append(outbound, e)
    BY <2>4 DEF enqueue_message
  <2> HIDE DEF m, e
  <2>6. Controls(outbound') = Controls(outbound)
    BY <2>2, <2>3, <2>5, ControlsAppend
  <2>7. Extends(Controls(outbound'), Controls(outbound))
    BY <2>6, ControlsType, ExtendsReflexive
  <2>8. /\ outbound' \in Seq(Records)
        /\ \A i \in DOMAIN outbound' : \/ i \in DOMAIN outbound /\ outbound'[i] = outbound[i]
                                       \/ outbound'[i].message = m
    BY <2>2, <2>4, QueueOne
  <2>9. Fresh(outbound)'
    BY <2>2, <2>4, <2>8 DEF Fresh, sessionVars
  <2> QED
    BY <2>4, <2>7, <2>8, <2>9 DEF sessionVars
<1>3. CASE Suspends
  <2>1. CASE readySent
    <3> DEFINE q == purge_unsent_input(outbound)
    <3>1. q \in Seq(Records) /\ (\A i \in DOMAIN q : StaysQueued(q[i]))
          /\ Controls(q) = Controls(outbound)
      BY KeptStay, ControlsPurge
    <3>2. Adds(q) /\ readySent' /\ helloReceived'
      BY <1>3, <2>1 DEF Suspends
    <3> HIDE DEF q
    <3>3. /\ outbound' \in Seq(Records) /\ Extends(Controls(outbound'), Controls(q))
          /\ \A i \in DOMAIN outbound' : \/ i \in DOMAIN q /\ outbound'[i] = q[i]
                                         \/ ~IsInput(outbound'[i].message)
      BY <3>1, <3>2, AddsOne
    <3>4. Fresh(outbound)'
      BY <3>1, <3>3 DEF Fresh, StaysQueued
    <3> QED
      BY <3>1, <3>2, <3>3, <3>4
  <2>2. CASE ~readySent
    <3>1. outbound' = outbound /\ ~readySent'
      BY <1>3, <2>2 DEF Suspends
    <3>2. Silent(outbound)' /\ Fresh(outbound)'
      BY <2>2, <3>1 DEF Silent, Fresh
    <3> QED
      BY <3>1, <3>2, ControlsType, ExtendsReflexive
  <2> QED
    BY <2>1, <2>2
<1>4. CASE StartHead /\ UNCHANGED sessionVars
  <2>1. outbound # << >> /\ outbound' = [outbound EXCEPT ![1].started = TRUE]
    BY <1>4 DEF StartHead
  <2>2. outbound' \in Seq(Records) /\ Controls(outbound') = Controls(outbound)
    BY <2>1, ControlsStart
  <2>3. \A i \in DOMAIN outbound' : /\ i \in DOMAIN outbound
                                    /\ outbound'[i].message = outbound[i].message
                                    /\ ~outbound'[i].started => ~outbound[i].started
    <3>1. \A i \in DOMAIN outbound : outbound[i] \in Records
      OBVIOUS
    <3>2. DOMAIN outbound' = DOMAIN outbound
      BY <2>1
    <3>3. ASSUME NEW i \in DOMAIN outbound, i # 1 PROVE outbound'[i] = outbound[i]
      BY <2>1, <3>3
    <3>4. 1 \in DOMAIN outbound /\ outbound'[1] = [outbound[1] EXCEPT !.started = TRUE]
      <4>1. outbound \in Seq(Records)
        OBVIOUS
      <4>2. 1 \in DOMAIN outbound
        BY <2>1, <4>1
      <4> QED
        BY <2>1, <4>2, Zenon
    <3>5. outbound'[1].message = outbound[1].message /\ outbound'[1].started
      BY <3>1, <3>4 DEF Records
    <3> QED
      BY <3>2, <3>3, <3>5
  <2>4. Fresh(outbound)' /\ (~readySent' => Silent(outbound)')
    BY <1>4, <2>3 DEF Fresh, Silent, sessionVars
  <2>5. Extends(Controls(outbound'), Controls(outbound))
    BY <2>2, ControlsType, ExtendsReflexive
  <2> QED
    BY <1>4, <2>2, <2>4, <2>5 DEF sessionVars
<1>5. CASE ConsumeHead /\ UNCHANGED sessionVars
  <2>1. outbound # << >> /\ outbound' = Tail(outbound)
    BY <1>5 DEF ConsumeHead
  <2>2. /\ outbound' \in Seq(Records)
        /\ \A i \in DOMAIN outbound' : i + 1 \in DOMAIN outbound
                                       /\ outbound'[i] = outbound[i + 1]
    BY <2>1
  <2>3. Fresh(outbound)' /\ (~readySent' => Silent(outbound)')
    BY <1>5, <2>2 DEF Fresh, Silent, sessionVars
  <2>4. Controls(outbound) = Controls(<<Head(outbound)>>) \o Controls(outbound')
    BY <2>1, ControlsTail
  <2> QED
    BY <1>5, <2>1, <2>2, <2>3, <2>4 DEF sessionVars
<1> QED
  BY <1>1, <1>2, <1>3, <1>4, <1>5, StepQueues

\* The queue's invariant holds in every reachable state.
LEMMA QueueAlways == HelperSpec => []QueueInv
<1>1. HelperInit => QueueInv
  BY DEF HelperInit, QueueInv, Fresh, Silent
<1>2. HelperTypeOK /\ QueueInv /\ [HelperNext]_helperVars => QueueInv'
  BY QueueStep
<1> QED
  BY <1>1, <1>2, HelperTypeCorrect, PTL DEF HelperSpec

\* Input of an ownership that is over waits nowhere: a suspension purges it, and none is
\* queued until the next begins (nb_privsep_helper_suspend, nb_privsep_helper_send_input).
THEOREM NoStaleInput == HelperSpec => []NoStaleInputQueued
<1>1. QueueInv => NoStaleInputQueued
  BY DEF QueueInv, Fresh, NoStaleInputQueued
<1> QED
  BY <1>1, QueueAlways, PTL

\* Whatever is purged, refused or written, control messages leave the queue from its head,
\* in order, and by being sent (purge_unsent_input, fail_helper).
THEOREM ControlsStay == HelperSpec => ControlsAreKept
<1>1. HelperTypeOK /\ QueueInv /\ [HelperNext]_helperVars =>
        \/ Extends(Controls(outbound'), Controls(outbound))
        \/ /\ outbound' = Tail(outbound)
           /\ Controls(outbound) = Controls(<<Head(outbound)>>) \o Controls(outbound')
  BY QueueStep
<1> QED
  BY <1>1, QueueAlways, HelperTypeCorrect, PTL DEF HelperSpec, ControlsAreKept

=============================================================================
