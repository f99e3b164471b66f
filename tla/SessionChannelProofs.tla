------------------------ MODULE SessionChannelProofs ------------------------
(***************************************************************************)
(* The channel between helper and core, for queues and sockets of every    *)
(* capacity and any number of switches, frames and heartbeats: the core    *)
(* finds no message of the helper out of order, but for a SUSPEND that     *)
(* abandons a frame the core has given up already, and the helper none of  *)
(* the core's, but for a FRAME_BEGIN that crossed a suspension.            *)
(*                                                                         *)
(* Most messages are long under way when they are read.  So the argument   *)
(* is about the whole queue: read one after the other, the messages under  *)
(* way take what the core knows of the ownership to what the helper knows  *)
(* (HearInv), and what the helper has received to what the core has sent   *)
(* (ObeyInv), each step of the way one the reader expects.  What ties a    *)
(* completion to its frame are the frame's traces: its messages, the open  *)
(* and the presented frame of the helper, its completion (TraceInv).       *)
(* PongInv does the same for a heartbeat and its answer, and ClientInv is  *)
(* what the client keeps of itself.  PixInv says what the screen shows     *)
(* while a frame is on its way, so that what the core was told is          *)
(* displayed is displayed.                                                 *)
(***************************************************************************)
EXTENDS PrivsepSessionProofs

(***************************************************************************)
(* What the client does with a message it does not refuse.                 *)
(***************************************************************************)
Up == cError = "none"

OkReady(m) ==
    /\ m.type = "ready"
    /\ helloSent /\ ~hasOutput /\ cState = "suspended"
    /\ cGeneration' = m.generation /\ hasOutput' = TRUE /\ helperActive' = TRUE
    /\ cState' = "active" /\ UNCHANGED <<controls, wire, cFrame>>

OkSuspend(m) ==
    /\ m.type = "suspend"
    /\ ExpectedSuspend(m)
    /\ cGeneration' = m.generation /\ hasOutput' = hasOutput /\ helperActive' = FALSE
    /\ cState' = (IF cState = "active" THEN "release_pending" ELSE cState)
    /\ cFrame' = AbortedFrame /\ UNCHANGED <<controls, wire>>

OkResume(m) ==
    /\ m.type = "resume"
    /\ ExpectedResume(m)
    /\ helperActive' = TRUE /\ UNCHANGED <<cGeneration, hasOutput>>
    /\ cState' = (IF cState = "suspended" THEN "acquire_pending" ELSE cState)
    /\ UNCHANGED <<controls, wire, cFrame>>

OkInput(m) ==
    /\ m.type = "input"
    /\ input_message_is_valid(m)
    /\ UNCHANGED <<cGeneration, hasOutput, helperActive, cState, controls, wire, cFrame>>

OkComplete(m) ==
    /\ m.type = "complete"
    /\ cState = "active" /\ cFrame.phase = "wait"
    /\ m.generation = cFrame.generation /\ m.serial = cFrame.serial
    /\ cFrame' = NoFrame
    /\ UNCHANGED <<cGeneration, hasOutput, helperActive, cState, controls, wire>>

OkPing(m) ==
    /\ m.type = "ping"
    /\ UNCHANGED <<cGeneration, hasOutput, helperActive, cState, wire, cFrame>>
    /\ IF shutdownSent \/ WireType = "shutdown" THEN controls' = controls
       ELSE controls' = Append(controls, Pong(m.token))

OkAccepted(m) ==
    /\ m.type = "accepted"
    /\ shutdownAsked /\ shutdownSent
    /\ UNCHANGED <<cGeneration, hasOutput, helperActive, cState, controls, wire, cFrame>>

Heeds(m) ==
    \/ OkReady(m) \/ OkSuspend(m) \/ OkResume(m) \/ OkInput(m)
    \/ OkComplete(m) \/ OkPing(m) \/ OkAccepted(m)

\* The completions among the host events are old ones or that of the frame m completes.
CompletionsFrom(m) ==
    \A i \in DOMAIN events' : events'[i].type = "complete" =>
        \/ \E j \in DOMAIN events : events'[i] = events[j]
        \/ m.type = "complete" /\ events'[i].serial = cFrame.serial

\* Discarding input makes no new event.
LEMMA DiscardKeeps ==
    ASSUME NEW S, NEW q \in Seq(S)
    PROVE  \A i \in DOMAIN discard_queued_input(q) :
              \E j \in DOMAIN q : discard_queued_input(q)[i] = q[j]
<1> DEFINE rest == Rest(q)
           Old(n) == \A i \in DOMAIN rest[n] : \E j \in DOMAIN q : rest[n][i] = q[j]
           H == {n \in 0 .. Len(q) : Old(n)}
<1>1. /\ discard_queued_input(q) = rest[Len(q)]
      /\ rest \in [0 .. Len(q) -> Seq(S)] /\ rest[0] = << >>
      /\ \A n \in 1 .. Len(q) : rest[n] = IF ~event_is_input(q[n]) THEN Append(rest[n - 1], q[n])
                                          ELSE rest[n - 1]
  BY RestPass
<1> HIDE DEF rest
<1>2. 0 \in H
  BY <1>1
<1>3. ASSUME NEW k \in 1 .. Len(q), k - 1 \in H PROVE k \in H
  <2>1. Old(k - 1) /\ k \in 0 .. Len(q) /\ rest[k - 1] \in Seq(S) /\ q[k] \in S /\ k \in DOMAIN q
    BY <1>1, <1>3
  <2>2. CASE rest[k] = rest[k - 1]
    BY <2>1, <2>2
  <2>3. CASE rest[k] = Append(rest[k - 1], q[k])
    <3>1. ASSUME NEW i \in DOMAIN rest[k] PROVE \E j \in DOMAIN q : rest[k][i] = q[j]
      <4>1. \/ i \in DOMAIN rest[k - 1] /\ rest[k][i] = rest[k - 1][i]
            \/ rest[k][i] = q[k]
        BY <2>1, <2>3, <3>1
      <4> QED
        BY <2>1, <4>1
    <3> QED
      BY <2>1, <3>1
  <2> QED
    BY <1>1, <2>2, <2>3
<1>4. H \in SUBSET Nat /\ Len(q) \in Nat
  OBVIOUS
<1> HIDE DEF H
<1>5. Len(q) \in H
  BY <1>2, <1>3, <1>4, Induct
<1> QED
  BY <1>1, <1>5 DEF H

LEMMA DiscardOldestKeeps ==
    ASSUME NEW S, NEW q \in Seq(S), HasInput(q)
    PROVE  \A i \in DOMAIN discard_oldest_queued_input(q) :
              \E j \in DOMAIN q : discard_oldest_queued_input(q)[i] = q[j]
<1> DEFINE First(i) == /\ i \in DOMAIN q /\ event_is_input(q[i])
                       /\ \A j \in 1 .. i - 1 : ~event_is_input(q[j])
           o == CHOOSE i \in DOMAIN q : event_is_input(q[i])
                                        /\ \A j \in 1 .. i - 1 : ~event_is_input(q[j])
           a == SubSeq(q, 1, o - 1)
           b == SubSeq(q, o + 1, Len(q))
<1>1. \E i : First(i)
  <2> DEFINE T == {i \in DOMAIN q : event_is_input(q[i])}
  <2>1. T \in SUBSET Nat /\ T # {}
    BY DEF HasInput
  <2>2. PICK n \in T : \A k \in T : n <= k
    BY <2>1, LeastOf
  <2>3. \A j \in 1 .. n - 1 : j \notin T /\ j \in DOMAIN q
    BY <2>1, <2>2
  <2> QED
    BY <2>2, <2>3
<1>2. o \in DOMAIN q
  BY <1>1
<1>3. discard_oldest_queued_input(q) = a \o b
  BY DEF discard_oldest_queued_input
<1> HIDE DEF o
<1>4. /\ a \in Seq(S) /\ Len(a) = o - 1 /\ \A i \in 1 .. o - 1 : a[i] = q[i]
      /\ b \in Seq(S) /\ Len(b) = Len(q) - o
      /\ \A i \in 1 .. Len(q) - o : b[i] = q[o + i]
  BY <1>2
<1> HIDE DEF a, b
<1>5. ASSUME NEW i \in DOMAIN (a \o b) PROVE \E j \in DOMAIN q : (a \o b)[i] = q[j]
  <2>1. CASE i <= Len(a)
    <3>1. i \in 1 .. o - 1 /\ (a \o b)[i] = a[i]
      BY <1>2, <1>4, <2>1
    <3>2. i \in DOMAIN q
      BY <1>2, <3>1
    <3>3. a[i] = q[i]
      BY <1>4, <3>1
    <3> QED
      BY <3>1, <3>2, <3>3
  <2>2. CASE i > Len(a)
    <3>1. (a \o b)[i] = b[i - (o - 1)] /\ i - (o - 1) \in 1 .. Len(q) - o
      BY <1>2, <1>4, <2>2
    <3> DEFINE n == i - (o - 1)
    <3>2. n \in 1 .. Len(q) - o /\ b[n] = q[o + n]
      BY <1>4, <3>1
    <3> HIDE DEF n
    <3>3. o + n \in DOMAIN q
      BY <1>2, <3>2
    <3>4. (a \o b)[i] = q[o + n]
      BY <3>1, <3>2 DEF n
    <3> QED
      BY <3>3, <3>4
  <2>3. i \in Nat /\ Len(a) \in Nat
    BY <1>2, <1>4
  <2> QED
    BY <2>1, <2>2, <2>3
<1> QED
  BY <1>3, <1>5

\* An event queued without failing the client is the last of the queue.
LEMMA PushOk ==
    ASSUME NEW queue, NEW e, NEW state, NEW frm, push_event(queue, e, state, frm),
           cError' = "none"
    PROVE  /\ events' = Append(queue, e) /\ cState' = state /\ cFrame' = frm
           /\ UNCHANGED <<controls, wire, cError>>
BY DEF push_event, fail_client

\* The kinds of messages of the helper.
LEMMA HelperTypes ==
    ASSUME NEW m \in HelperMessages
    PROVE  m.type \in {"ready", "suspend", "resume", "input", "complete", "ping", "accepted", "fatal"}
BY DEF HelperMessages, ControlMessages, ReadyMessage, ResumeMessage, SuspendMessage,
       FrameComplete, Ping, ShutdownAccepted, Fatal, InputMessage

LEMMA HeedCases ==
    ASSUME SessionType, OwedInv, CoreRead, cError' = "none"
    PROVE  LET m == Head(toCore)
           IN  /\ Up /\ m \in HelperMessages /\ Heeds(m) /\ CompletionsFrom(m)
               /\ toCore # << >> /\ toCore' = Tail(toCore)
               /\ UNCHANGED <<shutdownAsked, shutdownSent, helloSent, coreVars, toHelper>>
<1> DEFINE m == Head(toCore)
<1>1. /\ toCore # << >> /\ toCore' = Tail(toCore) /\ ClientReceive(m)
      /\ UNCHANGED <<coreVars, toHelper>> /\ m \in HelperMessages /\ Up
      /\ events \in Seq(HostEvents)
  <2>1. toCore # << >> /\ toCore' = Tail(toCore) /\ ClientReceive(m) /\ UNCHANGED <<coreVars, toHelper>>
    BY DEF CoreRead
  <2>2. m \in HelperMessages
    BY <2>1 DEF SessionType, SocketType
  <2> QED
    BY <2>1, <2>2 DEF ClientReceive, CanIngest, Up, OwedInv
<1> HIDE DEF m
<1>2. ~OutOfOrder /\ \A cause : cause # "none" => ~fail_client(cause)
  BY DEF OutOfOrder, fail_client
<1> DEFINE Same == UNCHANGED <<shutdownAsked, shutdownSent, helloSent>>
           Held == events' = events
           Pushed == \E e \in HostEvents : events' = Append(events, e) /\ e.type # "complete"
<1>3. ASSUME Held PROVE CompletionsFrom(m)
  BY <1>3 DEF CompletionsFrom
<1>4. ASSUME NEW queue \in Seq(HostEvents), NEW e \in HostEvents, events' = Append(queue, e),
             \A i \in DOMAIN queue : \E j \in DOMAIN events : queue[i] = events[j],
             \/ e.type # "complete"
             \/ m.type = "complete" /\ e.serial = cFrame.serial
      PROVE  CompletionsFrom(m)
  <2>1. \A i \in DOMAIN events' : \/ i \in DOMAIN queue /\ events'[i] = queue[i]
                                  \/ events'[i] = e
    BY <1>4
  <2> QED
    BY <1>4, <2>1 DEF CompletionsFrom
<1>5. CASE m.type = "ready" /\ handle_ready(m)
  <2>1. /\ helloSent /\ ~hasOutput /\ cState = "suspended"
        /\ cGeneration' = m.generation /\ hasOutput' = TRUE /\ helperActive' = TRUE
        /\ UNCHANGED <<shutdownVars, helloSent>>
        /\ push_event(events, Event("output"), "active", cFrame)
    BY <1>2, <1>5 DEF handle_ready
  <2>2. /\ events' = Append(events, Event("output")) /\ cState' = "active" /\ cFrame' = cFrame
        /\ UNCHANGED <<controls, wire>>
    BY <2>1, PushOk
  <2>3. OkReady(m)
    BY <1>5, <2>1, <2>2 DEF OkReady
  <2>4. Same
    BY <2>1 DEF shutdownVars
  <2>5. CompletionsFrom(m)
    BY <1>1, <1>4, <2>2, EventTypes
  <2> QED
    BY <1>1, <2>3, <2>4, <2>5 DEF Heeds, m
<1>6. CASE m.type = "suspend" /\ handle_suspend(m)
  <2> DEFINE rest == discard_queued_input(events)
  <2>1. /\ ExpectedSuspend(m) /\ cGeneration' = m.generation /\ helperActive' = FALSE
        /\ UNCHANGED <<hasOutput, shutdownVars, helloSent>>
    BY <1>2, <1>6 DEF handle_suspend
  <2>0. rest \in Seq(HostEvents) /\ Count(rest, "quit") = Count(events, "quit")
    BY <1>1, DiscardCounts
  <2>2. \A i \in DOMAIN rest : \E j \in DOMAIN events : rest[i] = events[j]
    BY <1>1, DiscardKeeps
  <2> HIDE DEF rest
  <2>3. CASE cState = "active"
    <3>1. push_event(rest, Event("release"), "release_pending", AbortedFrame)
      BY <1>2, <1>6, <2>3 DEF handle_suspend, rest
    <3>2. /\ events' = Append(rest, Event("release")) /\ cState' = "release_pending"
          /\ cFrame' = AbortedFrame /\ UNCHANGED <<controls, wire>>
      BY <3>1, PushOk
    <3>3. OkSuspend(m)
      BY <1>6, <2>1, <2>3, <3>2 DEF OkSuspend
    <3>4. Same
      BY <2>1 DEF shutdownVars
    <3>5. CompletionsFrom(m)
      BY <1>4, <2>0, <2>2, <3>2, EventTypes
    <3> QED
      BY <1>1, <3>3, <3>4, <3>5 DEF Heeds, m
  <2>4. CASE cState # "active"
    <3>1. events' = rest /\ cFrame' = AbortedFrame /\ UNCHANGED <<cState, controls, wire>>
      BY <1>2, <1>6, <2>4 DEF handle_suspend, rest
    <3>2. OkSuspend(m)
      BY <1>6, <2>1, <2>4, <3>1 DEF OkSuspend
    <3>3. Same
      BY <2>1 DEF shutdownVars
    <3>4. CompletionsFrom(m)
      BY <2>2, <3>1 DEF CompletionsFrom
    <3> QED
      BY <1>1, <3>2, <3>3, <3>4 DEF Heeds, m
  <2> QED
    BY <2>3, <2>4
<1>7. CASE m.type = "resume" /\ handle_resume(m)
  <2>1. /\ ExpectedResume(m) /\ helperActive' = TRUE
        /\ UNCHANGED <<cGeneration, hasOutput, shutdownVars, helloSent>>
    BY <1>2, <1>7 DEF handle_resume
  <2>2. CASE cState = "suspended"
    <3>1. push_event(events, Event("acquire"), "acquire_pending", cFrame)
      BY <1>2, <1>7, <2>2 DEF handle_resume
    <3>2. /\ events' = Append(events, Event("acquire")) /\ cState' = "acquire_pending"
          /\ cFrame' = cFrame /\ UNCHANGED <<controls, wire>>
      BY <3>1, PushOk
    <3>3. OkResume(m)
      BY <1>7, <2>1, <2>2, <3>2 DEF OkResume
    <3>4. Same
      BY <2>1 DEF shutdownVars
    <3>5. CompletionsFrom(m)
      BY <1>1, <1>4, <3>2, EventTypes
    <3> QED
      BY <1>1, <3>3, <3>4, <3>5 DEF Heeds, m
  <2>3. CASE cState # "suspended"
    <3>1. UNCHANGED <<events, cState, cFrame, controls, wire>>
      BY <1>2, <1>7, <2>3 DEF handle_resume, failVars
    <3>2. OkResume(m)
      BY <1>7, <2>1, <2>3, <3>1 DEF OkResume
    <3>3. Same
      BY <2>1 DEF shutdownVars
    <3>4. CompletionsFrom(m)
      BY <1>3, <3>1
    <3> QED
      BY <1>1, <3>2, <3>3, <3>4 DEF Heeds, m
  <2> QED
    BY <2>2, <2>3
<1>8. CASE m.type = "input" /\ handle_input(m)
  <2>1. input_message_is_valid(m) /\ UNCHANGED <<ownershipVars, shutdownVars, helloSent>>
    BY <1>2, <1>8 DEF handle_input
  <2>2. m.generation \in Nat
    BY <1>1, <1>8, HelperFields, Ranges
  <2>3. UNCHANGED <<cState, cFrame, controls, wire>> /\ CompletionsFrom(m)
    <3>1. CASE UNCHANGED <<events, failVars>>
      BY <1>3, <3>1 DEF failVars
    <3>2. CASE \E queue \in Seq(HostEvents) :
                  /\ push_event(queue, InputEvent(m.generation), cState, cFrame)
                  /\ \A i \in DOMAIN queue : \E j \in DOMAIN events : queue[i] = events[j]
      <4>1. PICK queue \in Seq(HostEvents) :
                  /\ push_event(queue, InputEvent(m.generation), cState, cFrame)
                  /\ \A i \in DOMAIN queue : \E j \in DOMAIN events : queue[i] = events[j]
        BY <3>2
      <4>2. /\ events' = Append(queue, InputEvent(m.generation))
            /\ cState' = cState /\ cFrame' = cFrame /\ UNCHANGED <<controls, wire>>
        BY <4>1, PushOk
      <4>3. InputEvent(m.generation) \in HostEvents /\ InputEvent(m.generation).type # "complete"
        BY <2>2, EventTypes
      <4> QED
        BY <1>4, <4>1, <4>2, <4>3
    <3>3. CASE push_input_event(InputEvent(m.generation))
      <4>1. CASE Len(events) < EventCapacity
        BY <1>1, <3>2, <3>3, <4>1 DEF push_input_event
      <4>2. CASE ~(Len(events) < EventCapacity) /\ HasInput(events)
        <5> DEFINE queue == discard_oldest_queued_input(events)
        <5>0. queue \in Seq(HostEvents) /\ Count(queue, "quit") = Count(events, "quit")
          BY <1>1, <4>2, DiscardOldestCounts
        <5>1. \A i \in DOMAIN queue : \E j \in DOMAIN events : queue[i] = events[j]
          BY <1>1, <4>2, DiscardOldestKeeps
        <5>2. push_event(queue, InputEvent(m.generation), cState, cFrame)
          BY <3>3, <4>2 DEF push_input_event
        <5> HIDE DEF queue
        <5> QED
          BY <3>2, <5>0, <5>1, <5>2
      <4>3. CASE ~(Len(events) < EventCapacity) /\ ~HasInput(events)
        BY <3>1, <3>3, <4>3 DEF push_input_event
      <4> QED
        BY <4>1, <4>2, <4>3
    <3> QED
      BY <1>2, <1>8, <2>1, <3>1, <3>3 DEF handle_input
  <2>4. OkInput(m)
    BY <1>8, <2>1, <2>3 DEF OkInput, ownershipVars
  <2>5. Same
    BY <2>1 DEF shutdownVars
  <2> QED
    BY <1>1, <2>3, <2>4, <2>5 DEF Heeds, m
<1>9. CASE m.type = "complete" /\ handle_frame_complete(m)
  <2>1. /\ cState = "active" /\ cFrame.phase = "wait"
        /\ m.generation = cFrame.generation /\ m.serial = cFrame.serial
        /\ UNCHANGED <<ownershipVars, shutdownVars, helloSent>>
        /\ push_event(events, CompleteEvent(cFrame.serial), cState, NoFrame)
    BY <1>2, <1>9 DEF handle_frame_complete
  <2>2. /\ events' = Append(events, CompleteEvent(cFrame.serial)) /\ cState' = cState
        /\ cFrame' = NoFrame /\ UNCHANGED <<controls, wire>>
    BY <2>1, PushOk
  <2>3. OkComplete(m)
    BY <1>9, <2>1, <2>2 DEF OkComplete, ownershipVars
  <2>4. Same
    BY <2>1 DEF shutdownVars
  <2>5. cFrame.serial \in Nat
    BY <1>1, <1>9, <2>1, HelperFields, Ranges
  <2>6. CompleteEvent(cFrame.serial) \in HostEvents /\ CompleteEvent(cFrame.serial).serial = cFrame.serial
    BY <2>5, EventTypes DEF CompleteEvent, Event
  <2>7. CompletionsFrom(m)
    BY <1>1, <1>4, <1>9, <2>2, <2>6
  <2> QED
    BY <1>1, <2>3, <2>4, <2>7 DEF Heeds, m
<1>10. CASE m.type = "ping" /\ handle_ping(m)
  <2>1. UNCHANGED <<ownershipVars, shutdownVars, helloSent, events>>
    BY <1>10 DEF handle_ping
  <2>2. OkPing(m)
    BY <1>2, <1>10 DEF handle_ping, OkPing, ownershipVars, failVars
  <2>3. Same
    BY <2>1 DEF shutdownVars
  <2> QED
    BY <1>1, <1>3, <2>1, <2>2, <2>3 DEF Heeds, m
<1>11. CASE m.type = "accepted" /\ handle_shutdown_accepted
  <2>1. /\ shutdownAsked /\ shutdownSent /\ events' = <<Event("quit")>>
        /\ UNCHANGED <<ownershipVars, shutdownAsked, shutdownSent, helloSent, failVars>>
    BY <1>2, <1>11 DEF handle_shutdown_accepted
  <2>2. OkAccepted(m)
    BY <1>11, <2>1 DEF OkAccepted, ownershipVars, failVars
  <2>3. CompletionsFrom(m)
    <3>1. \A i \in DOMAIN events' : events'[i] = Event("quit")
      BY <2>1
    <3> QED
      BY <3>1, EventTypes DEF CompletionsFrom
  <2> QED
    BY <1>1, <2>1, <2>2, <2>3 DEF Heeds, m
<1>12. ~handle_fatal(m)
  BY <1>2 DEF handle_fatal
<1> QED
  BY <1>1, <1>5, <1>6, <1>7, <1>8, <1>9, <1>10, <1>11, <1>12, HelperTypes DEF ClientReceive, m

-----------------------------------------------------------------------------
(***************************************************************************)
(* What the client keeps of the ownership, of its frame, of what it sends  *)
(* and of what was drawn.                                                  *)
(***************************************************************************)
FrameTypes == {"begin", "data", "commit", "abort"}

OwnInv ==
    /\ ~Up => cState = "failed"
    /\ Up =>
        /\ hasOutput \in BOOLEAN /\ helperActive \in BOOLEAN
        /\ cState # "failed"
        /\ helperActive => cState # "suspended"
        /\ cState = "active" => helperActive
        /\ helperActive => hasOutput
        /\ ~hasOutput => cState = "suspended" /\ cGeneration = 0

\* A message of a frame says what the frame is and how far it has got.
Piece(m, f) ==
    /\ m.type \in FrameTypes => /\ f.phase = m.type
                                /\ m.generation = f.generation /\ m.serial = f.serial
    /\ m.type = "begin" => m.damage = f.damage /\ m.whole = f.whole /\ m.sound
    /\ m.type = "data" => m.offset = f.offset /\ m.region \in f.damage \ f.offset

\* A frame belongs to the ownership in progress, or is given up.
FrameIn(f, gen, state, next) ==
    /\ f.phase # "none" =>
         /\ f.serial < next
         /\ \/ f.cancel /\ f.generation < gen
            \/ ~f.cancel /\ f.generation = gen /\ state = "active"
    /\ f.phase = "wait" => ~f.cancel
    /\ f.phase = "abort" => f.cancel
    /\ f.drop => f.cancel
    /\ f.phase = "commit" => f.offset = f.damage /\ (f.cancel => f.drop)

SendInv ==
    Up => /\ FrameIn(cFrame, cGeneration, cState, nextSerial)
          /\ wire # << >> => Piece(wire[1], cFrame)

OnlyPongs(queue, from) == \A i \in DOMAIN queue : i > from => queue[i].type = "pong"

OrderInv ==
    /\ shutdownAsked => shutdownPending
    /\ shutdownSent => shutdownAsked
    /\ corePc \in {"handshake", "start"} => ~shutdownPending
    /\ Up =>
        /\ shutdownSent \/ WireType = "shutdown" =>
              shutdownAsked /\ controls = << >> /\ cFrame.phase = "none"
        /\ shutdownSent => wire = << >>
        /\ ~helloSent => \/ wire = <<Hello(TRUE)>> /\ OnlyPongs(controls, 0)
                         \/ /\ wire = << >> /\ controls # << >> /\ controls[1] = Hello(TRUE)
                            /\ OnlyPongs(controls, 1)
        /\ helloSent => WireType # "hello" /\ OnlyPongs(controls, 0)

DrawInv ==
    /\ painted \in [Regions -> Nat]
    /\ Up =>
        /\ cState \in {"suspended", "acquire_pending"} => painted = Unpainted
        /\ cState = "suspended" /\ corePc = "loop" => fullDamage \/ shutdownPending
        /\ cState = "active" /\ corePc = "loop" /\ ~fullDamage /\ ~shutdownPending
              => painted # Unpainted
        /\ cState = "active" /\ cFrame.phase # "none" =>
              IF cFrame.cancel THEN painted = Unpainted ELSE pendingSerial = cFrame.serial
        /\ \A i \in DOMAIN events : events[i].type = "complete" =>
              /\ events[i].serial < nextSerial
              /\ events[i].serial = cFrame.serial => cFrame.phase = "none" \/ cFrame.cancel

ClientInv == OwnInv /\ SendInv /\ OrderInv /\ DrawInv

\* A message fails the client, or leaves it running.
LEMMA ReadEffect ==
    ASSUME SocketType, CoreRead
    PROVE  /\ UNCHANGED <<shutdownAsked, shutdownSent, helloSent, coreVars>>
           /\ Up /\ (~Up' => cState' = "failed")
<1> DEFINE m == Head(toCore)
           Goal == UNCHANGED <<shutdownAsked, shutdownSent, helloSent>>
                   /\ (cError' # "none" => cState' = "failed")
<1>1. ClientReceive(m) /\ UNCHANGED coreVars /\ Up
  BY DEF CoreRead, ClientReceive, CanIngest, Up
<1>14. m \in HelperMessages
  BY DEF CoreRead, SocketType
<1> HIDE DEF m
<1>2. cError = "none"
  BY <1>1 DEF Up
<1>3. ASSUME NEW queue, NEW e, NEW state, NEW frm, push_event(queue, e, state, frm)
      PROVE  cError' # "none" => cState' = "failed"
  BY <1>2, <1>3 DEF push_event, fail_client
<1>4. OutOfOrder => Goal
  BY DEF OutOfOrder, fail_client, shutdownVars
<1>5. handle_ready(m) => Goal
  BY <1>3, <1>4 DEF handle_ready, shutdownVars
<1>6. handle_suspend(m) => Goal
  BY <1>2, <1>3, <1>4 DEF handle_suspend, shutdownVars
<1>7. handle_resume(m) => Goal
  BY <1>2, <1>3, <1>4 DEF handle_resume, shutdownVars, failVars
<1>8. handle_input(m) => Goal
  BY <1>2, <1>3, <1>4 DEF handle_input, shutdownVars, push_input_event, failVars
<1>9. handle_frame_complete(m) => Goal
  BY <1>3, <1>4 DEF handle_frame_complete, shutdownVars
<1>10. handle_ping(m) => Goal
  BY <1>2 DEF handle_ping, fail_client, shutdownVars, failVars
<1>11. handle_shutdown_accepted => Goal
  BY <1>2, <1>4 DEF handle_shutdown_accepted, failVars
<1>12. handle_fatal(m) => Goal
  BY <1>4 DEF handle_fatal, fail_client, shutdownVars
<1>13. m.type \in {"ready", "suspend", "resume", "input", "complete", "ping", "accepted", "fatal"} => Goal
  BY <1>1, <1>5, <1>6, <1>7, <1>8, <1>9, <1>10, <1>11, <1>12 DEF ClientReceive
<1> QED
  BY <1>1, <1>13, <1>14, HelperTypes DEF Up

\* The steps of the core that change nothing of the client's but its events.
LEMMA Idles ==
    ASSUME CoreIsReady \/ CoreHandlesInput \/ CoreQuits \/ CoreFails \/ CoreTimesOut \/ CoreCrashes
             \/ CoreDraws
    PROVE  /\ UNCHANGED <<ownershipVars, shutdownVars, helloSent, failVars>>
           /\ UNCHANGED <<shutdownPending, pendingSerial, nextSerial, painted>>
           /\ UNCHANGED <<toHelper, toCore>>
           /\ events' = events \/ (events # << >> /\ events' = Tail(events))
           /\ fullDamage => fullDamage'
           /\ \/ corePc' \in {corePc, "stopped"}
              \/ corePc' = "start" /\ corePc = "handshake"
<1>1. CASE CoreIsReady
  BY <1>1 DEF CoreIsReady, drawVars, socketVars
<1>2. CASE CoreHandlesInput \/ CoreQuits
  BY <1>2 DEF CoreHandlesInput, CoreQuits, TakesEvent, Exit, coreVars, drawVars, socketVars
<1>3. CASE CoreFails \/ CoreTimesOut \/ CoreCrashes
  BY <1>3 DEF CoreFails, CoreTimesOut, CoreCrashes, Exit, clientVars, drawVars
<1>4. CASE CoreDraws
  BY <1>4 DEF CoreDraws, clientVars, socketVars
<1> QED
  BY <1>1, <1>2, <1>3, <1>4

\* Every step of the core, by what it does to the client.
LEMMA CoreCases ==
    ASSUME CoreStep \/ CoreChoice
    PROVE  \/ CoreRead \/ CoreReadsEnd \/ CoreWriteFails \/ CoreWrite \/ CoreWriteBlocks
           \/ CoreStarts \/ CorePresents \/ CoreReleases \/ CoreAcquires \/ CoreFrameCompletes
           \/ CoreLogsOut
           \/ (CoreIsReady \/ CoreHandlesInput \/ CoreQuits \/ CoreFails \/ CoreTimesOut
                 \/ CoreCrashes \/ CoreDraws)
BY DEF CoreStep, CoreChoice

LEMMA EndEffect ==
    ASSUME CoreReadsEnd \/ CoreWriteFails
    PROVE  /\ Up /\ ~Up' /\ cState' = "failed"
           /\ UNCHANGED <<ownershipVars, shutdownVars, helloSent, coreVars, toHelper, toCore>>
BY DEF CoreReadsEnd, CoreWriteFails, ClientDisconnected, fail_client, Up, socketVars

\* What answering a change of ownership does to the client.
LEMMA AnswerEffect ==
    ASSUME CoreReleases \/ CoreAcquires
    PROVE  /\ UNCHANGED <<ownershipVars, helloSent, shutdownSent, shutdownPending, nextSerial,
                          toHelper, toCore, corePc>>
           /\ Up /\ pendingSerial' = 0 /\ fullDamage' = TRUE
           /\ ~Up' => cState' = "failed"
           /\ shutdownAsked' = shutdownAsked \/ shutdownAsked' = (shutdownAsked \/ shutdownPending)
           /\ Up' => /\ UNCHANGED <<controls, wire, cFrame>>
                     /\ \/ CoreReleases /\ cState = "release_pending"
                           /\ cState' = (IF helperActive THEN "acquire_pending" ELSE "suspended")
                           /\ painted' = Unpainted
                        \/ CoreAcquires /\ cState = "acquire_pending"
                           /\ cState' = (IF helperActive THEN "active" ELSE "release_pending")
                           /\ painted' = painted
                     /\ \/ events' = Tail(events)
                        \/ \E e : events' = Append(Tail(events), e) /\ e.type # "complete"
                     /\ events # << >>
           /\ painted' \in {painted, Unpainted}
<1>1. /\ Up /\ cError = "none" /\ events # << >>
  BY DEF CoreReleases, CoreAcquires, TakesEvent, Up
<1>2. ASSUME NEW e, NEW state, push_event(Tail(events), e, state, cFrame)
      PROVE  /\ ~Up' => cState' = "failed"
             /\ Up' => /\ events' = Append(Tail(events), e) /\ cState' = state
                       /\ UNCHANGED <<controls, wire, cFrame>>
  BY <1>1, <1>2 DEF push_event, fail_client, Up
<1>3. Event("acquire").type # "complete" /\ Event("release").type # "complete"
  BY EventTypes
<1>4. CASE CoreReleases
  <2>1. /\ cState = "release_pending"
        /\ painted' = Unpainted /\ pendingSerial' = 0 /\ fullDamage' = TRUE
        /\ UNCHANGED <<ownershipVars, helloSent, shutdownSent, shutdownPending, nextSerial,
                       toHelper, toCore, corePc>>
        /\ shutdownAsked' = (shutdownAsked \/ shutdownPending)
    BY <1>4 DEF CoreReleases, complete_console_release, AdvanceShutdown, Stay
  <2>2. CASE helperActive
    <3>1. push_event(Tail(events), Event("acquire"), "acquire_pending", cFrame)
      BY <1>4, <2>2 DEF CoreReleases, complete_console_release
    <3> QED
      BY <1>1, <1>2, <1>3, <1>4, <2>1, <2>2, <3>1
  <2>3. CASE ~helperActive
    <3>1. cState' = "suspended" /\ events' = Tail(events) /\ UNCHANGED <<controls, wire, cFrame, cError>>
      BY <1>4, <2>3 DEF CoreReleases, complete_console_release
    <3> QED
      BY <1>1, <1>4, <2>1, <2>3, <3>1 DEF Up
  <2> QED
    BY <2>2, <2>3
<1>5. CASE CoreAcquires
  <2>1. /\ cState = "acquire_pending"
        /\ painted' = painted /\ pendingSerial' = 0 /\ fullDamage' = TRUE
        /\ UNCHANGED <<ownershipVars, helloSent, shutdownSent, shutdownPending, nextSerial,
                       toHelper, toCore, corePc, shutdownAsked>>
    BY <1>5 DEF CoreAcquires, complete_console_acquire, Stay, shutdownVars
  <2>2. CASE ~helperActive
    <3>1. push_event(Tail(events), Event("release"), "release_pending", cFrame)
      BY <1>5, <2>2 DEF CoreAcquires, complete_console_acquire
    <3> QED
      BY <1>1, <1>2, <1>3, <1>5, <2>1, <2>2, <3>1
  <2>3. CASE helperActive
    <3>1. cState' = "active" /\ events' = Tail(events) /\ UNCHANGED <<controls, wire, cFrame, cError>>
      BY <1>5, <2>3 DEF CoreAcquires, complete_console_acquire
    <3> QED
      BY <1>1, <1>5, <2>1, <2>3, <3>1 DEF Up
  <2> QED
    BY <2>2, <2>3
<1> QED
  BY <1>4, <1>5

LEMMA CompletesEffect ==
    ASSUME CoreFrameCompletes
    PROVE  /\ UNCHANGED <<ownershipVars, helloSent, shutdownSent, shutdownPending, nextSerial,
                          failVars, painted, fullDamage, toHelper, toCore>>
           /\ Up /\ events # << >> /\ Head(events).type = "complete" /\ events' = Tail(events)
           /\ corePc' \in {corePc, "stopped"}
           /\ \/ /\ Head(events).serial = pendingSerial /\ pendingSerial' = 0
                 /\ shutdownAsked' = (shutdownAsked \/ shutdownPending)
              \/ UNCHANGED <<pendingSerial, shutdownAsked>>
BY DEF CoreFrameCompletes, TakesEvent, AdvanceShutdown, Stay, Exit, Up

LEMMA LogOutEffect ==
    ASSUME CoreLogsOut
    PROVE  /\ UNCHANGED <<ownershipVars, helloSent, shutdownSent, failVars, events, pendingSerial,
                          nextSerial, painted, corePc, toHelper, toCore>>
           /\ Up /\ ~shutdownPending /\ shutdownPending' /\ corePc = "loop"
BY DEF CoreLogsOut, socketVars, Up

\* A presentation, or the start without one.
LEMMA PresentEffects ==
    ASSUME CoreType, CoreStarts \/ CorePresents
    PROVE  /\ UNCHANGED <<ownershipVars, shutdownVars, helloSent, cState, controls, wire, cError,
                          events, shutdownPending, toHelper, toCore>>
           /\ corePc' = "loop"
           /\ \/ /\ cState = "active" /\ cFrame.phase = "none" /\ nextSerial' = nextSerial + 1
                 /\ cFrame' = [NoFrame EXCEPT !.phase = "begin", !.generation = cGeneration,
                                  !.serial = nextSerial,
                                  !.damage = IF corePc = "start" \/ fullDamage THEN Regions ELSE damage,
                                  !.whole = corePc = "start" \/ fullDamage]
                 /\ painted' = [r \in Regions |->
                                  IF (corePc = "start" \/ fullDamage) \/ r \in damage
                                  THEN nextSerial ELSE painted[r]]
                 /\ corePc = "start" \/ (corePc = "loop" /\ pendingSerial = 0 /\ ~shutdownPending)
                 /\ pendingSerial' = nextSerial
                 /\ corePc = "start" \/ fullDamage \/ damage # {}
              \/ /\ corePc = "start" /\ fullDamage' = TRUE
                 /\ UNCHANGED <<cFrame, pendingSerial, nextSerial, painted>>
<1>0. fullDamage \in BOOLEAN
  BY DEF CoreType
<1>1. CASE CoreStarts /\ PresentableState /\ MaxFrame > 0
  <2>1. present_desktop({}, TRUE) /\ corePc = "start" /\ corePc' = "loop"
        /\ UNCHANGED <<shutdownPending, toHelper, toCore>>
    BY <1>1 DEF CoreStarts, socketVars
  <2>2. /\ painted' = [r \in Regions |-> nextSerial]
        /\ pendingSerial' = nextSerial /\ nextSerial' = nextSerial + 1
        /\ present(nextSerial, Regions, TRUE)
    BY <2>1 DEF present_desktop
  <2>3. /\ cFrame' = [NoFrame EXCEPT !.phase = "begin", !.generation = cGeneration,
                                  !.serial = nextSerial, !.damage = Regions, !.whole = TRUE]
        /\ UNCHANGED <<ownershipVars, shutdownVars, helloSent, cState, controls, wire, cError, events>>
        /\ PresentableState
    BY <2>2 DEF present
  <2>4. painted' = [r \in Regions |->
                      IF (corePc = "start" \/ fullDamage) \/ r \in damage THEN nextSerial ELSE painted[r]]
    BY <2>1, <2>2
  <2>5. /\ (IF corePc = "start" \/ fullDamage THEN Regions ELSE damage) = Regions
        /\ (corePc = "start" \/ fullDamage) = TRUE
    BY <1>0, <2>1
  <2> QED
    BY <2>1, <2>2, <2>3, <2>4, <2>5 DEF PresentableState
<1>2. CASE CoreStarts /\ ~(PresentableState /\ MaxFrame > 0)
  BY <1>2 DEF CoreStarts, clientVars, failVars, socketVars
<1>3. CASE CorePresents
  <2>1. /\ present_desktop(damage, fullDamage) /\ corePc = "loop" /\ corePc' = "loop"
        /\ UNCHANGED <<shutdownPending, toHelper, toCore>>
        /\ pendingSerial = 0 /\ ~shutdownPending /\ (fullDamage \/ damage # {})
    BY <1>3 DEF CorePresents, socketVars, CanPresent, redrawNeeded
  <2>2. /\ painted' = [r \in Regions |-> IF fullDamage \/ r \in damage THEN nextSerial ELSE painted[r]]
        /\ pendingSerial' = nextSerial /\ nextSerial' = nextSerial + 1
        /\ present(nextSerial, IF fullDamage THEN Regions ELSE damage, fullDamage)
    BY <2>1 DEF present_desktop
  <2>3. /\ cFrame' = [NoFrame EXCEPT !.phase = "begin", !.generation = cGeneration,
                                  !.serial = nextSerial,
                                  !.damage = IF fullDamage THEN Regions ELSE damage, !.whole = fullDamage]
        /\ UNCHANGED <<ownershipVars, shutdownVars, helloSent, cState, controls, wire, cError, events>>
        /\ PresentableState
    BY <2>2 DEF present
  <2>4. painted' = [r \in Regions |->
                      IF (corePc = "start" \/ fullDamage) \/ r \in damage THEN nextSerial ELSE painted[r]]
    BY <2>1, <2>2
  <2>5. /\ (IF corePc = "start" \/ fullDamage THEN Regions ELSE damage)
              = (IF fullDamage THEN Regions ELSE damage)
        /\ (corePc = "start" \/ fullDamage) = fullDamage
    BY <1>0, <2>1
  <2> QED
    BY <2>1, <2>2, <2>3, <2>4, <2>5 DEF PresentableState
<1> QED
  BY <1>1, <1>2, <1>3

LEMMA OwnStep ==
    ASSUME SessionType, OwedInv, OwnInv, CoreStep \/ CoreChoice
    PROVE  OwnInv'
<1>0. SocketType /\ CoreType
  BY DEF SessionType
<1>1. ASSUME UNCHANGED <<cState, hasOutput, helperActive, cGeneration, cError>> PROVE OwnInv'
  BY <1>1 DEF OwnInv, Up
<1>2. CASE CoreRead /\ ~Up'
  BY <1>0, <1>2, ReadEffect DEF OwnInv
<1>3. CASE CoreRead /\ Up'
  <2> DEFINE m == Head(toCore)
  <2>1. Heeds(m) /\ Up
    BY <1>3, HeedCases DEF Up
  <2> HIDE DEF m
  <2>2. CASE OkReady(m)
    BY <1>3, <2>1, <2>2 DEF OkReady, OwnInv
  <2>3. CASE OkSuspend(m)
    BY <1>3, <2>1, <2>3 DEF OkSuspend, ExpectedSuspend, OwnInv
  <2>4. CASE OkResume(m)
    <3>1. m.generation \in Generations
      BY <1>3, <2>4, HeedCases, HelperFields DEF OkResume, m, Up
    <3>2. hasOutput
      BY <2>1, <2>4, <3>1 DEF OkResume, ExpectedResume, OwnInv, Generations
    <3> QED
      BY <1>3, <2>1, <2>4, <3>2 DEF OkResume, ExpectedResume, OwnInv
  <2>5. CASE OkInput(m) \/ OkComplete(m) \/ OkPing(m) \/ OkAccepted(m)
    BY <1>3, <2>1, <2>5 DEF OkInput, OkComplete, OkPing, OkAccepted, OwnInv
  <2> QED
    BY <2>1, <2>2, <2>3, <2>4, <2>5 DEF Heeds
<1>4. CASE CoreReadsEnd \/ CoreWriteFails
  BY <1>4, EndEffect DEF OwnInv
<1>5. CASE CoreReleases \/ CoreAcquires
  <2>1. CASE ~Up'
    BY <1>5, <2>1, AnswerEffect DEF OwnInv
  <2>2. CASE Up'
    <3>1. /\ UNCHANGED <<cGeneration, hasOutput, helperActive>> /\ Up
          /\ \/ cState = "release_pending"
                /\ cState' = (IF helperActive THEN "acquire_pending" ELSE "suspended")
             \/ cState = "acquire_pending"
                /\ cState' = (IF helperActive THEN "active" ELSE "release_pending")
      BY <1>5, <2>2, AnswerEffect DEF ownershipVars
    <3> QED
      BY <2>2, <3>1 DEF OwnInv
  <2> QED
    BY <2>1, <2>2
<1>6. CASE CoreStarts \/ CorePresents
  BY <1>0, <1>1, <1>6, PresentEffects DEF ownershipVars
<1>7. CASE CoreFrameCompletes
  BY <1>1, <1>7, CompletesEffect DEF ownershipVars, failVars
<1>8. CASE CoreLogsOut
  BY <1>1, <1>8, LogOutEffect DEF ownershipVars, failVars
<1>9. CASE CoreWrite \/ CoreWriteBlocks
  BY <1>1, <1>9 DEF CoreWrite, CoreWriteBlocks, SendMessage, StageMessage, ownershipVars
<1>10. CASE CoreIsReady \/ CoreHandlesInput \/ CoreQuits \/ CoreFails \/ CoreTimesOut
              \/ CoreCrashes \/ CoreDraws
  BY <1>1, <1>10, Idles DEF ownershipVars, failVars
<1> QED
  BY <1>2, <1>3, <1>4, <1>5, <1>6, <1>7, <1>8, <1>9, <1>10, CoreCases

\* What a frame keeps when it is given up, and when its messages leave.
LEMMA AbortedIn ==
    ASSUME ClientType, FrameIn(cFrame, cGeneration, cState, nextSerial),
           wire # << >> => Piece(wire[1], cFrame), NEW state
    PROVE  /\ FrameIn(AbortedFrame, cGeneration + 1, state, nextSerial)
           /\ wire # << >> => Piece(wire[1], AbortedFrame)
           /\ AbortedFrame.phase # "none" =>
                 AbortedFrame.cancel /\ AbortedFrame.serial = cFrame.serial
                 /\ AbortedFrame.generation = cFrame.generation /\ cFrame.phase # "none"
           /\ AbortedFrame.phase = "none" => ~AbortedFrame.cancel \/ cFrame.phase = "none"
<1>0. /\ cFrame \in CoreFrames /\ cFrame.phase \in Phases /\ cGeneration \in Nat
      /\ cFrame.generation \in Nat /\ cFrame.begun \in BOOLEAN
      /\ StagedFits(wire, cFrame)
      /\ cFrame.phase \in {"data", "commit", "abort", "wait"} => cFrame.begun
  BY DEF ClientType, FrameFits, CoreFrames, Generations
<1>1. /\ WireType \in FrameTypes => cFrame.phase = WireType /\ wire # << >> /\ wire[1].type = WireType
      /\ wire # << >> => wire[1].type = WireType
  BY <1>0 DEF StagedFits, WireType, FrameTypes
<1>2. cFrame.phase # "none" => cFrame.generation < cGeneration + 1 /\ cFrame.serial < nextSerial
  BY <1>0 DEF FrameIn
<1>3. CASE cFrame.phase = "none"
  <2>1. AbortedFrame = cFrame
    BY <1>3 DEF AbortedFrame
  <2> QED
    BY <1>3, <2>1 DEF FrameIn
<1>4. CASE WireType = "commit"
  <2>1. AbortedFrame = [cFrame EXCEPT !.cancel = TRUE, !.drop = TRUE] /\ cFrame.phase = "commit"
    BY <1>1, <1>4 DEF AbortedFrame, FrameTypes
  <2> QED
    BY <1>0, <1>1, <1>2, <1>4, <2>1 DEF FrameIn, Piece, CoreFrames, FrameTypes
<1>5. CASE cFrame.phase = "wait" \/ (cFrame.phase = "begin" /\ ~cFrame.begun /\ WireType # "begin")
  <2>1. AbortedFrame = NoFrame /\ WireType \notin FrameTypes
    BY <1>1, <1>5 DEF AbortedFrame, FrameTypes
  <2> QED
    BY <1>1, <2>1 DEF NoFrame, FrameIn, Piece, FrameTypes
<1>6. CASE /\ cFrame.phase \notin {"none", "wait"} /\ WireType # "commit"
           /\ cFrame.begun \/ WireType = "begin"
  <2>1. AbortedFrame = [cFrame EXCEPT !.cancel = TRUE,
                          !.phase = IF WireType \in {"begin", "data"} THEN @ ELSE "abort"]
    BY <1>1, <1>6 DEF AbortedFrame
  <2>2. CASE WireType \in {"begin", "data"}
    <3>1. AbortedFrame = [cFrame EXCEPT !.cancel = TRUE]
      BY <1>0, <2>1, <2>2 DEF CoreFrames
    <3> QED
      BY <1>0, <1>1, <1>2, <1>6, <2>2, <3>1 DEF FrameIn, Piece, CoreFrames, FrameTypes
  <2>3. CASE WireType \notin {"begin", "data"}
    <3>1. AbortedFrame = [cFrame EXCEPT !.cancel = TRUE, !.phase = "abort"]
      BY <2>1, <2>3
    <3>2. wire # << >> => wire[1].type \notin {"begin", "data", "commit"}
      BY <1>1, <1>6, <2>3
    <3>3. wire # << >> => Piece(wire[1], AbortedFrame)
      BY <1>0, <1>1, <3>1, <3>2 DEF Piece, CoreFrames, FrameTypes
    <3>4. FrameIn(AbortedFrame, cGeneration + 1, state, nextSerial)
      BY <1>0, <1>2, <1>6, <3>1 DEF FrameIn, CoreFrames
    <3> QED
      BY <1>0, <1>6, <3>1, <3>3, <3>4 DEF CoreFrames
  <2> QED
    BY <2>2, <2>3
<1>7. \/ cFrame.phase = "none" \/ WireType = "commit" \/ cFrame.phase = "wait"
      \/ cFrame.phase = "begin" /\ ~cFrame.begun /\ WireType # "begin"
      \/ /\ cFrame.phase \notin {"none", "wait"} /\ WireType # "commit"
         /\ cFrame.begun \/ WireType = "begin"
  BY <1>0 DEF Phases
<1> QED
  BY <1>3, <1>4, <1>5, <1>6, <1>7

\* What the next message says of the frame.
LEMMA NextPieces ==
    ASSUME ClientType, NextMessage # << >>
    PROVE  /\ NextMessage = <<NextMessage[1]>> /\ Piece(NextMessage[1], cFrame)
           /\ NextMessage[1].type \in FrameTypes => controls = << >>
           /\ NextMessage[1].type = "shutdown" =>
                 controls = << >> /\ shutdownAsked /\ ~shutdownSent /\ cFrame.phase = "none"
           /\ controls # << >> => NextMessage[1] = Head(controls)
           /\ NextMessage[1].type = "hello" => controls # << >>
<1>1. FrameFits(cFrame) /\ controls \in Seq(Waiting)
  BY DEF ClientType
<1>2. CASE controls # << >>
  <2>1. NextMessage = <<Head(controls)>> /\ Head(controls) \in Waiting
    BY <1>1, <1>2 DEF NextMessage
  <2>2. \A m \in Waiting : m.type \in {"hello", "pong"}
    BY DEF Waiting, Hellos, Pongs, Hello, Pong
  <2> QED
    BY <1>2, <2>1, <2>2 DEF Piece, FrameTypes
<1>3. CASE controls = << >> /\ ShutdownDue
  BY <1>3 DEF NextMessage, ShutdownRequest, ShutdownDue, Piece, FrameTypes
<1>4. CASE controls = << >> /\ ~ShutdownDue
  <2>0. cFrame.phase \in {"begin", "data", "commit", "abort"}
    BY <1>1, <1>4 DEF NextMessage, FrameFits, CoreFrames, Phases
  <2>1. CASE cFrame.phase = "begin"
    BY <1>4, <2>1 DEF NextMessage, Begin, Piece, FrameTypes
  <2>2. CASE cFrame.phase = "data"
    <3>1. NextPiece \in cFrame.damage \ cFrame.offset
      BY <1>1, <2>2 DEF FrameFits, NextPiece
    <3>2. NextMessage = <<Data(cFrame.generation, cFrame.serial, cFrame.offset, NextPiece)>>
      BY <1>4, <2>2 DEF NextMessage
    <3> HIDE DEF NextPiece
    <3> QED
      BY <1>4, <2>2, <3>1, <3>2 DEF Data, Piece, FrameTypes
  <2>3. CASE cFrame.phase \in {"commit", "abort"}
    BY <1>4, <2>3 DEF NextMessage, Commit, Abort, Piece, FrameTypes
  <2> QED
    BY <2>0, <2>1, <2>2, <2>3
<1> QED
  BY <1>2, <1>3, <1>4

\* What leaves the client.
LEMMA OutgoingPieces ==
    ASSUME ClientType, SendInv, Up, Outgoing # << >>
    PROVE  /\ Outgoing[1] \in CoreMessage /\ Piece(Outgoing[1], cFrame)
           /\ StagedFits(<<Outgoing[1]>>, cFrame)
<1>1. CASE wire # << >>
  BY <1>1 DEF ClientType, StagedFits, Outgoing, SendInv
<1>2. CASE wire = << >>
  BY <1>2, NextPieces, NextFits DEF StagedFits, Outgoing
<1> QED
  BY <1>1, <1>2

\* The frame once a message of its has left.
LEMMA SentIn ==
    ASSUME NEW m, FrameFits(cFrame), FrameIn(cFrame, cGeneration, cState, nextSerial), Piece(m, cFrame)
    PROVE  FrameIn(FrameAfter(m), cGeneration, cState, nextSerial)
<1>0. cFrame \in CoreFrames
  BY DEF FrameFits
<1>1. CASE m.type = "begin"
  <2> DEFINE phase == IF cFrame.cancel THEN "abort" ELSE "data"
  <2>1. FrameAfter(m) = [cFrame EXCEPT !.begun = TRUE, !.phase = phase]
    BY <1>1 DEF FrameAfter
  <2>2. cFrame.phase = "begin" /\ phase \in {"abort", "data"} /\ (phase = "abort" => cFrame.cancel)
    BY <1>1 DEF Piece, FrameTypes
  <2> HIDE DEF phase
  <2> QED
    BY <1>0, <2>1, <2>2 DEF FrameIn, CoreFrames
<1>2. CASE m.type = "data"
  <2> DEFINE sent == cFrame.offset \cup {m.region}
             phase == IF cFrame.cancel THEN "abort"
                      ELSE IF sent = cFrame.damage THEN "commit" ELSE "data"
  <2>1. FrameAfter(m) = [cFrame EXCEPT !.offset = sent, !.phase = phase]
    BY <1>0, <1>2 DEF FrameAfter, CoreFrames
  <2>2. cFrame.phase = "data" /\ phase \in {"abort", "data", "commit"}
        /\ (phase = "abort" => cFrame.cancel) /\ (phase = "commit" => sent = cFrame.damage /\ ~cFrame.cancel)
    BY <1>2 DEF Piece, FrameTypes
  <2> HIDE DEF phase, sent
  <2> QED
    BY <1>0, <2>1, <2>2 DEF FrameIn, CoreFrames
<1>3. CASE m.type = "commit"
  <2>1. cFrame.phase = "commit"
    BY <1>3 DEF Piece, FrameTypes
  <2>2. CASE cFrame.drop
    BY <1>3, <2>2 DEF FrameAfter, NoFrame, FrameIn
  <2>3. CASE ~cFrame.drop
    <3>1. FrameAfter(m) = [cFrame EXCEPT !.offset = {}, !.phase = "wait"]
      BY <1>3, <2>3 DEF FrameAfter
    <3>2. ~cFrame.cancel
      BY <2>1, <2>3 DEF FrameIn
    <3> QED
      BY <1>0, <2>1, <3>1, <3>2 DEF FrameIn, CoreFrames
  <2> QED
    BY <2>2, <2>3
<1>4. CASE m.type = "abort"
  BY <1>4 DEF FrameAfter, NoFrame, FrameIn
<1>5. CASE m.type \notin FrameTypes
  BY <1>5 DEF FrameAfter, FrameTypes
<1> QED
  BY <1>1, <1>2, <1>3, <1>4, <1>5 DEF FrameTypes

LEMMA SendStep ==
    ASSUME SessionType, OwedInv, OwnInv, SendInv, CoreStep \/ CoreChoice
    PROVE  SendInv'
<1>0. /\ SocketType /\ CoreType /\ ClientType /\ FrameFits(cFrame) /\ cFrame \in CoreFrames
      /\ cGeneration \in Nat /\ nextSerial \in Nat
  BY DEF SessionType, CoreType, ClientType, FrameFits, Generations
<1>1. ASSUME UNCHANGED <<cFrame, cGeneration, cState, nextSerial, wire, cError>> PROVE SendInv'
  BY <1>1 DEF SendInv, Up, FrameIn, Piece
<1>2. CASE ~Up'
  BY <1>2 DEF SendInv
<1>3. CASE CoreRead /\ Up'
  <2> DEFINE m == Head(toCore)
  <2>1. /\ Heeds(m) /\ Up /\ nextSerial' = nextSerial
        /\ m \in HelperMessages
    BY <1>3, HeedCases DEF Up, coreVars, drawVars
  <2>2. FrameIn(cFrame, cGeneration, cState, nextSerial) /\ (wire # << >> => Piece(wire[1], cFrame))
    BY <2>1 DEF SendInv
  <2> HIDE DEF m
  <2>3. CASE OkReady(m)
    <3>1. cFrame.phase = "none" /\ cState' = "active" /\ UNCHANGED <<wire, cFrame>>
      BY <1>0, <2>1, <2>2, <2>3 DEF OkReady, OwnInv, FrameIn, CoreFrames
    <3> QED
      BY <2>1, <2>2, <3>1 DEF SendInv, FrameIn, Piece
  <2>4. CASE OkSuspend(m)
    <3>1. FrameIn(AbortedFrame, cGeneration + 1, cState', nextSerial)
          /\ (wire # << >> => Piece(wire[1], AbortedFrame))
      BY <1>0, <2>2, AbortedIn
    <3>2. cFrame' = AbortedFrame /\ cGeneration' = cGeneration + 1 /\ wire' = wire
      BY <2>4 DEF OkSuspend, ExpectedSuspend
    <3> HIDE DEF AbortedFrame
    <3> QED
      BY <2>1, <3>1, <3>2 DEF SendInv
  <2>5. CASE OkResume(m)
    <3>1. UNCHANGED <<cGeneration, wire, cFrame>> /\ (cState # "suspended" => cState' = cState)
          /\ (cState = "suspended" => cState' = "acquire_pending")
      BY <2>5 DEF OkResume
    <3> QED
      BY <2>1, <2>2, <3>1 DEF SendInv, FrameIn, Piece
  <2>6. CASE OkInput(m) \/ OkPing(m) \/ OkAccepted(m)
    <3>1. UNCHANGED <<cFrame, cGeneration, cState, wire>>
      BY <2>6 DEF OkInput, OkPing, OkAccepted
    <3> QED
      BY <2>1, <2>2, <3>1 DEF SendInv, FrameIn, Piece
  <2>7. CASE OkComplete(m)
    <3>1. cFrame' = NoFrame /\ wire' = wire /\ cFrame.phase = "wait"
      BY <2>7 DEF OkComplete
    <3> QED
      BY <2>1, <2>2, <3>1 DEF SendInv, FrameIn, Piece, NoFrame, FrameTypes
  <2> QED
    BY <2>1, <2>3, <2>4, <2>5, <2>6, <2>7 DEF Heeds
<1>4. CASE CoreReadsEnd \/ CoreWriteFails
  BY <1>2, <1>4, EndEffect
<1>5. CASE (CoreReleases \/ CoreAcquires) /\ Up'
  <2>1. /\ UNCHANGED <<cGeneration, cFrame, wire, nextSerial>> /\ Up
        /\ cState # "active"
    BY <1>5, AnswerEffect DEF ownershipVars
  <2> QED
    BY <2>1 DEF SendInv, FrameIn, Piece
<1>6. CASE CoreStarts \/ CorePresents
  <2>1. /\ UNCHANGED <<cGeneration, cState, wire, cError>>
        /\ \/ /\ cState = "active" /\ cFrame.phase = "none" /\ nextSerial' = nextSerial + 1
              /\ cFrame' = [NoFrame EXCEPT !.phase = "begin", !.generation = cGeneration,
                               !.serial = nextSerial,
                               !.damage = IF corePc = "start" \/ fullDamage THEN Regions ELSE damage,
                               !.whole = corePc = "start" \/ fullDamage]
           \/ UNCHANGED <<cFrame, nextSerial>>
    BY <1>0, <1>6, PresentEffects DEF ownershipVars
  <2>2. CASE UNCHANGED <<cFrame, nextSerial>>
    BY <1>1, <2>1, <2>2
  <2>3. CASE ~UNCHANGED <<cFrame, nextSerial>>
    <3> DEFINE dirty == IF corePc = "start" \/ fullDamage THEN Regions ELSE damage
               all == corePc = "start" \/ fullDamage
               new == [NoFrame EXCEPT !.phase = "begin", !.generation = cGeneration,
                          !.serial = nextSerial, !.damage = dirty, !.whole = all]
    <3>1. /\ cState = "active" /\ cFrame.phase = "none" /\ nextSerial' = nextSerial + 1
          /\ cFrame' = new
      BY <2>1, <2>3
    <3>2. new.phase = "begin" /\ new.generation = cGeneration /\ new.serial = nextSerial
          /\ ~new.cancel /\ ~new.drop
      BY DEF NoFrame
    <3> HIDE DEF new
    <3>3. CASE Up
      BY <1>0, <2>1, <3>1, <3>2, <3>3 DEF SendInv, FrameIn, Piece, FrameTypes, Up
    <3> QED
      BY <2>1, <3>3 DEF SendInv, Up
  <2> QED
    BY <2>2, <2>3
<1>7. CASE CoreFrameCompletes
  BY <1>1, <1>7, CompletesEffect DEF ownershipVars, failVars
<1>8. CASE CoreLogsOut
  BY <1>1, <1>8, LogOutEffect DEF ownershipVars, failVars
<1>9. CASE CoreWrite
  <2>1. /\ UNCHANGED <<cGeneration, cState, cError, nextSerial>> /\ wire' = << >> /\ Up
        /\ Outgoing # << >> /\ cFrame' = FrameAfter(Outgoing[1])
    BY <1>9 DEF CoreWrite, SendMessage, ownershipVars, Up, coreVars, drawVars
  <2>2. Piece(Outgoing[1], cFrame)
    BY <1>0, <2>1, OutgoingPieces
  <2>3. FrameIn(cFrame, cGeneration, cState, nextSerial)
    BY <2>1 DEF SendInv
  <2>4. FrameIn(FrameAfter(Outgoing[1]), cGeneration, cState, nextSerial)
    BY <1>0, <2>2, <2>3, SentIn
  <2> HIDE DEF FrameIn
  <2> QED
    BY <2>1, <2>4 DEF SendInv
<1>10. CASE CoreWriteBlocks
  <2>1. /\ UNCHANGED <<cGeneration, cState, cError, nextSerial, cFrame>> /\ wire' = NextMessage
        /\ NextMessage # << >>
    BY <1>10 DEF CoreWriteBlocks, StageMessage, ownershipVars, coreVars, drawVars
  <2>2. Piece(NextMessage[1], cFrame)
    BY <1>0, <2>1, NextPieces
  <2> HIDE DEF NextMessage
  <2> QED
    BY <2>1, <2>2 DEF SendInv, Up, FrameIn, Piece
<1>11. CASE CoreIsReady \/ CoreHandlesInput \/ CoreQuits \/ CoreFails \/ CoreTimesOut
              \/ CoreCrashes \/ CoreDraws
  BY <1>1, <1>11, Idles DEF ownershipVars, failVars
<1>12. CASE CoreRead \/ CoreReleases \/ CoreAcquires
  BY <1>2, <1>3, <1>5, <1>12
<1> QED
  BY <1>4, <1>6, <1>7, <1>8, <1>9, <1>10, <1>11, <1>12, CoreCases

LEMMA PongsKept ==
    ASSUME NEW q \in Seq(Waiting), NEW n \in Nat
    PROVE  /\ OnlyPongs(q, n) => \A token \in Tokens : OnlyPongs(Append(q, Pong(token)), n)
           /\ q # << >> /\ OnlyPongs(q, 1) => OnlyPongs(Tail(q), 0)
           /\ OnlyPongs(q, 0) => OnlyPongs(q, 1) /\ (q # << >> => Head(q).type = "pong")
<1>1. ASSUME OnlyPongs(q, n), NEW token \in Tokens PROVE OnlyPongs(Append(q, Pong(token)), n)
  <2>1. Pong(token).type = "pong" /\ Pong(token) \in Waiting
    BY DEF Pong, Waiting, Pongs
  <2> HIDE DEF Pong
  <2> QED
    BY <1>1, <2>1 DEF OnlyPongs
<1>2. q # << >> /\ OnlyPongs(q, 1) => OnlyPongs(Tail(q), 0)
  BY DEF OnlyPongs
<1>3. OnlyPongs(q, 0) => OnlyPongs(q, 1) /\ (q # << >> => Head(q).type = "pong")
  BY DEF OnlyPongs
<1> QED
  BY <1>1, <1>2, <1>3

\* After a message has left, the frame is finished or is the same frame.
LEMMA AfterKeeps ==
    ASSUME NEW m, cFrame \in CoreFrames, Piece(m, cFrame)
    PROVE  \/ FrameAfter(m) = NoFrame
           \/ FrameAfter(m) = cFrame /\ m.type \notin FrameTypes
           \/ /\ m.type \in FrameTypes /\ m.type # "abort"
              /\ FrameAfter(m).serial = cFrame.serial
              /\ FrameAfter(m).generation = cFrame.generation /\ FrameAfter(m).damage = cFrame.damage
              /\ FrameAfter(m).cancel = cFrame.cancel /\ FrameAfter(m).whole = cFrame.whole
              /\ FrameAfter(m).phase # "none" /\ cFrame.phase # "none"
<1>1. CASE m.type = "begin"
  BY <1>1 DEF Piece, FrameTypes, FrameAfter, CoreFrames
<1>2. CASE m.type = "data"
  <2> DEFINE phase == IF cFrame.cancel THEN "abort"
                      ELSE IF cFrame.offset \cup {m.region} = cFrame.damage THEN "commit" ELSE "data"
  <2>1. FrameAfter(m) = [cFrame EXCEPT !.offset = cFrame.offset \cup {m.region}, !.phase = phase]
    BY <1>2 DEF FrameAfter, CoreFrames
  <2>2. phase # "none"
    OBVIOUS
  <2> HIDE DEF phase
  <2> QED
    BY <1>2, <2>1, <2>2 DEF Piece, FrameTypes, CoreFrames
<1>3. CASE m.type = "commit"
  BY <1>3 DEF Piece, FrameTypes, FrameAfter, CoreFrames
<1>4. CASE m.type = "abort" \/ m.type \notin FrameTypes
  BY <1>4 DEF Piece, FrameTypes, FrameAfter, CoreFrames
<1> QED
  BY <1>1, <1>2, <1>3, <1>4 DEF FrameTypes

LEMMA OrderStep ==
    ASSUME SessionType, OwedInv, OwnInv, SendInv, OrderInv, CoreStep \/ CoreChoice
    PROVE  OrderInv'
<1>0. /\ SocketType /\ CoreType /\ ClientType /\ cFrame \in CoreFrames
      /\ controls \in Seq(Waiting)
  BY DEF SessionType, CoreType, ClientType, FrameFits
<1>1. ASSUME UNCHANGED <<cError, shutdownSent, wire, controls, helloSent>>,
             cFrame.phase = "none" => cFrame'.phase = "none", shutdownAsked => shutdownAsked',
             shutdownAsked' => shutdownPending',
             corePc' \in {"handshake", "start"} => ~shutdownPending'
      PROVE OrderInv'
  BY <1>1 DEF OrderInv, Up, OnlyPongs, WireType
<1>2. ASSUME ~Up', UNCHANGED shutdownSent, shutdownAsked => shutdownAsked',
             shutdownAsked' => shutdownPending',
             corePc' \in {"handshake", "start"} => ~shutdownPending'
      PROVE OrderInv'
  BY <1>2 DEF OrderInv
<1>3. CASE CoreRead /\ ~Up'
  <2>1. UNCHANGED <<shutdownAsked, shutdownSent, shutdownPending, corePc>>
    BY <1>0, <1>3, ReadEffect DEF coreVars
  <2> QED
    BY <1>2, <1>3, <2>1 DEF OrderInv
<1>4. CASE CoreRead /\ Up'
  <2> DEFINE m == Head(toCore)
  <2>1. /\ Heeds(m) /\ Up /\ UNCHANGED <<shutdownAsked, shutdownSent, helloSent, shutdownPending, corePc>>
        /\ m \in HelperMessages /\ cError' = cError
    BY <1>4, HeedCases DEF Up, coreVars
  <2> HIDE DEF m
  <2>2. CASE OkPing(m)
    <3>1. m.token \in Tokens
      BY <2>1, <2>2, HelperFields DEF OkPing
    <3>2. /\ cFrame' = cFrame /\ wire' = wire
          /\ \/ controls' = controls
             \/ /\ ~shutdownSent /\ WireType # "shutdown" /\ controls' = Append(controls, Pong(m.token))
      BY <2>2 DEF OkPing
    <3>3. CASE controls' = controls
      BY <1>1, <2>1, <3>2, <3>3 DEF OrderInv
    <3>4. CASE controls' # controls
      <4>1. /\ OnlyPongs(controls, 0) => OnlyPongs(controls', 0)
            /\ OnlyPongs(controls, 1) => OnlyPongs(controls', 1)
        BY <1>0, <3>1, <3>2, <3>4, PongsKept
      <4>2. Pong(m.token) \in Waiting
        BY <3>1 DEF Waiting, Pongs
      <4>3. controls # << >> => controls' # << >> /\ controls'[1] = controls[1]
        BY <1>0, <3>2, <3>4, <4>2
      <4> QED
        BY <2>1, <3>2, <3>4, <4>1, <4>3 DEF OrderInv, Up, WireType
    <3> QED
      BY <3>3, <3>4
  <2>3. CASE ~OkPing(m)
    <3>1. UNCHANGED <<wire, controls>>
      BY <2>1, <2>3 DEF Heeds, OkReady, OkSuspend, OkResume, OkInput, OkComplete, OkAccepted
    <3>2. cFrame.phase = "none" => cFrame'.phase = "none"
      <4>1. cFrame' = cFrame \/ cFrame' = AbortedFrame \/ cFrame' = NoFrame
        BY <2>1, <2>3 DEF Heeds, OkReady, OkSuspend, OkResume, OkInput, OkComplete, OkAccepted
      <4>2. cFrame.phase = "none" => AbortedFrame = cFrame
        BY DEF AbortedFrame
      <4> HIDE DEF AbortedFrame
      <4> QED
        BY <4>1, <4>2 DEF NoFrame
    <3> QED
      BY <1>1, <2>1, <3>1, <3>2 DEF OrderInv
  <2> QED
    BY <2>2, <2>3
<1>5. CASE CoreReadsEnd \/ CoreWriteFails
  <2>1. UNCHANGED <<shutdownAsked, shutdownSent, shutdownPending, corePc>> /\ ~Up'
    BY <1>5, EndEffect DEF shutdownVars, coreVars
  <2> QED
    BY <1>2, <2>1 DEF OrderInv
<1>6. CASE CoreReleases \/ CoreAcquires
  <2>1. /\ UNCHANGED <<helloSent, shutdownSent, shutdownPending, corePc>> /\ Up
        /\ shutdownAsked' = shutdownAsked \/ shutdownAsked' = (shutdownAsked \/ shutdownPending)
        /\ Up' => UNCHANGED <<controls, wire, cFrame>>
    BY <1>6, AnswerEffect
  <2>3. (shutdownAsked => shutdownAsked') /\ (shutdownAsked' => shutdownAsked \/ shutdownPending)
    <3>1. CASE shutdownAsked' = shutdownAsked
      BY <3>1
    <3>2. CASE shutdownAsked' = (shutdownAsked \/ shutdownPending)
      BY <3>2, Zenon
    <3> QED
      BY <2>1, <3>1, <3>2
  <2>2. (shutdownAsked => shutdownAsked') /\ (shutdownAsked' => shutdownPending')
        /\ (corePc' \in {"handshake", "start"} => ~shutdownPending')
    BY <2>1, <2>3 DEF OrderInv
  <2> QED
    BY <1>1, <1>2, <2>1, <2>2 DEF Up
<1>7. CASE CoreStarts \/ CorePresents
  <2>1. /\ UNCHANGED <<shutdownAsked, shutdownSent, helloSent, controls, wire, cError, shutdownPending>>
        /\ corePc' = "loop"
        /\ cFrame' = cFrame \/ (corePc = "start" \/ ~shutdownPending)
    BY <1>0, <1>7, PresentEffects DEF shutdownVars
  <2>2. CASE cFrame' = cFrame
    BY <1>1, <2>1, <2>2 DEF OrderInv
  <2>3. CASE cFrame' # cFrame
    <3>1. ~shutdownAsked /\ ~shutdownSent
      BY <2>1, <2>3 DEF OrderInv
    <3> QED
      BY <2>1, <3>1 DEF OrderInv, Up, WireType, OnlyPongs
  <2> QED
    BY <2>2, <2>3
<1>8. CASE CoreFrameCompletes
  <2>1. /\ UNCHANGED <<helloSent, shutdownSent, shutdownPending, failVars>>
        /\ corePc' \in {corePc, "stopped"}
        /\ shutdownAsked' = shutdownAsked \/ shutdownAsked' = (shutdownAsked \/ shutdownPending)
    BY <1>8, CompletesEffect
  <2>3. (shutdownAsked => shutdownAsked') /\ (shutdownAsked' => shutdownAsked \/ shutdownPending)
    <3>1. CASE shutdownAsked' = shutdownAsked
      BY <3>1
    <3>2. CASE shutdownAsked' = (shutdownAsked \/ shutdownPending)
      BY <3>2, Zenon
    <3> QED
      BY <2>1, <3>1, <3>2
  <2>2. (shutdownAsked => shutdownAsked') /\ (shutdownAsked' => shutdownPending')
        /\ (corePc' \in {"handshake", "start"} => ~shutdownPending')
    BY <2>1, <2>3 DEF OrderInv
  <2> QED
    BY <1>1, <2>1, <2>2 DEF failVars
<1>9. CASE CoreLogsOut
  <2>1. /\ UNCHANGED <<helloSent, shutdownSent, failVars, corePc>>
        /\ ~shutdownPending /\ shutdownPending' /\ corePc = "loop"
    BY <1>9, LogOutEffect
  <2>2. ~shutdownAsked /\ (corePc' \in {"handshake", "start"} => ~shutdownPending')
    BY <2>1 DEF OrderInv
  <2> QED
    BY <1>1, <2>1, <2>2 DEF failVars
<1>10. CASE CoreWrite
  <2> DEFINE m == Outgoing[1]
  <2>1. /\ UNCHANGED <<shutdownAsked, cError, shutdownPending, corePc>> /\ wire' = << >> /\ Up
        /\ Outgoing # << >> /\ cFrame' = FrameAfter(m) /\ controls' = ControlsAfterStaging
        /\ helloSent' = (helloSent \/ m.type = "hello")
        /\ shutdownSent' = (shutdownSent \/ m.type = "shutdown")
    BY <1>10 DEF CoreWrite, SendMessage, Up, coreVars
  <2>2. m.type = "shutdown" =>
           shutdownAsked /\ controls = << >> /\ cFrame.phase = "none" /\ cFrame' = cFrame
    <3>1. m.type = "shutdown" => FrameAfter(m) = cFrame
      BY DEF FrameAfter
    <3>2. CASE wire = << >>
      BY <1>0, <2>1, <3>1, <3>2, NextPieces DEF Outgoing
    <3>3. CASE wire # << >>
      BY <2>1, <3>1, <3>3 DEF Outgoing, OrderInv, WireType
    <3> QED
      BY <3>2, <3>3
  <2>3. CASE wire # << >>
    <3>1. Outgoing = wire /\ controls' = controls /\ ~shutdownSent /\ m.type = WireType
      BY <2>1, <2>3 DEF Outgoing, ControlsAfterStaging, OrderInv, WireType
    <3>2. helloSent' /\ OnlyPongs(controls, 0)
      <4>1. CASE helloSent
        BY <2>1, <4>1 DEF OrderInv
      <4>2. CASE ~helloSent
        <5>1. wire = <<Hello(TRUE)>> /\ OnlyPongs(controls, 0)
          BY <2>1, <2>3, <4>2 DEF OrderInv
        <5>2. m.type = "hello"
          BY <3>1, <5>1 DEF Hello
        <5> QED
          BY <2>1, <5>1, <5>2
      <4> QED
        BY <4>1, <4>2
    <3> QED
      BY <2>1, <2>2, <3>1, <3>2 DEF OrderInv, Up, WireType, OnlyPongs
  <2>4. CASE wire = << >> /\ controls # << >>
    <3>1. m = Head(controls) /\ controls' = Tail(controls) /\ ~shutdownSent
      BY <2>1, <2>4 DEF Outgoing, NextMessage, ControlsAfterStaging, OrderInv
    <3>4. /\ OnlyPongs(controls, 0) => OnlyPongs(controls, 1) /\ (controls # << >> => Head(controls).type = "pong")
          /\ Head(controls) = controls[1]
      <4>1. 0 \in Nat
        OBVIOUS
      <4> QED
        BY <1>0, <4>1, PongsKept
    <3>5. /\ helloSent => OnlyPongs(controls, 0)
          /\ ~helloSent => controls[1] = Hello(TRUE) /\ OnlyPongs(controls, 1)
      BY <2>1, <2>4 DEF OrderInv
    <3>2. OnlyPongs(controls, 1) /\ (helloSent \/ m = Hello(TRUE))
      BY <2>4, <3>1, <3>4, <3>5
    <3>6. helloSent'
      <4>1. Hello(TRUE).type = "hello"
        BY DEF Hello
      <4> QED
        BY <2>1, <3>2, <4>1
    <3>3. helloSent' /\ OnlyPongs(controls', 0)
      BY <1>0, <2>4, <3>1, <3>2, <3>6, PongsKept
    <3>7. ~shutdownSent'
      BY <2>1, <2>2, <2>4, <3>1
    <3> QED
      BY <2>1, <3>3, <3>7 DEF OrderInv, Up, WireType
  <2>5. CASE wire = << >> /\ controls = << >>
    <3>1. helloSent /\ controls' = controls
      BY <2>1, <2>5 DEF OrderInv, ControlsAfterStaging
    <3>2. ~shutdownSent
      <4>1. shutdownSent => cFrame.phase = "none" /\ ~ShutdownDue
        BY <2>1 DEF OrderInv, ShutdownDue
      <4> QED
        BY <2>1, <2>5, <4>1 DEF Outgoing, NextMessage
    <3> QED
      BY <2>1, <2>2, <2>5, <3>1, <3>2 DEF OrderInv, Up, WireType, OnlyPongs
  <2> QED
    BY <2>3, <2>4, <2>5
<1>11. CASE CoreWriteBlocks
  <2>1. /\ UNCHANGED <<shutdownAsked, shutdownSent, helloSent, cError, shutdownPending, corePc, cFrame>>
        /\ wire = << >> /\ wire' = NextMessage /\ NextMessage # << >>
        /\ controls' = ControlsAfterStaging /\ Up
    BY <1>11 DEF CoreWriteBlocks, StageMessage, coreVars, shutdownVars, Up
  <2>2. ~shutdownSent
    <3>1. shutdownSent => cFrame.phase = "none" /\ ~ShutdownDue /\ controls = << >>
      BY <2>1 DEF OrderInv, ShutdownDue
    <3> QED
      BY <2>1, <3>1 DEF NextMessage
  <2>3. /\ NextMessage = <<NextMessage[1]>>
        /\ NextMessage[1].type = "shutdown" =>
                 controls = << >> /\ shutdownAsked /\ ~shutdownSent /\ cFrame.phase = "none"
        /\ controls # << >> => NextMessage[1] = Head(controls)
        /\ NextMessage[1].type = "hello" => controls # << >>
    BY <1>0, <2>1, NextPieces
  <2> DEFINE m == NextMessage[1]
  <2> HIDE DEF NextMessage
  <2>4. WireType' = m.type /\ wire' = <<m>>
    BY <2>1, <2>3 DEF WireType
  <2>5. CASE controls # << >>
    <3>1. controls' = Tail(controls) /\ m = Head(controls)
      BY <2>1, <2>3, <2>5 DEF ControlsAfterStaging
    <3>4. /\ OnlyPongs(controls, 0) => OnlyPongs(controls, 1) /\ (controls # << >> => Head(controls).type = "pong")
          /\ Head(controls) = controls[1]
      <4>1. 0 \in Nat
        OBVIOUS
      <4> QED
        BY <1>0, <4>1, PongsKept
    <3>5. /\ helloSent => OnlyPongs(controls, 0)
          /\ ~helloSent => controls[1] = Hello(TRUE) /\ OnlyPongs(controls, 1)
      BY <2>1, <2>5 DEF OrderInv
    <3>2. OnlyPongs(controls, 1) /\ (IF helloSent THEN m.type = "pong" ELSE m = Hello(TRUE))
      BY <2>5, <3>1, <3>4, <3>5
    <3>3. OnlyPongs(controls', 0)
      BY <1>0, <2>5, <3>1, <3>2, PongsKept
    <3> QED
      BY <2>1, <2>2, <2>3, <2>4, <2>5, <3>2, <3>3 DEF OrderInv, Up
  <2>6. CASE controls = << >>
    <3>1. helloSent /\ controls' = controls
      BY <2>1, <2>6 DEF OrderInv, ControlsAfterStaging
    <3> QED
      BY <2>1, <2>2, <2>3, <2>4, <2>6, <3>1 DEF OrderInv, Up, OnlyPongs
  <2> QED
    BY <2>5, <2>6
<1>12. CASE CoreIsReady \/ CoreHandlesInput \/ CoreQuits \/ CoreFails \/ CoreTimesOut
              \/ CoreCrashes \/ CoreDraws
  <2>1. /\ UNCHANGED <<helloSent, shutdownSent, shutdownAsked, shutdownPending, failVars>>
        /\ corePc' \in {corePc, "stopped"} \/ (corePc' = "start" /\ corePc = "handshake")
    BY <1>12, Idles DEF shutdownVars
  <2> QED
    BY <1>1, <2>1 DEF failVars, OrderInv
<1> QED
  BY <1>3, <1>4, <1>5, <1>6, <1>7, <1>8, <1>9, <1>10, <1>11, <1>12, CoreCases

\* The part of DrawInv about the completions among the host events.
DoneEvents(q, f, next) ==
    \A i \in DOMAIN q : q[i].type = "complete" =>
        /\ q[i].serial < next
        /\ q[i].serial = f.serial => f.phase = "none" \/ f.cancel

LEMMA DrawStep ==
    ASSUME SessionType, OwedInv, OwnInv, SendInv, OrderInv, DrawInv, CoreStep \/ CoreChoice
    PROVE  DrawInv'
<1>0. /\ SocketType /\ CoreType /\ ClientType /\ cFrame \in CoreFrames /\ FrameFits(cFrame)
      /\ nextSerial \in Nat /\ nextSerial > 0 /\ events \in Seq(HostEvents)
      /\ damage \subseteq Regions /\ fullDamage \in BOOLEAN /\ Regions # {}
      /\ painted \in [Regions -> Nat] /\ Unpainted \in [Regions -> Nat] /\ cGeneration \in Nat
  BY SessionAssumption
  DEF SessionType, CoreType, ClientType, FrameFits, OwedInv, DrawInv, Unpainted, Generations
<1> DEFINE Mood(state, pc, full, down, p) ==
              /\ state \in {"suspended", "acquire_pending"} => p = Unpainted
              /\ state = "suspended" /\ pc = "loop" => full \/ down
              /\ state = "active" /\ pc = "loop" /\ ~full /\ ~down => p # Unpainted
           Turn(state, f, p, serial) ==
              state = "active" /\ f.phase # "none" =>
                  IF f.cancel THEN p = Unpainted ELSE serial = f.serial
<1>1. ASSUME painted' \in [Regions -> Nat],
             Up' => /\ Mood(cState', corePc', fullDamage', shutdownPending', painted')
                    /\ Turn(cState', cFrame', painted', pendingSerial')
                    /\ DoneEvents(events', cFrame', nextSerial')
      PROVE  DrawInv'
  BY <1>1 DEF DrawInv, DoneEvents
<1>2. Up => /\ Mood(cState, corePc, fullDamage, shutdownPending, painted)
            /\ Turn(cState, cFrame, painted, pendingSerial)
            /\ DoneEvents(events, cFrame, nextSerial)
            /\ FrameIn(cFrame, cGeneration, cState, nextSerial)
  BY DEF DrawInv, DoneEvents, SendInv
<1>3. events # << >> /\ DoneEvents(events, cFrame, nextSerial) => DoneEvents(Tail(events), cFrame, nextSerial)
  <2>1. events # << >> => \A i \in DOMAIN Tail(events) : i + 1 \in DOMAIN events /\ Tail(events)[i] = events[i + 1]
    BY <1>0
  <2> QED
    BY <2>1 DEF DoneEvents
<1>4. ASSUME NEW f, f = NoFrame \/ f.serial = cFrame.serial,
             f.phase # "none" => cFrame.phase # "none" /\ (cFrame.cancel => f.cancel)
      PROVE  DoneEvents(events, cFrame, nextSerial) => DoneEvents(events, f, nextSerial)
  BY <1>4 DEF DoneEvents, NoFrame
<1>5. CASE CoreRead /\ ~Up'
  <2>1. painted' = painted
    BY <1>0, <1>5, ReadEffect DEF coreVars, drawVars
  <2> QED
    BY <1>0, <1>1, <1>5, <2>1
<1>6. CASE CoreRead /\ Up'
  <2> DEFINE m == Head(toCore)
  <2>1. /\ Heeds(m) /\ Up /\ UNCHANGED <<shutdownPending, corePc, painted, pendingSerial, nextSerial, fullDamage>>
        /\ m \in HelperMessages /\ CompletionsFrom(m)
    BY <1>6, HeedCases DEF Up, coreVars, drawVars
  <2>2. /\ Mood(cState, corePc, fullDamage, shutdownPending, painted)
        /\ Turn(cState, cFrame, painted, pendingSerial)
        /\ DoneEvents(events, cFrame, nextSerial)
        /\ FrameIn(cFrame, cGeneration, cState, nextSerial)
        /\ wire # << >> => Piece(wire[1], cFrame)
    BY <1>2, <2>1 DEF SendInv
  <2> HIDE DEF m
  <2>3. CASE OkReady(m)
    <3>1. cFrame.phase = "none" /\ cState' = "active" /\ cFrame' = cFrame /\ cState = "suspended"
      BY <1>0, <2>1, <2>2, <2>3 DEF OkReady, OwnInv, FrameIn, CoreFrames
    <3>2. DoneEvents(events', cFrame', nextSerial')
      BY <2>1, <2>2, <2>3, <3>1 DEF CompletionsFrom, DoneEvents, OkReady
    <3> QED
      BY <1>0, <1>1, <2>1, <2>2, <3>1, <3>2
  <2>4. CASE OkSuspend(m)
    <3>1. /\ AbortedFrame.phase # "none" => AbortedFrame.cancel /\ AbortedFrame.serial = cFrame.serial
      BY <1>0, <2>2, AbortedIn
    <3>2. /\ cFrame' = AbortedFrame /\ m.type = "suspend"
          /\ cState \in {"active", "release_pending", "acquire_pending"}
          /\ cState' = (IF cState = "active" THEN "release_pending" ELSE cState)
      BY <2>4 DEF OkSuspend, ExpectedSuspend
    <3> HIDE DEF AbortedFrame
    <3>3. DoneEvents(events', cFrame', nextSerial')
      BY <2>1, <2>2, <3>1, <3>2 DEF CompletionsFrom, DoneEvents
    <3> QED
      BY <1>0, <1>1, <2>1, <2>2, <3>2, <3>3
  <2>5. CASE OkResume(m)
    <3>1. /\ cFrame' = cFrame /\ m.type = "resume"
          /\ cState' = (IF cState = "suspended" THEN "acquire_pending" ELSE cState)
      BY <2>5 DEF OkResume
    <3>3. DoneEvents(events', cFrame', nextSerial')
      BY <2>1, <2>2, <3>1 DEF CompletionsFrom, DoneEvents
    <3> QED
      BY <1>0, <1>1, <2>1, <2>2, <3>1, <3>3
  <2>6. CASE OkInput(m) \/ OkPing(m) \/ OkAccepted(m)
    <3>1. UNCHANGED <<cFrame, cState>> /\ m.type # "complete"
      BY <2>6 DEF OkInput, OkPing, OkAccepted
    <3>3. DoneEvents(events', cFrame', nextSerial')
      BY <2>1, <2>2, <3>1 DEF CompletionsFrom, DoneEvents
    <3> QED
      BY <1>0, <1>1, <2>1, <2>2, <3>1, <3>3
  <2>7. CASE OkComplete(m)
    <3>1. /\ cFrame' = NoFrame /\ cFrame.phase = "wait" /\ cState' = cState
      BY <2>7 DEF OkComplete
    <3>2. cFrame.serial < nextSerial
      BY <2>2, <3>1 DEF FrameIn
    <3>3. DoneEvents(events', cFrame', nextSerial')
      BY <2>1, <2>2, <3>1, <3>2 DEF CompletionsFrom, DoneEvents, NoFrame
    <3> QED
      BY <1>0, <1>1, <2>1, <2>2, <3>1, <3>3 DEF NoFrame
  <2> QED
    BY <2>1, <2>3, <2>4, <2>5, <2>6, <2>7 DEF Heeds
<1>7. CASE CoreReadsEnd \/ CoreWriteFails
  <2>1. painted' = painted /\ ~Up'
    BY <1>7, EndEffect DEF coreVars, drawVars
  <2> QED
    BY <1>0, <1>1, <2>1
<1>8. CASE CoreReleases \/ CoreAcquires
  <2>1. painted' \in [Regions -> Nat]
    BY <1>0, <1>8, AnswerEffect
  <2>2. CASE Up'
    <3>1. /\ UNCHANGED <<shutdownPending, nextSerial, corePc, cFrame>> /\ Up /\ fullDamage' = TRUE
          /\ events # << >>
          /\ \/ cState = "release_pending" /\ cState' \in {"acquire_pending", "suspended"}
                /\ painted' = Unpainted
             \/ cState = "acquire_pending" /\ cState' \in {"active", "release_pending"}
                /\ painted' = painted
      BY <1>8, <2>2, AnswerEffect
    <3>2. \/ events' = Tail(events)
          \/ \E e : events' = Append(Tail(events), e) /\ e.type # "complete"
      BY <1>8, <2>2, AnswerEffect
    <3>3. cFrame.phase # "none" => cFrame.cancel
      BY <1>2, <3>1 DEF FrameIn
    <3>4. DoneEvents(Tail(events), cFrame, nextSerial)
      BY <1>2, <1>3, <3>1
    <3>5. DoneEvents(events', cFrame', nextSerial')
      <4>1. \A i \in DOMAIN events' : \/ i \in DOMAIN Tail(events) /\ events'[i] = Tail(events)[i]
                                      \/ events'[i].type # "complete"
        <5>1. CASE events' = Tail(events)
          BY <5>1
        <5>2. ASSUME NEW e, events' = Append(Tail(events), e), e.type # "complete"
              PROVE  \A i \in DOMAIN events' : \/ i \in DOMAIN Tail(events) /\ events'[i] = Tail(events)[i]
                                               \/ events'[i].type # "complete"
          <6> DEFINE rest == Tail(events)
          <6>1. rest \in Seq(HostEvents \cup {e}) /\ e \in HostEvents \cup {e}
            BY <1>0, <3>1
          <6> HIDE DEF rest
          <6>2. \A i \in DOMAIN Append(rest, e) : \/ i \in DOMAIN rest /\ Append(rest, e)[i] = rest[i]
                                                  \/ Append(rest, e)[i] = e
            BY <6>1
          <6> QED
            BY <5>2, <6>2 DEF rest
        <5> QED
          BY <3>2, <5>1, <5>2
      <4> QED
        BY <3>1, <3>4, <4>1 DEF DoneEvents
    <3> QED
      BY <1>1, <1>2, <2>1, <3>1, <3>3, <3>5
  <2> QED
    BY <1>1, <2>1, <2>2
<1>9. CASE CoreStarts \/ CorePresents
  <2> DEFINE dirty == IF corePc = "start" \/ fullDamage THEN Regions ELSE damage
             all == corePc = "start" \/ fullDamage
             new == [NoFrame EXCEPT !.phase = "begin", !.generation = cGeneration,
                        !.serial = nextSerial, !.damage = dirty, !.whole = all]
             drawn == [r \in Regions |-> IF all \/ r \in damage THEN nextSerial ELSE painted[r]]
  <2>1. /\ UNCHANGED <<cState, cError, events, shutdownPending>> /\ corePc' = "loop"
        /\ \/ /\ cState = "active" /\ nextSerial' = nextSerial + 1 /\ cFrame' = new
              /\ painted' = drawn /\ pendingSerial' = nextSerial
              /\ corePc = "start" \/ fullDamage \/ damage # {}
           \/ /\ corePc = "start" /\ fullDamage' = TRUE
              /\ UNCHANGED <<cFrame, pendingSerial, nextSerial, painted>>
    BY <1>0, <1>9, PresentEffects
  <2>2. CASE UNCHANGED <<cFrame, pendingSerial, nextSerial, painted>> /\ fullDamage' = TRUE
    BY <1>0, <1>1, <1>2, <2>1, <2>2 DEF Up
  <2>3. CASE /\ cState = "active" /\ nextSerial' = nextSerial + 1 /\ cFrame' = new
             /\ painted' = drawn /\ pendingSerial' = nextSerial
             /\ corePc = "start" \/ fullDamage \/ damage # {}
    <3>1. drawn \in [Regions -> Nat] /\ drawn # Unpainted
      <4>1. PICK r \in Regions : all \/ r \in damage
        BY <1>0, <2>3
      <4>2. drawn[r] = nextSerial /\ Unpainted[r] = 0
        BY <4>1 DEF Unpainted
      <4>3. drawn # Unpainted
        BY <1>0, <4>2
      <4>4. drawn \in [Regions -> Nat]
        BY <1>0
      <4> QED
        BY <4>3, <4>4
    <3>2. new.serial = nextSerial /\ new.cancel = FALSE /\ new.phase = "begin"
      BY DEF NoFrame
    <3> HIDE DEF new, drawn
    <3>3. Up => DoneEvents(events, new, nextSerial + 1)
      <4>1. \A i \in DOMAIN events : events[i].serial \in Nat
        <5>1. \A i \in DOMAIN events : events[i] \in HostEvents
          BY <1>0
        <5> QED
          BY <5>1 DEF HostEvents
      <4> QED
        BY <1>0, <1>2, <3>2, <4>1 DEF DoneEvents
    <3> QED
      BY <1>1, <2>1, <2>3, <3>1, <3>2, <3>3 DEF Up
  <2> QED
    BY <2>1, <2>2, <2>3
<1>10. CASE CoreFrameCompletes
  <2>1. /\ UNCHANGED <<failVars, painted, fullDamage, shutdownPending, nextSerial>> /\ Up
        /\ events # << >> /\ Head(events).type = "complete" /\ events' = Tail(events)
        /\ corePc' \in {corePc, "stopped"}
        /\ Head(events).serial = pendingSerial \/ pendingSerial' = pendingSerial
    BY <1>10, CompletesEffect
  <2>2. DoneEvents(events', cFrame', nextSerial')
    BY <1>2, <1>3, <2>1 DEF failVars
  <2>3. Head(events).serial = cFrame.serial => cFrame.phase = "none" \/ cFrame.cancel
    <3>1. 1 \in DOMAIN events /\ Head(events) = events[1]
      BY <1>0, <2>1
    <3> QED
      BY <1>2, <2>1, <3>1 DEF DoneEvents
  <2>4. Turn(cState, cFrame, painted, pendingSerial')
    BY <1>2, <2>1, <2>3
  <2> QED
    BY <1>0, <1>1, <1>2, <2>1, <2>2, <2>4 DEF failVars
<1>11. CASE CoreLogsOut
  <2>1. /\ UNCHANGED <<failVars, events, pendingSerial, nextSerial, painted, corePc>>
        /\ shutdownPending' /\ Up
    BY <1>11, LogOutEffect
  <2> QED
    BY <1>0, <1>1, <1>2, <2>1 DEF failVars
<1>12. CASE CoreWrite
  <2>1. /\ UNCHANGED <<cError, cState, events, painted, corePc, fullDamage, shutdownPending, pendingSerial, nextSerial>>
        /\ Up /\ Outgoing # << >> /\ cFrame' = FrameAfter(Outgoing[1])
    BY <1>12 DEF CoreWrite, SendMessage, Up, coreVars, drawVars
  <2>2. Piece(Outgoing[1], cFrame)
    BY <1>0, <2>1, OutgoingPieces
  <2>3. \/ cFrame' = NoFrame
        \/ cFrame' = cFrame
        \/ /\ cFrame'.serial = cFrame.serial /\ cFrame'.cancel = cFrame.cancel
           /\ cFrame.phase # "none"
    BY <1>0, <2>1, <2>2, AfterKeeps
  <2>4. DoneEvents(events', cFrame', nextSerial')
    BY <1>2, <1>4, <2>1, <2>3 DEF NoFrame
  <2> QED
    BY <1>0, <1>1, <1>2, <2>1, <2>3, <2>4 DEF NoFrame
<1>13. CASE CoreWriteBlocks
  <2>1. /\ UNCHANGED <<cError, cState, events, painted, corePc, fullDamage, shutdownPending, pendingSerial, nextSerial, cFrame>>
        /\ Up
    BY <1>13 DEF CoreWriteBlocks, StageMessage, Up, coreVars, drawVars
  <2> QED
    BY <1>0, <1>1, <1>2, <2>1
<1>14. CASE CoreIsReady \/ CoreHandlesInput \/ CoreQuits \/ CoreFails \/ CoreTimesOut
              \/ CoreCrashes \/ CoreDraws
  <2>1. /\ UNCHANGED <<failVars, shutdownPending, pendingSerial, nextSerial, painted>>
        /\ events' = events \/ (events # << >> /\ events' = Tail(events))
        /\ fullDamage => fullDamage'
        /\ corePc' \in {corePc, "stopped", "start"}
    BY <1>14, Idles
  <2>2. Up => DoneEvents(events', cFrame', nextSerial')
    BY <1>2, <1>3, <2>1 DEF failVars
  <2> QED
    BY <1>0, <1>1, <1>2, <2>1, <2>2 DEF failVars, Up
<1> QED
  BY <1>5, <1>6, <1>7, <1>8, <1>9, <1>10, <1>11, <1>12, <1>13, <1>14, CoreCases

LEMMA ClientAlways == Spec => []ClientInv
<1>1. ASSUME Init PROVE ClientInv
  <2>1. /\ cError = "none" /\ cState = "suspended" /\ hasOutput = FALSE /\ helperActive = FALSE
        /\ cGeneration = 0 /\ cFrame = NoFrame /\ wire = << >> /\ controls = <<Hello(TRUE)>>
        /\ shutdownAsked = FALSE /\ shutdownSent = FALSE /\ shutdownPending = FALSE /\ helloSent = FALSE
        /\ painted = Unpainted /\ events = << >> /\ corePc = "handshake"
    BY <1>1 DEF Init, CoreInit, ClientInit
  <2>2. OwnInv /\ SendInv
    BY <2>1 DEF OwnInv, SendInv, FrameIn, NoFrame, Up
  <2>3. OrderInv
    BY <2>1 DEF OrderInv, Up, OnlyPongs, WireType, NoFrame
  <2>4. DrawInv
    BY <2>1 DEF DrawInv, Up, NoFrame, Unpainted
  <2> QED
    BY <2>2, <2>3, <2>4 DEF ClientInv
<1>2. ASSUME SessionType, OwedInv, ClientInv, [Next]_vars PROVE ClientInv'
  <2>1. CASE UNCHANGED coreSide
    <3>1. UNCHANGED <<cError, cState, hasOutput, helperActive, cGeneration, cFrame, wire, controls,
                      shutdownAsked, shutdownSent, shutdownPending, helloSent, painted, events,
                      corePc, nextSerial, pendingSerial, fullDamage>>
      BY <2>1 DEF coreSide, clientVars, coreVars, drawVars, ownershipVars, shutdownVars, failVars
    <3>2. (WireType' = WireType) /\ (Up' <=> Up)
      BY <3>1 DEF WireType, Up
    <3>3. OwnInv'
      BY <1>2, <3>1, <3>2 DEF ClientInv, OwnInv
    <3>4. SendInv'
      BY <1>2, <3>1, <3>2 DEF ClientInv, SendInv, FrameIn, Piece
    <3>5. OrderInv'
      BY <1>2, <3>1, <3>2 DEF ClientInv, OrderInv, OnlyPongs
    <3>6. DrawInv'
      BY <1>2, <3>1, <3>2 DEF ClientInv, DrawInv
    <3> QED
      BY <3>3, <3>4, <3>5, <3>6 DEF ClientInv
  <2>2. CASE CoreStep \/ CoreChoice
    BY <1>2, <2>2, OwnStep, SendStep, OrderStep, DrawStep DEF ClientInv
  <2> QED
    BY <1>2, <2>1, <2>2 DEF Next, vars, coreSide, Worker, Core, CoreMay, User, Terminated
<1> QED
  BY <1>1, <1>2, SessionTypeCorrect, OwedAlways, PTL DEF Spec

(***************************************************************************)
(* What the messages of a queue make, one after the other, of what is      *)
(* known: R holds the steps <<before, message, after>> over the views V.   *)
(***************************************************************************)
Leads(R, V, q, u, w, f) ==
    /\ f \in [0 .. Len(q) -> V]
    /\ f[0] = u /\ f[Len(q)] = w
    /\ \A k \in 1 .. Len(q) : <<f[k - 1], q[k], f[k]>> \in R

Along(R, V, q, u, w) == \E f : Leads(R, V, q, u, w, f)

LEMMA AlongEmpty ==
    ASSUME NEW R, NEW V, NEW u \in V
    PROVE  /\ Along(R, V, << >>, u, u)
           /\ \A w : Along(R, V, << >>, u, w) => u = w
<1>1. Leads(R, V, << >>, u, u, [k \in {0} |-> u])
  BY DEF Leads
<1>2. \A w, f : Leads(R, V, << >>, u, w, f) => u = w
  BY DEF Leads
<1> QED
  BY <1>1, <1>2 DEF Along

LEMMA AlongEnds ==
    ASSUME NEW R, NEW V, NEW S, NEW q \in Seq(S), NEW u, NEW w, Along(R, V, q, u, w)
    PROVE  u \in V /\ w \in V
<1>1. PICK f : Leads(R, V, q, u, w, f)
  BY DEF Along
<1>2. f \in [0 .. Len(q) -> V] /\ f[0] = u /\ f[Len(q)] = w /\ 0 \in 0 .. Len(q) /\ Len(q) \in 0 .. Len(q)
  BY <1>1 DEF Leads
<1> QED
  BY <1>2

LEMMA AlongAppend ==
    ASSUME NEW R, NEW V, NEW S, NEW q \in Seq(S), NEW m \in S, NEW u, NEW v, NEW w \in V,
           Along(R, V, q, u, v), <<v, m, w>> \in R
    PROVE  Along(R, V, Append(q, m), u, w)
<1> DEFINE a == Append(q, m)
           n == Len(q)
<1>1. PICK f : Leads(R, V, q, u, v, f)
  BY DEF Along
<1>2. /\ n \in Nat /\ Len(a) = n + 1 /\ a[n + 1] = m
      /\ \A k \in 1 .. n : a[k] = q[k]
  OBVIOUS
<1>3. /\ f \in [0 .. n -> V] /\ f[0] = u /\ f[n] = v
      /\ \A k \in 1 .. n : <<f[k - 1], q[k], f[k]>> \in R
  BY <1>1 DEF Leads
<1> DEFINE g == [k \in 0 .. n + 1 |-> IF k = n + 1 THEN w ELSE f[k]]
<1> HIDE DEF a, n
<1>4. /\ g \in [0 .. n + 1 -> V] /\ g[0] = u /\ g[n + 1] = w /\ g[n] = v
      /\ \A k \in 0 .. n : g[k] = f[k]
  BY <1>2, <1>3
<1> HIDE DEF g
<1>5. ASSUME NEW k \in 1 .. n + 1 PROVE <<g[k - 1], a[k], g[k]>> \in R
  <2>1. CASE k = n + 1
    <3>1. k - 1 = n
      BY <1>2, <2>1
    <3> QED
      BY <1>2, <1>4, <2>1, <3>1
  <2>2. CASE k # n + 1
    <3>1. k \in 1 .. n /\ k - 1 \in 0 .. n /\ k \in 0 .. n
      BY <1>2, <2>2
    <3> QED
      BY <1>2, <1>3, <1>4, <3>1
  <2> QED
    BY <2>1, <2>2
<1>6. Leads(R, V, a, u, w, g)
  BY <1>2, <1>4, <1>5 DEF Leads
<1> QED
  BY <1>6 DEF Along, a

LEMMA AlongTail ==
    ASSUME NEW R, NEW V, NEW S, NEW q \in Seq(S), q # << >>, NEW u, NEW w, Along(R, V, q, u, w)
    PROVE  \E v \in V : <<u, Head(q), v>> \in R /\ Along(R, V, Tail(q), v, w)
<1> DEFINE t == Tail(q)
           n == Len(q)
<1>1. PICK f : Leads(R, V, q, u, w, f)
  BY DEF Along
<1>2. /\ n \in Nat /\ n > 0 /\ Len(t) = n - 1 /\ Head(q) = q[1]
      /\ \A k \in 1 .. n - 1 : t[k] = q[k + 1]
  OBVIOUS
<1>3. /\ f \in [0 .. n -> V] /\ f[0] = u /\ f[n] = w
      /\ \A k \in 1 .. n : <<f[k - 1], q[k], f[k]>> \in R
  BY <1>1 DEF Leads
<1> DEFINE g == [k \in 0 .. n - 1 |-> f[k + 1]]
<1> HIDE DEF t, n
<1>4. /\ g \in [0 .. n - 1 -> V] /\ g[0] = f[1] /\ g[n - 1] = w
      /\ \A k \in 0 .. n - 1 : g[k] = f[k + 1]
  BY <1>2, <1>3
<1> HIDE DEF g
<1>5. ASSUME NEW k \in 1 .. n - 1 PROVE <<g[k - 1], t[k], g[k]>> \in R
  <2>1. k + 1 \in 1 .. n /\ k - 1 \in 0 .. n - 1 /\ k \in 0 .. n - 1
        /\ (k - 1) + 1 = k /\ (k + 1) - 1 = k
    BY <1>2
  <2>2. <<f[(k + 1) - 1], q[k + 1], f[k + 1]>> \in R
    BY <1>3, <2>1
  <2>3. g[k - 1] = f[k] /\ g[k] = f[k + 1] /\ t[k] = q[k + 1]
    BY <1>2, <1>4, <2>1
  <2> QED
    BY <2>1, <2>2, <2>3
<1>6. Leads(R, V, t, f[1], w, g)
  BY <1>2, <1>4, <1>5 DEF Leads
<1>7. <<f[0], q[1], f[1]>> \in R /\ f[1] \in V
  <2>1. 1 \in 1 .. n /\ 1 - 1 = 0 /\ 1 \in 0 .. n
    BY <1>2
  <2>2. <<f[1 - 1], q[1], f[1]>> \in R
    BY <1>3, <2>1
  <2> QED
    BY <1>3, <2>1, <2>2
<1> QED
  BY <1>2, <1>3, <1>6, <1>7 DEF Along, t

\* An order L the steps respect is respected along the way.
Ordered(L, V) ==
    /\ \A x \in V : <<x, x>> \in L
    /\ \A x, y, z \in V : <<x, y>> \in L /\ <<y, z>> \in L => <<x, z>> \in L

Respects(R, V, L) == \A x, y \in V : \A m : <<x, m, y>> \in R => <<x, y>> \in L

Between(R, V, L, q, u, w) ==
    \A i \in DOMAIN q : \E x, y \in V :
        <<u, x>> \in L /\ <<x, q[i], y>> \in R /\ <<y, w>> \in L

LEMMA AlongRises ==
    ASSUME NEW R, NEW V, NEW S, NEW q \in Seq(S), NEW u, NEW w, Along(R, V, q, u, w), NEW L,
           Ordered(L, V), Respects(R, V, L)
    PROVE  <<u, w>> \in L /\ Between(R, V, L, q, u, w)
<1> DEFINE n == Len(q)
<1> USE DEF Ordered, Respects
<1>1. PICK f : Leads(R, V, q, u, w, f)
  BY DEF Along
<1>2. n \in Nat /\ DOMAIN q = 1 .. n
  OBVIOUS
<1>3. /\ f \in [0 .. n -> V] /\ f[0] = u /\ f[n] = w
      /\ \A k \in 1 .. n : <<f[k - 1], q[k], f[k]>> \in R
  BY <1>1 DEF Leads
<1> HIDE DEF n
<1>4. ASSUME NEW k \in 1 .. n
      PROVE  /\ k - 1 \in 0 .. n /\ k \in 0 .. n /\ f[k - 1] \in V /\ f[k] \in V
             /\ <<f[k - 1], q[k], f[k]>> \in R /\ <<f[k - 1], f[k]>> \in L
  <2>1. k - 1 \in 0 .. n /\ k \in 0 .. n
    BY <1>2
  <2>2. f[k - 1] \in V /\ f[k] \in V /\ <<f[k - 1], q[k], f[k]>> \in R
    BY <1>3, <2>1
  <2> QED
    BY <2>1, <2>2
<1>5. ASSUME NEW k \in 0 .. n PROVE <<u, f[k]>> \in L
  <2> DEFINE H == {j \in 0 .. n : <<u, f[j]>> \in L}
  <2>1. 0 \in H /\ H \in SUBSET Nat /\ n \in Nat
    <3>1. 0 \in 0 .. n
      BY <1>2
    <3>2. u \in V
      BY <1>3, <3>1
    <3> QED
      BY <1>2, <1>3, <3>1, <3>2
  <2>2. ASSUME NEW j \in 1 .. n, j - 1 \in H PROVE j \in H
    <3>1. <<u, f[j - 1]>> \in L /\ u \in V
      BY <2>2, <1>3, <1>2
    <3> QED
      BY <1>4, <3>1
  <2>3. ASSUME NEW j \in 1 .. k, j - 1 \in H PROVE j \in H
    BY <1>2, <2>2, <2>3
  <2>4. k \in Nat
    BY <1>2
  <2> HIDE DEF H
  <2>5. k \in H
    BY <2>1, <2>3, <2>4, Induct
  <2> QED
    BY <2>5 DEF H
<1>6. ASSUME NEW k \in 0 .. n PROVE <<f[k], w>> \in L
  <2> DEFINE H == {j \in 0 .. n : <<f[n - j], w>> \in L}
  <2>1. 0 \in H /\ H \in SUBSET Nat /\ n \in Nat
    <3>1. 0 \in 0 .. n /\ n - 0 = n /\ n \in 0 .. n
      BY <1>2
    <3>2. w \in V
      BY <1>3, <3>1
    <3> QED
      BY <1>2, <1>3, <3>1, <3>2
  <2>2. ASSUME NEW j \in 1 .. n, j - 1 \in H PROVE j \in H
    <3> DEFINE i == n - (j - 1)
    <3>1. i \in 1 .. n /\ i - 1 = n - j /\ j \in 0 .. n
      BY <1>2
    <3>2. <<f[i], w>> \in L /\ w \in V
      BY <2>2, <1>3, <1>2
    <3> HIDE DEF i
    <3>3. <<f[i - 1], f[i]>> \in L /\ f[i - 1] \in V /\ f[i] \in V
      BY <1>4, <3>1
    <3>4. <<f[i - 1], w>> \in L
      BY <3>2, <3>3
    <3> QED
      BY <3>1, <3>4
  <2>3. n - k \in Nat /\ \A j \in 1 .. n - k : j - 1 \in H => j \in H
    <3>1. n - k \in Nat /\ \A j \in 1 .. n - k : j \in 1 .. n
      BY <1>2
    <3> HIDE DEF H
    <3> QED
      BY <2>2, <3>1
  <2> HIDE DEF H
  <2>4. n - k \in H
    BY <2>1, <2>3, Induct
  <2>5. n - (n - k) = k
    BY <1>2
  <2> QED
    BY <2>4, <2>5 DEF H
<1>7. ASSUME NEW i \in DOMAIN q
      PROVE  \E x, y \in V : <<u, x>> \in L /\ <<x, q[i], y>> \in R /\ <<y, w>> \in L
  <2>1. i \in 1 .. n /\ i - 1 \in 0 .. n /\ i \in 0 .. n
    BY <1>2
  <2>2. /\ f[i - 1] \in V /\ f[i] \in V /\ <<f[i - 1], q[i], f[i]>> \in R
    BY <1>4, <2>1
  <2>3. <<u, f[i - 1]>> \in L /\ <<f[i], w>> \in L
    BY <1>5, <1>6, <2>1
  <2> QED
    BY <2>2, <2>3
<1>8. n \in 0 .. n
  BY <1>2
<1> QED
  BY <1>3, <1>5, <1>7, <1>8 DEF Between

(***************************************************************************)
(* The steps of the worker, by what they do to the helper and the socket.  *)
(***************************************************************************)
Drains ==
    LET m == Head(toHelper)
    IN  /\ toHelper # << >> /\ toHelper' = Tail(toHelper) /\ m \in CoreMessage
        /\ Receive(m, HostPresents(m)) /\ HostPresents(m) \in BOOLEAN
        /\ UNCHANGED toCore

Flushes ==
    /\ ConsumeHead
    /\ toCore' = Append(toCore, Head(outbound).message)
    /\ UNCHANGED toHelper

LEMMA WorkerMoves ==
    ASSUME SessionType, WorkerStep
    PROVE  \/ Drains
           \/ Flushes
           \/ (Calls \/ UNCHANGED helperVars) /\ UNCHANGED <<toCore, toHelper>>
<1>0. HelperTypeOK /\ QueueInv /\ WorkerType /\ SocketType
  BY DEF SessionType
<1>1. CASE WorkerDrain
  <2>1. toHelper # << >> /\ toHelper' = Tail(toHelper) /\ UNCHANGED toCore
        /\ Receive(Head(toHelper), HostPresents(Head(toHelper)))
    BY <1>1 DEF WorkerDrain
  <2>2. Head(toHelper) \in CoreMessage
    BY <1>0, <2>1 DEF SocketType
  <2>3. HostPresents(Head(toHelper)) \in BOOLEAN
    BY DEF HostPresents
  <2> QED
    BY <2>1, <2>2, <2>3 DEF Drains
<1>4. CASE WorkerFlush
  BY <1>4 DEF WorkerFlush, Flushes
<1>5. CASE WorkerInput \/ WorkerFlushBlocked \/ WorkerTakePong \/ WorkerExpires \/ WorkerRelease
             \/ WorkerAcquire
  BY <1>5
     DEF WorkerInput, WorkerFlushBlocked, WorkerTakePong, WorkerExpires, WorkerRelease,
         WorkerAcquire, Calls, socketVars
<1>6. CASE WorkerPing
  <2>1. pings + 1 \in Tokens
    BY <1>0, <1>6, SessionAssumption, WorkerAssumption DEF WorkerPing, WorkerType
  <2> QED
    BY <1>6, <2>1 DEF WorkerPing, Calls
<1>7. CASE WorkerComplete
  <2> DEFINE serial == Head(completions)
  <2>1. serial \in Serials /\ UNCHANGED <<toCore, toHelper>>
    BY <1>0, <1>7 DEF WorkerComplete, WorkerType
  <2>2. CASE complete_frame(wFrame.generation, serial) /\ serial = wFrame.submitted
    <3>1. wFrame.generation \in Generations
      BY <1>0, <2>1, <2>2 DEF WorkerType, Serials
    <3> QED
      BY <2>1, <2>2, <3>1 DEF Calls
  <2> QED
    BY <1>7, <2>1, <2>2 DEF WorkerComplete
<1>8. CASE UNCHANGED <<helperVars, toCore, toHelper>>
  BY <1>8
<1> QED
  BY <1>1, <1>4, <1>5, <1>6, <1>7, <1>8
     DEF WorkerStep, WorkerCoreGone, WorkerDrained, WorkerEmergency, WorkerInputDone,
         WorkerFlushDone, WorkerFlushFails, WorkerNoPing, WorkerReleaseFails,
         WorkerAcquireFails, WorkerNoEvent

(***************************************************************************)
(* What the core makes of what the helper has said: whether there is an    *)
(* output, whether the console is active, and in which generation.         *)
(***************************************************************************)
View(ready, active, gen) == [ready |-> ready, active |-> active, generation |-> gen]

Views == [ready : BOOLEAN, active : BOOLEAN, generation : Nat]

Hear(u, m, w) ==
    \/ /\ m.type = "ready" /\ ~u.ready /\ u.generation <= m.generation
       /\ w = View(TRUE, TRUE, m.generation)
    \/ /\ m.type = "suspend" /\ u.ready /\ u.active /\ m.generation = u.generation + 1
       /\ w = View(TRUE, FALSE, m.generation)
    \/ /\ m.type = "resume" /\ u.ready /\ ~u.active /\ m.generation = u.generation
       /\ w = View(TRUE, TRUE, m.generation)
    \/ m.type \in {"input", "complete"} /\ u.ready /\ u.active /\ m.generation = u.generation /\ w = u
    \/ m.type \in {"ping", "accepted"} /\ w = u
    \/ m.type = "fatal" /\ (u.ready => m.generation = u.generation) /\ w = u

Hears == {t \in Views \X HelperMessages \X Views : Hear(t[1], t[2], t[3])}

HelperView ==
    View(readySent, readySent /\ ~suspended, IF readySent THEN generation ELSE 0)

ClientView == View(hasOutput, helperActive, cGeneration)

Texts(queue) == [i \in DOMAIN queue |-> queue[i].message]

\* What the core has still to hear.
Transit == toCore \o Texts(outbound)

HearInv ==
    /\ presentationPending => readySent
    /\ Up => \E e \in Views : /\ Along(Hears, Views, Transit, ClientView, e)
                              /\ error = "none" => e = HelperView

LEMMA HearsIs ==
    ASSUME NEW u, NEW m, NEW w
    PROVE  <<u, m, w>> \in Hears <=> u \in Views /\ m \in HelperMessages /\ w \in Views /\ Hear(u, m, w)
<1> DEFINE t == <<u, m, w>>
<1>1. t[1] = u /\ t[2] = m /\ t[3] = w
  OBVIOUS
<1>2. t \in Views \X HelperMessages \X Views <=> u \in Views /\ m \in HelperMessages /\ w \in Views
  OBVIOUS
<1>3. t \in Hears <=> t \in Views \X HelperMessages \X Views /\ Hear(t[1], t[2], t[3])
  BY DEF Hears
<1> HIDE DEF t
<1>4. t \in Hears <=> u \in Views /\ m \in HelperMessages /\ w \in Views /\ Hear(u, m, w)
  BY <1>1, <1>2, <1>3
<1> QED
  BY <1>4 DEF t

LEMMA ViewFields ==
    /\ \A r, a, g : View(r, a, g).ready = r /\ View(r, a, g).active = a /\ View(r, a, g).generation = g
    /\ \A r, a \in BOOLEAN, g \in Nat : View(r, a, g) \in Views
    /\ \A u \in Views : u = View(u.ready, u.active, u.generation)
                        /\ u.ready \in BOOLEAN /\ u.active \in BOOLEAN /\ u.generation \in Nat
BY DEF View, Views

LEMMA HelperViewType ==
    ASSUME HelperTypeOK
    PROVE  HelperView \in Views
<1>1. readySent \in BOOLEAN /\ generation \in Nat
  BY Ranges DEF HelperTypeOK
<1> QED
  BY <1>1 DEF HelperView, View, Views

\* The texts of a queue follow its records.
LEMMA TextsMove ==
    ASSUME NEW q \in Seq(Records)
    PROVE  /\ Texts(q) \in Seq(HelperMessages) /\ Len(Texts(q)) = Len(q)
           /\ \A m \in HelperMessages : Texts(enqueue_message(q, m)) = Append(Texts(q), m)
           /\ \A e \in Records : Texts(Append(q, e)) = Append(Texts(q), e.message)
           /\ q # << >> => /\ Texts(q) # << >> /\ Head(Texts(q)) = Head(q).message
                           /\ Texts(Tail(q)) = Tail(Texts(q))
                           /\ Texts([q EXCEPT ![1].started = TRUE]) = Texts(q)
<1>1. \A e \in Records : e.message \in HelperMessages /\ DOMAIN e = {"message", "started"}
  BY DEF Records
<1>2. \A i \in DOMAIN q : q[i] \in Records
  OBVIOUS
<1>3. Texts(q) \in Seq(HelperMessages) /\ Len(Texts(q)) = Len(q)
  BY <1>1, <1>2 DEF Texts
<1>4. ASSUME NEW e \in Records PROVE Texts(Append(q, e)) = Append(Texts(q), e.message)
  <2> DEFINE a == Texts(Append(q, e))
             b == Append(Texts(q), e.message)
  <2>1. /\ a = [i \in 1 .. Len(q) + 1 |-> Append(q, e)[i].message]
        /\ \A i \in 1 .. Len(q) : Append(q, e)[i] = q[i]
        /\ Append(q, e)[Len(q) + 1] = e
    BY DEF Texts
  <2>2. /\ b \in Seq(HelperMessages) /\ Len(b) = Len(q) + 1
        /\ \A i \in 1 .. Len(q) : b[i] = Texts(q)[i]
        /\ b[Len(q) + 1] = e.message
    BY <1>1, <1>3
  <2>3. \A i \in 1 .. Len(q) : Texts(q)[i] = q[i].message
    BY DEF Texts
  <2>4. b = [i \in 1 .. Len(q) + 1 |-> b[i]]
    BY <2>2
  <2> HIDE DEF a, b
  <2>5. Len(q) \in Nat
    OBVIOUS
  <2>6. \A i \in 1 .. Len(q) + 1 : Append(q, e)[i].message = b[i]
    BY <2>1, <2>2, <2>3, <2>5
  <2> QED
    BY <2>1, <2>4, <2>6 DEF a, b
<1>5. ASSUME NEW m \in HelperMessages PROVE Texts(enqueue_message(q, m)) = Append(Texts(q), m)
  <2> DEFINE e == [message |-> m, started |-> FALSE]
  <2>1. e \in Records /\ e.message = m /\ enqueue_message(q, m) = Append(q, e)
    BY DEF Records, enqueue_message
  <2> HIDE DEF e
  <2> QED
    BY <1>4, <2>1
<1>6. ASSUME q # << >>
      PROVE  /\ Texts(q) # << >> /\ Head(Texts(q)) = Head(q).message
             /\ Texts(Tail(q)) = Tail(Texts(q))
             /\ Texts([q EXCEPT ![1].started = TRUE]) = Texts(q)
  <2>1. Len(q) \in Nat /\ Len(q) > 0 /\ q[1] \in Records
    BY <1>6
  <2>2. Head(Texts(q)) = Head(q).message /\ Texts(q) # << >>
    BY <2>1 DEF Texts
  <2>3. Texts(Tail(q)) = Tail(Texts(q))
    <3> DEFINE n == Len(q) - 1
               t == Texts(q)
    <3>0. n \in Nat /\ Len(q) = n + 1
      BY <2>1
    <3>1. /\ Tail(q) \in Seq(Records) /\ Len(Tail(q)) = n
          /\ \A i \in 1 .. n : Tail(q)[i] = q[i + 1]
      BY <1>6
    <3>2. t \in Seq(HelperMessages) /\ Len(t) = n + 1 /\ \A i \in 1 .. n : t[i + 1] = q[i + 1].message
      BY <1>3, <3>0 DEF Texts
    <3> HIDE DEF t, n
    <3>3. /\ Tail(t) \in Seq(HelperMessages) /\ Len(Tail(t)) = n
          /\ \A i \in 1 .. n : Tail(t)[i] = t[i + 1]
      BY <3>0, <3>2
    <3>4. Texts(Tail(q)) = [i \in 1 .. n |-> Tail(q)[i].message]
      BY <3>1 DEF Texts
    <3> DEFINE a == Tail(q)
               b == Tail(t)
    <3>9. b \in Seq(HelperMessages) /\ Len(b) = n
      BY <3>3
    <3> HIDE DEF a, b
    <3>5. b = [i \in 1 .. n |-> b[i]]
      BY <3>9
    <3>6. \A i \in 1 .. n : a[i].message = b[i]
      BY <3>1, <3>2, <3>3 DEF a, b
    <3> QED
      BY <3>4, <3>5, <3>6 DEF a, b, t
  <2>4. Texts([q EXCEPT ![1].started = TRUE]) = Texts(q)
    <3> DEFINE s == [q EXCEPT ![1].started = TRUE]
    <3>1. DOMAIN s = DOMAIN q /\ \A i \in DOMAIN q : s[i].message = q[i].message
      <4>1. \A i \in DOMAIN q : i # 1 => s[i] = q[i]
        OBVIOUS
      <4>2. 1 \in DOMAIN q /\ s[1] = [q[1] EXCEPT !.started = TRUE]
        <5>1. 1 \in DOMAIN q
          BY <2>1
        <5> QED
          BY <5>1, Zenon
      <4>3. s[1].message = q[1].message
        BY <1>1, <2>1, <4>2
      <4> QED
        BY <4>1, <4>3
    <3> HIDE DEF s
    <3> QED
      BY <3>1 DEF Texts
  <2> QED
    BY <2>2, <2>3, <2>4
<1>7. \A m \in HelperMessages : Texts(enqueue_message(q, m)) = Append(Texts(q), m)
  BY <1>5
<1>8. \A e \in Records : Texts(Append(q, e)) = Append(Texts(q), e.message)
  BY <1>4
<1> QED
  BY <1>3, <1>6, <1>7, <1>8, Zenon

\* What purge_unsent_input drops is heard by nobody.
LEMMA PurgeAlong ==
    ASSUME NEW R, NEW V, \A u, m, w : <<u, m, w>> \in R /\ m.type = "input" => u = w,
           NEW a \in Seq(HelperMessages), NEW q \in Seq(Records), NEW u, NEW w,
           Along(R, V, a \o Texts(q), u, w)
    PROVE  /\ purge_unsent_input(q) \in Seq(Records)
           /\ Along(R, V, a \o Texts(purge_unsent_input(q)), u, w)
<1> DEFINE k == Kept(q)
           n == Len(q)
           l == Len(a)
           t == a \o Texts(q)
           Tried(i) == a \o Texts(k[i])
<1>1. /\ purge_unsent_input(q) = k[n]
      /\ k \in [0 .. n -> Seq(Records)] /\ k[0] = << >>
      /\ \A i \in 1 .. n : k[i] = IF StaysQueued(q[i]) THEN Append(k[i - 1], q[i]) ELSE k[i - 1]
  BY KeptPass
<1>2. /\ n \in Nat /\ l \in Nat /\ Len(t) = l + n /\ t \in Seq(HelperMessages)
      /\ \A i \in 1 .. l : t[i] = a[i]
      /\ \A i \in 1 .. n : t[l + i] = q[i].message /\ q[i] \in Records
  <2>1. Texts(q) \in Seq(HelperMessages) /\ Len(Texts(q)) = n
    BY TextsMove
  <2>2. \A i \in 1 .. n : Texts(q)[i] = q[i].message
    BY DEF Texts
  <2> HIDE DEF Texts
  <2>3. /\ n \in Nat /\ l \in Nat /\ Len(t) = l + n /\ t \in Seq(HelperMessages)
        /\ \A i \in 1 .. l : t[i] = a[i]
    BY <2>1
  <2>4. ASSUME NEW i \in 1 .. n PROVE t[l + i] = Texts(q)[i]
    BY <2>1
  <2> QED
    BY <2>2, <2>3, <2>4
<1>3. PICK f : Leads(R, V, t, u, w, f)
  BY DEF Along
<1> HIDE DEF k, n, l, t
<1>4. /\ f \in [0 .. l + n -> V] /\ f[0] = u /\ f[l + n] = w
      /\ \A i \in 1 .. l + n : <<f[i - 1], t[i], f[i]>> \in R
  BY <1>2, <1>3 DEF Leads
<1> DEFINE H == {i \in 0 .. n : Along(R, V, Tried(i), u, f[l + i])}
<1>5. 0 \in H
  <2>1. Tried(0) = a
    <3>1. Texts(k[0]) = << >>
      BY <1>1 DEF Texts
    <3> QED
      BY <3>1
  <2> DEFINE g == [i \in 0 .. l |-> f[i]]
  <2>2. /\ g \in [0 .. l -> V] /\ g[0] = u /\ g[l] = f[l + 0]
        /\ \A i \in 0 .. l : g[i] = f[i]
    BY <1>2, <1>4
  <2> HIDE DEF g
  <2>3. ASSUME NEW i \in 1 .. l PROVE <<g[i - 1], a[i], g[i]>> \in R
    <3>1. i \in 1 .. l + n /\ i - 1 \in 0 .. l /\ i \in 0 .. l
      BY <1>2
    <3>2. <<f[i - 1], t[i], f[i]>> \in R
      BY <1>4, <3>1
    <3> QED
      BY <1>2, <2>2, <3>1, <3>2
  <2>4. Leads(R, V, a, u, f[l + 0], g)
    BY <2>2, <2>3 DEF Leads, l
  <2>5. Along(R, V, Tried(0), u, f[l + 0])
    BY <2>1, <2>4 DEF Along
  <2> HIDE DEF Tried
  <2> QED
    BY <1>2, <2>5
<1>6. ASSUME NEW i \in 1 .. n, i - 1 \in H PROVE i \in H
  <2>1. /\ i \in 0 .. n /\ i - 1 \in 0 .. n /\ l + i \in 1 .. l + n /\ (l + i) - 1 = l + (i - 1)
        /\ q[i] \in Records /\ k[i - 1] \in Seq(Records)
    BY <1>1, <1>2
  <2>2. <<f[l + (i - 1)], q[i].message, f[l + i]>> \in R
    <3>1. <<f[(l + i) - 1], t[l + i], f[l + i]>> \in R
      BY <1>4, <2>1
    <3> QED
      BY <1>2, <2>1, <3>1
  <2>3. Along(R, V, Tried(i - 1), u, f[l + (i - 1)])
    BY <1>6
  <2>4. CASE k[i] = Append(k[i - 1], q[i])
    <3>1. Texts(k[i]) = Append(Texts(k[i - 1]), q[i].message)
          /\ Texts(k[i - 1]) \in Seq(HelperMessages) /\ q[i].message \in HelperMessages
      BY <2>1, <2>4, TextsMove DEF Records
    <3>2. Tried(i) = Append(Tried(i - 1), q[i].message) /\ Tried(i - 1) \in Seq(HelperMessages)
      <4> DEFINE b == Texts(k[i - 1])
                 e == q[i].message
      <4>1. b \in Seq(HelperMessages) /\ e \in HelperMessages
        BY <3>1
      <4> HIDE DEF b, e
      <4>2. a \o Append(b, e) = Append(a \o b, e) /\ a \o b \in Seq(HelperMessages)
        BY <4>1, AppendAssociates
      <4> QED
        BY <3>1, <4>2 DEF b, e
    <3>3. f[l + i] \in V
      BY <1>2, <1>4, <2>1
    <3> HIDE DEF Tried
    <3>4. Along(R, V, Append(Tried(i - 1), q[i].message), u, f[l + i])
      BY <2>2, <2>3, <3>1, <3>2, <3>3, AlongAppend
    <3> QED
      BY <2>1, <3>2, <3>4
  <2>5. CASE k[i] = k[i - 1] /\ ~StaysQueued(q[i])
    <3>1. q[i].message.type = "input"
      BY <2>5 DEF StaysQueued, IsInput
    <3>2. f[l + i] = f[l + (i - 1)]
      BY <2>2, <3>1
    <3> QED
      BY <2>1, <2>3, <2>5, <3>2
  <2> QED
    BY <1>1, <2>4, <2>5
<1>7. H \in SUBSET Nat /\ n \in Nat
  BY <1>2
<1> HIDE DEF H
<1>8. n \in H
  BY <1>5, <1>6, <1>7, Induct
<1>9. Along(R, V, Tried(n), u, w)
  BY <1>4, <1>8 DEF H
<1>10. n \in 0 .. n
  BY <1>2
<1> QED
  BY <1>1, <1>9, <1>10

\* What the helper says in a step: nothing, or one message that follows from its view.
Keeps ==
    /\ Texts(outbound') = Texts(outbound)
    /\ error' = "none" => error = "none" /\ HelperView' = HelperView

\* What a message says of the helper besides.
Told(m) ==
    /\ m.type = "ready" => helloReceived'
    /\ m.type = "accepted" => shutdownRequested'
    /\ m.type = "complete" => /\ presentationPending /\ pending' = NoPresentation
                              /\ m.generation = pending.generation /\ m.serial = pending.serial
    /\ m.type = "ping" => send_ping(m.token)

SlotInv == presentationPending => readySent

Tells ==
    /\ error = "none"
    /\ \E q \in {outbound, purge_unsent_input(outbound)} :
          \/ outbound' = q /\ error' # "none"
          \/ \E m \in HelperMessages, v \in Views :
                /\ outbound' = enqueue_message(q, m)
                /\ Hear(HelperView, m, v) /\ Told(m)
                /\ error' = "none" => HelperView' = v

LEMMA SilentTells ==
    ASSUME UNCHANGED <<generation, readySent, suspended, outbound, error>>
    PROVE  Keeps
BY DEF Keeps, HelperView, View

\* A message that changes nothing of the helper's view.
LEMMA SayTells ==
    ASSUME HelperTypeOK, error = "none", NEW m \in HelperMessages, NEW frm, NEW pnd,
           enqueue_or_fail(outbound, m, frm, pnd), UNCHANGED <<generation, readySent, suspended>>,
           Hear(HelperView, m, HelperView), Told(m)
    PROVE  Tells
<1>0. HelperView \in Views /\ HelperView' = HelperView /\ generation \in Generations
  BY HelperViewType DEF HelperView, HelperTypeOK
<1>1. CASE outbound' = enqueue_message(outbound, m)
  BY <1>0, <1>1 DEF Tells
<1>2. CASE fail_helper(outbound, "outbound_full")
  <2>1. CASE outbound' = outbound
    BY <1>2, <2>1 DEF Tells, fail_helper
  <2>2. CASE outbound' = enqueue_message(outbound, Fatal(generation))
    <3>1. Fatal(generation) \in HelperMessages
      BY <1>0, Messages
    <3>2. Hear(HelperView, Fatal(generation), HelperView)
      BY DEF Hear, Fatal, HelperView, View
    <3>3. error' # "none" /\ Told(Fatal(generation))
      BY <1>2 DEF fail_helper, Told, Fatal
    <3> QED
      BY <1>0, <2>2, <3>1, <3>2, <3>3 DEF Tells
  <2> QED
    BY <1>2, <2>1, <2>2 DEF fail_helper
<1> QED
  BY <1>1, <1>2 DEF enqueue_or_fail

LEMMA RejectTells ==
    ASSUME HelperTypeOK, error = "none", NEW cause, cause # "none", Reject(cause)
    PROVE  Tells
<1>0. /\ UNCHANGED <<generation, readySent, suspended>> /\ generation \in Generations
      /\ HelperView \in Views /\ error' # "none"
  BY HelperViewType DEF Reject, sessionVars, HelperTypeOK, fail_helper
<1>1. CASE outbound' = outbound
  BY <1>0, <1>1 DEF Tells
<1>2. CASE outbound' = enqueue_message(outbound, Fatal(generation))
  <2>1. Fatal(generation) \in HelperMessages
    BY <1>0, Messages
  <2>2. Hear(HelperView, Fatal(generation), HelperView) /\ Told(Fatal(generation))
    BY DEF Hear, Fatal, HelperView, View, Told
  <2> QED
    BY <1>0, <1>2, <2>1, <2>2 DEF Tells
<1> QED
  BY <1>0, <1>1, <1>2 DEF Reject, fail_helper

\* READY is the first the core hears of a generation.
LEMMA ReadyTells ==
    ASSUME HelperTypeOK, error = "none", ~readySent, ~suspended', helloReceived',
           enqueue_or_fail(outbound, ReadyMessage(generation), frame, pending),
           readySent' \in BOOLEAN, error' = "none" => readySent', generation' = generation
    PROVE  Tells
<1>0. generation \in Generations /\ generation \in Nat /\ HelperView \in Views
  BY HelperViewType, Ranges DEF HelperTypeOK
<1>1. CASE outbound' = enqueue_message(outbound, ReadyMessage(generation)) /\ error' = error
  <2> DEFINE v == View(TRUE, TRUE, generation)
             m == ReadyMessage(generation)
  <2>1. m \in HelperMessages /\ v \in Views
    BY <1>0, Messages, ViewFields
  <2>2. Hear(HelperView, m, v) /\ Told(m)
    BY <1>0 DEF Hear, ReadyMessage, HelperView, View, Told
  <2>3. HelperView' = v
    <3>1. readySent' = TRUE /\ (readySent' /\ ~suspended') = TRUE
      BY <1>1
    <3> QED
      BY <3>1 DEF HelperView
  <2> HIDE DEF v, m
  <2> QED
    BY <1>1, <2>1, <2>2, <2>3 DEF Tells, m
<1>2. CASE fail_helper(outbound, "outbound_full") /\ ~HasRoom(outbound, ReadyMessage(generation))
  <2>1. ~HasRoom(outbound, Fatal(generation'))
    BY <1>2 DEF HasRoom, IsInput, ReadyMessage, Fatal
  <2> QED
    BY <1>2, <2>1 DEF Tells, fail_helper
<1> QED
  BY <1>1, <1>2 DEF enqueue_or_fail

LEMMA ReceiveTells ==
    ASSUME HelperTypeOK, QueueInv, NEW m \in CoreMessage, NEW presented \in BOOLEAN,
           Receive(m, presented)
    PROVE  Keeps \/ Tells
<1>0. error = "none"
  BY DEF Receive, failed
<1>1. CASE ReceiveHello(m)
  <2>1. generation' = generation /\ ~readySent /\ suspended' = suspended /\ helloReceived'
    BY <1>1 DEF ReceiveHello, QueueInv
  <2>2. CASE suspended
    BY <1>1, <2>1, <2>2, SilentTells DEF ReceiveHello, queueVars
  <2>3. CASE ~suspended
    <3>1. /\ enqueue_or_fail(outbound, ReadyMessage(generation), frame, pending)
          /\ readySent' = (error' = "none")
      BY <1>1, <2>3 DEF ReceiveHello
    <3>2. readySent' \in BOOLEAN /\ (error' = "none" => readySent')
      BY <3>1, Zenon
    <3> QED
      BY <1>0, <2>1, <2>3, <3>1, <3>2, ReadyTells
  <2> QED
    BY <2>2, <2>3
<1>2. CASE Reject("hello_first") \/ Reject("credentials") \/ Reject("after_shutdown")
           \/ Reject("duplicate_hello") \/ Reject("begin_order") \/ Reject("begin_damage")
           \/ Reject("data_order") \/ Reject("data_size") \/ Reject("presentation")
           \/ Reject("terminator") \/ Reject("incomplete") \/ Reject("pong")
  BY <1>0, <1>2, RejectTells
<1>3. CASE UNCHANGED <<sessionVars, outbound, error>>
  BY <1>3, SilentTells DEF sessionVars
<1>4. CASE handle_shutdown
  <2>1. /\ UNCHANGED <<generation, readySent, suspended>>
        /\ enqueue_or_fail(outbound, ShutdownAccepted, ClosedFrame, NoPresentation)
    BY <1>4 DEF handle_shutdown, sessionVars
  <2>2. ShutdownAccepted \in HelperMessages /\ Hear(HelperView, ShutdownAccepted, HelperView)
    BY Messages DEF Hear, ShutdownAccepted
  <2>3. Told(ShutdownAccepted)
    BY <1>4 DEF Told, ShutdownAccepted, handle_shutdown
  <2> QED
    BY <1>0, <2>1, <2>2, <2>3, SayTells
<1>5. CASE RejectHello(m)
  BY <1>2, <1>5 DEF RejectHello
<1>6. CASE handle_frame_begin(m)
  BY <1>2, <1>3, <1>6 DEF handle_frame_begin
<1>7. CASE handle_frame_data(m)
  BY <1>2, <1>3, <1>7 DEF handle_frame_data
<1>8. CASE handle_frame_reference(m, presented)
  BY <1>2, <1>3, <1>8
     DEF handle_frame_reference, DropFrame, PresentFrame, PresentFails, RejectReference
<1>9. CASE handle_pong(m)
  BY <1>2, <1>3, <1>9 DEF handle_pong, queueVars
<1> QED
  BY <1>1, <1>2, <1>4, <1>5, <1>6, <1>7, <1>8, <1>9 DEF Receive

LEMMA SuspendTells ==
    ASSUME HelperTypeOK, QueueInv, suspend
    PROVE  Keeps \/ Tells
<1> DEFINE kept == purge_unsent_input(outbound)
           s == AbandonedSerial
           m == SuspendMessage(generation + 1, s)
<1>1. /\ generation' = generation + 1 /\ readySent' = readySent /\ s \in Nat
      /\ generation + 1 \in Generations /\ error = "none" /\ ~suspended /\ suspended' = TRUE
      /\ readySent \in BOOLEAN
  BY HelperAssumption
     DEF suspend, CanSuspend, AbandonedSerial, Generations, HelperTypeOK, FrameType, failed
<1>2. CASE ~readySent
  BY <1>1, <1>2 DEF suspend, Keeps, HelperView, View
<1>3. CASE readySent
  <2>1. \/ outbound' = enqueue_message(kept, m)
        \/ ~HasRoom(kept, m) /\ fail_helper(kept, "outbound_full")
    BY <1>3 DEF suspend, enqueue_or_fail
  <2>2. CASE outbound' = enqueue_message(kept, m)
    <3> DEFINE v == View(TRUE, FALSE, generation + 1)
    <3>1. m \in HelperMessages
      <4> HIDE DEF s
      <4> QED
        BY <1>1, Messages
    <3>2. v \in Views
      <4>1. generation + 1 \in Nat
        BY <1>1, Ranges
      <4> QED
        BY <4>1, ViewFields
    <3>3. Hear(HelperView, m, v) /\ Told(m)
      BY <1>1, <1>3 DEF Hear, HelperView, View, SuspendMessage, Told
    <3>4. HelperView' = v
      BY <1>1, <1>3 DEF HelperView, View
    <3> HIDE DEF kept, s, m, v
    <3> QED
      BY <1>1, <2>2, <3>1, <3>2, <3>3, <3>4 DEF Tells, kept
  <2>3. CASE ~HasRoom(kept, m) /\ fail_helper(kept, "outbound_full")
    <3>1. ~HasRoom(kept, Fatal(generation'))
      BY <2>3 DEF HasRoom, IsInput, SuspendMessage, Fatal
    <3>2. outbound' = kept /\ error' # "none"
      BY <2>3, <3>1 DEF fail_helper
    <3> HIDE DEF kept
    <3> QED
      BY <1>1, <3>2 DEF Tells, kept
  <2> QED
    BY <2>1, <2>2, <2>3
<1> QED
  BY <1>2, <1>3

LEMMA CallTells ==
    ASSUME HelperTypeOK, QueueInv, SlotInv, OneFrameInFlight, Calls
    PROVE  Keeps \/ Tells
<1>0. generation \in Generations /\ readySent \in BOOLEAN /\ suspended \in BOOLEAN
  BY DEF HelperTypeOK
<1>1. CASE suspend
  BY <1>1, SuspendTells
<1>2. CASE \E resized \in BOOLEAN : resume(resized)
  <2>1. PICK resized \in BOOLEAN : resume(resized)
    BY <1>2
  <2>2. generation' = generation /\ error = "none" /\ suspended /\ suspended' = FALSE
    BY <2>1 DEF resume, CanResume, failed
  <2>3. CASE ~helloReceived
    <3>1. UNCHANGED <<generation, readySent, outbound, error>> /\ ~readySent
      BY <2>1, <2>2, <2>3 DEF resume, queueVars, QueueInv
    <3> QED
      BY <3>1 DEF Keeps, HelperView, View
  <2>4. CASE helloReceived /\ readySent
    <3>1. enqueue_or_fail(outbound, ResumeMessage(generation), frame, pending)
      BY <2>1, <2>4 DEF resume
    <3>2. readySent' = TRUE
      <4>1. readySent' = (readySent \/ error' = "none")
        BY <2>1, <2>4 DEF resume
      <4> QED
        BY <2>4, <4>1, Zenon
    <3> DEFINE v == View(TRUE, TRUE, generation)
               m == ResumeMessage(generation)
    <3>3. CASE outbound' = enqueue_message(outbound, m)
      <4>1. m \in HelperMessages /\ v \in Views
        BY <1>0, Messages, ViewFields, Ranges
      <4>2. Hear(HelperView, m, v) /\ Told(m)
        BY <2>2, <2>4 DEF Hear, HelperView, View, ResumeMessage, Told
      <4>3. HelperView' = v
        BY <2>2, <3>2 DEF HelperView, View
      <4> HIDE DEF v, m
      <4> QED
        BY <2>2, <3>3, <4>1, <4>2, <4>3 DEF Tells
    <3>4. CASE ~HasRoom(outbound, m) /\ fail_helper(outbound, "outbound_full")
      <4>1. ~HasRoom(outbound, Fatal(generation'))
        BY <3>4 DEF HasRoom, IsInput, ResumeMessage, Fatal
      <4> QED
        BY <2>2, <3>4, <4>1 DEF Tells, fail_helper
    <3> QED
      BY <3>1, <3>3, <3>4 DEF enqueue_or_fail
  <2>5. CASE helloReceived /\ ~readySent
    <3>1. enqueue_or_fail(outbound, ReadyMessage(generation), frame, pending)
      BY <2>1, <2>5 DEF resume
    <3>2. readySent' \in BOOLEAN /\ (error' = "none" => readySent')
      <4>1. readySent' = (readySent \/ error' = "none")
        BY <2>1, <2>5 DEF resume
      <4> QED
        BY <4>1, Zenon
    <3>3. helloReceived'
      BY <2>1, <2>5 DEF resume
    <3> QED
      BY <2>2, <2>5, <3>1, <3>2, <3>3, ReadyTells
  <2> QED
    BY <2>3, <2>4, <2>5
<1>3. CASE report_fatal
  BY <1>3, RejectTells DEF report_fatal, failed
<1>4. CASE send_input
  <2>1. /\ error = "none" /\ readySent /\ ~suspended /\ UNCHANGED <<generation, readySent, suspended>>
        /\ enqueue_or_fail(outbound, InputMessage(generation), frame, pending)
    BY <1>4 DEF send_input, CanSendInput, sessionVars, failed
  <2>2. InputMessage(generation) \in HelperMessages
    BY <1>0, Messages
  <2>3. Hear(HelperView, InputMessage(generation), HelperView) /\ Told(InputMessage(generation))
    BY <2>1 DEF Hear, InputMessage, HelperView, View, Told
  <2> QED
    BY <2>1, <2>2, <2>3, SayTells
<1>5. CASE \E gen \in Generations, serial \in Serials : complete_frame(gen, serial)
  <2>1. PICK gen \in Generations, serial \in Serials : complete_frame(gen, serial)
    BY <1>5
  <2>0. error = "none"
    BY <2>1 DEF complete_frame, failed
  <2>2. CASE UNCHANGED helperVars
    BY <2>2, SilentTells DEF helperVars, sessionVars, queueVars
  <2>3. CASE Reject(CompletionError)
    BY <2>0, <2>3, RejectTells DEF CompletionError
  <2>4. CASE /\ UNCHANGED sessionVars /\ CompletesPending(gen, serial)
             /\ enqueue_or_fail(outbound, FrameComplete(gen, serial), frame, NoPresentation)
    <3>1. /\ presentationPending /\ gen = generation /\ readySent /\ ~suspended
          /\ UNCHANGED <<generation, readySent, suspended>>
      BY <2>4 DEF CompletesPending, OneFrameInFlight, SlotInv, sessionVars
    <3>2. FrameComplete(gen, serial) \in HelperMessages
      BY <2>1, Messages
    <3>3. Hear(HelperView, FrameComplete(gen, serial), HelperView)
      BY <3>1 DEF Hear, FrameComplete, HelperView, View
    <3>4. Told(FrameComplete(gen, serial))
      <4>1. pending.generation = gen /\ pending.serial = serial /\ pending' = NoPresentation
        BY <2>4, EnqueueEffect DEF CompletesPending
      <4> QED
        BY <3>1, <4>1 DEF Told, FrameComplete
    <3> QED
      BY <2>0, <2>4, <3>1, <3>2, <3>3, <3>4, SayTells
  <2> QED
    BY <2>1, <2>2, <2>3, <2>4 DEF complete_frame
<1>6. CASE \E token \in Tokens : send_ping(token)
  <2>1. PICK token \in Tokens : send_ping(token)
    BY <1>6
  <2>2. /\ error = "none" /\ UNCHANGED <<generation, readySent, suspended>>
        /\ enqueue_or_fail(outbound, Ping(token), frame, pending)
    BY <2>1 DEF send_ping, CanPing, sessionVars, failed
  <2>3. Ping(token) \in HelperMessages /\ Hear(HelperView, Ping(token), HelperView) /\ Told(Ping(token))
    <3>1. Ping(token).type = "ping" /\ Ping(token).token = token
      BY DEF Ping
    <3>2. Told(Ping(token))
      BY <2>1, <3>1 DEF Told
    <3> QED
      BY <3>1, <3>2, Messages DEF Hear
  <2> QED
    BY <2>2, <2>3, SayTells
<1>7. CASE take_pong
  BY <1>7, SilentTells DEF take_pong, sessionVars, queueVars
<1>8. CASE StartHead
  <2>1. Texts(outbound') = Texts(outbound)
    <3>1. outbound # << >> /\ outbound \in Seq(Records)
          /\ outbound' = [outbound EXCEPT ![1].started = TRUE]
      BY <1>8 DEF StartHead, QueueInv
    <3> QED
      BY <3>1, TextsMove
  <2> QED
    BY <1>8, <2>1 DEF StartHead, sessionVars, Keeps, HelperView
<1> QED
  BY <1>1, <1>2, <1>3, <1>4, <1>5, <1>6, <1>7, <1>8 DEF Calls

LEMMA SlotReceive ==
    ASSUME HelperTypeOK, QueueInv, OneFrameInFlight, SlotInv, NEW m, NEW presented \in BOOLEAN,
           Receive(m, presented)
    PROVE  SlotInv'
<1>0. ~(NoPresentation # NoPresentation)
  OBVIOUS
<1>1. CASE ReceiveHello(m)
  <2>1. ~presentationPending
    BY <1>1 DEF ReceiveHello, QueueInv, SlotInv
  <2>2. pending' = pending \/ pending' = NoPresentation
    BY <1>1, EnqueueEffect DEF ReceiveHello, queueVars
  <2> QED
    BY <2>1, <2>2 DEF SlotInv, presentationPending
<1>2. ASSUME readySent' = readySent, pending' = pending \/ pending' = NoPresentation PROVE SlotInv'
  BY <1>2 DEF SlotInv, presentationPending
<1>3. ASSUME NEW cause, Reject(cause) PROVE SlotInv'
  BY <1>2, <1>3, FailEffect DEF Reject, sessionVars
<1>4. CASE handle_shutdown
  BY <1>2, <1>4, EnqueueEffect DEF handle_shutdown, sessionVars
<1>5. CASE RejectHello(m)
  BY <1>3, <1>5 DEF RejectHello
<1>6. CASE handle_frame_begin(m)
  BY <1>2, <1>3, <1>6 DEF handle_frame_begin, sessionVars
<1>7. CASE handle_frame_data(m)
  BY <1>2, <1>3, <1>7 DEF handle_frame_data, sessionVars
<1>8. CASE handle_frame_reference(m, presented)
  <2>1. CASE PresentFrame(m)
    <3>1. readySent /\ readySent' = readySent
      BY <2>1 DEF PresentFrame, Presentable, EndsOpenFrame, OneFrameInFlight, sessionVars
    <3> QED
      BY <3>1 DEF SlotInv
  <2>2. CASE DropFrame(m)
    BY <1>2, <2>2 DEF DropFrame, sessionVars
  <2> QED
    BY <1>3, <1>8, <2>1, <2>2 DEF handle_frame_reference, PresentFails, RejectReference
<1>9. CASE handle_pong(m)
  BY <1>2, <1>3, <1>9 DEF handle_pong, queueVars, sessionVars
<1> QED
  BY <1>1, <1>3, <1>4, <1>5, <1>6, <1>7, <1>8, <1>9 DEF Receive

LEMMA SlotCalls ==
    ASSUME SlotInv, Calls \/ ConsumeHead \/ UNCHANGED helperVars
    PROVE  SlotInv'
<1>2. ASSUME readySent => readySent', pending' = pending \/ pending' = NoPresentation PROVE SlotInv'
  BY <1>2 DEF SlotInv, presentationPending
<1>3. ASSUME NEW cause, Reject(cause) PROVE SlotInv'
  BY <1>2, <1>3, FailEffect DEF Reject, sessionVars
<1>4. CASE suspend
  BY <1>2, <1>4, EnqueueEffect DEF suspend
<1>5. CASE \E resized \in BOOLEAN : resume(resized)
  <2>1. PICK resized \in BOOLEAN : resume(resized)
    BY <1>5
  <2>2. CASE helloReceived
    <3>1. pending' = pending \/ pending' = NoPresentation
      BY <2>1, <2>2, EnqueueEffect DEF resume
    <3>2. readySent' = (readySent \/ error' = "none")
      BY <2>1, <2>2 DEF resume
    <3>3. readySent => readySent'
      BY <3>2, Zenon
    <3> QED
      BY <1>2, <3>1, <3>3
  <2>3. CASE ~helloReceived
    BY <1>2, <2>1, <2>3 DEF resume, queueVars
  <2> QED
    BY <2>2, <2>3
<1>6. CASE report_fatal
  BY <1>3, <1>6 DEF report_fatal
<1>7. CASE send_input
  BY <1>2, <1>7, EnqueueEffect DEF send_input, sessionVars
<1>8. CASE \E gen \in Generations, serial \in Serials : complete_frame(gen, serial)
  <2>1. PICK gen \in Generations, serial \in Serials : complete_frame(gen, serial)
    BY <1>8
  <2>2. CASE UNCHANGED helperVars
    BY <1>2, <2>2 DEF helperVars, sessionVars, queueVars
  <2>3. CASE Reject(CompletionError)
    BY <1>3, <2>3
  <2>4. CASE /\ UNCHANGED sessionVars
             /\ enqueue_or_fail(outbound, FrameComplete(gen, serial), frame, NoPresentation)
    BY <1>2, <2>4, EnqueueEffect DEF sessionVars
  <2> QED
    BY <2>1, <2>2, <2>3, <2>4 DEF complete_frame
<1>9. CASE \E token \in Tokens : send_ping(token)
  BY <1>2, <1>9, EnqueueEffect DEF send_ping, sessionVars
<1>10. CASE take_pong \/ StartHead \/ ConsumeHead \/ UNCHANGED helperVars
  BY <1>2, <1>10 DEF take_pong, StartHead, ConsumeHead, helperVars, sessionVars, queueVars
<1> QED
  BY <1>4, <1>5, <1>6, <1>7, <1>8, <1>9, <1>10 DEF Calls

\* How the messages under way change.
LEMMA TransitMoves ==
    ASSUME SessionType
    PROVE  /\ toCore \in Seq(HelperMessages) /\ Texts(outbound) \in Seq(HelperMessages)
           /\ Transit \in Seq(HelperMessages)
           /\ Flushes => Transit' = Transit
           /\ toCore # << >> => /\ Transit # << >> /\ Head(Transit) = Head(toCore)
                                /\ Tail(Transit) = Tail(toCore) \o Texts(outbound)
<1>1. /\ toCore \in Seq(HelperMessages) /\ outbound \in Seq(Records)
      /\ Texts(outbound) \in Seq(HelperMessages)
  BY TextsMove DEF SessionType, SocketType, QueueInv
<1> DEFINE c == toCore
           t == Texts(outbound)
<1>2. c \in Seq(HelperMessages) /\ t \in Seq(HelperMessages) /\ Transit = c \o t
  BY <1>1 DEF Transit
<1>3. ASSUME Flushes PROVE Transit' = Transit
  <2>1. outbound # << >> /\ outbound' = Tail(outbound) /\ toCore' = Append(toCore, Head(outbound).message)
    BY <1>3 DEF Flushes, ConsumeHead
  <2>2. t # << >> /\ Head(t) = Head(outbound).message /\ Texts(outbound') = Tail(t)
    BY <1>1, <2>1, TextsMove
  <2>3. Transit' = Append(c, Head(t)) \o Tail(t)
    BY <2>1, <2>2 DEF Transit
  <2> HIDE DEF c, t
  <2> QED
    BY <1>2, <2>2, <2>3
<1>4. ASSUME toCore # << >>
      PROVE  /\ Transit # << >> /\ Head(Transit) = Head(toCore)
             /\ Tail(Transit) = Tail(toCore) \o Texts(outbound)
  <2>1. c # << >>
    BY <1>4
  <2> HIDE DEF c, t
  <2>2. c \o t # << >> /\ Head(c \o t) = Head(c) /\ Tail(c \o t) = Tail(c) \o t
    BY <1>2, <2>1
  <2> QED
    BY <1>2, <2>2 DEF c, t
<1>5. Transit \in Seq(HelperMessages)
  <2> HIDE DEF c, t
  <2> QED
    BY <1>2
<1> QED
  BY <1>1, <1>3, <1>4, <1>5

\* The path to what the helper knows.
Heard(e) == Along(Hears, Views, Transit, ClientView, e)

LEMMA HearTells ==
    ASSUME SessionType, NEW e \in Views, Heard(e), error = "none" => e = HelperView,
           Keeps \/ Tells, UNCHANGED <<toCore, ownershipVars>>
    PROVE  \E v \in Views : /\ Along(Hears, Views, Transit', ClientView', v)
                            /\ error' = "none" => v = HelperView'
<1>0. /\ ClientView' = ClientView /\ outbound \in Seq(Records) /\ toCore \in Seq(HelperMessages)
      /\ Transit' = toCore \o Texts(outbound')
  BY DEF ClientView, View, ownershipVars, SessionType, QueueInv, SocketType, Transit
<1>1. CASE Keeps
  BY <1>0, <1>1 DEF Keeps, Heard, Transit
<1>2. CASE Tells
  <2>1. PICK q \in {outbound, purge_unsent_input(outbound)} :
          \/ outbound' = q /\ error' # "none"
          \/ \E m \in HelperMessages, v \in Views :
                /\ outbound' = enqueue_message(q, m)
                /\ Hear(HelperView, m, v) /\ Told(m)
                /\ error' = "none" => HelperView' = v
    BY <1>2 DEF Tells
  <2>2. q \in Seq(Records) /\ Along(Hears, Views, toCore \o Texts(q), ClientView, e)
    <3>1. ASSUME NEW u, NEW m, NEW w, <<u, m, w>> \in Hears, m.type = "input" PROVE u = w
      <4>1. Hear(u, m, w)
        BY <3>1, HearsIs
      <4> QED
        BY <3>1, <4>1 DEF Hear
    <3>2. Along(Hears, Views, toCore \o Texts(outbound), ClientView, e)
      BY DEF Heard, Transit
    <3> QED
      BY <1>0, <2>1, <3>1, <3>2, PurgeAlong
  <2>3. e = HelperView
    BY <1>2 DEF Tells
  <2>4. CASE outbound' = q /\ error' # "none"
    BY <1>0, <2>2, <2>4
  <2>5. CASE \E m \in HelperMessages, v \in Views :
                /\ outbound' = enqueue_message(q, m)
                /\ Hear(HelperView, m, v) /\ Told(m)
                /\ error' = "none" => HelperView' = v
    <3>1. PICK m \in HelperMessages, v \in Views :
                /\ outbound' = enqueue_message(q, m)
                /\ Hear(HelperView, m, v) /\ Told(m)
                /\ error' = "none" => HelperView' = v
      BY <2>5
    <3>2. Texts(outbound') = Append(Texts(q), m) /\ Texts(q) \in Seq(HelperMessages)
      BY <2>2, <3>1, TextsMove
    <3>3. Transit' = Append(toCore \o Texts(q), m) /\ toCore \o Texts(q) \in Seq(HelperMessages)
      <4> DEFINE t == Texts(q)
      <4>1. t \in Seq(HelperMessages)
        BY <3>2
      <4> HIDE DEF t
      <4>2. toCore \o Append(t, m) = Append(toCore \o t, m) /\ toCore \o t \in Seq(HelperMessages)
        BY <1>0, <4>1, AppendAssociates
      <4> QED
        BY <1>0, <3>2, <4>2 DEF t
    <3>4. <<e, m, v>> \in Hears
      BY <2>3, <3>1, HearsIs
    <3> DEFINE t == toCore \o Texts(q)
    <3>5. t \in Seq(HelperMessages) /\ Along(Hears, Views, t, ClientView, e) /\ Transit' = Append(t, m)
      BY <2>2, <3>3
    <3> HIDE DEF t
    <3>6. Along(Hears, Views, Append(t, m), ClientView, v)
      BY <3>4, <3>5, AlongAppend
    <3> QED
      BY <1>0, <3>1, <3>5, <3>6
  <2> QED
    BY <2>1, <2>4, <2>5
<1> QED
  BY <1>1, <1>2

\* The core hears the first of the messages.
LEMMA HearNext ==
    ASSUME SessionType, NEW e, Heard(e), toCore # << >>
    PROVE  \E v \in Views :
              /\ Hear(ClientView, Head(toCore), v) /\ Head(toCore) \in HelperMessages
              /\ ClientView \in Views
              /\ Along(Hears, Views, Tail(toCore) \o Texts(outbound), v, e)
<1>1. /\ Transit \in Seq(HelperMessages) /\ Transit # << >> /\ Head(Transit) = Head(toCore)
      /\ Tail(Transit) = Tail(toCore) \o Texts(outbound)
  BY TransitMoves
<1>2. PICK v \in Views : /\ <<ClientView, Head(Transit), v>> \in Hears
                         /\ Along(Hears, Views, Tail(Transit), v, e)
  BY <1>1, AlongTail DEF Heard
<1> QED
  BY <1>1, <1>2, HearsIs

LEMMA HearStep ==
    ASSUME SessionType, SessionType', OwedInv, OwnInv, HelperInv, HearInv, [Next]_vars
    PROVE  HearInv'
<1>0. HelperTypeOK /\ QueueInv /\ OneFrameInFlight /\ SlotInv
  BY DEF SessionType, HelperInv, HearInv, SlotInv
<1>1. CASE WorkerStep /\ UNCHANGED coreSide
  <2>1. UNCHANGED <<ownershipVars, cError>>
    BY <1>1 DEF coreSide, clientVars, failVars
  <2>2. CASE \/ Drains
             \/ (Calls \/ UNCHANGED helperVars) /\ UNCHANGED toCore
    <3>1. SlotInv'
      BY <1>0, <2>2, SlotReceive, SlotCalls DEF Drains
    <3>2. (Keeps \/ Tells) /\ UNCHANGED toCore
      <4>1. CASE Drains
        BY <1>0, <4>1, ReceiveTells DEF Drains
      <4>2. CASE Calls /\ UNCHANGED toCore
        BY <1>0, <4>2, CallTells
      <4>3. CASE UNCHANGED helperVars /\ UNCHANGED toCore
        BY <4>3, SilentTells DEF helperVars, sessionVars, queueVars
      <4> QED
        BY <2>2, <4>1, <4>2, <4>3
    <3>3. CASE Up'
      <4>1. PICK e \in Views : Heard(e) /\ (error = "none" => e = HelperView)
        BY <2>1, <3>3 DEF HearInv, Heard, Up
      <4>2. \E v \in Views : /\ Along(Hears, Views, Transit', ClientView', v)
                             /\ error' = "none" => v = HelperView'
        BY <2>1, <3>2, <4>1, HearTells
      <4> QED
        BY <3>1, <4>2 DEF HearInv, SlotInv
    <3> QED
      BY <3>1, <3>3 DEF HearInv, SlotInv
  <2>3. CASE Flushes
    <3>1. SlotInv'
      BY <1>0, <2>3, SlotCalls DEF Flushes
    <3>2. Transit' = Transit /\ UNCHANGED <<error, HelperView, ClientView>>
      BY <2>1, <2>3, TransitMoves
         DEF Flushes, ConsumeHead, HelperView, ClientView, View, sessionVars, ownershipVars
    <3> QED
      BY <2>1, <3>1, <3>2 DEF HearInv, SlotInv, Up
  <2> QED
    BY <1>1, <2>2, <2>3, WorkerMoves
<1>2. CASE (CoreStep \/ CoreChoice) /\ UNCHANGED workerSide
  <2>0. UNCHANGED helperVars
    BY <1>2 DEF workerSide
  <2>1. /\ SlotInv' /\ UNCHANGED <<error, HelperView, outbound>>
    BY <1>0, <2>0, SlotCalls DEF helperVars, sessionVars, queueVars, HelperView, View
  <2>2. CASE ~Up'
    BY <2>1, <2>2 DEF HearInv, SlotInv
  <2>3. CASE Up' /\ CoreRead
    <3> DEFINE m == Head(toCore)
    <3>1. Up /\ Heeds(m) /\ toCore # << >> /\ toCore' = Tail(toCore)
      BY <2>3, HeedCases DEF Up
    <3>2. PICK e \in Views : Heard(e) /\ (error = "none" => e = HelperView)
      BY <3>1 DEF HearInv, Heard
    <3>3. PICK v \in Views : /\ Hear(ClientView, m, v) /\ ClientView \in Views
                             /\ Along(Hears, Views, Tail(toCore) \o Texts(outbound), v, e)
      BY <3>1, <3>2, HearNext
    <3>4. Transit' = Tail(toCore) \o Texts(outbound)
      BY <2>1, <3>1 DEF Transit
    <3> HIDE DEF m
    <3>5. ClientView' = v
      <4>0. /\ ClientView.ready = hasOutput /\ ClientView.active = helperActive
            /\ ClientView.generation = cGeneration
        BY DEF ClientView, View
      <4>1. CASE OkReady(m)
        BY <3>3, <4>1 DEF OkReady, Hear, ClientView
      <4>2. CASE OkSuspend(m)
        <5>1. hasOutput \in BOOLEAN
          BY <3>1 DEF OwnInv
        <5> QED
          BY <3>3, <4>0, <4>2, <5>1 DEF OkSuspend, Hear, ClientView
      <4>3. CASE OkResume(m)
        BY <3>3, <4>0, <4>3 DEF OkResume, ExpectedResume, Hear, ClientView, OwnInv
      <4>4. CASE OkInput(m) \/ OkComplete(m) \/ OkPing(m) \/ OkAccepted(m)
        <5>1. UNCHANGED <<hasOutput, helperActive, cGeneration>>
          BY <4>4 DEF OkInput, OkComplete, OkPing, OkAccepted
        <5>2. v = ClientView
          BY <3>3, <4>4 DEF OkInput, OkComplete, OkPing, OkAccepted, Hear
        <5> QED
          BY <5>1, <5>2 DEF ClientView
      <4> QED
        BY <3>1, <4>1, <4>2, <4>3, <4>4 DEF Heeds
    <3>6. Along(Hears, Views, Transit', ClientView', e)
      BY <3>3, <3>4, <3>5
    <3> QED
      BY <2>1, <3>2, <3>6 DEF HearInv, SlotInv
  <2>4. CASE Up' /\ ~CoreRead
    <3>1. UNCHANGED <<ownershipVars, toCore>>
      BY <1>2, <2>4, CoreKeepsOwnership
    <3>2. Up
      BY <2>4, ErrorStays DEF Up
    <3>3. ClientView' = ClientView /\ Transit' = Transit
      BY <2>1, <3>1 DEF ClientView, View, ownershipVars, Transit
    <3> QED
      BY <2>1, <3>2, <3>3 DEF HearInv, SlotInv
  <2> QED
    BY <2>2, <2>3, <2>4
<1>3. CASE UNCHANGED <<helperVars, toCore, ownershipVars, cError>>
  <2>1. SlotInv'
    BY <1>0, <1>3, SlotCalls
  <2>2. UNCHANGED <<Transit, ClientView, HelperView, error>>
    BY <1>3 DEF Transit, ClientView, HelperView, View, helperVars, sessionVars, queueVars, ownershipVars
  <2> QED
    BY <1>3, <2>1, <2>2 DEF HearInv, SlotInv, Up
<1>4. CASE ((SwitchAway \/ SwitchBack) /\ UNCHANGED coreSide) \/ UNCHANGED vars
  <2>1. UNCHANGED <<helperVars, toCore, ownershipVars, cError>>
    BY <1>4 DEF SwitchAway, SwitchBack, coreSide, clientVars, failVars, vars, socketVars
  <2> QED
    BY <1>3, <2>1
<1> QED
  BY <1>1, <1>2, <1>4, SessionSteps

LEMMA HearAlways == Spec => []HearInv
<1>1. Init => HearInv
  <2> SUFFICES ASSUME Init PROVE HearInv
    OBVIOUS
  <2>1. /\ toCore = << >> /\ outbound = << >> /\ ~hasOutput /\ ~helperActive /\ cGeneration = 0
        /\ pending = NoPresentation /\ readySent = FALSE /\ hasOutput = FALSE /\ helperActive = FALSE
    BY Zenon DEF Init, WorkerInit, CoreInit, ClientInit, HelperInit, SocketInit
  <2>2. Transit = << >>
    <3>1. Texts(<< >>) = << >>
      BY DEF Texts
    <3>2. << >> \o << >> = << >>
      OBVIOUS
    <3> QED
      BY <2>1, <3>1, <3>2, Zenon DEF Transit
  <2>3. ClientView = View(FALSE, FALSE, 0) /\ HelperView = View(FALSE, FALSE, 0)
    BY <2>1 DEF ClientView, HelperView, View
  <2>4. View(FALSE, FALSE, 0) \in Views
    BY ViewFields
  <2>5. Along(Hears, Views, << >>, ClientView, ClientView)
    BY <2>3, <2>4, AlongEmpty
  <2> QED
    BY <2>1, <2>2, <2>3, <2>4, <2>5 DEF HearInv, presentationPending
<1>2. SessionType /\ SessionType' /\ OwedInv /\ OwnInv /\ HelperInv /\ HearInv /\ [Next]_vars => HearInv'
  BY HearStep
<1>3. Spec => [](OwnInv)
  BY ClientAlways, PTL DEF ClientInv
<1>4. Spec => []HelperInv
  BY HelperInSession, PTL
<1> QED
  BY <1>1, <1>2, <1>3, <1>4, OwedAlways, SessionTypeCorrect, PTL DEF Spec

(***************************************************************************)
(* The messages of a queue, whatever their order.                          *)
(***************************************************************************)
In(queue) == {queue[i] : i \in DOMAIN queue}

LEMMA InMoves ==
    ASSUME NEW S, NEW q \in Seq(S)
    PROVE  /\ In(q) \subseteq S
           /\ \A m \in S : In(Append(q, m)) = In(q) \cup {m}
           /\ q # << >> => Head(q) \in In(q) /\ In(Tail(q)) \subseteq In(q)
<1>1. In(q) \subseteq S
  BY DEF In
<1>2. ASSUME NEW m \in S PROVE In(Append(q, m)) = In(q) \cup {m}
  <2> DEFINE a == Append(q, m)
             n == Len(q)
  <2>1. /\ n \in Nat /\ DOMAIN a = 1 .. n + 1 /\ DOMAIN q = 1 .. n
        /\ a[n + 1] = m /\ \A i \in 1 .. n : a[i] = q[i]
    OBVIOUS
  <2> HIDE DEF a, n
  <2>2. In(a) \subseteq In(q) \cup {m}
    <3>1. ASSUME NEW i \in 1 .. n + 1 PROVE a[i] \in In(q) \cup {m}
      <4>1. i \in 1 .. n \/ i = n + 1
        BY <2>1
      <4> QED
        BY <2>1, <4>1 DEF In
    <3> QED
      BY <2>1, <3>1 DEF In
  <2>3. In(q) \cup {m} \subseteq In(a)
    <3>1. \A i \in 1 .. n : i \in 1 .. n + 1
      BY <2>1
    <3>2. n + 1 \in 1 .. n + 1
      BY <2>1
    <3> QED
      BY <2>1, <3>1, <3>2 DEF In
  <2> QED
    BY <2>2, <2>3 DEF a
<1>3. ASSUME q # << >> PROVE Head(q) \in In(q) /\ In(Tail(q)) \subseteq In(q)
  <2> DEFINE t == Tail(q)
             n == Len(q)
  <2>1. /\ n \in Nat /\ n > 0 /\ DOMAIN t = 1 .. n - 1 /\ DOMAIN q = 1 .. n
        /\ Head(q) = q[1] /\ \A i \in 1 .. n - 1 : t[i] = q[i + 1]
    BY <1>3
  <2> HIDE DEF t, n
  <2>2. \A i \in 1 .. n - 1 : i + 1 \in 1 .. n
    BY <2>1
  <2>3. 1 \in 1 .. n
    BY <2>1
  <2>4. In(t) \subseteq In(q)
    BY <2>1, <2>2 DEF In
  <2> QED
    BY <2>1, <2>3, <2>4 DEF In, t
<1> QED
  BY <1>1, <1>2, <1>3

LEMMA InBoth ==
    ASSUME NEW S, NEW a \in Seq(S), NEW b \in Seq(S)
    PROVE  In(a \o b) = In(a) \cup In(b)
<1> DEFINE c == a \o b
           n == Len(a)
           k == Len(b)
<1>1. /\ n \in Nat /\ k \in Nat /\ DOMAIN c = 1 .. n + k /\ DOMAIN a = 1 .. n /\ DOMAIN b = 1 .. k
      /\ \A i \in 1 .. n : c[i] = a[i]
      /\ \A i \in 1 .. k : c[n + i] = b[i]
  OBVIOUS
<1> HIDE DEF c, n, k
<1>2. In(c) \subseteq In(a) \cup In(b)
  <2>1. ASSUME NEW i \in 1 .. n + k PROVE c[i] \in In(a) \cup In(b)
    <3>1. CASE i \in 1 .. n
      BY <1>1, <3>1 DEF In
    <3>2. CASE i \notin 1 .. n
      <4> DEFINE j == i - n
      <4>1. j \in 1 .. k /\ n + j = i
        BY <1>1, <3>2
      <4> HIDE DEF j
      <4> QED
        BY <1>1, <4>1 DEF In
    <3> QED
      BY <3>1, <3>2
  <2> QED
    BY <1>1, <2>1 DEF In
<1>3. In(a) \cup In(b) \subseteq In(c)
  <2>1. \A i \in 1 .. n : i \in 1 .. n + k
    BY <1>1
  <2>2. \A i \in 1 .. k : n + i \in 1 .. n + k
    BY <1>1
  <2> QED
    BY <1>1, <2>1, <2>2 DEF In
<1> QED
  BY <1>2, <1>3 DEF c

\* Purging drops messages and brings none.
LEMMA PurgeIn ==
    ASSUME NEW q \in Seq(Records)
    PROVE  In(Texts(purge_unsent_input(q))) \subseteq In(Texts(q))
<1> DEFINE k == Kept(q)
           n == Len(q)
<1>1. /\ purge_unsent_input(q) = k[n]
      /\ k \in [0 .. n -> Seq(Records)] /\ k[0] = << >>
      /\ \A i \in 1 .. n : k[i] = IF StaysQueued(q[i]) THEN Append(k[i - 1], q[i]) ELSE k[i - 1]
  BY KeptPass
<1>2. n \in Nat /\ \A i \in 1 .. n : q[i] \in Records /\ q[i].message \in In(Texts(q))
  <2>1. \A i \in 1 .. n : Texts(q)[i] = q[i].message /\ i \in DOMAIN Texts(q)
    BY DEF Texts
  <2> HIDE DEF Texts
  <2> QED
    BY <2>1 DEF In
<1> HIDE DEF k, n
<1> DEFINE H == {i \in 0 .. n : In(Texts(k[i])) \subseteq In(Texts(q))}
<1>3. 0 \in H
  <2>1. In(Texts(k[0])) = {}
    BY <1>1 DEF In, Texts
  <2> QED
    BY <1>2, <2>1
<1>4. ASSUME NEW i \in 1 .. n, i - 1 \in H PROVE i \in H
  <2>1. i \in 0 .. n /\ i - 1 \in 0 .. n /\ k[i - 1] \in Seq(Records) /\ q[i] \in Records
    BY <1>1, <1>2
  <2>2. CASE k[i] = Append(k[i - 1], q[i])
    <3>1. Texts(k[i]) = Append(Texts(k[i - 1]), q[i].message)
          /\ Texts(k[i - 1]) \in Seq(HelperMessages) /\ q[i].message \in HelperMessages
      BY <2>1, <2>2, TextsMove DEF Records
    <3>2. In(Texts(k[i])) = In(Texts(k[i - 1])) \cup {q[i].message}
      BY <3>1, InMoves
    <3> QED
      BY <1>2, <1>4, <2>1, <3>2
  <2>3. CASE k[i] = k[i - 1]
    BY <1>4, <2>1, <2>3
  <2> QED
    BY <1>1, <2>2, <2>3
<1>5. H \in SUBSET Nat
  BY <1>2
<1> HIDE DEF H
<1>6. n \in H
  BY <1>2, <1>3, <1>4, <1>5, Induct
<1> QED
  BY <1>1, <1>6 DEF H

\* A message under way is an old one, or what the helper has just told.
LEMMA ToldIn ==
    ASSUME SessionType, Keeps \/ Tells, UNCHANGED toCore
    PROVE  \A x \in In(Transit') : x \in In(Transit) \/ Told(x)
<1>0. /\ outbound \in Seq(Records) /\ toCore \in Seq(HelperMessages)
      /\ Texts(outbound) \in Seq(HelperMessages) /\ Transit' = toCore \o Texts(outbound')
      /\ Transit = toCore \o Texts(outbound)
  BY TransitMoves DEF SessionType, QueueInv, SocketType, Transit
<1>1. ASSUME NEW q \in Seq(HelperMessages), NEW told, Texts(outbound') = q,
             In(q) \subseteq In(Texts(outbound)) \cup told
      PROVE  In(Transit') \subseteq In(Transit) \cup told
  <2>1. In(toCore \o q) = In(toCore) \cup In(q)
    BY <1>0, InBoth
  <2>2. In(toCore \o Texts(outbound)) = In(toCore) \cup In(Texts(outbound))
    BY <1>0, InBoth
  <2> QED
    BY <1>0, <1>1, <2>1, <2>2
<1>2. CASE Keeps
  BY <1>0, <1>2 DEF Keeps
<1>3. CASE Tells
  <2>1. PICK q \in {outbound, purge_unsent_input(outbound)} :
          \/ outbound' = q
          \/ \E m \in HelperMessages : outbound' = enqueue_message(q, m) /\ Told(m)
    BY <1>3 DEF Tells
  <2>2. q \in Seq(Records) /\ In(Texts(q)) \subseteq In(Texts(outbound))
    BY <1>0, <2>1, PurgeIn, KeptStay
  <2>3. Texts(q) \in Seq(HelperMessages)
    BY <2>2, TextsMove
  <2>4. CASE outbound' = q
    BY <1>1, <2>2, <2>3, <2>4
  <2>5. CASE \E m \in HelperMessages : outbound' = enqueue_message(q, m) /\ Told(m)
    <3>1. PICK m \in HelperMessages : outbound' = enqueue_message(q, m) /\ Told(m)
      BY <2>5
    <3>2. Texts(outbound') = Append(Texts(q), m)
      BY <2>2, <3>1, TextsMove
    <3>3. In(Append(Texts(q), m)) = In(Texts(q)) \cup {m} /\ Append(Texts(q), m) \in Seq(HelperMessages)
      BY <2>3, InMoves
    <3>4. In(Append(Texts(q), m)) \subseteq In(Texts(outbound)) \cup {m}
      BY <2>2, <3>3
    <3>5. In(Transit') \subseteq In(Transit) \cup {m}
      BY <1>1, <3>2, <3>3, <3>4
    <3> QED
      BY <3>1, <3>5
  <2> QED
    BY <2>1, <2>4, <2>5
<1> QED
  BY <1>2, <1>3

\* Nobody hears of what was not asked: READY follows HELLO, and the answer to a
\* shutdown request follows the request.
SaidInv ==
    /\ helloReceived => helloSent
    /\ shutdownRequested => shutdownSent
    /\ \A x \in In(toHelper) : /\ x.type = "hello" => helloSent
                               /\ x.type = "shutdown" => shutdownSent
    /\ \A x \in In(Transit) : /\ x.type = "ready" => helloSent
                              /\ x.type = "accepted" => shutdownSent

\* Every step of the worker, by what it tells.
LEMMA WorkerTells ==
    ASSUME SessionType, HelperInv, HearInv, WorkerStep
    PROVE  \/ Flushes
           \/ Drains /\ (Keeps \/ Tells)
           \/ /\ Calls \/ UNCHANGED helperVars
              /\ Keeps \/ Tells
              /\ UNCHANGED <<toCore, toHelper>>
<1>0. HelperTypeOK /\ QueueInv /\ OneFrameInFlight /\ SlotInv
  BY DEF SessionType, HelperInv, HearInv, SlotInv
<1>1. CASE Drains
  BY <1>0, <1>1, ReceiveTells DEF Drains
<1>2. CASE Flushes
  BY <1>2
<1>3. CASE Calls /\ UNCHANGED <<toCore, toHelper>>
  BY <1>0, <1>3, CallTells
<1>4. CASE UNCHANGED helperVars /\ UNCHANGED <<toCore, toHelper>>
  BY <1>4, SilentTells DEF helperVars, sessionVars, queueVars
<1> QED
  BY <1>1, <1>2, <1>3, <1>4, WorkerMoves

LEMMA ReceiveSaid ==
    ASSUME NEW m, NEW presented, Receive(m, presented)
    PROVE  /\ helloReceived' => helloReceived \/ m.type = "hello"
           /\ shutdownRequested' => shutdownRequested \/ m.type = "shutdown"
<1>1. CASE UNCHANGED <<helloReceived, shutdownRequested>>
  BY <1>1
<1>2. \A cause : Reject(cause) => UNCHANGED <<helloReceived, shutdownRequested>>
  BY DEF Reject, sessionVars, controlVars
<1>3. CASE ReceiveHello(m)
  BY <1>3 DEF ReceiveHello, controlVars
<1>4. CASE m.type = "shutdown" /\ handle_shutdown
  BY <1>4 DEF handle_shutdown, sessionVars
<1>5. CASE RejectHello(m)
  BY <1>1, <1>2, <1>5 DEF RejectHello
<1>6. CASE handle_frame_begin(m)
  BY <1>1, <1>2, <1>6 DEF handle_frame_begin, sessionVars, controlVars
<1>7. CASE handle_frame_data(m)
  BY <1>1, <1>2, <1>7 DEF handle_frame_data, sessionVars, controlVars
<1>8. CASE handle_frame_reference(m, presented)
  BY <1>1, <1>2, <1>8
     DEF handle_frame_reference, DropFrame, PresentFrame, PresentFails, RejectReference,
         sessionVars, controlVars
<1>9. CASE handle_pong(m)
  BY <1>1, <1>2, <1>9 DEF handle_pong, sessionVars, controlVars
<1> QED
  BY <1>1, <1>2, <1>3, <1>4, <1>5, <1>6, <1>7, <1>8, <1>9 DEF Receive

LEMMA CallSaid ==
    ASSUME Calls \/ ConsumeHead \/ UNCHANGED helperVars
    PROVE  UNCHANGED <<helloReceived, shutdownRequested>>
<1>1. CASE suspend \/ send_input \/ take_pong \/ report_fatal \/ StartHead \/ ConsumeHead
             \/ UNCHANGED helperVars
  BY <1>1
     DEF suspend, send_input, take_pong, report_fatal, StartHead, ConsumeHead, helperVars,
         Reject, sessionVars, controlVars
<1>2. CASE \E resized \in BOOLEAN : resume(resized)
  BY <1>2 DEF resume, controlVars
<1>3. CASE \E gen \in Generations, serial \in Serials : complete_frame(gen, serial)
  BY <1>3 DEF complete_frame, helperVars, Reject, sessionVars, controlVars
<1>4. CASE \E token \in Tokens : send_ping(token)
  BY <1>4 DEF send_ping, sessionVars
<1> QED
  BY <1>1, <1>2, <1>3, <1>4 DEF Calls

\* What the core sends, it has sent.
LEMMA CoreSaid ==
    ASSUME SessionType, OwedInv, SendInv, CoreStep \/ CoreChoice
    PROVE  /\ helloSent => helloSent'
           /\ shutdownSent => shutdownSent'
           /\ CoreRead \/ UNCHANGED toCore
           /\ \/ UNCHANGED toHelper
              \/ /\ CoreWrite /\ Outgoing[1] \in CoreMessage /\ toHelper' = Append(toHelper, Outgoing[1])
                 /\ Outgoing[1].type = "hello" => helloSent'
                 /\ Outgoing[1].type = "shutdown" => shutdownSent'
<1>0. SocketType /\ ClientType /\ CoreType
  BY DEF SessionType, CoreType
<1>1. CASE UNCHANGED <<helloSent, shutdownSent, toHelper, toCore>>
  BY <1>1
<1>2. CASE CoreRead
  BY <1>0, <1>2, ReadEffect DEF CoreRead
<1>3. CASE CoreWrite
  <2>1. /\ Up /\ Outgoing # << >>
        /\ helloSent' = (helloSent \/ Outgoing[1].type = "hello")
        /\ shutdownSent' = (shutdownSent \/ Outgoing[1].type = "shutdown")
        /\ toHelper' = Append(toHelper, Outgoing[1]) /\ UNCHANGED toCore
    BY <1>3 DEF CoreWrite, SendMessage, Up
  <2>2. Outgoing[1] \in CoreMessage
    BY <1>0, <2>1, OutgoingPieces
  <2>3. /\ helloSent \/ Outgoing[1].type = "hello" => helloSent'
        /\ shutdownSent \/ Outgoing[1].type = "shutdown" => shutdownSent'
    BY <2>1, Zenon
  <2> QED
    BY <1>3, <2>1, <2>2, <2>3
<1>4. CASE CoreReadsEnd \/ CoreWriteFails
  BY <1>1, <1>4, EndEffect DEF shutdownVars
<1>5. CASE CoreWriteBlocks
  BY <1>1, <1>5 DEF CoreWriteBlocks, StageMessage, shutdownVars, socketVars
<1>6. CASE CoreStarts \/ CorePresents
  BY <1>0, <1>1, <1>6, PresentEffects DEF shutdownVars
<1>7. CASE CoreReleases \/ CoreAcquires
  BY <1>1, <1>7, AnswerEffect
<1>8. CASE CoreFrameCompletes
  BY <1>1, <1>8, CompletesEffect
<1>9. CASE CoreLogsOut
  BY <1>1, <1>9, LogOutEffect
<1>10. CASE CoreIsReady \/ CoreHandlesInput \/ CoreQuits \/ CoreFails \/ CoreTimesOut
              \/ CoreCrashes \/ CoreDraws
  BY <1>1, <1>10, Idles DEF shutdownVars
<1> QED
  BY <1>2, <1>3, <1>4, <1>5, <1>6, <1>7, <1>8, <1>9, <1>10, CoreCases

LEMMA SaidStep ==
    ASSUME SessionType, SessionType', OwedInv, SendInv, HelperInv, HearInv, SaidInv, [Next]_vars
    PROVE  SaidInv'
<1>0. toHelper \in Seq(CoreMessage) /\ toCore \in Seq(HelperMessages)
  BY DEF SessionType, SocketType
<1>1. CASE WorkerStep /\ UNCHANGED coreSide
  <2>0. UNCHANGED <<helloSent, shutdownSent>>
    BY <1>1 DEF coreSide, clientVars, shutdownVars
  <2>1. CASE Flushes
    <3>1. Transit' = Transit /\ UNCHANGED <<helloReceived, shutdownRequested, toHelper>>
      BY <2>1, TransitMoves, CallSaid DEF Flushes
    <3> QED
      BY <2>0, <3>1 DEF SaidInv
  <2>2. ASSUME Keeps \/ Tells, UNCHANGED toCore, helloReceived' => helloSent,
               shutdownRequested' => shutdownSent, In(toHelper') \subseteq In(toHelper)
        PROVE  SaidInv'
    <3>1. \A x \in In(Transit') : x \in In(Transit) \/ Told(x)
      BY <2>2, ToldIn
    <3>2. \A x \in In(Transit') : /\ x.type = "ready" => helloSent
                                  /\ x.type = "accepted" => shutdownSent
      BY <2>2, <3>1 DEF Told, SaidInv
    <3> QED
      BY <2>0, <2>2, <3>2 DEF SaidInv
  <2>3. CASE Drains /\ (Keeps \/ Tells)
    <3> DEFINE m == Head(toHelper)
    <3>1. /\ toHelper # << >> /\ toHelper' = Tail(toHelper) /\ Receive(m, HostPresents(m))
          /\ UNCHANGED toCore
      BY <2>3 DEF Drains
    <3>2. m \in In(toHelper) /\ In(toHelper') \subseteq In(toHelper)
      BY <1>0, <3>1, InMoves
    <3>3. /\ helloReceived' => helloReceived \/ m.type = "hello"
          /\ shutdownRequested' => shutdownRequested \/ m.type = "shutdown"
      BY <3>1, ReceiveSaid
    <3> HIDE DEF m
    <3>4. (helloReceived' => helloSent) /\ (shutdownRequested' => shutdownSent)
      BY <3>2, <3>3 DEF SaidInv
    <3> QED
      BY <2>2, <2>3, <3>1, <3>2, <3>4
  <2>4. CASE /\ Calls \/ UNCHANGED helperVars
             /\ Keeps \/ Tells
             /\ UNCHANGED <<toCore, toHelper>>
    <3>1. UNCHANGED <<helloReceived, shutdownRequested>>
      BY <2>4, CallSaid
    <3> QED
      BY <2>2, <2>4, <3>1 DEF SaidInv
  <2> QED
    BY <1>1, <2>1, <2>3, <2>4, WorkerTells
<1>2. CASE (CoreStep \/ CoreChoice) /\ UNCHANGED workerSide
  <2>0. UNCHANGED <<helloReceived, shutdownRequested, outbound>>
    BY <1>2 DEF workerSide, helperVars, sessionVars, controlVars, queueVars
  <2>1. (helloSent => helloSent') /\ (shutdownSent => shutdownSent')
    BY <1>2, CoreSaid
  <2>2. In(Transit') \subseteq In(Transit)
    <3>1. CASE UNCHANGED toCore
      BY <2>0, <3>1 DEF Transit
    <3>2. CASE CoreRead
      <4>1. toCore # << >> /\ toCore' = Tail(toCore)
        BY <3>2 DEF CoreRead
      <4>2. /\ Transit \in Seq(HelperMessages) /\ Transit # << >>
            /\ Tail(Transit) = Tail(toCore) \o Texts(outbound)
        BY <4>1, TransitMoves
      <4>3. Transit' = Tail(Transit)
        BY <2>0, <4>1, <4>2 DEF Transit
      <4> QED
        BY <4>2, <4>3, InMoves
    <3> QED
      BY <1>2, <3>1, <3>2, CoreSaid
  <2>3. \A x \in In(toHelper') : /\ x.type = "hello" => helloSent'
                                 /\ x.type = "shutdown" => shutdownSent'
    <3>1. CASE UNCHANGED toHelper
      BY <2>1, <3>1 DEF SaidInv
    <3>2. CASE /\ Outgoing[1] \in CoreMessage /\ toHelper' = Append(toHelper, Outgoing[1])
               /\ Outgoing[1].type = "hello" => helloSent'
               /\ Outgoing[1].type = "shutdown" => shutdownSent'
      <4>1. In(toHelper') = In(toHelper) \cup {Outgoing[1]}
        BY <1>0, <3>2, InMoves
      <4> QED
        BY <2>1, <3>2, <4>1 DEF SaidInv
    <3> QED
      BY <1>2, <3>1, <3>2, CoreSaid
  <2> QED
    BY <2>0, <2>1, <2>2, <2>3 DEF SaidInv
<1>3. CASE ((SwitchAway \/ SwitchBack) /\ UNCHANGED coreSide) \/ UNCHANGED vars
  <2>1. UNCHANGED <<helperVars, toCore, toHelper, helloSent, shutdownSent>>
    BY <1>3 DEF SwitchAway, SwitchBack, coreSide, clientVars, shutdownVars, vars, socketVars
  <2>2. UNCHANGED <<helloReceived, shutdownRequested, Transit>>
    BY <2>1 DEF helperVars, sessionVars, controlVars, queueVars, Transit
  <2> QED
    BY <2>1, <2>2 DEF SaidInv
<1> QED
  BY <1>1, <1>2, <1>3, SessionSteps

LEMMA SaidAlways == Spec => []SaidInv
<1>1. Init => SaidInv
  <2> SUFFICES ASSUME Init PROVE SaidInv
    OBVIOUS
  <2>1. /\ toCore = << >> /\ outbound = << >> /\ toHelper = << >> /\ helloReceived = FALSE
        /\ shutdownRequested = FALSE
    BY DEF Init, WorkerInit, HelperInit, SocketInit
  <2>2. In(toHelper) = {} /\ In(Transit) = {}
    <3>1. Texts(<< >>) = << >>
      BY DEF Texts
    <3>2. << >> \o << >> = << >>
      OBVIOUS
    <3>3. Transit = << >>
      BY <2>1, <3>1, <3>2, Zenon DEF Transit
    <3> QED
      BY <2>1, <3>3 DEF In
  <2> QED
    BY <2>1, <2>2 DEF SaidInv
<1>2. SessionType /\ SessionType' /\ OwedInv /\ SendInv /\ HelperInv /\ HearInv /\ SaidInv /\ [Next]_vars
        => SaidInv'
  BY SaidStep
<1>3. Spec => []SendInv
  BY ClientAlways, PTL DEF ClientInv
<1>4. Spec => []HelperInv
  BY HelperInSession, PTL
<1> QED
  BY <1>1, <1>2, <1>3, <1>4, HearAlways, OwedAlways, SessionTypeCorrect, PTL DEF Spec

(***************************************************************************)
(* The traces of a frame: its messages to the helper, the frame the helper *)
(* has open, the one it presents, and the completions under way.           *)
(***************************************************************************)
Mark(m) == [generation |-> m.generation, serial |-> m.serial]

Closes(m) == m.type \in {"commit", "abort"}

Sent == {Mark(m) : m \in {x \in In(toHelper) : x.type \in FrameTypes}}
LastSent == {Mark(m) : m \in {x \in In(toHelper) : Closes(x)}}
Opened == IF frame.open THEN {Mark(frame)} ELSE {}
Pend == IF presentationPending THEN {Mark(pending)} ELSE {}
Completed == {Mark(m) : m \in {x \in In(Transit) : x.type = "complete"}}

Traces == Sent \cup Opened \cup Pend \cup Completed
Closed == LastSent \cup Pend \cup Completed

\* The frame of trace e is the one the client sends or waits for.
Current(e) ==
    /\ cState = "active" /\ cFrame.phase \in {"data", "commit", "wait"} /\ ~cFrame.cancel
    /\ cFrame.generation = e.generation /\ cFrame.serial = e.serial

\* After the end of a frame no message of its generation follows.
EndsApart(q) ==
    \A i, j \in DOMAIN q : i < j /\ Closes(q[i]) /\ q[j].type \in FrameTypes
                              => q[i].generation # q[j].generation

\* A generation's frame completes once at most.
Completes(gen, u, m, w) ==
    IF m.type = "complete" /\ m.generation = gen THEN u = 0 /\ w = 1 ELSE w = u

Bits == {0, 1}

Once(gen) ==
    {t \in Bits \X HelperMessages \X Bits : Completes(gen, t[1], t[2], t[3])}

Apart ==
    /\ \A e \in Pend : \A f \in Sent \cup Opened \cup Completed : e.generation # f.generation
    /\ \A e \in Completed : \A f \in Sent \cup Opened : e.generation # f.generation

CoreTraces ==
    /\ \A e \in Traces : /\ e.generation <= cGeneration
                         /\ e.generation = cGeneration => Current(e)
    /\ \A e \in Closed : e.generation = cFrame.generation => cFrame.phase \in {"none", "wait"}

Singly == \A g \in Nat : \E d \in Bits : Along(Once(g), Bits, Transit, 0, d)

TraceInv ==
    /\ \A e \in Traces : e.generation \in Nat \ {0}
    /\ Apart
    /\ EndsApart(toHelper)
    /\ Singly
    /\ Up => CoreTraces

LEMMA OnceIs ==
    ASSUME NEW gen, NEW u, NEW m, NEW w
    PROVE  <<u, m, w>> \in Once(gen)
             <=> u \in Bits /\ m \in HelperMessages /\ w \in Bits /\ Completes(gen, u, m, w)
<1> DEFINE t == <<u, m, w>>
<1>1. t[1] = u /\ t[2] = m /\ t[3] = w
  OBVIOUS
<1>2. t \in Bits \X HelperMessages \X Bits
        <=> u \in Bits /\ m \in HelperMessages /\ w \in Bits
  OBVIOUS
<1>3. t \in Once(gen)
        <=> t \in Bits \X HelperMessages \X Bits /\ Completes(gen, t[1], t[2], t[3])
  BY DEF Once
<1> HIDE DEF t
<1>4. t \in Once(gen)
        <=> u \in Bits /\ m \in HelperMessages /\ w \in Bits /\ Completes(gen, u, m, w)
  BY <1>1, <1>2, <1>3
<1> QED
  BY <1>4 DEF t

\* Without a completion of gen the queue leads nowhere.
LEMMA NoneAlong ==
    ASSUME NEW gen, NEW q \in Seq(HelperMessages),
           \A x \in In(q) : ~(x.type = "complete" /\ x.generation = gen)
    PROVE  Along(Once(gen), Bits, q, 0, 0)
<1> DEFINE f == [k \in 0 .. Len(q) |-> 0]
<1>1. Len(q) \in Nat /\ \A k \in 1 .. Len(q) : q[k] \in HelperMessages /\ q[k] \in In(q)
  BY DEF In
<1>2. f \in [0 .. Len(q) -> Bits] /\ \A k \in 0 .. Len(q) : f[k] = 0
  BY DEF Bits
<1> HIDE DEF f
<1>3. f[0] = 0 /\ f[Len(q)] = 0
  BY <1>1, <1>2
<1>4. ASSUME NEW k \in 1 .. Len(q) PROVE <<f[k - 1], q[k], f[k]>> \in Once(gen)
  <2>1. k \in 0 .. Len(q) /\ k - 1 \in 0 .. Len(q)
    BY <1>1
  <2>2. f[k - 1] = 0 /\ f[k] = 0
    BY <1>2, <2>1
  <2>3. Completes(gen, 0, q[k], 0)
    BY <1>1 DEF Completes
  <2> QED
    BY <1>1, <2>2, <2>3, OnceIs DEF Bits
<1>5. Leads(Once(gen), Bits, q, 0, 0, f)
  BY <1>2, <1>3, <1>4 DEF Leads
<1> QED
  BY <1>5 DEF Along

\* The first of the queue is read: nothing of its generation is left behind a
\* completion, and what is left completes once at most.
LEMMA OnceTail ==
    ASSUME NEW gen, NEW q \in Seq(HelperMessages), q # << >>, NEW d \in Bits,
           Along(Once(gen), Bits, q, 0, d)
    PROVE  /\ \E c \in Bits : Along(Once(gen), Bits, Tail(q), 0, c)
           /\ Head(q).type = "complete" /\ Head(q).generation = gen =>
                \A x \in In(Tail(q)) : ~(x.type = "complete" /\ x.generation = gen)
<1>1. PICK v \in Bits : /\ <<0, Head(q), v>> \in Once(gen)
                           /\ Along(Once(gen), Bits, Tail(q), v, d)
  BY AlongTail
<1>2. Completes(gen, 0, Head(q), v) /\ Tail(q) \in Seq(HelperMessages)
  BY <1>1, OnceIs
<1>3. CASE v = 1
  <2> DEFINE L == {<<0, 0>>, <<0, 1>>, <<1, 1>>}
  <2>1. \A x \in Bits : <<x, x>> \in L
    BY DEF Bits
  <2>2. \A x, y, z \in Bits : <<x, y>> \in L /\ <<y, z>> \in L => <<x, z>> \in L
    BY DEF Bits
  <2>3. ASSUME NEW x \in Bits, NEW y \in Bits, NEW m, <<x, m, y>> \in Once(gen)
        PROVE  <<x, y>> \in L
    <3>1. Completes(gen, x, m, y)
      BY <2>3, OnceIs
    <3> QED
      BY <2>3, <3>1 DEF Completes, Bits
  <2>4. \A y \in Bits : <<1, y>> \in L => y = 1
    BY DEF Bits
  <2>0. Along(Once(gen), Bits, Tail(q), 1, d)
    BY <1>1, <1>3
  <2> HIDE DEF L
  <2>5. \A i \in DOMAIN Tail(q) : \E x, y \in Bits :
           <<1, x>> \in L /\ <<x, Tail(q)[i], y>> \in Once(gen) /\ <<y, d>> \in L
    <3> DEFINE t == Tail(q)
               R == Once(gen)
    <3>1. t \in Seq(HelperMessages) /\ Along(R, Bits, t, 1, d)
      BY <1>2, <2>0
    <3>2. Respects(R, Bits, L) /\ Ordered(L, Bits)
      BY <2>1, <2>2, <2>3 DEF Respects, Ordered
    <3> HIDE DEF t, R
    <3>3. Between(R, Bits, L, t, 1, d)
      BY <3>1, <3>2, AlongRises
    <3> QED
      BY <3>3 DEF Between, t, R
  <2>6. ASSUME NEW i \in DOMAIN Tail(q)
        PROVE  ~(Tail(q)[i].type = "complete" /\ Tail(q)[i].generation = gen)
    <3>1. PICK x, y \in Bits : <<1, x>> \in L /\ <<x, Tail(q)[i], y>> \in Once(gen)
      BY <2>5
    <3>2. x = 1 /\ Completes(gen, x, Tail(q)[i], y)
      BY <2>4, <3>1, OnceIs
    <3> QED
      BY <3>2 DEF Completes
  <2>7. \A x \in In(Tail(q)) : ~(x.type = "complete" /\ x.generation = gen)
    BY <2>6 DEF In
  <2> QED
    <3>1. Along(Once(gen), Bits, Tail(q), 0, 0)
      BY <1>2, <2>7, NoneAlong
    <3>2. 0 \in Bits
      BY DEF Bits
    <3> QED
      BY <2>7, <3>1, <3>2
<1>4. CASE v = 0
  <2>1. ~(Head(q).type = "complete" /\ Head(q).generation = gen)
    BY <1>2, <1>4 DEF Completes
  <2>2. Along(Once(gen), Bits, Tail(q), 0, d)
    BY <1>1, <1>4
  <2> QED
    BY <2>1, <2>2
<1> QED
  BY <1>3, <1>4 DEF Bits

LEMMA EndsMove ==
    ASSUME NEW q \in Seq(CoreMessage), EndsApart(q)
    PROVE  /\ \A m \in CoreMessage :
                 (m.type \in FrameTypes =>
                     \A x \in In(q) : Closes(x) => x.generation # m.generation)
                 => EndsApart(Append(q, m))
           /\ q # << >> =>
                /\ EndsApart(Tail(q))
                /\ Closes(Head(q)) => \A x \in In(Tail(q)) :
                      x.type \in FrameTypes => x.generation # Head(q).generation
<1>1. ASSUME NEW m \in CoreMessage,
             m.type \in FrameTypes => \A x \in In(q) : Closes(x) => x.generation # m.generation
      PROVE  EndsApart(Append(q, m))
  <2> DEFINE a == Append(q, m)
             n == Len(q)
  <2>1. /\ n \in Nat /\ DOMAIN a = 1 .. n + 1 /\ DOMAIN q = 1 .. n
        /\ a[n + 1] = m /\ \A i \in 1 .. n : a[i] = q[i]
    OBVIOUS
  <2>2. \A i \in 1 .. n : q[i] \in In(q)
    BY DEF In
  <2> HIDE DEF a, n
  <2>3. ASSUME NEW i \in 1 .. n + 1, NEW j \in 1 .. n + 1, i < j, Closes(a[i]), a[j].type \in FrameTypes
        PROVE  a[i].generation # a[j].generation
    <3>1. i \in 1 .. n /\ a[i] = q[i]
      BY <2>1, <2>3
    <3>2. CASE j \in 1 .. n
      BY <2>1, <2>3, <3>1, <3>2 DEF EndsApart
    <3>3. CASE j = n + 1
      BY <1>1, <2>1, <2>2, <2>3, <3>1, <3>3
    <3> QED
      BY <2>1, <3>2, <3>3
  <2>4. EndsApart(a)
    BY <2>1, <2>3 DEF EndsApart
  <2> QED
    BY <2>4 DEF a
<1>2. ASSUME q # << >>
      PROVE  /\ EndsApart(Tail(q))
             /\ Closes(Head(q)) => \A x \in In(Tail(q)) :
                   x.type \in FrameTypes => x.generation # Head(q).generation
  <2> DEFINE t == Tail(q)
             n == Len(q)
  <2>1. /\ n \in Nat /\ n > 0 /\ DOMAIN t = 1 .. n - 1 /\ DOMAIN q = 1 .. n
        /\ Head(q) = q[1] /\ \A i \in 1 .. n - 1 : t[i] = q[i + 1]
    BY <1>2
  <2> HIDE DEF t, n
  <2>2. \A i \in 1 .. n - 1 : i + 1 \in 1 .. n /\ 1 < i + 1
    BY <2>1
  <2>3. 1 \in 1 .. n
    BY <2>1
  <2>4. ASSUME NEW i \in 1 .. n - 1, NEW j \in 1 .. n - 1, i < j, Closes(t[i]), t[j].type \in FrameTypes
        PROVE  t[i].generation # t[j].generation
    <3>1. i + 1 < j + 1 /\ i + 1 \in 1 .. n /\ j + 1 \in 1 .. n
      BY <2>1, <2>4
    <3>2. Closes(q[i + 1]) /\ q[j + 1].type \in FrameTypes
      BY <2>1, <2>4
    <3>3. q[i + 1].generation # q[j + 1].generation
      BY <2>1, <3>1, <3>2 DEF EndsApart
    <3> QED
      BY <2>1, <3>3
  <2>5. EndsApart(t)
    BY <2>1, <2>4 DEF EndsApart
  <2>6. ASSUME Closes(q[1]), NEW i \in 1 .. n - 1, t[i].type \in FrameTypes
        PROVE  t[i].generation # q[1].generation
    <3>1. q[i + 1].type \in FrameTypes
      BY <2>1, <2>6
    <3>2. q[1].generation # q[i + 1].generation
      BY <2>1, <2>2, <2>3, <2>6, <3>1 DEF EndsApart
    <3> QED
      BY <2>1, <3>2
  <2>7. Closes(q[1]) => \A x \in In(t) : x.type \in FrameTypes => x.generation # q[1].generation
    BY <2>1, <2>6 DEF In
  <2> QED
    BY <2>1, <2>5, <2>7 DEF t
<1> QED
  BY <1>1, <1>2

\* What a message of the core does to the frame the helper has open and to the
\* one it presents.
SlotsKept == Opened' \subseteq Opened /\ Pend' \subseteq Pend

FrameOpens(m) ==
    m.type = "begin" /\ Pend = {} /\ Pend' = {} /\ Opened' = {Mark(m)}

FrameShown(m) ==
    /\ m.type = "commit" /\ Pend = {} /\ Opened' = {}
    /\ Opened = {Mark(m)} /\ Pend' \subseteq {Mark(m)}

LEMMA SlotsEffect ==
    /\ frame' = frame /\ pending' = pending => SlotsKept
    /\ frame' \in {frame, ClosedFrame} /\ pending' \in {pending, NoPresentation} => SlotsKept
    /\ frame' = StaleFrame /\ pending' \in {pending, NoPresentation} => SlotsKept
<1>1. /\ frame' \in {frame, ClosedFrame} => Opened' \subseteq Opened
      /\ pending' \in {pending, NoPresentation} => Pend' \subseteq Pend
  BY DEF Opened, Pend, ClosedFrame, presentationPending
<1>2. ASSUME frame' = StaleFrame PROVE Opened' \subseteq Opened
  <2>1. CASE frame.open
    <3>1. frame' = [frame EXCEPT !.stale = TRUE]
      BY <1>2, <2>1 DEF StaleFrame
    <3>2. Mark(frame') = Mark(frame)
      BY <3>1 DEF Mark
    <3> QED
      BY <2>1, <3>2 DEF Opened
  <2>2. CASE ~frame.open
    BY <1>1, <1>2, <2>2 DEF StaleFrame
  <2> QED
    BY <2>1, <2>2
<1> QED
  BY <1>1, <1>2 DEF SlotsKept

LEMMA ReceiveSlots ==
    ASSUME HelperTypeOK, OneFrameInFlight, NEW m \in CoreMessage, NEW presented \in BOOLEAN,
           Receive(m, presented)
    PROVE  SlotsKept \/ FrameOpens(m) \/ FrameShown(m)
<1>1. \A cause : Reject(cause) => SlotsKept
  BY FailEffect, SlotsEffect DEF Reject
<1>2. CASE ReceiveHello(m)
  <2>1. frame' \in {frame, ClosedFrame} /\ pending' \in {pending, NoPresentation}
    BY <1>2, EnqueueEffect DEF ReceiveHello, queueVars
  <2> QED
    BY <2>1, SlotsEffect
<1>3. CASE handle_shutdown
  <2>1. frame' \in {frame, ClosedFrame} /\ pending' \in {pending, NoPresentation}
    BY <1>3, EnqueueEffect DEF handle_shutdown
  <2> QED
    BY <2>1, SlotsEffect
<1>4. CASE RejectHello(m)
  BY <1>1, <1>4 DEF RejectHello
<1>5. CASE m.type = "begin" /\ handle_frame_begin(m)
  <2>1. CASE /\ BeginInOrder(m) /\ pending' = pending
             /\ frame' = [open |-> TRUE, stale |-> FALSE, generation |-> m.generation,
                          serial |-> m.serial, damage |-> m.damage, received |-> {}]
    <3>1. Mark(frame') = Mark(m) /\ frame'.open = TRUE
      BY <2>1 DEF Mark
    <3>2. ~presentationPending /\ ~presentationPending'
      BY <2>1 DEF BeginInOrder, presentationPending
    <3> QED
      BY <1>5, <3>1, <3>2 DEF FrameOpens, Opened, Pend
  <2> QED
    BY <1>1, <1>5, <2>1 DEF handle_frame_begin
<1>6. CASE handle_frame_data(m)
  <2>1. CASE frame' = [frame EXCEPT !.received = @ \cup {m.region}] /\ pending' = pending
    <3>1. frame'.open = frame.open /\ Mark(frame') = Mark(frame)
      BY <2>1 DEF Mark
    <3> QED
      BY <2>1, <3>1 DEF SlotsKept, Opened, Pend, presentationPending
  <2> QED
    BY <1>1, <1>6, <2>1 DEF handle_frame_data
<1>7. CASE handle_frame_reference(m, presented)
  <2>1. CASE DropFrame(m)
    BY <2>1, SlotsEffect DEF DropFrame
  <2>2. CASE PresentFrame(m)
    <3>1. /\ m.type = "commit" /\ frame.open /\ ~frame.stale
          /\ m.generation = frame.generation /\ m.serial = frame.serial
          /\ pending' = [generation |-> generation, serial |-> frame.serial] /\ frame' = ClosedFrame
      BY <2>2 DEF PresentFrame, Presentable, EndsOpenFrame
    <3>2. ~presentationPending /\ frame.generation = generation
      BY <3>1 DEF OneFrameInFlight
    <3>3. Mark(frame) = Mark(m)
      BY <3>1 DEF Mark
    <3>4. Mark(pending') = Mark(m)
      BY <3>1, <3>2 DEF Mark
    <3> QED
      BY <3>1, <3>2, <3>3, <3>4 DEF FrameShown, Opened, Pend, ClosedFrame
  <2> QED
    BY <1>1, <1>7, <2>1, <2>2 DEF handle_frame_reference, PresentFails, RejectReference
<1>8. CASE handle_pong(m)
  BY <1>1, <1>8, SlotsEffect DEF handle_pong, queueVars
<1> QED
  BY <1>1, <1>2, <1>3, <1>4, <1>5, <1>6, <1>7, <1>8 DEF Receive

LEMMA CallSlots ==
    ASSUME Calls \/ ConsumeHead \/ UNCHANGED helperVars
    PROVE  SlotsKept
<1>1. CASE send_input \/ take_pong \/ StartHead \/ ConsumeHead \/ report_fatal \/ UNCHANGED helperVars
  <2>1. frame' \in {frame, ClosedFrame} /\ pending' \in {pending, NoPresentation}
    BY <1>1, EnqueueEffect, FailEffect
       DEF send_input, take_pong, StartHead, ConsumeHead, report_fatal, Reject, helperVars, queueVars
  <2> QED
    BY <2>1, SlotsEffect
<1>2. CASE suspend
  <2>1. \/ frame' = StaleFrame /\ pending' = NoPresentation
        \/ frame' = ClosedFrame /\ pending' = NoPresentation
    BY <1>2, EnqueueEffect DEF suspend
  <2> QED
    BY <2>1, SlotsEffect
<1>3. CASE \E resized \in BOOLEAN : resume(resized)
  <2>1. frame' \in {frame, ClosedFrame} /\ pending' \in {pending, NoPresentation}
    BY <1>3, EnqueueEffect DEF resume, queueVars
  <2> QED
    BY <2>1, SlotsEffect
<1>4. CASE \E gen \in Generations, serial \in Serials : complete_frame(gen, serial)
  <2>1. frame' \in {frame, ClosedFrame} /\ pending' \in {pending, NoPresentation}
    BY <1>4, EnqueueEffect, FailEffect DEF complete_frame, helperVars, queueVars, Reject
  <2> QED
    BY <2>1, SlotsEffect
<1>5. CASE \E token \in Tokens : send_ping(token)
  <2>1. frame' \in {frame, ClosedFrame} /\ pending' \in {pending, NoPresentation}
    BY <1>5, EnqueueEffect DEF send_ping
  <2> QED
    BY <2>1, SlotsEffect
<1> QED
  BY <1>1, <1>2, <1>3, <1>4, <1>5 DEF Calls

\* What is told completes the presentation, if it completes anything.
LEMMA ToldCompleted ==
    ASSUME SessionType, Keeps \/ Tells, UNCHANGED toCore
    PROVE  Completed' \subseteq Completed \/ (Completed' \subseteq Completed \cup Pend /\ Pend' = {})
<1>1. \A x \in In(Transit') : x \in In(Transit) \/ Told(x)
  BY ToldIn
<1>2. ASSUME NEW x, Told(x), x.type = "complete" PROVE Mark(x) \in Pend /\ Pend' = {}
  BY <1>2 DEF Told, Mark, Pend, presentationPending
<1>3. CASE \E x \in In(Transit') : Told(x) /\ x.type = "complete"
  <2>1. Pend' = {}
    BY <1>2, <1>3
  <2>2. Completed' \subseteq Completed \cup Pend
    BY <1>1, <1>2 DEF Completed
  <2> QED
    BY <2>1, <2>2
<1>4. CASE ~\E x \in In(Transit') : Told(x) /\ x.type = "complete"
  BY <1>1, <1>4 DEF Completed
<1> QED
  BY <1>3, <1>4

\* What is told completes once.
LEMMA ToldSingly ==
    ASSUME SessionType, Keeps \/ Tells, UNCHANGED toCore, Singly, Apart
    PROVE  Singly'
<1>0. /\ outbound \in Seq(Records) /\ toCore \in Seq(HelperMessages)
      /\ Transit' = toCore \o Texts(outbound') /\ Transit = toCore \o Texts(outbound)
  BY DEF SessionType, QueueInv, SocketType, Transit
<1>1. CASE Keeps
  BY <1>0, <1>1 DEF Keeps, Singly
<1>2. CASE Tells
  <2>1. PICK q \in {outbound, purge_unsent_input(outbound)} :
          \/ outbound' = q
          \/ \E m \in HelperMessages : outbound' = enqueue_message(q, m) /\ Told(m)
    BY <1>2 DEF Tells
  <2> SUFFICES ASSUME NEW g \in Nat
               PROVE  \E d \in Bits : Along(Once(g), Bits, Transit', 0, d)
    BY DEF Singly
  <2> DEFINE t == toCore \o Texts(q)
  <2>2. PICK c \in Bits : Along(Once(g), Bits, toCore \o Texts(outbound), 0, c)
    BY <1>0 DEF Singly
  <2>3. q \in Seq(Records) /\ Along(Once(g), Bits, t, 0, c)
    <3>1. ASSUME NEW u, NEW m, NEW w, <<u, m, w>> \in Once(g), m.type = "input" PROVE u = w
      <4>1. Completes(g, u, m, w)
        BY <3>1, OnceIs
      <4> QED
        BY <3>1, <4>1 DEF Completes
    <3> DEFINE R == Once(g)
    <3>2. \A u, m, w : <<u, m, w>> \in R /\ m.type = "input" => u = w
      BY <3>1
    <3>3. Along(R, Bits, toCore \o Texts(outbound), 0, c)
      BY <2>2
    <3> HIDE DEF R
    <3>4. /\ purge_unsent_input(outbound) \in Seq(Records)
          /\ Along(R, Bits, toCore \o Texts(purge_unsent_input(outbound)), 0, c)
      BY <1>0, <3>2, <3>3, PurgeAlong
    <3> QED
      BY <1>0, <2>1, <3>3, <3>4 DEF R
  <2>4. /\ Texts(q) \in Seq(HelperMessages) /\ t \in Seq(HelperMessages)
        /\ In(t) \subseteq In(Transit)
    <3>1. Texts(q) \in Seq(HelperMessages) /\ Texts(outbound) \in Seq(HelperMessages)
      BY <1>0, <2>3, TextsMove
    <3>2. In(Texts(q)) \subseteq In(Texts(outbound))
      BY <1>0, <2>1, PurgeIn
    <3>3. In(t) = In(toCore) \cup In(Texts(q)) /\ In(Transit) = In(toCore) \cup In(Texts(outbound))
      BY <1>0, <3>1, InBoth
    <3> HIDE DEF Texts
    <3> QED
      BY <1>0, <3>1, <3>2, <3>3
  <2>5. CASE outbound' = q
    BY <1>0, <2>3, <2>5
  <2>6. CASE \E m \in HelperMessages : outbound' = enqueue_message(q, m) /\ Told(m)
    <3>1. PICK m \in HelperMessages : outbound' = enqueue_message(q, m) /\ Told(m)
      BY <2>6
    <3>2. Texts(outbound') = Append(Texts(q), m)
      BY <2>3, <3>1, TextsMove
    <3>3. Transit' = Append(t, m)
      <4> DEFINE b == Texts(q)
      <4>1. b \in Seq(HelperMessages)
        BY <2>4
      <4> HIDE DEF b
      <4>2. toCore \o Append(b, m) = Append(toCore \o b, m)
        BY <1>0, <4>1, AppendAssociates
      <4> QED
        BY <1>0, <3>2, <4>2 DEF b
    <3> HIDE DEF t
    <3>4. CASE m.type = "complete" /\ m.generation = g
      <4>1. ASSUME NEW x \in In(t), x.type = "complete" PROVE x.generation # g
        <5>1. Mark(x) \in Completed
          BY <2>4, <4>1 DEF Completed
        <5>2. Mark(pending) \in Pend /\ pending.generation = g
          BY <3>1, <3>4 DEF Told, Pend
        <5>3. Mark(pending).generation # Mark(x).generation
          BY <5>1, <5>2 DEF Apart
        <5> QED
          BY <5>2, <5>3 DEF Mark
      <4>2. Along(Once(g), Bits, t, 0, 0)
        BY <2>4, <4>1, NoneAlong
      <4>3. <<0, m, 1>> \in Once(g) /\ 1 \in Bits
        BY <3>4, OnceIs DEF Completes, Bits
      <4>4. Along(Once(g), Bits, Append(t, m), 0, 1)
        BY <2>4, <4>2, <4>3, AlongAppend
      <4> QED
        BY <3>3, <4>3, <4>4
    <3>5. CASE ~(m.type = "complete" /\ m.generation = g)
      <4>1. <<c, m, c>> \in Once(g)
        BY <3>5, OnceIs DEF Completes
      <4>2. Along(Once(g), Bits, Append(t, m), 0, c)
        BY <2>3, <2>4, <4>1, AlongAppend
      <4> QED
        BY <3>3, <4>2
    <3> QED
      BY <3>4, <3>5
  <2> QED
    BY <2>1, <2>5, <2>6
<1> QED
  BY <1>1, <1>2

\* The worker's steps keep the traces apart.
LEMMA WorkerTraces ==
    ASSUME SessionType, HelperInv, HearInv, TraceInv, WorkerStep,
           UNCHANGED <<cState, cFrame, cGeneration, cError>>
    PROVE  TraceInv'
<1>0. /\ HelperTypeOK /\ OneFrameInFlight /\ toHelper \in Seq(CoreMessage)
      /\ Apart /\ EndsApart(toHelper) /\ Singly
  BY DEF SessionType, HelperInv, SocketType, TraceInv
<1>1. ASSUME Traces' \subseteq Traces, Closed' \subseteq Closed, Apart', EndsApart(toHelper'), Singly'
      PROVE  TraceInv'
  <2>1. Up' => Up /\ CoreTraces
    BY DEF Up, TraceInv
  <2>2. \A e : Current(e)' <=> Current(e)
    BY DEF Current
  <2>3. Up' => CoreTraces'
    BY <1>1, <2>1, <2>2 DEF CoreTraces
  <2> QED
    BY <1>1, <2>3 DEF TraceInv
<1>2. ASSUME Sent' \subseteq Sent, LastSent' \subseteq LastSent, EndsApart(toHelper'), Singly', SlotsKept,
             Completed' \subseteq Completed \/ (Completed' \subseteq Completed \cup Pend /\ Pend' = {})
      PROVE  TraceInv'
  <2>1. Traces' \subseteq Traces /\ Closed' \subseteq Closed
    BY <1>2 DEF Traces, Closed, SlotsKept
  <2>2. Apart'
    BY <1>0, <1>2 DEF Apart, SlotsKept
  <2> QED
    BY <1>1, <1>2, <2>1, <2>2
<1>3. CASE Drains /\ (Keeps \/ Tells)
  <2> DEFINE m == Head(toHelper)
  <2>1. /\ toHelper # << >> /\ toHelper' = Tail(toHelper) /\ m \in CoreMessage
        /\ Receive(m, HostPresents(m)) /\ HostPresents(m) \in BOOLEAN /\ UNCHANGED toCore
    BY <1>3 DEF Drains
  <2>2. /\ m \in In(toHelper) /\ In(toHelper') \subseteq In(toHelper) /\ EndsApart(toHelper')
        /\ Closes(m) => \A x \in In(toHelper') :
              x.type \in FrameTypes => x.generation # m.generation
    BY <1>0, <2>1, InMoves, EndsMove
  <2>3. SlotsKept \/ FrameOpens(m) \/ FrameShown(m)
    BY <1>0, <2>1, ReceiveSlots
  <2>4. Singly'
    BY <1>0, <1>3, <2>1, ToldSingly
  <2>5. Completed' \subseteq Completed \/ (Completed' \subseteq Completed \cup Pend /\ Pend' = {})
    BY <1>3, <2>1, ToldCompleted
  <2> HIDE DEF m
  <2>6. Sent' \subseteq Sent /\ LastSent' \subseteq LastSent
    BY <2>2 DEF Sent, LastSent
  <2>7. CASE SlotsKept
    BY <1>2, <2>2, <2>4, <2>5, <2>6, <2>7
  <2>8. CASE FrameOpens(m)
    <3>1. Mark(m) \in Sent
      BY <2>2, <2>8 DEF FrameOpens, Sent, FrameTypes
    <3>2. Completed' \subseteq Completed
      BY <2>5, <2>8 DEF FrameOpens
    <3>3. Traces' \subseteq Traces /\ Closed' \subseteq Closed
      BY <2>6, <2>8, <3>1, <3>2 DEF FrameOpens, Traces, Closed
    <3>4. Apart'
      BY <1>0, <2>6, <2>8, <3>1, <3>2 DEF FrameOpens, Apart
    <3> QED
      BY <1>1, <2>2, <2>4, <3>3, <3>4
  <2>9. CASE FrameShown(m)
    <3>1. Mark(m) \in Sent /\ Mark(m) \in LastSent /\ Closes(m)
      BY <2>2, <2>9 DEF FrameShown, Sent, LastSent, FrameTypes, Closes
    <3>2. Completed' \subseteq Completed
      BY <2>5, <2>9 DEF FrameShown
    <3>3. Traces' \subseteq Traces /\ Closed' \subseteq Closed
      BY <2>6, <2>9, <3>1, <3>2 DEF FrameShown, Traces, Closed
    <3>4. ASSUME NEW f \in Sent' PROVE f.generation # Mark(m).generation
      <4>1. PICK x \in In(toHelper') : x.type \in FrameTypes /\ f = Mark(x)
        BY <3>4 DEF Sent
      <4>2. x.generation # m.generation
        BY <2>2, <3>1, <4>1
      <4> QED
        BY <4>1, <4>2 DEF Mark
    <3>5. ASSUME NEW f \in Completed' PROVE f.generation # Mark(m).generation
      BY <1>0, <3>1, <3>2, <3>5 DEF Apart
    <3>6. Apart'
      <4>1. \A e \in Pend' : \A f \in Sent' \cup Opened' \cup Completed' : e.generation # f.generation
        BY <2>9, <3>4, <3>5 DEF FrameShown
      <4>2. \A e \in Completed' : \A f \in Sent' \cup Opened' : e.generation # f.generation
        BY <1>0, <2>6, <2>9, <3>2 DEF FrameShown, Apart
      <4> QED
        BY <4>1, <4>2 DEF Apart
    <3> QED
      BY <1>1, <2>2, <2>4, <3>3, <3>6
  <2> QED
    BY <2>3, <2>7, <2>8, <2>9
<1>4. CASE /\ Calls \/ UNCHANGED helperVars
           /\ Keeps \/ Tells
           /\ UNCHANGED <<toCore, toHelper>>
  <2>1. Singly' /\ SlotsKept
    BY <1>0, <1>4, ToldSingly, CallSlots
  <2>2. Completed' \subseteq Completed \/ (Completed' \subseteq Completed \cup Pend /\ Pend' = {})
    BY <1>4, ToldCompleted
  <2>3. Sent' = Sent /\ LastSent' = LastSent /\ EndsApart(toHelper')
    BY <1>0, <1>4 DEF Sent, LastSent
  <2> QED
    BY <1>2, <2>1, <2>2, <2>3
<1>5. CASE Flushes
  <2>1. Transit' = Transit /\ UNCHANGED toHelper /\ SlotsKept
    BY <1>5, TransitMoves, CallSlots DEF Flushes
  <2>2. /\ Sent' = Sent /\ LastSent' = LastSent /\ Completed' = Completed /\ EndsApart(toHelper')
        /\ Singly'
    BY <1>0, <2>1 DEF Sent, LastSent, Completed, Singly
  <2> QED
    BY <1>2, <2>1, <2>2
<1> QED
  BY <1>3, <1>4, <1>5, WorkerTells

\* The frame once one of its messages has left.
LEMMA SentPhase ==
    ASSUME NEW m, cFrame \in CoreFrames, FrameIn(cFrame, cGeneration, cState, nextSerial),
           Piece(m, cFrame), m.type \in FrameTypes
    PROVE  /\ Closes(m) => FrameAfter(m).phase \in {"none", "wait"}
           /\ ~Closes(m) => FrameAfter(m).generation = cFrame.generation
           /\ ~cFrame.cancel =>
                /\ FrameAfter(m).phase \in {"data", "commit", "wait"} /\ ~FrameAfter(m).cancel
                /\ FrameAfter(m).generation = cFrame.generation
                /\ FrameAfter(m).serial = cFrame.serial
<1>1. CASE m.type = "begin"
  BY <1>1 DEF FrameAfter, Closes, CoreFrames
<1>2. CASE m.type = "data"
  <2> DEFINE phase == IF cFrame.cancel THEN "abort"
                      ELSE IF cFrame.offset \cup {m.region} = cFrame.damage THEN "commit" ELSE "data"
  <2>1. FrameAfter(m) = [cFrame EXCEPT !.offset = cFrame.offset \cup {m.region}, !.phase = phase]
    BY <1>2 DEF FrameAfter, CoreFrames
  <2>2. ~cFrame.cancel => phase \in {"data", "commit"}
    OBVIOUS
  <2> HIDE DEF phase
  <2> QED
    BY <1>2, <2>1, <2>2 DEF Closes, CoreFrames
<1>3. CASE m.type = "commit"
  BY <1>3 DEF FrameAfter, Closes, CoreFrames, FrameIn, NoFrame
<1>4. CASE m.type = "abort"
  BY <1>4 DEF FrameAfter, Closes, FrameIn, NoFrame, Piece
<1> QED
  BY <1>1, <1>2, <1>3, <1>4 DEF FrameTypes

\* The core's steps that send and read nothing.
LEMMA QuietTraces ==
    ASSUME TraceInv, UNCHANGED <<Traces, Closed, Sent, Opened, Pend, Completed, toHelper, Transit>>,
           Up' => CoreTraces'
    PROVE  TraceInv'
BY DEF TraceInv, Apart, Singly

LEMMA StillTraces ==
    ASSUME CoreTraces, Traces' \subseteq Traces, Closed' \subseteq Closed,
           UNCHANGED <<cFrame, cGeneration>>, cState = "active" => cState' = "active"
    PROVE  CoreTraces'
<1>1. \A e : Current(e) => Current(e)'
  BY DEF Current
<1> QED
  BY <1>1 DEF CoreTraces

LEMMA SendTraces ==
    ASSUME SessionType, SendInv, TraceInv, CoreWrite, UNCHANGED helperVars
    PROVE  TraceInv'
<1> DEFINE m == Outgoing[1]
<1>1. /\ Up /\ Up' /\ Outgoing # << >> /\ cFrame' = FrameAfter(m) /\ UNCHANGED <<cState, cGeneration>>
      /\ toHelper' = Append(toHelper, m) /\ UNCHANGED toCore
  BY DEF CoreWrite, SendMessage, Up, ownershipVars
<1>2. /\ ClientType /\ FrameFits(cFrame) /\ cFrame \in CoreFrames /\ cGeneration \in Nat
      /\ FrameIn(cFrame, cGeneration, cState, nextSerial) /\ toHelper \in Seq(CoreMessage)
  BY <1>1 DEF SessionType, CoreType, ClientType, FrameFits, SendInv, SocketType, Generations
<1>3. m \in CoreMessage /\ Piece(m, cFrame)
  BY <1>1, <1>2, OutgoingPieces
<1> HIDE DEF m
<1>4. In(toHelper') = In(toHelper) \cup {m}
  BY <1>1, <1>2, <1>3, InMoves
<1>5. UNCHANGED <<Opened, Pend, Transit, Completed>>
  BY <1>1 DEF Opened, Pend, Transit, Completed, presentationPending, helperVars, queueVars
<1>6. CoreTraces /\ Apart /\ EndsApart(toHelper) /\ Singly
      /\ \A e \in Traces : e.generation \in Nat \ {0}
  BY <1>1 DEF TraceInv
<1>7. CASE m.type \notin FrameTypes
  <2>1. cFrame' = cFrame
    BY <1>1, <1>7 DEF FrameAfter, FrameTypes
  <2>2. ~Closes(m)
    BY <1>7 DEF Closes, FrameTypes
  <2>3. Sent' = Sent /\ LastSent' = LastSent
    BY <1>4, <1>7, <2>2 DEF Sent, LastSent
  <2>4. EndsApart(toHelper')
    BY <1>1, <1>2, <1>3, <1>6, <1>7, EndsMove
  <2>5. CoreTraces'
    BY <1>1, <1>5, <1>6, <2>1, <2>3, StillTraces DEF Traces, Closed
  <2> QED
    BY <1>5, <1>6, <2>3, <2>4, <2>5 DEF TraceInv, Apart, Singly, Traces
<1>8. CASE m.type \in FrameTypes
  <2>1. /\ cFrame.phase = m.type /\ m.generation = cFrame.generation /\ m.serial = cFrame.serial
        /\ cFrame.phase \notin {"none", "wait"} /\ cFrame.generation \in Nat \ {0}
    BY <1>2, <1>3, <1>8, Ranges DEF Piece, FrameTypes, FrameFits, Generations
  <2>2. \A e \in Closed : e.generation # m.generation
    BY <1>6, <2>1 DEF CoreTraces
  <2>3. /\ Sent' = Sent \cup {Mark(m)}
        /\ LastSent' = IF Closes(m) THEN LastSent \cup {Mark(m)} ELSE LastSent
    <3>1. Sent' = Sent \cup {Mark(m)}
      BY <1>4, <1>8 DEF Sent
    <3>2. Closes(m) => LastSent' = LastSent \cup {Mark(m)}
      BY <1>4 DEF LastSent
    <3>3. ~Closes(m) => LastSent' = LastSent
      BY <1>4 DEF LastSent
    <3> QED
      BY <3>1, <3>2, <3>3
  <2>4. Mark(m).generation = cFrame.generation /\ Mark(m).serial = cFrame.serial
    BY <2>1 DEF Mark
  <2>5. EndsApart(toHelper')
    <3>1. ASSUME NEW x \in In(toHelper), Closes(x) PROVE x.generation # m.generation
      <4>1. Mark(x) \in Closed
        BY <3>1 DEF Closed, LastSent
      <4>2. Mark(x).generation # m.generation
        BY <2>2, <4>1
      <4> QED
        BY <4>2 DEF Mark
    <3> QED
      BY <1>1, <1>2, <1>3, <1>6, <3>1, EndsMove
  <2>6. Apart'
    <3>1. \A e \in Pend \cup Completed : e.generation # Mark(m).generation
      BY <2>1, <2>2, <2>4 DEF Closed
    <3> QED
      BY <1>5, <1>6, <2>3, <3>1 DEF Apart
  <2>7. Traces' = Traces \cup {Mark(m)}
    BY <1>5, <2>3 DEF Traces
  <2>8. /\ Closes(m) => cFrame'.phase \in {"none", "wait"}
        /\ ~Closes(m) => cFrame'.generation = cFrame.generation
        /\ ~cFrame.cancel =>
             /\ cFrame'.phase \in {"data", "commit", "wait"} /\ ~cFrame'.cancel
             /\ cFrame'.generation = cFrame.generation
             /\ cFrame'.serial = cFrame.serial
    BY <1>1, <1>2, <1>3, <1>8, SentPhase
  <2>9. CoreTraces'
    <3>1. ASSUME NEW e \in Traces'
          PROVE  e.generation <= cGeneration /\ (e.generation = cGeneration => Current(e)')
      <4>1. CASE e \in Traces
        <5>1. e.generation <= cGeneration /\ (e.generation = cGeneration => Current(e))
          BY <1>6, <4>1 DEF CoreTraces
        <5>2. Current(e) => Current(e)'
          BY <1>1, <2>8 DEF Current
        <5> QED
          BY <5>1, <5>2
      <4>2. CASE e = Mark(m)
        <5>1. \/ cFrame.cancel /\ cFrame.generation < cGeneration
              \/ ~cFrame.cancel /\ cFrame.generation = cGeneration /\ cState = "active"
          BY <1>2, <2>1 DEF FrameIn
        <5>2. CASE cFrame.cancel /\ cFrame.generation < cGeneration
          BY <1>2, <2>1, <2>4, <4>2, <5>2
        <5>3. CASE ~cFrame.cancel /\ cFrame.generation = cGeneration /\ cState = "active"
          <6>1. Current(e)'
            BY <1>1, <2>4, <2>8, <4>2, <5>3 DEF Current
          <6> QED
            BY <1>2, <2>4, <4>2, <5>3, <6>1
        <5> QED
          BY <5>1, <5>2, <5>3
      <4> QED
        BY <2>7, <4>1, <4>2
    <3>2. ASSUME NEW e \in Closed', e.generation = cFrame'.generation
          PROVE  cFrame'.phase \in {"none", "wait"}
      <4>1. CASE ~Closes(m)
        <5>1. Closed' = Closed
          BY <1>5, <2>3, <4>1 DEF Closed
        <5> QED
          BY <2>1, <2>2, <2>8, <3>2, <4>1, <5>1
      <4> QED
        BY <2>8, <4>1
    <3> QED
      BY <1>1, <3>1, <3>2 DEF CoreTraces
  <2>10. \A e \in Traces' : e.generation \in Nat \ {0}
    BY <1>6, <2>1, <2>4, <2>7
  <2> QED
    BY <1>5, <1>6, <2>5, <2>6, <2>9, <2>10 DEF TraceInv, Singly
<1> QED
  BY <1>7, <1>8

\* The core reads the first message under way.
LEMMA ReadTraces ==
    ASSUME SessionType, OwedInv, OwnInv, SendInv, TraceInv, CoreRead, UNCHANGED helperVars
    PROVE  TraceInv'
<1> DEFINE m == Head(toCore)
<1>0. /\ toCore # << >> /\ toCore' = Tail(toCore) /\ UNCHANGED <<toHelper, coreVars>>
      /\ UNCHANGED <<frame, pending, outbound>> /\ Up
  BY DEF CoreRead, helperVars, queueVars, ClientReceive, CanIngest, Up
<1>1. /\ Transit \in Seq(HelperMessages) /\ Transit # << >>
      /\ Head(Transit) = m /\ Transit' = Tail(Transit)
  BY <1>0, TransitMoves DEF Transit
<1> HIDE DEF m
<1>2. In(Transit') \subseteq In(Transit) /\ m \in In(Transit)
  BY <1>1, InMoves
<1>3. UNCHANGED <<Sent, LastSent, Opened, Pend>> /\ Completed' \subseteq Completed
  BY <1>0, <1>2 DEF Sent, LastSent, Opened, Pend, presentationPending, Completed
<1>4. Apart /\ EndsApart(toHelper) /\ Singly /\ CoreTraces
      /\ \A e \in Traces : e.generation \in Nat \ {0}
  BY <1>0 DEF TraceInv
<1>5. Apart' /\ EndsApart(toHelper') /\ Traces' \subseteq Traces /\ Closed' \subseteq Closed
  BY <1>0, <1>3, <1>4 DEF Apart, Traces, Closed
<1>6. ASSUME NEW gen \in Nat
      PROVE  /\ \E c \in Bits : Along(Once(gen), Bits, Transit', 0, c)
             /\ m.type = "complete" /\ m.generation = gen =>
                  \A x \in In(Transit') : ~(x.type = "complete" /\ x.generation = gen)
  <2> DEFINE q == Transit
  <2>1. PICK d \in Bits : Along(Once(gen), Bits, q, 0, d)
    BY <1>4 DEF Singly
  <2>2. q \in Seq(HelperMessages) /\ q # << >> /\ Head(q) = m /\ Tail(q) = Transit'
    BY <1>1
  <2> HIDE DEF q
  <2>3. /\ \E c \in Bits : Along(Once(gen), Bits, Tail(q), 0, c)
        /\ Head(q).type = "complete" /\ Head(q).generation = gen =>
             \A x \in In(Tail(q)) : ~(x.type = "complete" /\ x.generation = gen)
    BY <2>1, <2>2, OnceTail
  <2> QED
    BY <2>2, <2>3
<1>7. Singly'
  BY <1>6 DEF Singly
<1>8. Up' => CoreTraces'
  <2> SUFFICES ASSUME Up' PROVE CoreTraces'
    OBVIOUS
  <2>0. /\ ClientType /\ cGeneration \in Nat /\ FrameIn(cFrame, cGeneration, cState, nextSerial)
        /\ wire # << >> => Piece(wire[1], cFrame)
        /\ StagedFits(wire, cFrame)
    BY <1>0 DEF SessionType, CoreType, ClientType, SendInv, Generations
  <2>1. Heeds(m)
    BY HeedCases DEF m, Up
  <2>2. CASE OkReady(m)
    <3>1. cGeneration = 0
      BY <1>0, <2>2 DEF OkReady, OwnInv
    <3>2. Traces = {}
      BY <1>4, <3>1 DEF CoreTraces
    <3>3. Closed \subseteq Traces
      BY DEF Closed, Traces, LastSent, Sent, Closes, FrameTypes
    <3> QED
      BY <1>5, <3>2, <3>3 DEF CoreTraces
  <2>3. CASE OkSuspend(m)
    <3>1. cGeneration' = cGeneration + 1 /\ cFrame' = AbortedFrame
      BY <2>3 DEF OkSuspend, ExpectedSuspend
    <3>2. \A e \in Traces' : e.generation <= cGeneration' /\ e.generation # cGeneration'
      BY <1>4, <1>5, <2>0, <3>1 DEF CoreTraces
    <3>3. ASSUME NEW e \in Closed', e.generation = cFrame'.generation, cFrame'.phase # "none"
          PROVE  FALSE
      <4>1. cFrame.phase # "none" /\ cFrame'.generation = cFrame.generation
        BY <2>0, <3>1, <3>3, AbortedIn
      <4>2. cFrame.phase = "wait"
        BY <1>4, <1>5, <3>3, <4>1 DEF CoreTraces
      <4>3. WireType # "commit"
        BY <2>0, <4>2 DEF WireType, StagedFits
      <4>4. AbortedFrame = NoFrame
        BY <4>2, <4>3 DEF AbortedFrame
      <4> QED
        BY <3>1, <3>3, <4>4 DEF NoFrame
    <3> QED
      BY <3>2, <3>3 DEF CoreTraces
  <2>4. CASE OkResume(m) \/ OkInput(m) \/ OkPing(m) \/ OkAccepted(m)
    <3>1. UNCHANGED <<cFrame, cGeneration>> /\ (cState = "active" => cState' = "active")
      BY <2>4 DEF OkResume, OkInput, OkPing, OkAccepted
    <3> QED
      BY <1>4, <1>5, <3>1, StillTraces
  <2>5. CASE OkComplete(m)
    <3>1. /\ m.type = "complete" /\ m.generation = cFrame.generation /\ cFrame.phase = "wait"
          /\ cFrame' = NoFrame /\ cGeneration' = cGeneration
      BY <2>5 DEF OkComplete
    <3>2. m.generation = cGeneration
      BY <2>0, <3>1 DEF FrameIn
    <3>3. Mark(m) \in Completed /\ Mark(m).generation = cGeneration
      BY <1>2, <3>1, <3>2 DEF Completed, Mark
    <3>4. \A e \in Sent \cup Opened \cup Pend : e.generation # cGeneration
      BY <1>4, <3>3 DEF Apart
    <3>5. \A x \in In(Transit') : ~(x.type = "complete" /\ x.generation = cGeneration)
      BY <1>6, <2>0, <3>1, <3>2
    <3>6. \A e \in Completed' : e.generation # cGeneration
      BY <3>5 DEF Completed, Mark
    <3>7. \A e \in Traces' : e.generation <= cGeneration /\ e.generation # cGeneration
      BY <1>3, <1>4, <1>5, <3>4, <3>6 DEF Traces, CoreTraces
    <3> QED
      BY <3>1, <3>7 DEF CoreTraces, NoFrame
  <2> QED
    BY <2>1, <2>2, <2>3, <2>4, <2>5 DEF Heeds
<1>9. \A e \in Traces' : e.generation \in Nat \ {0}
  BY <1>4, <1>5
<1> QED
  BY <1>5, <1>7, <1>8, <1>9 DEF TraceInv

\* Nothing of the channel moves: what is left are the client's own changes.
LEMMA CalmTraces ==
    ASSUME TraceInv, UNCHANGED <<helperVars, toHelper, toCore>>, Up' /\ CoreTraces => CoreTraces', Up' => Up
    PROVE  TraceInv'
<1>1. UNCHANGED <<Sent, LastSent, Opened, Pend, Completed, Transit, toHelper>>
  BY DEF Sent, LastSent, Opened, Pend, presentationPending, Completed, Transit, helperVars, queueVars
<1>2. UNCHANGED <<Traces, Closed>>
  BY <1>1 DEF Traces, Closed
<1>3. Up' => CoreTraces'
  BY DEF TraceInv
<1> QED
  BY <1>1, <1>2, <1>3, QuietTraces

LEMMA CalmCore ==
    ASSUME TraceInv, UNCHANGED <<helperVars, toHelper, toCore>>, Up' => Up,
           Up' => UNCHANGED <<cFrame, cGeneration>> /\ (cState = "active" => cState' = "active")
    PROVE  TraceInv'
<1>1. Traces' \subseteq Traces /\ Closed' \subseteq Closed
  BY DEF Sent, LastSent, Opened, Pend, presentationPending, Completed, Transit, helperVars, queueVars,
         Traces, Closed
<1>2. Up' /\ CoreTraces => CoreTraces'
  BY <1>1, StillTraces
<1> QED
  BY <1>2, CalmTraces

LEMMA CoreTracesStep ==
    ASSUME SessionType, OwedInv, OwnInv, SendInv, TraceInv, CoreStep \/ CoreChoice,
           UNCHANGED helperVars
    PROVE  TraceInv'
<1>0. CoreType /\ ClientType /\ cGeneration \in Nat
  BY DEF SessionType, CoreType, ClientType, Generations
<1>1. CASE CoreRead
  BY <1>1, ReadTraces
<1>2. CASE CoreWrite
  BY <1>2, SendTraces
<1>3. CASE CoreReadsEnd \/ CoreWriteFails
  <2>1. ~Up' /\ UNCHANGED <<toHelper, toCore>>
    BY <1>3, EndEffect
  <2> QED
    BY <2>1, CalmTraces
<1>4. CASE CoreWriteBlocks
  BY <1>4, CalmCore DEF CoreWriteBlocks, StageMessage, Up, ownershipVars, socketVars
<1>5. CASE CoreStarts \/ CorePresents
  <2>1. /\ UNCHANGED <<cGeneration, cState, cError, toHelper, toCore>>
        /\ \/ cFrame.phase = "none" /\ cFrame'.generation = cGeneration
           \/ cFrame' = cFrame
    <3>1. UNCHANGED <<ownershipVars, cState, cError, toHelper, toCore>>
      BY <1>0, <1>5, PresentEffects, Zenon
    <3>2. \/ /\ cFrame.phase = "none"
             /\ cFrame' = [NoFrame EXCEPT !.phase = "begin", !.generation = cGeneration,
                              !.serial = nextSerial,
                              !.damage = IF corePc = "start" \/ fullDamage THEN Regions ELSE damage,
                              !.whole = corePc = "start" \/ fullDamage]
          \/ cFrame' = cFrame
      BY <1>0, <1>5, PresentEffects
    <3> QED
      BY <3>1, <3>2 DEF ownershipVars, NoFrame
  <2>2. CASE cFrame' = cFrame
    BY <2>1, <2>2, CalmCore DEF Up
  <2>3. CASE cFrame.phase = "none" /\ cFrame'.generation = cGeneration
    <3>1. Traces' = Traces /\ Closed' = Closed /\ Closed \subseteq Traces
      BY <2>1 DEF Sent, LastSent, Opened, Pend, presentationPending, Completed, Transit, helperVars,
             queueVars, Traces, Closed, Closes, FrameTypes
    <3>2. CoreTraces => \A e \in Traces : e.generation <= cGeneration /\ e.generation # cGeneration
      BY <2>3 DEF CoreTraces, Current
    <3>3. CoreTraces => CoreTraces'
      BY <2>1, <2>3, <3>1, <3>2 DEF CoreTraces
    <3> QED
      BY <2>1, <3>3, CalmTraces DEF Up
  <2> QED
    BY <2>1, <2>2, <2>3
<1>6. CASE CoreReleases \/ CoreAcquires
  <2>1. /\ Up /\ UNCHANGED <<cGeneration, toHelper, toCore>>
        /\ Up' => cFrame' = cFrame /\ cState # "active"
    BY <1>6, AnswerEffect DEF ownershipVars
  <2> QED
    BY <2>1, CalmCore
<1>7. CASE CoreFrameCompletes
  BY <1>7, CompletesEffect, CalmCore DEF ownershipVars, failVars, Up
<1>8. CASE CoreLogsOut
  BY <1>8, LogOutEffect, CalmCore DEF ownershipVars, failVars, Up
<1>9. CASE CoreIsReady \/ CoreHandlesInput \/ CoreQuits \/ CoreFails \/ CoreTimesOut
             \/ CoreCrashes \/ CoreDraws
  BY <1>9, Idles, CalmCore DEF ownershipVars, failVars, Up
<1> QED
  BY <1>1, <1>2, <1>3, <1>4, <1>5, <1>6, <1>7, <1>8, <1>9, CoreCases

LEMMA TraceStep ==
    ASSUME SessionType, OwedInv, OwnInv, SendInv, HelperInv, HearInv, TraceInv, [Next]_vars
    PROVE  TraceInv'
<1>1. CASE WorkerStep /\ UNCHANGED coreSide
  <2>1. UNCHANGED <<cState, cFrame, cGeneration, cError>>
    BY <1>1 DEF coreSide, clientVars, failVars, ownershipVars
  <2> QED
    BY <1>1, <2>1, WorkerTraces
<1>2. CASE (CoreStep \/ CoreChoice) /\ UNCHANGED workerSide
  BY <1>2, CoreTracesStep DEF workerSide
<1>3. CASE ((SwitchAway \/ SwitchBack) /\ UNCHANGED coreSide) \/ UNCHANGED vars
  <2>1. UNCHANGED <<helperVars, toHelper, toCore, cFrame, cGeneration, cState, cError>>
    BY <1>3 DEF SwitchAway, SwitchBack, coreSide, clientVars, failVars, ownershipVars, vars, socketVars
  <2> QED
    BY <2>1, CalmCore DEF Up
<1> QED
  BY <1>1, <1>2, <1>3, SessionSteps

LEMMA TraceAlways == Spec => []TraceInv
<1>1. Init => TraceInv
  <2> SUFFICES ASSUME Init PROVE TraceInv
    OBVIOUS
  <2>1. /\ toCore = << >> /\ toHelper = << >> /\ outbound = << >>
        /\ pending = NoPresentation /\ frame = ClosedFrame
    BY Zenon DEF Init, WorkerInit, CoreInit, ClientInit, HelperInit, SocketInit
  <2>2. Transit = << >>
    <3>1. Texts(<< >>) = << >>
      BY DEF Texts
    <3>2. << >> \o << >> = << >>
      OBVIOUS
    <3> QED
      BY <2>1, <3>1, <3>2, Zenon DEF Transit
  <2>3. In(Transit) = {} /\ In(toHelper) = {}
    BY <2>1, <2>2 DEF In
  <2>4. Sent = {} /\ LastSent = {} /\ Opened = {} /\ Pend = {} /\ Completed = {}
    BY <2>1, <2>3 DEF Sent, LastSent, Opened, Pend, Completed, presentationPending, ClosedFrame
  <2>5. Traces = {} /\ Closed = {}
    BY <2>4 DEF Traces, Closed
  <2>6. Singly
    <3>1. 0 \in Bits
      BY DEF Bits
    <3>2. \A g \in Nat : Along(Once(g), Bits, << >>, 0, 0)
      BY <3>1, AlongEmpty
    <3> QED
      BY <2>2, <3>1, <3>2 DEF Singly
  <2>7. EndsApart(toHelper)
    BY <2>1 DEF EndsApart
  <2> QED
    BY <2>4, <2>5, <2>6, <2>7 DEF TraceInv, Apart, CoreTraces
<1>2. SessionType /\ OwedInv /\ OwnInv /\ SendInv /\ HelperInv /\ HearInv /\ TraceInv /\ [Next]_vars
        => TraceInv'
  BY TraceStep
<1>3. Spec => []OwnInv /\ []SendInv
  BY ClientAlways, PTL DEF ClientInv
<1>4. Spec => []HelperInv
  BY HelperInSession, PTL
<1> QED
  BY <1>1, <1>2, <1>3, <1>4, OwedAlways, SessionTypeCorrect, HearAlways, PTL DEF Spec

\* What a message the client refuses must lack.
Refused(m) ==
    \/ m.type = "ready" /\ ~(helloSent /\ ~hasOutput /\ cState = "suspended")
    \/ m.type = "suspend" /\ ~ExpectedSuspend(m)
    \/ m.type = "resume" /\ ~ExpectedResume(m)
    \/ m.type = "input" /\ ~input_message_is_valid(m)
    \/ /\ m.type = "complete"
       /\ ~(/\ cState = "active" /\ cFrame.phase = "wait"
            /\ m.generation = cFrame.generation /\ m.serial = cFrame.serial)
    \/ m.type = "accepted" /\ ~(shutdownAsked /\ shutdownSent)
    \/ m.type = "fatal" /\ hasOutput /\ m.generation # cGeneration

LEMMA PushRefusesNot ==
    ASSUME Up
    PROVE  /\ \A queue, e, state, frm :
                 push_event(queue, e, state, frm) => cError' # "out_of_order"
           /\ \A e : push_input_event(e) => cError' # "out_of_order"
<1>1. \A queue, e, state, frm : push_event(queue, e, state, frm) => cError' # "out_of_order"
  BY DEF Up, push_event, fail_client
<1>2. ASSUME NEW e, push_input_event(e) PROVE cError' # "out_of_order"
  <2>1. \/ push_event(events, e, cState, cFrame)
        \/ push_event(discard_oldest_queued_input(events), e, cState, cFrame)
        \/ UNCHANGED failVars
    BY <1>2 DEF push_input_event
  <2> QED
    BY <1>1, <2>1 DEF failVars, Up
<1> QED
  BY <1>1, <1>2

\* A message is refused by its own handler, for what it lacks.
LEMMA RefusalCause ==
    ASSUME SessionType, CoreRead, cError' = "out_of_order"
    PROVE  Refused(Head(toCore))
<1> DEFINE m == Head(toCore)
<1>1. Up /\ m \in HelperMessages /\ ClientReceive(m)
  <2>1. toCore # << >> /\ ClientReceive(m)
    BY DEF CoreRead
  <2>2. m \in HelperMessages
    BY <2>1 DEF SessionType, SocketType
  <2> QED
    BY <2>1, <2>2 DEF ClientReceive, CanIngest, Up
<1> HIDE DEF m
<1>2. /\ \A queue, e, state, frm : ~push_event(queue, e, state, frm)
      /\ \A e : ~push_input_event(e)
      /\ ~UNCHANGED failVars /\ ~UNCHANGED cError
      /\ \A cause : cause # "out_of_order" => ~fail_client(cause)
  BY <1>1, PushRefusesNot DEF Up, failVars, fail_client
<1>3. CASE m.type = "ready" /\ handle_ready(m)
  BY <1>2, <1>3 DEF handle_ready, Refused, m
<1>4. CASE m.type = "suspend" /\ handle_suspend(m)
  BY <1>2, <1>4 DEF handle_suspend, Refused, m
<1>5. CASE m.type = "resume" /\ handle_resume(m)
  BY <1>2, <1>5 DEF handle_resume, Refused, m
<1>6. CASE m.type = "input" /\ handle_input(m)
  BY <1>2, <1>6 DEF handle_input, Refused, m
<1>7. CASE m.type = "complete" /\ handle_frame_complete(m)
  BY <1>2, <1>7 DEF handle_frame_complete, Refused, m
<1>8. CASE m.type = "ping" /\ handle_ping(m)
  BY <1>2, <1>8 DEF handle_ping
<1>9. CASE m.type = "accepted" /\ handle_shutdown_accepted
  BY <1>2, <1>9 DEF handle_shutdown_accepted, failVars, Refused, m
<1>10. CASE m.type = "fatal" /\ handle_fatal(m)
  BY <1>2, <1>10 DEF handle_fatal, Refused, m
<1> QED
  BY <1>1, <1>3, <1>4, <1>5, <1>6, <1>7, <1>8, <1>9, <1>10, HelperTypes DEF ClientReceive

\* Nothing but a message of the helper is out of order.
LEMMA RefusalReads ==
    ASSUME SessionType, [Next]_vars, Up, cError' = "out_of_order"
    PROVE  CoreRead
<1>0. CoreType
  BY DEF SessionType
<1>1. CASE (CoreStep \/ CoreChoice) /\ UNCHANGED workerSide
  <2>1. CASE CoreReadsEnd \/ CoreWriteFails
    BY <2>1 DEF CoreReadsEnd, CoreWriteFails, ClientDisconnected, fail_client
  <2>2. CASE CoreWrite \/ CoreWriteBlocks
    BY <2>2 DEF CoreWrite, SendMessage, CoreWriteBlocks, StageMessage, Up
  <2>3. CASE CoreStarts \/ CorePresents
    BY <1>0, <2>3, PresentEffects DEF Up
  <2>4. CASE CoreReleases \/ CoreAcquires
    BY <2>4, PushRefusesNot DEF CoreReleases, CoreAcquires, complete_console_release,
       complete_console_acquire, Up
  <2>5. CASE CoreFrameCompletes
    BY <2>5, CompletesEffect DEF failVars, Up
  <2>6. CASE CoreLogsOut
    BY <2>6, LogOutEffect DEF failVars, Up
  <2>7. CASE CoreIsReady \/ CoreHandlesInput \/ CoreQuits \/ CoreFails \/ CoreTimesOut
               \/ CoreCrashes \/ CoreDraws
    BY <2>7, Idles DEF failVars, Up
  <2> QED
    BY <1>1, <2>1, <2>2, <2>3, <2>4, <2>5, <2>6, <2>7, CoreCases
<1>2. CASE UNCHANGED coreSide \/ UNCHANGED vars
  BY <1>2 DEF coreSide, clientVars, failVars, vars, Up
<1> QED
  BY <1>1, <1>2, SessionSteps

\* A message that follows from what the core has heard, seen and sent lacks nothing,
\* but for the frame a suspension may abandon.
LEMMA HelperObeys ==
    ASSUME SessionType, OwnInv, OrderInv, HearInv, SaidInv, TraceInv, [Next]_vars,
           Up, cError' = "out_of_order"
    PROVE  /\ Head(toCore).type = "suspend"
           /\ Head(toCore).generation = cGeneration + 1
           /\ Head(toCore).abandoned # 0
           /\ helperActive
<1> DEFINE m == Head(toCore)
<1>1. CoreRead /\ toCore # << >> /\ Refused(m)
  BY RefusalReads, RefusalCause DEF CoreRead
<1>2. m \in In(Transit)
  <2>1. Transit \in Seq(HelperMessages) /\ Transit # << >> /\ Head(Transit) = m
    BY <1>1, TransitMoves
  <2> HIDE DEF m
  <2> QED
    BY <2>1, InMoves
<1>3. PICK e \in Views : Heard(e)
  BY DEF HearInv, Heard
<1>4. PICK v \in Views : Hear(ClientView, m, v) /\ m \in HelperMessages
  BY <1>1, <1>3, HearNext
<1> HIDE DEF m
<1>5. /\ ClientView.ready = hasOutput /\ ClientView.active = helperActive
      /\ ClientView.generation = cGeneration
  BY DEF ClientView, View
<1>6. cState \in States /\ cState # "failed"
  BY DEF SessionType, CoreType, ClientType, OwnInv
<1>7. CASE m.type = "ready"
  <2>1. ~hasOutput /\ helloSent
    BY <1>2, <1>4, <1>5, <1>7 DEF Hear, SaidInv
  <2> QED
    BY <1>1, <1>7, <2>1 DEF Refused, OwnInv
<1>8. CASE m.type = "suspend"
  <2>1. hasOutput /\ helperActive /\ m.generation = cGeneration + 1
    BY <1>4, <1>5, <1>8 DEF Hear
  <2>2. cState \in {"active", "release_pending", "acquire_pending"}
    BY <1>6, <2>1 DEF OwnInv, States
  <2>3. m.abandoned # 0
    BY <1>1, <1>8, <2>1, <2>2 DEF Refused, ExpectedSuspend
  <2> QED
    BY <1>8, <2>1, <2>3 DEF m
<1>9. CASE m.type = "resume"
  <2>1. ~helperActive /\ m.generation = cGeneration
    BY <1>4, <1>5, <1>9 DEF Hear
  <2>2. cState \in {"suspended", "release_pending", "acquire_pending"}
    BY <1>6, <2>1 DEF OwnInv, States
  <2> QED
    BY <1>1, <1>9, <2>1, <2>2 DEF Refused, ExpectedResume
<1>10. CASE m.type = "input"
  BY <1>1, <1>4, <1>5, <1>10 DEF Hear, Refused, input_message_is_valid
<1>11. CASE m.type = "complete"
  <2>1. m.generation = cGeneration
    BY <1>4, <1>5, <1>11 DEF Hear
  <2>2. Mark(m) \in Completed /\ Mark(m).generation = m.generation /\ Mark(m).serial = m.serial
    BY <1>2, <1>11 DEF Completed, Mark
  <2>3. CoreTraces /\ Mark(m) \in Traces /\ Mark(m) \in Closed
    BY <2>2 DEF TraceInv, Traces, Closed
  <2>4. Current(Mark(m))
    BY <2>1, <2>2, <2>3 DEF CoreTraces
  <2>5. cFrame.phase = "wait"
    BY <2>2, <2>3, <2>4 DEF Current, CoreTraces
  <2> QED
    BY <1>1, <1>11, <2>2, <2>4, <2>5 DEF Refused, Current
<1>12. CASE m.type = "accepted"
  BY <1>1, <1>2, <1>12 DEF Refused, SaidInv, OrderInv
<1>13. CASE m.type = "fatal"
  BY <1>1, <1>4, <1>5, <1>13 DEF Refused, Hear
<1>14. m.type # "ping"
  BY <1>1 DEF Refused
<1> QED
  BY <1>4, <1>7, <1>8, <1>9, <1>10, <1>11, <1>12, <1>13, <1>14, HelperTypes

\* The core refuses no message of the helper (host_privsep_client.c) but the SUSPEND
\* that abandons a frame the core has given up: whatever the ends have queued, and
\* however often the console changed hands meanwhile.
THEOREM HelperNeverOutOfOrder == Spec => HelperObeysProtocol
<1>1. /\ SessionType /\ OwnInv /\ OrderInv /\ HearInv /\ SaidInv /\ TraceInv /\ [Next]_vars
      => [(cError = "none" /\ cError' = "out_of_order") =>
            /\ Head(toCore).type = "suspend"
            /\ Head(toCore).generation = cGeneration + 1
            /\ Head(toCore).abandoned # 0
            /\ helperActive]_vars
  BY HelperObeys DEF Up
<1>2. Spec => []OwnInv /\ []OrderInv
  BY ClientAlways, PTL DEF ClientInv
<1> QED
  BY <1>1, <1>2, SessionTypeCorrect, HearAlways, SaidAlways, TraceAlways, PTL
     DEF Spec, HelperObeysProtocol

(***************************************************************************)
(* What the helper makes of the core's messages, one after the other: the  *)
(* greeting and the shutdown request, the frame it has open, the last      *)
(* serial, and the generation (0 for none) of whose picture it has kept.   *)
(***************************************************************************)
Progresses ==
    [hello : BOOLEAN, shut : BOOLEAN, open : BOOLEAN, generation : Nat, serial : Nat,
     damage : SUBSET Regions, received : SUBSET Regions, base : Nat]

Receiving(v) == v.hello /\ ~v.shut

Within(v, m) == Receiving(v) /\ v.open /\ m.generation = v.generation /\ m.serial = v.serial

Take(v, m, w) ==
    \/ m.type = "hello" /\ m.trusted /\ ~v.hello /\ w = [v EXCEPT !.hello = TRUE]
    \/ /\ m.type = "begin" /\ Receiving(v) /\ ~v.open
       /\ v.serial < m.serial /\ m.sound /\ (m.whole \/ v.base = m.generation)
       /\ w = [v EXCEPT !.open = TRUE, !.generation = m.generation, !.serial = m.serial,
                        !.damage = m.damage, !.received = {}]
    \/ /\ m.type = "data" /\ Within(v, m)
       /\ m.offset = v.received /\ m.region \in v.damage \ v.received
       /\ w = [v EXCEPT !.received = v.received \cup {m.region}]
    \/ /\ m.type = "commit" /\ Within(v, m) /\ v.received = v.damage
       /\ w = [v EXCEPT !.open = FALSE, !.base = v.generation]
    \/ m.type = "abort" /\ Within(v, m) /\ w = [v EXCEPT !.open = FALSE, !.base = 0]
    \/ m.type = "pong" /\ Receiving(v) /\ w = v
    \/ m.type = "shutdown" /\ Receiving(v) /\ ~v.open /\ w = [v EXCEPT !.shut = TRUE]

Takings == {t \in Progresses \X CoreMessage \X Progresses : Take(t[1], t[2], t[3])}

LEMMA TakingsIs ==
    ASSUME NEW v, NEW m, NEW w
    PROVE  <<v, m, w>> \in Takings
             <=> v \in Progresses /\ m \in CoreMessage /\ w \in Progresses /\ Take(v, m, w)
BY DEF Takings

\* A progress has its fields, and what it becomes has the others.
LEMMA ProgressFields ==
    ASSUME NEW v \in Progresses
    PROVE  /\ v.hello \in BOOLEAN /\ v.shut \in BOOLEAN /\ v.open \in BOOLEAN
           /\ v.generation \in Nat /\ v.serial \in Nat /\ v.base \in Nat
           /\ v.damage \subseteq Regions /\ v.received \subseteq Regions
BY DEF Progresses

\* The fields a message changes.
Same(v, w) ==
    /\ w.generation = v.generation /\ w.serial = v.serial
    /\ w.damage = v.damage

LEMMA TakeFields ==
    ASSUME NEW v \in Progresses, NEW m, NEW w, Take(v, m, w)
    PROVE  /\ w.hello <=> v.hello \/ m.type = "hello"
           /\ w.shut <=> v.shut \/ m.type = "shutdown"
           /\ m.type = "begin" => w.open
           /\ m.type \in {"commit", "abort"} => ~w.open
           /\ m.type \notin {"begin", "commit", "abort"} => (w.open <=> v.open)
           /\ m.type = "begin" => /\ w.generation = m.generation /\ w.serial = m.serial
                                  /\ w.damage = m.damage /\ w.received = {}
           /\ m.type # "begin" => Same(v, w)
           /\ m.type = "data" => w.received = v.received \cup {m.region}
           /\ m.type \notin {"begin", "data"} => w.received = v.received
           /\ m.type = "commit" => w.base = v.generation
           /\ m.type = "abort" => w.base = 0
           /\ m.type \notin {"commit", "abort"} => w.base = v.base
<1>1. v \in Progresses
  OBVIOUS
<1>2. CASE m.type = "hello"
  BY <1>1, <1>2 DEF Take, Progresses, Same
<1>3. CASE m.type = "begin"
  BY <1>1, <1>3 DEF Take, Progresses, Same, Receiving
<1>4. CASE m.type = "data"
  BY <1>1, <1>4 DEF Take, Progresses, Same, Receiving
<1>5. CASE m.type = "commit"
  BY <1>1, <1>5 DEF Take, Progresses, Same, Receiving
<1>6. CASE m.type = "abort"
  BY <1>1, <1>6 DEF Take, Progresses, Same, Receiving
<1>7. CASE m.type = "pong"
  BY <1>1, <1>7 DEF Take, Progresses, Same, Receiving
<1>8. CASE m.type = "shutdown"
  BY <1>1, <1>8 DEF Take, Progresses, Same, Receiving
<1> QED
  BY <1>2, <1>3, <1>4, <1>5, <1>6, <1>7, <1>8 DEF Take

\* How far the helper is.
Fits(v) ==
    /\ v.hello <=> helloReceived
    /\ v.shut <=> shutdownRequested
    /\ v.open <=> frame.open
    /\ v.open => /\ v.generation = frame.generation /\ v.serial = frame.serial
                 /\ v.damage = frame.damage /\ v.received = frame.received
    /\ lastSubmitted <= v.serial
    /\ v.base <= generation
    /\ v.base = generation => stagingValid /\ ~suspended

\* The only faults a message that fits can have.
Excused(m) ==
    \/ error' \in {"none", "outbound_full", "presentation"}
    \/ m.type = "begin" /\ ~BeginInOrder(m) /\ error' = "begin_order"
    \/ m.type = "pong" /\ ~(ping.outstanding /\ m.token = ping.token)

\* A message that follows from what the helper has received finds no other fault.
LEMMA ReceiveTaken ==
    ASSUME HelperTypeOK, OneFrameInFlight, error = "none",
           NEW v \in Progresses, NEW w \in Progresses, NEW m \in CoreMessage,
           NEW presented \in BOOLEAN, Receive(m, presented), Fits(v), Take(v, m, w)
    PROVE  Excused(m) /\ (error' = "none" => Fits(w)')
<1> DEFINE Goal == Excused(m) /\ (error' = "none" => Fits(w)')
<1>0. /\ generation \in Nat /\ generation # 0 /\ lastSubmitted \in Nat /\ frame \in FrameType
      /\ v \in Progresses /\ w \in Progresses
      /\ helloReceived \in BOOLEAN /\ shutdownRequested \in BOOLEAN /\ stagingValid \in BOOLEAN
      /\ suspended \in BOOLEAN
  BY DEF HelperTypeOK, Generations
<1>1. ~failed /\ ~ClosedFrame.open
  BY DEF failed, ClosedFrame
<1>2. ASSUME m.type = "hello" PROVE Goal
  <2>1. ReceiveHello(m)
    BY <1>2 DEF Take, Receive, RejectHello, Fits
  <2>2. /\ helloReceived' = TRUE
        /\ UNCHANGED <<generation, suspended, lastSubmitted, stagingValid, shutdownRequested>>
        /\ \/ UNCHANGED <<frame, error>>
           \/ error' = "outbound_full"
    BY <2>1, EnqueueEffect DEF ReceiveHello, pixelVars, controlVars, queueVars
  <2>3. CASE UNCHANGED <<frame, error>>
    <3>1. w.hello /\ (w.shut <=> v.shut) /\ (w.open <=> v.open) /\ w.base = v.base /\ Same(v, w)
          /\ w.received = v.received
      BY <1>2, TakeFields
    <3>2. Fits(w)'
      BY <2>2, <2>3, <3>1 DEF Fits, Same
    <3> QED
      BY <2>3, <3>2 DEF Excused
  <2>4. CASE error' = "outbound_full"
    BY <2>4 DEF Excused
  <2> QED
    BY <2>2, <2>3, <2>4
<1>3. ASSUME m.type # "hello" PROVE helloReceived /\ ~shutdownRequested /\ Receiving(v)
  BY <1>3 DEF Take, Fits, Receiving, Within
<1>4. ASSUME m.type = "begin" PROVE Goal
  <2>1. handle_frame_begin(m)
    BY <1>3, <1>4 DEF Receive, RejectHello, ReceiveHello
  <2>2. ~v.open /\ v.serial < m.serial /\ m.sound /\ (m.whole \/ v.base = m.generation)
    BY <1>4 DEF Take
  <2>3. CASE ~BeginInOrder(m)
    <3>1. error' = "begin_order"
      BY <2>1, <2>3, FailEffect DEF handle_frame_begin, Reject
    <3> QED
      BY <1>4, <2>3, <3>1 DEF Excused
  <2>4. CASE BeginInOrder(m)
    <3>1. m.generation = generation
      BY <2>4 DEF BeginInOrder
    <3>2. DamageAcceptable(m)
      BY <2>2, <3>1 DEF DamageAcceptable, Fits
    <3>3. /\ frame' = [open |-> TRUE, stale |-> FALSE, generation |-> m.generation,
                       serial |-> m.serial, damage |-> m.damage, received |-> {}]
          /\ UNCHANGED <<sessionVars, pixelVars, controlVars, error>>
      BY <2>1, <2>4, <3>2 DEF handle_frame_begin
    <3>4. /\ frame'.open /\ frame'.generation = m.generation /\ frame'.serial = m.serial
          /\ frame'.damage = m.damage /\ frame'.received = {}
      BY <3>3
    <3>5. /\ UNCHANGED <<generation, suspended, lastSubmitted, stagingValid, shutdownRequested,
                         helloReceived, error>>
      BY <3>3 DEF sessionVars, pixelVars, controlVars
    <3>6. m.serial \in Nat
      BY <1>4, MessageFields, Ranges
    <3>7. /\ (w.hello <=> v.hello) /\ (w.shut <=> v.shut) /\ w.open /\ w.base = v.base
          /\ w.generation = m.generation /\ w.serial = m.serial
          /\ w.damage = m.damage /\ w.received = {}
      BY <1>4, TakeFields, ProgressFields
    <3>8. lastSubmitted <= w.serial
      BY <1>0, <2>2, <3>6, <3>7, ProgressFields DEF Fits
    <3>9. Fits(w)'
      BY <3>4, <3>5, <3>7, <3>8 DEF Fits
    <3> QED
      BY <3>5, <3>9 DEF Excused
  <2> QED
    BY <2>3, <2>4
<1>5. ASSUME m.type = "data" PROVE Goal
  <2>1. handle_frame_data(m)
    BY <1>3, <1>5 DEF Receive, RejectHello, ReceiveHello
  <2>2. /\ v.open /\ m.generation = v.generation /\ m.serial = v.serial
        /\ m.offset = v.received /\ m.region \in v.damage \ v.received
    BY <1>5 DEF Take, Within
  <2>3. DataInOrder(m) /\ DataFits(m)
    BY <2>2 DEF DataInOrder, DataFits, Fits
  <2>4. /\ frame' = [frame EXCEPT !.received = frame.received \cup {m.region}]
        /\ UNCHANGED <<sessionVars, controlVars, lastSubmitted, stagingValid, error>>
    BY <2>1, <2>3 DEF handle_frame_data
  <2>5. /\ frame'.open = frame.open /\ frame'.generation = frame.generation
        /\ frame'.serial = frame.serial /\ frame'.damage = frame.damage
        /\ frame'.received = frame.received \cup {m.region}
    BY <1>0, <2>4 DEF FrameType
  <2>6. /\ (w.hello <=> v.hello) /\ (w.shut <=> v.shut) /\ (w.open <=> v.open) /\ w.base = v.base /\ Same(v, w)
        /\ w.received = v.received \cup {m.region}
    BY <1>5, TakeFields, ProgressFields
  <2>7. Fits(w)'
    BY <2>4, <2>5, <2>6 DEF Fits, Same, sessionVars, controlVars
  <2> QED
    BY <2>4, <2>7 DEF Excused
<1>6. ASSUME m.type \in {"commit", "abort"} PROVE Goal
  <2>1. handle_frame_reference(m, presented)
    BY <1>3, <1>6 DEF Receive, RejectHello, ReceiveHello
  <2>2. /\ v.open /\ m.generation = v.generation /\ m.serial = v.serial
        /\ m.type = "commit" => v.received = v.damage
    BY <1>6 DEF Take, Within
  <2>3. EndsOpenFrame(m) /\ (m.type = "commit" => frame.received = frame.damage)
    BY <2>2 DEF EndsOpenFrame, Fits
  <2>4. /\ (w.hello <=> v.hello) /\ (w.shut <=> v.shut) /\ ~w.open /\ Same(v, w)
        /\ m.type = "commit" => w.base = v.generation
        /\ m.type = "abort" => w.base = 0
    BY <1>6, TakeFields, ProgressFields
  <2>5. CASE DropFrame(m)
    <3>1. /\ ~frame'.open
          /\ UNCHANGED <<sessionVars, controlVars, lastSubmitted, error>>
      BY <1>1, <2>5 DEF DropFrame
    <3>2. w.base < generation
      <4>1. CASE m.type = "abort"
        BY <1>0, <2>4, <4>1
      <4>2. CASE m.type = "commit"
        <5>1. frame.stale /\ frame.open
          BY <2>5, <4>2 DEF DropFrame, EndsOpenFrame
        <5>2. frame.generation < generation
          BY <5>1 DEF OneFrameInFlight
        <5> QED
          BY <2>2, <2>4, <4>2, <5>2 DEF Fits
      <4> QED
        BY <1>6, <4>1, <4>2
    <3>3. w.base \in Nat
      BY ProgressFields
    <3>4. Fits(w)'
      BY <1>0, <2>2, <2>4, <3>1, <3>2, <3>3 DEF Fits, Same, sessionVars, controlVars
    <3> QED
      BY <3>1, <3>4 DEF Excused
  <2>6. CASE PresentFrame(m)
    <3>1. /\ ~frame'.open /\ lastSubmitted' = frame.serial /\ stagingValid' = TRUE
          /\ UNCHANGED <<sessionVars, controlVars, error>>
      BY <1>1, <2>6 DEF PresentFrame
    <3>2. ~frame.stale /\ m.type = "commit"
      BY <2>6 DEF PresentFrame, Presentable
    <3>3. ~suspended /\ frame.generation = generation
      BY <2>3, <3>2 DEF OneFrameInFlight, EndsOpenFrame
    <3>4. w.base = generation /\ w.serial = frame.serial /\ frame.serial \in Nat
      BY <1>0, <2>2, <2>4, <3>2, <3>3 DEF Fits, Same, FrameType
    <3>5. Fits(w)'
      BY <1>0, <2>2, <2>4, <3>1, <3>3, <3>4 DEF Fits, sessionVars, controlVars
    <3> QED
      BY <3>1, <3>5 DEF Excused
  <2>7. CASE PresentFails(m)
    BY <2>7, FailEffect DEF PresentFails, Reject, Excused
  <2> QED
    BY <2>1, <2>3, <2>5, <2>6, <2>7 DEF handle_frame_reference, RejectReference
<1>7. ASSUME m.type = "pong" PROVE Goal
  <2>1. handle_pong(m)
    BY <1>3, <1>7 DEF Receive, RejectHello, ReceiveHello
  <2>2. CASE ~(ping.outstanding /\ m.token = ping.token)
    <3>1. error' = "pong"
      BY <2>1, <2>2, FailEffect DEF handle_pong, Reject
    <3> QED
      BY <1>7, <2>2, <3>1 DEF Excused
  <2>3. CASE ping.outstanding /\ m.token = ping.token
    <3>1. UNCHANGED <<sessionVars, pixelVars, queueVars, shutdownRequested>>
      BY <2>1, <2>3 DEF handle_pong
    <3>2. w = v
      BY <1>7 DEF Take
    <3> QED
      BY <3>1, <3>2 DEF Excused, Fits, sessionVars, pixelVars, queueVars
  <2> QED
    BY <2>2, <2>3
<1>8. ASSUME m.type = "shutdown" PROVE Goal
  <2>1. handle_shutdown
    BY <1>3, <1>8 DEF Receive, RejectHello, ReceiveHello
  <2>2. /\ shutdownRequested' = TRUE /\ UNCHANGED <<sessionVars, pixelVars>>
        /\ \/ error' = error /\ ~frame'.open
           \/ error' = "outbound_full"
    BY <1>1, <2>1, EnqueueEffect DEF handle_shutdown
  <2>3. CASE error' = "outbound_full"
    BY <2>3 DEF Excused
  <2>4. CASE error' = error /\ ~frame'.open
    <3>1. ~v.open
      BY <1>8 DEF Take
    <3>2. (w.hello <=> v.hello) /\ w.shut /\ (w.open <=> v.open) /\ w.base = v.base /\ Same(v, w)
      BY <1>8, TakeFields, ProgressFields
    <3>3. Fits(w)'
      BY <2>2, <2>4, <3>1, <3>2 DEF Fits, Same, sessionVars, pixelVars
    <3> QED
      BY <2>4, <3>3 DEF Excused
  <2> QED
    BY <2>2, <2>3, <2>4
<1> QED
  BY <1>2, <1>4, <1>5, <1>6, <1>7, <1>8 DEF Take

\* The worker's calls leave the helper as far as it was, if they do not fail.
LEMMA CallFits ==
    ASSUME HelperTypeOK, Calls \/ ConsumeHead \/ UNCHANGED helperVars, error = "none",
           NEW v \in Progresses, Fits(v)
    PROVE  error' = "none" => Fits(v)'
<1> SUFFICES ASSUME error' = "none" PROVE Fits(v)'
  OBVIOUS
<1>0. /\ generation \in Nat /\ frame \in FrameType /\ v.base \in Nat
      /\ suspended \in BOOLEAN /\ stagingValid \in BOOLEAN
  BY ProgressFields DEF HelperTypeOK, Generations
<1>1. ASSUME UNCHANGED <<helloReceived, shutdownRequested, frame, lastSubmitted, generation,
                         stagingValid, suspended>>
      PROVE Fits(v)'
  BY <1>1 DEF Fits
<1>2. ASSUME NEW m, NEW pnd, enqueue_or_fail(outbound, m, frame, pnd) PROVE frame' = frame
  BY <1>2, EnqueueEffect
<1>3. CASE suspend
  <2>1. /\ generation' = generation + 1
        /\ UNCHANGED <<helloReceived, lastSubmitted, shutdownRequested>>
        /\ frame' = StaleFrame
    BY <1>3, EnqueueEffect DEF suspend, controlVars
  <2>2. /\ frame'.open = frame.open
        /\ frame.open => /\ frame'.generation = frame.generation /\ frame'.serial = frame.serial
                         /\ frame'.damage = frame.damage /\ frame'.received = frame.received
    BY <1>0, <2>1 DEF StaleFrame, FrameType
  <2>3. v.base <= generation' /\ v.base # generation'
    BY <1>0, <2>1 DEF Fits
  <2> QED
    BY <2>1, <2>2, <2>3 DEF Fits
<1>4. ASSUME NEW resized \in BOOLEAN, resume(resized) PROVE Fits(v)'
  <2>1. /\ UNCHANGED <<generation, helloReceived, lastSubmitted, shutdownRequested>>
        /\ suspended /\ frame' = frame
    BY <1>2, <1>4 DEF resume, CanResume, controlVars, queueVars
  <2>2. v.base # generation
    BY <2>1 DEF Fits
  <2> QED
    BY <2>1, <2>2 DEF Fits
<1>5. CASE send_input
  BY <1>1, <1>2, <1>5 DEF send_input, sessionVars, pixelVars, controlVars
<1>6. ASSUME NEW gen, NEW serial, complete_frame(gen, serial) PROVE Fits(v)'
  <2>1. CASE UNCHANGED helperVars
    BY <1>1, <2>1 DEF helperVars, sessionVars, pixelVars, controlVars, queueVars
  <2>2. CASE Reject(CompletionError)
    <3>1. error' = CompletionError
      BY <2>2, FailEffect DEF Reject
    <3> QED
      BY <3>1 DEF CompletionError
  <2> QED
    BY <1>1, <1>2, <1>6, <2>1, <2>2 DEF complete_frame, sessionVars, pixelVars, controlVars
<1>7. ASSUME NEW token, send_ping(token) PROVE Fits(v)'
  BY <1>1, <1>2, <1>7 DEF send_ping, sessionVars, pixelVars
<1>8. CASE take_pong \/ StartHead \/ ConsumeHead \/ UNCHANGED helperVars
  BY <1>1, <1>8
     DEF take_pong, StartHead, ConsumeHead, helperVars, sessionVars, pixelVars, controlVars, queueVars
<1>9. CASE report_fatal
  <2>1. error' = "reported"
    BY <1>9, FailEffect DEF report_fatal, Reject
  <2> QED
    BY <2>1
<1> QED
  BY <1>3, <1>4, <1>5, <1>6, <1>7, <1>8, <1>9 DEF Calls

\* Without a message of the core the helper fails for want of room or because
\* the worker ends it; the completions it is given are those it waits for.
LEMMA CallFaults ==
    ASSUME SessionType, Books, HelperInv, WorkerStep, ~WorkerDrain, error = "none"
    PROVE  error' \in {"none", "outbound_full", "reported"}
<1>0. completions \in Seq(Serials) /\ Serials \subseteq Nat \ {0}
  BY DEF SessionType, WorkerType, Serials
<1>1. ASSUME NEW q, NEW m, NEW frm, NEW pnd, enqueue_or_fail(q, m, frm, pnd)
      PROVE error' \in {"none", "outbound_full"}
  BY <1>1, EnqueueEffect
<1>2. CASE error' = error
  BY <1>2
<1>3. CASE WorkerInput
  <2>1. CASE send_input
    BY <1>1, <2>1 DEF send_input
  <2> QED
    BY <1>3, <2>1 DEF WorkerInput, helperVars, queueVars
<1>4. CASE WorkerPing
  BY <1>1, <1>4 DEF WorkerPing, send_ping
<1>5. CASE WorkerExpires
  BY <1>5, FailEffect DEF WorkerExpires, report_fatal, Reject
<1>6. CASE WorkerRelease
  BY <1>1, <1>6 DEF WorkerRelease, suspend
<1>7. CASE WorkerAcquire
  BY <1>1, <1>7 DEF WorkerAcquire, resume, queueVars
<1>8. CASE WorkerComplete
  <2> DEFINE serial == Head(completions)
  <2>1. CASE UNCHANGED helperVars
    BY <1>2, <2>1 DEF helperVars, queueVars
  <2>2. CASE complete_frame(wFrame.generation, serial) /\ serial = wFrame.submitted
    <3>1. wPc # "stopped" /\ completions # << >> /\ ~failed /\ ~shutdownRequested
      BY <1>8, <2>2 DEF WorkerComplete, complete_frame
    <3>2. serial \in Serials /\ serial # 0
      <4>1. Head(completions) \in Serials
        BY <1>0, <3>1
      <4> QED
        BY <1>0, <4>1
    <3>3. wFrame.submitted = pending.serial
      BY <3>1 DEF Books, Takes
    <3>4. pending.serial # 0
      BY <2>2, <3>2, <3>3
    <3>5. presentationPending
      <4>1. NoPresentation.serial = 0
        BY DEF NoPresentation
      <4> QED
        BY <3>4, <4>1 DEF presentationPending
    <3>6. wFrame.generation = pending.generation /\ pending \in [generation : Nat, serial : Nat]
      BY <3>1, <3>5 DEF Books, Takes, SessionType, HelperTypeOK
    <3>7. CompletesPending(wFrame.generation, serial)
      <4>1. pending = [generation |-> pending.generation, serial |-> pending.serial]
        BY <3>6
      <4> HIDE DEF serial
      <4> QED
        BY <2>2, <3>3, <3>5, <3>6, <4>1 DEF CompletesPending
    <3> HIDE DEF serial
    <3>8. CompletesOlder(wFrame.generation, serial) => UNCHANGED helperVars
      BY <2>2, <3>7 DEF complete_frame
    <3>9. ~CompletesOlder(wFrame.generation, serial) =>
             enqueue_or_fail(outbound, FrameComplete(wFrame.generation, serial), frame, NoPresentation)
      BY <2>2, <3>7 DEF complete_frame
    <3> QED
      BY <1>1, <1>2, <3>8, <3>9 DEF helperVars, queueVars
  <2> QED
    BY <1>8, <2>1, <2>2 DEF WorkerComplete
<1>9. CASE WorkerFlushBlocked
  BY <1>2, <1>9 DEF WorkerFlushBlocked, StartHead, helperVars, queueVars
<1>10. CASE WorkerFlush \/ WorkerTakePong
  BY <1>2, <1>10 DEF WorkerFlush, WorkerTakePong, ConsumeHead, take_pong, queueVars
<1>11. CASE UNCHANGED helperVars
  BY <1>2, <1>11 DEF helperVars, queueVars
<1> QED
  BY <1>3, <1>4, <1>5, <1>6, <1>7, <1>8, <1>9, <1>10, <1>11
     DEF WorkerStep, WorkerCoreGone, WorkerDrained, WorkerEmergency, WorkerInputDone,
         WorkerFlushDone, WorkerFlushFails, WorkerNoPing, WorkerReleaseFails,
         WorkerAcquireFails, WorkerNoEvent

\* Every step of the worker: it takes a message, or does not and keeps what the
\* core has sent.
LEMMA WorkerFaults ==
    ASSUME SessionType, Books, HelperInv, WorkerStep, error = "none"
    PROVE  \/ Drains
           \/ /\ Calls \/ ConsumeHead \/ UNCHANGED helperVars
              /\ UNCHANGED toHelper
              /\ error' \in {"none", "outbound_full", "reported"}
<1>0. SocketType
  BY DEF SessionType
<1>1. CASE WorkerDrain
  <2>1. toHelper # << >> /\ toHelper' = Tail(toHelper) /\ UNCHANGED toCore
        /\ Receive(Head(toHelper), HostPresents(Head(toHelper)))
    BY <1>1 DEF WorkerDrain
  <2>2. Head(toHelper) \in CoreMessage
    BY <1>0, <2>1 DEF SocketType
  <2>3. HostPresents(Head(toHelper)) \in BOOLEAN
    BY DEF HostPresents
  <2> QED
    BY <2>1, <2>2, <2>3 DEF Drains
<1>2. CASE ~WorkerDrain
  <2>1. error' \in {"none", "outbound_full", "reported"}
    BY <1>2, CallFaults
  <2> QED
    BY <2>1, WorkerMoves DEF Flushes
<1> QED
  BY <1>1, <1>2

\* What has to be for a message to follow.
May(v, m) ==
    \/ m.type = "hello" /\ m.trusted /\ ~v.hello
    \/ /\ m.type = "begin" /\ Receiving(v) /\ ~v.open
       /\ v.serial < m.serial /\ m.sound /\ (m.whole \/ v.base = m.generation)
    \/ /\ m.type = "data" /\ Within(v, m)
       /\ m.offset = v.received /\ m.region \in v.damage \ v.received
    \/ m.type = "commit" /\ Within(v, m) /\ v.received = v.damage
    \/ m.type = "abort" /\ Within(v, m)
    \/ m.type = "pong" /\ Receiving(v)
    \/ m.type = "shutdown" /\ Receiving(v) /\ ~v.open

LEMMA MayTake ==
    ASSUME NEW v \in Progresses, NEW m \in CoreMessage, May(v, m)
    PROVE  \E w \in Progresses : Take(v, m, w)
<1>0. v \in Progresses
  OBVIOUS
<1>1. CASE m.type = "hello"
  <2> DEFINE w == [v EXCEPT !.hello = TRUE]
  <2>1. w \in Progresses
    BY DEF Progresses
  <2>2. Take(v, m, w)
    BY <1>1 DEF May, Take
  <2> QED
    BY <2>1, <2>2
<1>2. CASE m.type = "begin"
  <2> DEFINE w == [v EXCEPT !.open = TRUE, !.generation = m.generation, !.serial = m.serial,
                            !.damage = m.damage, !.received = {}]
  <2>1. w \in Progresses
    BY <1>2, MessageFields, Ranges DEF Progresses
  <2>2. Take(v, m, w)
    BY <1>2 DEF May, Take
  <2> QED
    BY <2>1, <2>2
<1>3. CASE m.type = "data"
  <2> DEFINE w == [v EXCEPT !.received = v.received \cup {m.region}]
  <2>1. w \in Progresses
    BY <1>3, MessageFields DEF Progresses
  <2>2. Take(v, m, w)
    BY <1>3 DEF May, Take
  <2> QED
    BY <2>1, <2>2
<1>4. CASE m.type = "commit"
  <2> DEFINE w == [v EXCEPT !.open = FALSE, !.base = v.generation]
  <2>1. w \in Progresses
    BY DEF Progresses
  <2>2. Take(v, m, w)
    BY <1>4 DEF May, Take
  <2> QED
    BY <2>1, <2>2
<1>5. CASE m.type = "abort"
  <2> DEFINE w == [v EXCEPT !.open = FALSE, !.base = 0]
  <2>1. w \in Progresses
    BY DEF Progresses
  <2>2. Take(v, m, w)
    BY <1>5 DEF May, Take
  <2> QED
    BY <2>1, <2>2
<1>6. CASE m.type = "pong"
  BY <1>0, <1>6 DEF May, Take
<1>7. CASE m.type = "shutdown"
  <2> DEFINE w == [v EXCEPT !.shut = TRUE]
  <2>1. w \in Progresses
    BY DEF Progresses
  <2>2. Take(v, m, w)
    BY <1>7 DEF May, Take
  <2> QED
    BY <2>1, <2>2
<1> QED
  BY <1>1, <1>2, <1>3, <1>4, <1>5, <1>6, <1>7 DEF May

\* The core's side of it: how far the helper will be with all the core has written.
Underway == {"data", "commit", "abort"}

Ahead(w) ==
    /\ w.hello <=> helloSent
    /\ w.shut <=> shutdownSent
    /\ w.open <=> cFrame.phase \in Underway
    /\ cFrame.phase \in Underway \cup {"wait"} =>
          /\ w.generation = cFrame.generation /\ w.serial = cFrame.serial
          /\ w.damage = cFrame.damage
    /\ w.open => w.received = cFrame.offset
    /\ w.serial < nextSerial
    /\ cFrame.phase = "begin" => /\ ~cFrame.begun /\ w.serial < cFrame.serial
                                 /\ cFrame.whole \/ w.base = cFrame.generation
    /\ cState = "active" /\ painted # Unpainted /\ cFrame.phase \in {"none", "wait"}
          => w.base = cGeneration

\* The greeting leaves first and the shutdown request last, between frames.
LEMMA OutgoingOrder ==
    ASSUME ClientType, OrderInv, Up, Outgoing # << >>
    PROVE  /\ ~shutdownSent
           /\ ~helloSent => Outgoing[1] = Hello(TRUE)
           /\ helloSent => Outgoing[1].type # "hello"
           /\ Outgoing[1].type = "shutdown" => cFrame.phase = "none"
<1>0. controls \in Seq(Waiting)
  BY DEF ClientType
<1>1. CASE wire # << >>
  <2>1. Outgoing = wire /\ Outgoing[1].type = WireType
    BY <1>1 DEF Outgoing, WireType
  <2>2. ~shutdownSent
    BY <1>1 DEF OrderInv
  <2>3. ~helloSent => Outgoing[1] = Hello(TRUE)
    <3>1. ~helloSent => wire = <<Hello(TRUE)>>
      BY <1>1 DEF OrderInv
    <3>2. \A e : <<e>>[1] = e
      OBVIOUS
    <3> HIDE DEF Outgoing
    <3>3. Outgoing = wire
      BY <2>1
    <3> QED
      BY <3>1, <3>2, <3>3, Zenon
  <2>4. helloSent => Outgoing[1].type # "hello"
    BY <2>1 DEF OrderInv
  <2>5. Outgoing[1].type = "shutdown" => cFrame.phase = "none"
    BY <2>1 DEF OrderInv
  <2> QED
    BY <2>2, <2>3, <2>4, <2>5
<1>2. CASE wire = << >> /\ controls # << >>
  <2>1. Outgoing[1] = controls[1]
    BY <1>0, <1>2 DEF Outgoing, NextMessage
  <2>2. ~shutdownSent
    BY <1>2 DEF OrderInv
  <2>3. helloSent => controls[1].type = "pong"
    BY <1>0, <1>2 DEF OrderInv, OnlyPongs
  <2>4. ~helloSent => controls[1] = Hello(TRUE)
    BY <1>2 DEF OrderInv
  <2>5. Hello(TRUE).type # "shutdown"
    BY DEF Hello
  <2> QED
    BY <2>1, <2>2, <2>3, <2>4, <2>5
<1>3. CASE wire = << >> /\ controls = << >>
  <2>1. helloSent
    BY <1>3 DEF OrderInv
  <2>2. NextMessage # << >> /\ Outgoing = NextMessage
    BY <1>3 DEF Outgoing
  <2>3. ~shutdownSent
    <3>1. shutdownSent => cFrame.phase = "none" /\ ~ShutdownDue
      BY DEF OrderInv, ShutdownDue
    <3> QED
      BY <1>3, <2>2, <3>1 DEF NextMessage
  <2> QED
    BY <1>3, <2>1, <2>2, <2>3, NextPieces
<1> QED
  BY <1>1, <1>2, <1>3

\* A message of the core follows from those before it.
LEMMA SendMay ==
    ASSUME ClientType, SendInv, OrderInv, Up, Outgoing # << >>,
           NEW w \in Progresses, Ahead(w)
    PROVE  May(w, Outgoing[1])
<1> DEFINE m == Outgoing[1]
<1>1. m \in CoreMessage /\ Piece(m, cFrame)
  BY OutgoingPieces
<1>2. /\ ~shutdownSent /\ (~helloSent => m = Hello(TRUE)) /\ (helloSent => m.type # "hello")
      /\ m.type = "shutdown" => cFrame.phase = "none"
  BY OutgoingOrder
<1>3. FrameFits(cFrame) /\ FrameIn(cFrame, cGeneration, cState, nextSerial)
  BY DEF ClientType, SendInv
<1> HIDE DEF m
<1>4. CASE ~helloSent
  <2>1. m.type = "hello" /\ m.trusted
    BY <1>2, <1>4 DEF Hello
  <2> QED
    BY <1>4, <2>1 DEF Ahead, May, m
<1>5. CASE helloSent
  <2>1. Receiving(w) /\ m.type # "hello"
    BY <1>2, <1>5 DEF Ahead, Receiving
  <2>2. m.type \in FrameTypes => /\ cFrame.phase = m.type
                                 /\ m.generation = cFrame.generation /\ m.serial = cFrame.serial
    BY <1>1 DEF Piece
  <2>3. m.type \in Underway => Within(w, m) /\ w.received = cFrame.offset /\ w.damage = cFrame.damage
    BY <2>1, <2>2 DEF Ahead, Within, Underway, FrameTypes
  <2>4. CASE m.type = "begin"
    <3>1. cFrame.phase = "begin" /\ m.whole = cFrame.whole /\ m.sound
      BY <1>1, <2>4 DEF Piece, FrameTypes
    <3>2. /\ m.generation = cFrame.generation /\ m.serial = cFrame.serial
          /\ ~w.open /\ w.serial < cFrame.serial /\ (cFrame.whole \/ w.base = cFrame.generation)
      BY <2>2, <2>4, <3>1 DEF Ahead, Underway, FrameTypes
    <3>3. m.whole \/ w.base = m.generation
      BY <3>1, <3>2
    <3> QED
      BY <2>1, <2>4, <3>1, <3>2, <3>3 DEF May, m
  <2>5. CASE m.type = "data"
    <3>1. m.offset = cFrame.offset /\ m.region \in cFrame.damage \ cFrame.offset
      BY <1>1, <2>5 DEF Piece
    <3> QED
      BY <2>3, <2>5, <3>1 DEF May, m, Underway
  <2>6. CASE m.type = "commit"
    <3>1. cFrame.offset = cFrame.damage
      BY <1>3, <2>2, <2>6 DEF FrameIn, FrameTypes
    <3> QED
      BY <2>3, <2>6, <3>1 DEF May, m, Underway
  <2>7. CASE m.type = "abort"
    BY <2>3, <2>7 DEF May, m, Underway
  <2>8. CASE m.type = "pong"
    BY <2>1, <2>8 DEF May, m
  <2>9. CASE m.type = "shutdown"
    <3>1. ~w.open
      BY <1>2, <2>9 DEF Ahead, Underway
    <3> QED
      BY <2>1, <2>9, <3>1 DEF May, m
  <2>10. m.type \in {"hello", "begin", "data", "commit", "abort", "pong", "shutdown"}
    BY <1>1 DEF CoreMessage, CoreMessages, Hellos, Begins, Pieces, Ends, Pongs, Hello, Data, Commit,
                Abort, Pong, ShutdownRequest
  <2> QED
    BY <2>1, <2>4, <2>5, <2>6, <2>7, <2>8, <2>9, <2>10
<1> QED
  BY <1>4, <1>5

\* What the core writes takes the helper to where the core then is.
LEMMA SendAhead ==
    ASSUME SessionType, SendInv, OrderInv, DrawInv, CoreWrite, NEW w \in Progresses, Ahead(w)
    PROVE  \E x \in Progresses : Take(w, Outgoing[1], x) /\ Ahead(x)'
<1> DEFINE m == Outgoing[1]
<1>0. ClientType /\ Up /\ Outgoing # << >>
  BY DEF SessionType, CoreType, CoreWrite, SendMessage, Up
<1>1. /\ cFrame' = FrameAfter(m)
      /\ helloSent' = (helloSent \/ m.type = "hello")
      /\ shutdownSent' = (shutdownSent \/ m.type = "shutdown")
      /\ UNCHANGED <<cGeneration, cState, nextSerial, painted>>
  BY DEF CoreWrite, SendMessage, coreVars, drawVars, ownershipVars
<1>2. m \in CoreMessage /\ Piece(m, cFrame)
  BY <1>0, OutgoingPieces
<1>3. May(w, m)
  BY <1>0, SendMay
<1>4. FrameFits(cFrame) /\ FrameIn(cFrame, cGeneration, cState, nextSerial) /\ cFrame \in CoreFrames
  BY <1>0 DEF ClientType, SendInv, FrameFits
<1>5. cState = "active" /\ cFrame.phase # "none" /\ cFrame.cancel => painted = Unpainted
  BY <1>0 DEF DrawInv
<1> HIDE DEF m
<1>6. PICK x \in Progresses : Take(w, m, x)
  BY <1>2, <1>3, MayTake
<1>7. /\ x.hello <=> w.hello \/ m.type = "hello"
      /\ x.shut <=> w.shut \/ m.type = "shutdown"
      /\ m.type = "begin" => x.open
      /\ m.type \in {"commit", "abort"} => ~x.open
      /\ m.type \notin {"begin", "commit", "abort"} => (x.open <=> w.open)
      /\ m.type = "begin" => /\ x.generation = m.generation /\ x.serial = m.serial
                             /\ x.damage = m.damage /\ x.received = {}
      /\ m.type # "begin" => Same(w, x)
      /\ m.type = "data" => x.received = w.received \cup {m.region}
      /\ m.type \notin {"begin", "data"} => x.received = w.received
      /\ m.type = "commit" => x.base = w.generation
      /\ m.type \notin {"commit", "abort"} => x.base = w.base
  BY <1>6, TakeFields
<1>8. m.type \in FrameTypes => /\ cFrame.phase = m.type
                               /\ m.generation = cFrame.generation /\ m.serial = cFrame.serial
  BY <1>2 DEF Piece
<1>9. /\ x.hello <=> helloSent'
      /\ x.shut <=> shutdownSent'
  <2>1. (w.hello <=> helloSent) /\ (w.shut <=> shutdownSent)
    BY DEF Ahead
  <2>2. (helloSent' <=> helloSent \/ m.type = "hello") /\ (shutdownSent' <=> shutdownSent \/ m.type = "shutdown")
    BY <1>1, Zenon
  <2> QED
    BY <1>7, <2>1, <2>2
<1> DEFINE f == FrameAfter(m)
<1>10. ASSUME /\ x.open <=> f.phase \in Underway
              /\ f.phase \in Underway \cup {"wait"} =>
                    /\ x.generation = f.generation /\ x.serial = f.serial
                    /\ x.damage = f.damage
              /\ x.open => x.received = f.offset
              /\ x.serial < nextSerial
              /\ f.phase # "begin"
              /\ cState = "active" /\ painted # Unpainted /\ f.phase \in {"none", "wait"}
                    => x.base = cGeneration
       PROVE  Ahead(x)'
  <2>1. cFrame' = f /\ (x.hello <=> helloSent') /\ (x.shut <=> shutdownSent')
        /\ UNCHANGED <<cGeneration, cState, nextSerial, painted>>
    BY <1>1, <1>9
  <2>2. Unpainted' = Unpainted
    BY DEF Unpainted
  <2> HIDE DEF f
  <2> QED
    BY <1>10, <2>1, <2>2 DEF Ahead
<1>11. CASE m.type \notin FrameTypes
  <2>1. f = cFrame
    BY <1>11 DEF FrameAfter, FrameTypes
  <2>3. (x.open <=> w.open) /\ Same(w, x) /\ x.received = w.received /\ x.base = w.base
    BY <1>7, <1>11 DEF FrameTypes
  <2>4. cFrame' = cFrame /\ UNCHANGED <<cGeneration, cState, nextSerial, painted>>
    BY <1>1, <2>1
  <2>5. Unpainted' = Unpainted
    BY DEF Unpainted
  <2> HIDE DEF f
  <2>6. Ahead(x)'
    BY <1>9, <2>3, <2>4, <2>5 DEF Ahead, Same
  <2> QED
    BY <1>6, <2>6 DEF m
<1>12. CASE m.type = "begin"
  <2>1. /\ f.phase \in {"data", "abort"} /\ f.generation = cFrame.generation
        /\ f.serial = cFrame.serial /\ f.damage = cFrame.damage /\ f.offset = cFrame.offset
    BY <1>4, <1>12 DEF FrameAfter, CoreFrames
  <2>2. cFrame.phase = "begin" /\ m.damage = cFrame.damage /\ cFrame.offset = {}
        /\ m.generation = cFrame.generation /\ m.serial = cFrame.serial
        /\ cFrame.serial < nextSerial
    BY <1>2, <1>4, <1>8, <1>12 DEF Piece, FrameFits, FrameTypes, FrameIn
  <2> HIDE DEF f
  <2>3. Ahead(x)'
    BY <1>7, <1>10, <1>12, <2>1, <2>2 DEF Underway
  <2> QED
    BY <1>6, <2>3 DEF m
<1>13. CASE m.type = "data"
  <2>1. /\ f.phase \in Underway /\ f.generation = cFrame.generation
        /\ f.serial = cFrame.serial /\ f.damage = cFrame.damage
        /\ f.offset = cFrame.offset \cup {m.region}
    <3> DEFINE p == IF cFrame.cancel THEN "abort"
                    ELSE IF cFrame.offset \cup {m.region} = cFrame.damage THEN "commit" ELSE "data"
    <3>1. f = [cFrame EXCEPT !.offset = cFrame.offset \cup {m.region}, !.phase = p]
      BY <1>4, <1>13 DEF FrameAfter, CoreFrames
    <3>2. p \in Underway
      BY DEF Underway
    <3> HIDE DEF p, f
    <3> QED
      BY <1>4, <3>1, <3>2 DEF CoreFrames
  <2>2. cFrame.phase = "data" /\ cFrame.serial < nextSerial
    BY <1>4, <1>8, <1>13 DEF FrameTypes, FrameIn
  <2>3. /\ w.open /\ w.generation = cFrame.generation /\ w.serial = cFrame.serial
        /\ w.damage = cFrame.damage /\ w.received = cFrame.offset
    BY <2>2 DEF Ahead, Underway
  <2> HIDE DEF f
  <2>4. Ahead(x)'
    BY <1>7, <1>10, <1>13, <2>1, <2>2, <2>3 DEF Underway, Same
  <2> QED
    BY <1>6, <2>4 DEF m
<1>14. CASE m.type = "commit"
  <2>1. cFrame.phase = "commit"
    BY <1>8, <1>14 DEF FrameTypes
  <2>2. /\ w.open /\ w.generation = cFrame.generation /\ w.serial = cFrame.serial
        /\ w.damage = cFrame.damage /\ w.serial < nextSerial
    BY <2>1 DEF Ahead, Underway
  <2>3. ~x.open /\ Same(w, x) /\ x.base = w.generation
    BY <1>7, <1>14
  <2>4. CASE cFrame.drop
    <3>1. f = NoFrame
      BY <1>14, <2>4 DEF FrameAfter
    <3>2. f.phase = "none"
      BY <3>1 DEF NoFrame
    <3>3. cState = "active" => painted = Unpainted
      BY <1>4, <1>5, <2>1, <2>4 DEF FrameIn
    <3> HIDE DEF f
    <3>4. Ahead(x)'
      BY <1>10, <2>2, <2>3, <3>2, <3>3 DEF Underway, Same
    <3> QED
      BY <1>6, <3>4 DEF m
  <2>5. CASE ~cFrame.drop
    <3>1. /\ f.phase = "wait" /\ f.generation = cFrame.generation
          /\ f.serial = cFrame.serial /\ f.damage = cFrame.damage
      BY <1>4, <1>14, <2>5 DEF FrameAfter, CoreFrames
    <3>2. cFrame.generation = cGeneration
      BY <1>4, <2>1, <2>5 DEF FrameIn
    <3> HIDE DEF f
    <3>4. Ahead(x)'
      BY <1>10, <2>2, <2>3, <3>1, <3>2 DEF Underway, Same
    <3> QED
      BY <1>6, <3>4 DEF m
  <2> QED
    BY <2>4, <2>5
<1>15. CASE m.type = "abort"
  <2>1. cFrame.phase = "abort" /\ f = NoFrame
    BY <1>8, <1>15 DEF FrameTypes, FrameAfter
  <2>2. f.phase = "none"
    BY <2>1 DEF NoFrame
  <2>3. cState = "active" => painted = Unpainted
    BY <1>4, <1>5, <2>1 DEF FrameIn
  <2>4. w.serial < nextSerial /\ ~x.open /\ Same(w, x)
    BY <1>7, <1>15 DEF Ahead
  <2> HIDE DEF f
  <2>5. Ahead(x)'
    BY <1>10, <2>2, <2>3, <2>4 DEF Underway, Same
  <2> QED
    BY <1>6, <2>5 DEF m
<1> QED
  BY <1>11, <1>12, <1>13, <1>14, <1>15 DEF FrameTypes

\* A frame given up is still the one the helper is receiving, or is gone.
LEMMA AbortedAhead ==
    ASSUME ClientType, NEW w, Ahead(w)
    PROVE  LET f == AbortedFrame
           IN  /\ f.phase \in Underway <=> cFrame.phase \in Underway
               /\ f.phase # "none" =>
                     /\ f.generation = cFrame.generation /\ f.serial = cFrame.serial
                     /\ f.damage = cFrame.damage /\ f.offset = cFrame.offset
                     /\ f.begun = cFrame.begun /\ f.whole = cFrame.whole
               /\ f.phase = "wait" => cFrame.phase = "wait"
               /\ f.phase = "begin" => cFrame.phase = "begin"
<1>0. cFrame \in CoreFrames /\ FrameFits(cFrame) /\ StagedFits(wire, cFrame)
  BY DEF ClientType, FrameFits
<1>1. NoFrame.phase = "none"
  BY DEF NoFrame
<1>2. CASE AbortedFrame = cFrame
  BY <1>2
<1>3. WireType \in FrameTypes => cFrame.phase = WireType
  BY <1>0 DEF StagedFits, WireType, FrameTypes
<1>4. CASE cFrame.phase # "none" /\ WireType = "commit"
  <2>1. AbortedFrame = [cFrame EXCEPT !.cancel = TRUE, !.drop = TRUE]
    BY <1>4 DEF AbortedFrame
  <2> QED
    BY <1>0, <2>1 DEF CoreFrames
<1>5. CASE cFrame.phase = "wait" /\ WireType # "commit"
  <2>1. AbortedFrame = NoFrame
    BY <1>5 DEF AbortedFrame
  <2> QED
    BY <1>1, <1>5, <2>1 DEF Underway
<1>6. CASE cFrame.phase = "begin" /\ WireType # "begin" /\ WireType # "commit"
  <2>1. ~cFrame.begun
    BY <1>6 DEF Ahead
  <2>2. AbortedFrame = NoFrame
    BY <1>6, <2>1 DEF AbortedFrame
  <2> QED
    BY <1>1, <1>6, <2>2 DEF Underway
<1>7. CASE cFrame.phase = "begin" /\ WireType = "begin"
  <2>1. AbortedFrame = [cFrame EXCEPT !.cancel = TRUE, !.phase = "begin"]
    BY <1>7 DEF AbortedFrame
  <2> QED
    BY <1>0, <1>7, <2>1 DEF CoreFrames, Underway
<1>8. CASE cFrame.phase \in Underway /\ WireType # "commit"
  <2>1. cFrame.begun
    BY <1>0, <1>8 DEF FrameFits, Underway
  <2>2. cFrame.phase \notin {"none", "wait", "begin"}
    BY <1>8 DEF Underway
  <2> DEFINE p == IF WireType \in {"begin", "data"} THEN cFrame.phase ELSE "abort"
  <2>3. AbortedFrame = [cFrame EXCEPT !.cancel = TRUE, !.phase = p]
    BY <1>0, <1>8, <2>1, <2>2 DEF AbortedFrame, CoreFrames
  <2>4. p \in Underway
    BY <1>8 DEF Underway
  <2> HIDE DEF p
  <2> QED
    BY <1>0, <1>8, <2>3, <2>4 DEF CoreFrames, Underway
<1>9. cFrame.phase = "none" => AbortedFrame = cFrame
  BY DEF AbortedFrame
<1>10. cFrame.phase \in Underway \cup {"none", "begin", "wait"}
  BY <1>0 DEF CoreFrames, Phases, Underway
<1> QED
  BY <1>2, <1>4, <1>5, <1>6, <1>7, <1>8, <1>9, <1>10 DEF Underway

\* The core's other steps send nothing and go nowhere else.
LEMMA CoreAhead ==
    ASSUME SessionType, OwedInv, ClientInv, CoreStep \/ CoreChoice, ~CoreWrite, Up',
           NEW w \in Progresses, Ahead(w)
    PROVE  Ahead(w)'
<1>0. /\ SocketType /\ CoreType /\ ClientType /\ cFrame \in CoreFrames
      /\ nextSerial \in Nat /\ w.serial \in Nat /\ Unpainted' = Unpainted
  BY ProgressFields DEF SessionType, CoreType, ClientType, FrameFits, Unpainted
<1>1. ASSUME UNCHANGED <<helloSent, shutdownSent, cFrame, nextSerial>>,
             cState' = "active" /\ painted' # Unpainted =>
                cState = "active" /\ painted # Unpainted /\ cGeneration' = cGeneration
      PROVE  Ahead(w)'
  BY <1>0, <1>1 DEF Ahead
<1>2. CASE CoreRead
  <2> DEFINE m == Head(toCore)
  <2>1. /\ Heeds(m) /\ Up /\ UNCHANGED <<shutdownAsked, shutdownSent, helloSent, coreVars>>
    BY <1>2, HeedCases DEF Up
  <2> HIDE DEF m
  <2>2. UNCHANGED <<nextSerial, painted>>
    BY <2>1 DEF coreVars, drawVars
  <2>3. CASE OkReady(m)
    <3>1. painted = Unpainted
      BY <2>1, <2>3 DEF OkReady, ClientInv, DrawInv
    <3> QED
      BY <1>1, <2>1, <2>2, <2>3, <3>1 DEF OkReady
  <2>4. CASE OkSuspend(m)
    <3>1. cFrame' = AbortedFrame /\ cState' # "active"
      BY <2>4 DEF OkSuspend
    <3> DEFINE f == AbortedFrame
    <3>2. /\ f.phase \in Underway <=> cFrame.phase \in Underway
          /\ f.phase # "none" =>
                /\ f.generation = cFrame.generation /\ f.serial = cFrame.serial
                /\ f.damage = cFrame.damage /\ f.offset = cFrame.offset
                /\ f.begun = cFrame.begun /\ f.whole = cFrame.whole
          /\ f.phase = "wait" => cFrame.phase = "wait"
          /\ f.phase = "begin" => cFrame.phase = "begin"
      BY <1>0, AbortedAhead
    <3>3. cFrame' = f
      BY <3>1
    <3> HIDE DEF f
    <3>4. f.phase \in Underway \cup {"wait"} => cFrame.phase \in Underway \cup {"wait"} /\ f.phase # "none"
      BY <3>2 DEF Underway
    <3>5. w.open => f.phase # "none"
      BY <3>2 DEF Ahead, Underway
    <3> QED
      BY <2>1, <2>2, <3>1, <3>2, <3>3, <3>4, <3>5 DEF Ahead
  <2>5. CASE OkComplete(m)
    <3>1. cFrame.phase = "wait" /\ cFrame' = NoFrame /\ UNCHANGED <<cState, cGeneration>>
      BY <2>5 DEF OkComplete
    <3>2. NoFrame.phase = "none"
      BY DEF NoFrame
    <3> QED
      BY <1>0, <2>1, <2>2, <3>1, <3>2 DEF Ahead, Underway
  <2>6. CASE OkResume(m) \/ OkInput(m) \/ OkPing(m) \/ OkAccepted(m)
    <3>1. UNCHANGED <<cFrame, cGeneration>> /\ (cState' = "active" => cState = "active")
      BY <2>6 DEF OkResume, OkInput, OkPing, OkAccepted
    <3> QED
      BY <1>1, <2>1, <2>2, <3>1
  <2> QED
    BY <2>1, <2>3, <2>4, <2>5, <2>6 DEF Heeds
<1>3. CASE CoreReadsEnd \/ CoreWriteFails
  BY <1>3, EndEffect
<1>4. CASE CoreWriteBlocks
  <2>1. UNCHANGED <<helloSent, shutdownSent, cFrame, nextSerial, cState, painted, cGeneration>>
    BY <1>4 DEF CoreWriteBlocks, StageMessage, coreVars, drawVars, shutdownVars, ownershipVars
  <2> QED
    BY <1>1, <2>1
<1>5. CASE CoreReleases \/ CoreAcquires
  <2>1. /\ UNCHANGED <<helloSent, shutdownSent, cFrame, nextSerial, cGeneration>>
        /\ \/ cState' # "active"
           \/ cState = "acquire_pending" /\ painted' = painted
    BY <1>5, AnswerEffect DEF ownershipVars
  <2>2. cState = "acquire_pending" => painted = Unpainted
    BY <1>5, AnswerEffect DEF ClientInv, DrawInv
  <2> QED
    BY <1>1, <2>1, <2>2
<1>6. CASE CoreStarts \/ CorePresents
  <2>0. UNCHANGED <<cGeneration, helloSent, shutdownSent, cState, cError>>
    BY <1>0, <1>6, PresentEffects DEF ownershipVars, shutdownVars
  <2>1. CASE UNCHANGED <<cFrame, nextSerial, painted>>
    BY <1>1, <2>0, <2>1
  <2>2. CASE ~UNCHANGED <<cFrame, nextSerial, painted>>
    <3> DEFINE d == IF corePc = "start" \/ fullDamage THEN Regions ELSE damage
               wh == corePc = "start" \/ fullDamage
    <3>1. /\ cState = "active" /\ cFrame.phase = "none" /\ nextSerial' = nextSerial + 1
          /\ cFrame' = [NoFrame EXCEPT !.phase = "begin", !.generation = cGeneration,
                           !.serial = nextSerial, !.damage = d, !.whole = wh]
          /\ corePc = "start" \/ (corePc = "loop" /\ pendingSerial = 0 /\ ~shutdownPending)
      BY <1>0, <1>6, <2>2, PresentEffects
    <3>2. wh \/ (corePc = "loop" /\ ~fullDamage /\ ~shutdownPending)
      BY <3>1
    <3>3. wh \/ painted # Unpainted
      BY <2>0, <3>1, <3>2 DEF ClientInv, DrawInv, Up
    <3>4. wh \/ w.base = cGeneration
      BY <3>1, <3>3 DEF Ahead
    <3> HIDE DEF d, wh
    <3>5. /\ cFrame'.phase = "begin" /\ ~cFrame'.begun /\ cFrame'.serial = nextSerial
          /\ cFrame'.generation = cGeneration /\ cFrame'.whole = wh
      BY <3>1 DEF NoFrame
    <3>6. ~w.open /\ w.serial < nextSerial
      BY <3>1 DEF Ahead, Underway
    <3>7. w.serial < nextSerial'
      BY <1>0, <3>1, <3>6
    <3> QED
      BY <2>0, <3>4, <3>5, <3>6, <3>7 DEF Ahead, Underway
  <2> QED
    BY <2>1, <2>2
<1>7. CASE CoreFrameCompletes
  <2>1. UNCHANGED <<helloSent, shutdownSent, cFrame, nextSerial, cState, painted, cGeneration>>
    BY <1>7, CompletesEffect DEF failVars, ownershipVars
  <2> QED
    BY <1>1, <2>1
<1>8. CASE CoreLogsOut
  <2>1. UNCHANGED <<helloSent, shutdownSent, cFrame, nextSerial, cState, painted, cGeneration>>
    BY <1>8, LogOutEffect DEF failVars, ownershipVars
  <2> QED
    BY <1>1, <2>1
<1>9. CASE CoreIsReady \/ CoreHandlesInput \/ CoreQuits \/ CoreFails \/ CoreTimesOut
             \/ CoreCrashes \/ CoreDraws
  <2>1. UNCHANGED <<helloSent, shutdownSent, cFrame, nextSerial, cState, painted, cGeneration>>
    BY <1>9, Idles DEF failVars, ownershipVars, shutdownVars
  <2> QED
    BY <1>1, <2>1
<1> QED
  BY <1>2, <1>3, <1>4, <1>5, <1>6, <1>7, <1>8, <1>9, CoreCases

(***************************************************************************)
(* The heartbeat: at most one token is under way, out or back, and only    *)
(* while the helper waits for it.                                          *)
(***************************************************************************)
\* Purging input drops no message of another type.
LEMMA PurgeCounts ==
    ASSUME NEW q \in Seq(Records), NEW type, type # "input"
    PROVE  /\ purge_unsent_input(q) \in Seq(Records)
           /\ Count(Texts(purge_unsent_input(q)), type) = Count(Texts(q), type)
<1> DEFINE k == Kept(q)
           n == Len(q)
           part(i) == SubSeq(q, 1, i)
           H == {i \in 0 .. n : Count(Texts(k[i]), type) = Count(Texts(part(i)), type)}
<1>1. /\ n \in Nat /\ purge_unsent_input(q) = k[n]
      /\ k \in [0 .. n -> Seq(Records)] /\ k[0] = << >> /\ \A i \in 1 .. n : q[i] \in Records
  BY KeptPass
<1>2. \A i \in 1 .. n : k[i] = IF StaysQueued(q[i]) THEN Append(k[i - 1], q[i]) ELSE k[i - 1]
  BY KeptPass
<1>3. part(n) = q /\ part(0) = << >> /\ \A i \in 0 .. n : part(i) \in Seq(Records)
  OBVIOUS
<1>4. \A i \in 1 .. n : part(i) = Append(part(i - 1), q[i])
  OBVIOUS
<1>5. 0 \in H
  <2> HIDE DEF k, part
  <2> QED
    BY <1>1, <1>3
<1> HIDE DEF k, n, part
<1>6. ASSUME NEW i \in 1 .. n, i - 1 \in H PROVE i \in H
  <2> DEFINE a == k[i - 1]
             b == part(i - 1)
             e == q[i]
  <2>0. /\ i \in 0 .. n /\ i - 1 \in 0 .. n
        /\ Count(Texts(k[i - 1]), type) = Count(Texts(part(i - 1)), type)
    BY <1>1, <1>6
  <2>1. /\ a \in Seq(Records) /\ b \in Seq(Records) /\ e \in Records
        /\ part(i) = Append(b, e) /\ Count(Texts(a), type) = Count(Texts(b), type)
    BY <1>1, <1>3, <1>4, <1>6, <2>0
  <2>2. k[i] = IF StaysQueued(e) THEN Append(a, e) ELSE a
    BY <1>2
  <2> HIDE DEF a, b, e, H
  <2>3. /\ Texts(a) \in Seq(HelperMessages) /\ Texts(b) \in Seq(HelperMessages)
        /\ Texts(Append(a, e)) = Append(Texts(a), e.message)
        /\ Texts(Append(b, e)) = Append(Texts(b), e.message)
        /\ e.message \in HelperMessages
    BY <2>1, TextsMove DEF Records
  <2>4. /\ Count(Texts(Append(b, e)), type) = Count(Texts(b), type) + One(e.message, type)
        /\ Count(Texts(Append(a, e)), type) = Count(Texts(a), type) + One(e.message, type)
        /\ Count(Texts(a), type) \in Nat
    BY <2>3, CountAppend
  <2>5. CASE StaysQueued(e)
    <3>1. k[i] = Append(a, e)
      BY <2>2, <2>5
    <3>2. Count(Texts(k[i]), type) = Count(Texts(part(i)), type)
      BY <2>1, <2>4, <3>1
    <3> QED
      BY <3>2, <2>0, <2>1, <2>4, <3>1 DEF H
  <2>6. CASE ~StaysQueued(e)
    <3>1. k[i] = a /\ One(e.message, type) = 0
      BY <2>2, <2>6 DEF StaysQueued, IsInput, One
    <3>2. Count(Texts(k[i]), type) = Count(Texts(part(i)), type)
      BY <2>1, <2>4, <3>1
    <3> QED
      BY <3>2, <2>0, <2>1, <2>4, <3>1 DEF H
  <2> QED
    BY <2>5, <2>6
<1>7. H \in SUBSET Nat
  BY <1>1
<1> HIDE DEF H
<1>8. n \in H
  BY <1>1, <1>5, <1>6, <1>7, Induct
<1> QED
  BY <1>1, <1>3, <1>8 DEF H

LEMMA CountIn ==
    ASSUME NEW S, NEW q \in Seq(S), NEW type, Count(q, type) = 0
    PROVE  \A x \in In(q) : x.type # type
<1> DEFINE T == {i \in DOMAIN q : q[i].type = type}
<1>1. IsFiniteSet(1 .. Len(q)) /\ T \in SUBSET (1 .. Len(q))
  <2>1. Len(q) \in Int /\ 1 \in Int /\ DOMAIN q = 1 .. Len(q)
    OBVIOUS
  <2>2. IsFiniteSet(1 .. Len(q))
    BY <2>1, FS_Interval
  <2> QED
    BY <2>1, <2>2
<1>2. IsFiniteSet(T)
  BY <1>1, FS_Subset
<1>3. T = {}
  BY <1>2, FS_EmptySet DEF Count
<1> QED
  BY <1>3 DEF In

LEMMA CountOne ==
    ASSUME NEW m, NEW type
    PROVE  Count(<<m>>, type) = One(m, type) /\ In(<<m>>) = {m}
<1>1. << >> \in Seq({m}) /\ m \in {m} /\ Append(<< >>, m) = <<m>>
  OBVIOUS
<1>2. Count(Append(<< >>, m), type) = Count(<< >>, type) + One(m, type)
  BY <1>1, CountAppend
<1>3. One(m, type) \in Nat
  BY DEF One
<1>4. In(<<m>>) = {m}
  BY DEF In
<1> QED
  BY <1>1, <1>2, <1>3, <1>4, CountNone

Asked == Count(Transit, "ping")

\* A step that asks for a heartbeat is one that sends a PING.
LEMMA ToldPings ==
    ASSUME SessionType, Keeps \/ Tells, UNCHANGED toCore, error' = "none"
    PROVE  /\ Asked \in Nat /\ Asked' \in Nat
           /\ Asked' <= Asked \/ (Asked' = Asked + 1 /\ \E token : send_ping(token))
           /\ \A x \in In(Transit') : x.type = "ping" => x \in In(Transit) \/ send_ping(x.token)
<1>0. /\ toCore \in Seq(HelperMessages) /\ outbound \in Seq(Records)
      /\ Texts(outbound) \in Seq(HelperMessages) /\ Transit \in Seq(HelperMessages)
  BY TransitMoves DEF SessionType, QueueInv
<1>1. \A x \in In(Transit') : x.type = "ping" => x \in In(Transit) \/ send_ping(x.token)
  BY ToldIn DEF Told
<1> DEFINE c == Count(toCore, "ping")
           t == Count(Texts(outbound), "ping")
<1>2. Asked = c + t /\ c \in Nat /\ t \in Nat
  BY <1>0, CountConcat, CountType DEF Transit, Asked
<1>3. ASSUME NEW q \in Seq(HelperMessages), Texts(outbound') = q
      PROVE  Asked' = c + Count(q, "ping") /\ Count(q, "ping") \in Nat
  <2>1. Transit' = toCore \o q
    BY <1>3 DEF Transit
  <2> QED
    BY <1>0, <2>1, CountConcat, CountType DEF Asked
<1> HIDE DEF c
<1>4. CASE Texts(outbound') = Texts(outbound)
  BY <1>0, <1>1, <1>2, <1>3, <1>4
<1>5. CASE Tells
  <2>1. PICK q \in {outbound, purge_unsent_input(outbound)} :
           \E m \in HelperMessages : outbound' = enqueue_message(q, m) /\ Told(m)
    BY <1>5 DEF Tells
  <2>2. PICK m \in HelperMessages : outbound' = enqueue_message(q, m) /\ Told(m)
    BY <2>1
  <2>3. q \in Seq(Records) /\ Count(Texts(q), "ping") = t
    <3>1. CASE q = outbound
      BY <1>0, <3>1
    <3>2. CASE q # outbound
      BY <1>0, <2>1, <3>2, PurgeCounts
    <3> QED
      BY <3>1, <3>2
  <2> HIDE DEF t
  <2>4. Texts(q) \in Seq(HelperMessages) /\ Texts(outbound') = Append(Texts(q), m)
    BY <2>2, <2>3, TextsMove
  <2>5. Append(Texts(q), m) \in Seq(HelperMessages)
        /\ Count(Append(Texts(q), m), "ping") = t + One(m, "ping")
    BY <2>3, <2>4, CountAppend
  <2>6. Asked' = c + (t + One(m, "ping")) /\ t + One(m, "ping") \in Nat
    BY <1>3, <2>4, <2>5
  <2>7. CASE m.type = "ping"
    BY <1>1, <1>2, <2>2, <2>6, <2>7 DEF One, Told
  <2>8. CASE m.type # "ping"
    BY <1>1, <1>2, <2>6, <2>8 DEF One
  <2> QED
    BY <2>7, <2>8
<1> QED
  BY <1>4, <1>5 DEF Keeps

\* What becomes of the heartbeat the helper waits for.
LEMMA SendsPing ==
    ASSUME NEW token, send_ping(token), error' = "none"
    PROVE  ~ping.outstanding /\ ping'.outstanding /\ ping'.token = token
BY DEF send_ping, CanPing

Answered(m) ==
    /\ m.type = "pong" /\ ping.outstanding
    /\ ping'.outstanding = FALSE /\ ping'.token = ping.token

LEMMA ReceivePing ==
    ASSUME HelperTypeOK, NEW m, NEW presented, Receive(m, presented), error' = "none"
    PROVE  ping' = ping \/ Answered(m)
<1>1. \A cause : Reject(cause) => ping' = ping
  BY DEF Reject, controlVars
<1>2. CASE ReceiveHello(m)
  BY <1>2 DEF ReceiveHello, controlVars
<1>3. CASE RejectHello(m)
  BY <1>1, <1>3 DEF RejectHello
<1>4. CASE handle_frame_begin(m)
  BY <1>1, <1>4 DEF handle_frame_begin, controlVars
<1>5. CASE handle_frame_data(m)
  BY <1>1, <1>5 DEF handle_frame_data, controlVars
<1>6. CASE handle_frame_reference(m, presented)
  BY <1>1, <1>6
     DEF handle_frame_reference, DropFrame, PresentFrame, PresentFails, RejectReference, controlVars
<1>7. CASE m.type = "pong" /\ handle_pong(m)
  <2>1. CASE ping.outstanding /\ m.token = ping.token
    <3>1. ping' = [ping EXCEPT !.outstanding = FALSE, !.pong = TRUE]
      BY <1>7, <2>1 DEF handle_pong
    <3> QED
      BY <1>7, <2>1, <3>1 DEF Answered, HelperTypeOK
  <2>2. CASE ~(ping.outstanding /\ m.token = ping.token)
    BY <1>1, <1>7, <2>2 DEF handle_pong
  <2> QED
    BY <2>1, <2>2
<1>8. CASE handle_shutdown
  BY <1>8 DEF handle_shutdown
<1> QED
  BY <1>1, <1>2, <1>3, <1>4, <1>5, <1>6, <1>7, <1>8 DEF Receive

LEMMA CallPing ==
    ASSUME HelperTypeOK, Calls \/ ConsumeHead \/ UNCHANGED helperVars
    PROVE  \/ \E token : send_ping(token)
           \/ ping'.outstanding = ping.outstanding /\ ping'.token = ping.token
<1>1. CASE ping' = ping
  BY <1>1
<1>2. CASE take_pong
  BY <1>2 DEF take_pong, HelperTypeOK
<1>3. CASE suspend
  BY <1>1, <1>3 DEF suspend, controlVars
<1>4. ASSUME NEW resized \in BOOLEAN, resume(resized) PROVE ping' = ping
  BY <1>4 DEF resume, controlVars
<1>5. CASE send_input
  BY <1>1, <1>5 DEF send_input, controlVars
<1>6. ASSUME NEW gen, NEW serial, complete_frame(gen, serial) PROVE ping' = ping
  BY <1>6 DEF complete_frame, controlVars, Reject, helperVars
<1>7. CASE report_fatal \/ StartHead \/ ConsumeHead \/ UNCHANGED helperVars
  BY <1>1, <1>7 DEF report_fatal, Reject, StartHead, ConsumeHead, controlVars, helperVars
<1> QED
  BY <1>1, <1>2, <1>3, <1>4, <1>5, <1>6, <1>7 DEF Calls

\* The answers the client has still to send.
Held == IF Up THEN Count(wire, "pong") + Count(controls, "pong") ELSE 0
HeldIn == IF Up THEN In(wire) \cup In(controls) ELSE {}

\* What the helper waits for.
Due == IF ping.outstanding THEN 1 ELSE 0

\* The answers the helper has still to read.
Back == Count(toHelper, "pong")

PongInv == error = "none" =>
    /\ Asked + Back + Held <= Due
    /\ \A x \in In(Transit) : x.type = "ping" => x.token = ping.token
    /\ \A x \in In(toHelper) \cup HeldIn : x.type = "pong" => x.token = ping.token

\* What is staged has left the controls, or is no pong.
LEMMA StagedPongs ==
    ASSUME ClientType, wire = << >>, NextMessage # << >>
    PROVE  LET m == NextMessage[1]
           IN  /\ NextMessage = <<m>>
               /\ Count(controls, "pong") = One(m, "pong") + Count(ControlsAfterStaging, "pong")
               /\ In(ControlsAfterStaging) \subseteq In(controls)
               /\ m.type = "pong" => m \in In(controls)
<1> DEFINE m == NextMessage[1]
<1>1. NextMessage = <<m>> /\ (controls # << >> => m = Head(controls))
  BY NextPieces
<1>2. CASE controls # << >>
  <2>1. ControlsAfterStaging = Tail(controls) /\ controls \in Seq(Waiting)
    BY <1>2 DEF ControlsAfterStaging, ClientType
  <2>2. m = Head(controls)
    BY <1>1, <1>2
  <2> HIDE DEF m
  <2> QED
    BY <1>1, <1>2, <2>1, <2>2, CountTail, InMoves
<1>3. CASE controls = << >>
  <2>1. m.type # "pong"
    BY <1>3 DEF NextMessage, ShutdownRequest, Begin, Data, Commit, Abort
  <2>2. ControlsAfterStaging = controls
    BY <1>3 DEF ControlsAfterStaging
  <2>3. Count(controls, "pong") = 0
    BY <1>3, CountNone
  <2> QED
    BY <1>1, <2>1, <2>2, <2>3 DEF One
<1> QED
  BY <1>2, <1>3

LEMMA HeldType ==
    ASSUME ClientType
    PROVE  /\ wire = << >> => Count(wire, "pong") = 0 /\ In(wire) = {}
           /\ wire # << >> => /\ wire = <<wire[1]>> /\ In(wire) = {wire[1]}
                              /\ Count(wire, "pong") = One(wire[1], "pong")
           /\ Count(wire, "pong") \in Nat /\ Count(controls, "pong") \in Nat /\ Held \in Nat
<1>1. ASSUME wire = << >> PROVE Count(wire, "pong") = 0 /\ In(wire) = {}
  BY <1>1, CountNone DEF In
<1>2. ASSUME wire # << >> 
      PROVE  /\ wire = <<wire[1]>> /\ In(wire) = {wire[1]}
             /\ Count(wire, "pong") = One(wire[1], "pong")
  <2>1. wire \in Seq(CoreMessage) /\ Len(wire) = 1
    BY <1>2 DEF ClientType, StagedFits
  <2>2. wire = <<wire[1]>>
    BY <2>1
  <2>3. In(<<wire[1]>>) = {wire[1]} /\ Count(<<wire[1]>>, "pong") = One(wire[1], "pong")
    BY CountOne
  <2> QED
    BY <2>2, <2>3
<1>3. Count(wire, "pong") \in Nat
  BY <1>1, <1>2 DEF One
<1>4. Count(controls, "pong") \in Nat
  BY CountType DEF ClientType
<1> QED
  BY <1>1, <1>2, <1>3, <1>4 DEF Held

\* The core's part in the heartbeat.
Reads(m) ==
    /\ toCore # << >> /\ m = Head(toCore) /\ toCore' = Tail(toCore) /\ UNCHANGED toHelper
    /\ Held' <= Held + One(m, "ping")
    /\ \A x \in HeldIn' : x.type = "pong" => x \in HeldIn \/ (m.type = "ping" /\ x.token = m.token)
Writes(m) ==
    /\ toHelper' = Append(toHelper, m) /\ m \in CoreMessage /\ UNCHANGED toCore
    /\ Held' + One(m, "pong") = Held
    /\ \A x \in HeldIn' : x.type = "pong" => x \in HeldIn
    /\ m.type = "pong" => m \in HeldIn
Rests ==
    /\ UNCHANGED <<toHelper, toCore>>
    /\ Held' <= Held
    /\ \A x \in HeldIn' : x.type = "pong" => x \in HeldIn

LEMMA CorePongs ==
    ASSUME SessionType, SessionType', OwedInv, SendInv, CoreStep \/ CoreChoice, Up'
    PROVE  (\E m \in HelperMessages : Reads(m)) \/ (\E m \in CoreMessage : Writes(m)) \/ Rests
<1>0. /\ SocketType /\ CoreType /\ ClientType /\ ClientType' /\ Held \in Nat /\ Held' \in Nat
      /\ Count(wire, "pong") \in Nat /\ Count(controls, "pong") \in Nat
      /\ Count(wire', "pong") \in Nat /\ Count(controls', "pong") \in Nat
      /\ controls \in Seq(Waiting)
  <2>1. ClientType /\ ClientType' /\ SocketType /\ CoreType
    BY DEF SessionType, CoreType
  <2>2. Count(wire', "pong") \in Nat /\ Count(controls', "pong") \in Nat /\ Held' \in Nat
    <3>1. ClientType' 
      BY <2>1
    <3>2. wire' = << >> \/ (wire' \in Seq(CoreMessage))
      BY <3>1 DEF ClientType, StagedFits
    <3>3. Count(wire', "pong") \in Nat
      BY <3>2, CountType, CountNone
    <3>4. Count(controls', "pong") \in Nat
      BY <3>1, CountType DEF ClientType
    <3> QED
      BY <3>3, <3>4 DEF Held
  <2> QED
    BY <2>1, <2>2, HeldType DEF ClientType
<1>1. ASSUME Up, UNCHANGED <<controls, wire, toHelper, toCore>>
      PROVE  Rests
  <2>1. Held' = Held /\ HeldIn' = HeldIn
    BY <1>1 DEF Held, HeldIn
  <2> QED
    BY <1>0, <1>1, <2>1 DEF Rests
<1>2. CASE CoreRead
  <2> DEFINE m == Head(toCore)
  <2>1. /\ Heeds(m) /\ Up /\ toCore # << >> /\ toCore' = Tail(toCore) /\ UNCHANGED toHelper
        /\ m \in HelperMessages
    BY <1>2, HeedCases DEF Up
  <2>2. m = Head(toCore)
    OBVIOUS
  <2> HIDE DEF m
  <2>3. CASE UNCHANGED <<controls, wire>>
    <3>1. Held' = Held /\ HeldIn' = HeldIn
      BY <2>1, <2>3 DEF Held, HeldIn
    <3>2. One(m, "ping") \in Nat
      BY DEF One
    <3>3. Reads(m)
      BY <1>0, <2>1, <2>2, <3>1, <3>2 DEF Reads
    <3> QED
      BY <2>1, <3>3
  <2>4. CASE m.type = "ping" /\ UNCHANGED wire /\ controls' = Append(controls, Pong(m.token))
    <3> DEFINE p == Pong(m.token)
    <3>1. p.type = "pong" /\ p.token = m.token /\ p \in Waiting
      <4>1. m.token \in Tokens
        BY <2>1, <2>4, HelperFields
      <4> QED
        BY <4>1 DEF Pong, Pongs, Waiting
    <3>2. controls' = Append(controls, p)
      BY <2>4
    <3> HIDE DEF p
    <3>3. Count(controls', "pong") = Count(controls, "pong") + 1
      BY <1>0, <3>1, <3>2, CountAppend DEF One
    <3>4. In(controls') = In(controls) \cup {p}
      BY <1>0, <3>1, <3>2, InMoves
    <3>5. Held' = Held + 1 /\ One(m, "ping") = 1
      BY <1>0, <2>1, <2>4, <3>3 DEF Held, One
    <3>6. HeldIn' = HeldIn \cup {p}
      BY <2>1, <2>4, <3>4 DEF HeldIn
    <3>7. Reads(m)
      BY <1>0, <2>1, <2>2, <2>4, <3>1, <3>5, <3>6 DEF Reads
    <3> QED
      BY <2>1, <3>7
  <2>5. UNCHANGED <<controls, wire>>
        \/ (m.type = "ping" /\ UNCHANGED wire /\ controls' = Append(controls, Pong(m.token)))
    BY <2>1 DEF Heeds, OkReady, OkSuspend, OkResume, OkInput, OkComplete, OkPing, OkAccepted
  <2> QED
    BY <2>1, <2>3, <2>4, <2>5
<1>3. CASE CoreReadsEnd \/ CoreWriteFails
  BY <1>3, EndEffect
<1>4. CASE CoreWrite
  <2> DEFINE m == Outgoing[1]
  <2>1. /\ wire' = << >> /\ controls' = ControlsAfterStaging /\ UNCHANGED toCore
        /\ toHelper' = Append(toHelper, m) /\ Up /\ Outgoing # << >>
    BY <1>4 DEF CoreWrite, SendMessage, Up
  <2>2. m \in CoreMessage
    BY <1>0, <2>1, OutgoingPieces
  <2>3. Count(wire', "pong") = 0 /\ In(wire') = {}
    BY <2>1, CountNone DEF In
  <2>4. CASE wire # << >>
    <3>1. m = wire[1] /\ controls' = controls
      BY <2>1, <2>4 DEF Outgoing, ControlsAfterStaging
    <3> HIDE DEF m
    <3>2. Count(wire, "pong") = One(m, "pong") /\ In(wire) = {m}
      BY <1>0, <2>4, <3>1, HeldType
    <3>3. Held' + One(m, "pong") = Held
      BY <1>0, <2>1, <2>3, <3>1, <3>2 DEF Held
    <3>4. m \in HeldIn /\ HeldIn' \subseteq HeldIn
      BY <2>1, <2>3, <3>1, <3>2 DEF HeldIn
    <3>5. Writes(m)
      BY <2>1, <2>2, <3>3, <3>4 DEF Writes
    <3> QED
      BY <2>2, <3>5
  <2>5. CASE wire = << >>
    <3>1. NextMessage # << >> /\ m = NextMessage[1]
      BY <2>1, <2>5 DEF Outgoing
    <3> HIDE DEF m
    <3>2. /\ Count(controls, "pong") = One(m, "pong") + Count(controls', "pong")
          /\ In(controls') \subseteq In(controls)
          /\ m.type = "pong" => m \in In(controls)
      BY <1>0, <2>1, <2>5, <3>1, StagedPongs
    <3>3. Count(wire, "pong") = 0 /\ In(wire) = {}
      BY <2>5, CountNone DEF In
    <3>4. Held' + One(m, "pong") = Held
      <4>1. One(m, "pong") \in Nat
        BY DEF One
      <4> QED
        BY <1>0, <2>1, <2>3, <3>2, <3>3, <4>1 DEF Held
    <3>5. (m.type = "pong" => m \in HeldIn) /\ HeldIn' \subseteq HeldIn
      BY <2>1, <2>3, <3>2, <3>3 DEF HeldIn
    <3>6. Writes(m)
      BY <2>1, <2>2, <3>4, <3>5 DEF Writes
    <3> QED
      BY <2>2, <3>6
  <2> QED
    BY <2>4, <2>5
<1>5. CASE CoreWriteBlocks
  <2> DEFINE m == NextMessage[1]
  <2>1. /\ wire = << >> /\ NextMessage # << >> /\ wire' = NextMessage /\ Up
        /\ controls' = ControlsAfterStaging /\ UNCHANGED <<toHelper, toCore>>
    BY <1>5 DEF CoreWriteBlocks, StageMessage, socketVars, Up
  <2>2. /\ wire' = <<m>>
        /\ Count(controls, "pong") = One(m, "pong") + Count(controls', "pong")
        /\ In(controls') \subseteq In(controls)
        /\ m.type = "pong" => m \in In(controls)
    BY <1>0, <2>1, StagedPongs
  <2> HIDE DEF m
  <2>3. Count(wire', "pong") = One(m, "pong") /\ In(wire') = {m}
    BY <2>2, CountOne
  <2>4. Count(wire, "pong") = 0 /\ In(wire) = {}
    BY <2>1, CountNone DEF In
  <2>5. One(m, "pong") \in Nat
    BY DEF One
  <2>6. Held' = Held
    BY <1>0, <2>1, <2>2, <2>3, <2>4, <2>5 DEF Held
  <2>7. \A x \in HeldIn' : x.type = "pong" => x \in HeldIn
    BY <2>1, <2>2, <2>3, <2>4 DEF HeldIn
  <2> QED
    BY <1>0, <2>1, <2>6, <2>7 DEF Rests
<1>6. CASE CoreReleases \/ CoreAcquires
  BY <1>1, <1>6, AnswerEffect
<1>7. CASE CoreStarts \/ CorePresents
  <2>1. UNCHANGED <<controls, wire, toHelper, toCore, cError>>
    BY <1>0, <1>7, PresentEffects
  <2> QED
    BY <1>1, <2>1 DEF Up
<1>8. CASE CoreFrameCompletes
  BY <1>1, <1>8, CompletesEffect DEF failVars
<1>9. CASE CoreLogsOut
  BY <1>1, <1>9, LogOutEffect DEF failVars
<1>10. CASE CoreIsReady \/ CoreHandlesInput \/ CoreQuits \/ CoreFails \/ CoreTimesOut
              \/ CoreCrashes \/ CoreDraws
  BY <1>1, <1>10, Idles DEF failVars, Up
<1> QED
  BY <1>2, <1>3, <1>4, <1>5, <1>6, <1>7, <1>8, <1>9, <1>10, CoreCases

\* How the balance of what is asked and answered is kept.
LEMMA Balance ==
    ASSUME Asked \in Nat, Back \in Nat, Held \in Nat, Due \in {0, 1}, Asked + Back + Held <= Due,
           Asked' \in Nat, Back' \in Nat, Held' \in Nat
    PROVE  LET kept == Asked' + Back' + Held' <= Due'
           IN  /\ Due = 0 => Asked = 0 /\ Back = 0 /\ Held = 0
               /\ \A k \in {0, 1} :
                    Due' = Due =>
                      /\ Asked' <= Asked /\ Back = k + Back' /\ Held' = Held => kept
                      /\ Asked = k + Asked' /\ Back' = Back /\ Held' = 0 => kept
                      /\ Asked = k + Asked' /\ Back' = Back /\ Held' <= Held + k => kept
                      /\ Asked' = Asked /\ Back' = Back + k /\ Held = Held' + k => kept
               /\ /\ Due = 1 /\ Due' = 0 /\ Asked' <= Asked /\ Back = 1 + Back' /\ Held' = Held
                  => kept
               /\ /\ Due = 0 /\ Due' = 1 /\ Back' = Back /\ Held' = Held
                  /\ Asked' <= Asked \/ Asked' = Asked + 1
                  => kept
               /\ Due' = Due /\ Asked' <= Asked /\ Back' = Back /\ Held' <= Held => kept
<1> DEFINE a == Asked
           b == Back
           c == Held
           d == Due
           p == Asked'
           q == Back'
           r == Held'
           e == Due'
<1> HIDE DEF a, b, c, d, p, q, r, e
<1>1. /\ a \in Nat /\ b \in Nat /\ c \in Nat /\ d \in {0, 1} /\ a + b + c <= d
      /\ p \in Nat /\ q \in Nat /\ r \in Nat
  BY DEF a, b, c, d, p, q, r, e
<1>2. /\ d = 0 => a = 0 /\ b = 0 /\ c = 0
      /\ \A k \in {0, 1} :
           e = d =>
             /\ p <= a /\ b = k + q /\ r = c => p + q + r <= e
             /\ a = k + p /\ q = b /\ r = 0 => p + q + r <= e
             /\ a = k + p /\ q = b /\ r <= c + k => p + q + r <= e
             /\ p = a /\ q = b + k /\ c = r + k => p + q + r <= e
      /\ d = 1 /\ e = 0 /\ p <= a /\ b = 1 + q /\ r = c => p + q + r <= e
      /\ d = 0 /\ e = 1 /\ q = b /\ r = c /\ (p <= a \/ p = a + 1) => p + q + r <= e
      /\ e = d /\ p <= a /\ q = b /\ r <= c => p + q + r <= e
  BY <1>1
<1> QED
  BY <1>2 DEF a, b, c, d, p, q, r, e

\* The worker's part: it asks when nothing is asked, and takes what is due.
LEMMA WorkerPongs ==
    ASSUME SessionType, SessionType', HelperInv, HearInv, PongInv, WorkerStep,
           UNCHANGED <<cError, wire, controls>>
    PROVE  PongInv'
<1>0. /\ toHelper \in Seq(CoreMessage) /\ toHelper' \in Seq(CoreMessage)
      /\ Held \in Nat /\ Asked \in Nat /\ Back \in Nat /\ Back' \in Nat /\ HelperTypeOK
      /\ Due \in {0, 1}
  <2>1. toHelper \in Seq(CoreMessage) /\ toHelper' \in Seq(CoreMessage) /\ ClientType
    BY DEF SessionType, SocketType, CoreType
  <2>2. Transit \in Seq(HelperMessages)
    BY TransitMoves
  <2> QED
    BY <2>1, <2>2, CountType, HeldType DEF Asked, Back, Due, SessionType
<1>1. Held' = Held /\ HeldIn' = HeldIn
  BY DEF Held, HeldIn, Up
<1>9. Held' \in Nat
  BY <1>0, <1>1
<1>2. CASE Flushes
  <2>1. Transit' = Transit /\ UNCHANGED <<toHelper, ping, error>>
    BY <1>2, TransitMoves DEF Flushes, ConsumeHead, controlVars
  <2> QED
    BY <1>1, <2>1 DEF PongInv, Asked, Back, Due
<1>3. ASSUME error' = "none", Keeps \/ Tells, UNCHANGED toCore
      PROVE  /\ error = "none" /\ Asked' \in Nat
             /\ Asked' <= Asked \/ (Asked' = Asked + 1 /\ \E token : send_ping(token))
             /\ \A x \in In(Transit') : x.type = "ping" => x \in In(Transit) \/ send_ping(x.token)
  BY <1>3, ToldPings DEF Keeps, Tells
<1>4. CASE Drains /\ (Keeps \/ Tells)
  <2> SUFFICES ASSUME error' = "none" PROVE PongInv'
    BY DEF PongInv
  <2> DEFINE m == Head(toHelper)
  <2>1. /\ toHelper # << >> /\ toHelper' = Tail(toHelper) /\ Receive(m, HostPresents(m))
        /\ UNCHANGED toCore
    BY <1>4 DEF Drains
  <2>2. Back = One(m, "pong") + Back' /\ m \in In(toHelper) /\ In(toHelper') \subseteq In(toHelper)
    BY <1>0, <2>1, CountTail, InMoves DEF Back
  <2>3. ping' = ping \/ Answered(m)
    BY <1>0, <2>1, ReceivePing
  <2> HIDE DEF m
  <2>4. \A token : ~send_ping(token)
    <3>1. ASSUME NEW token, send_ping(token) PROVE FALSE
      BY <2>3, <3>1, SendsPing DEF Answered
    <3> QED
      BY <3>1
  <2>5. /\ error = "none" /\ Asked' \in Nat /\ Asked' <= Asked
        /\ \A x \in In(Transit') : x.type = "ping" => x \in In(Transit)
    BY <1>3, <1>4, <2>1, <2>4
  <2>6. ping'.token = ping.token
    BY <2>3 DEF Answered
  <2>7. Asked' + Back' + Held' <= Due'
    <3>1. Asked + Back + Held <= Due
      BY <2>5 DEF PongInv
    <3>2. One(m, "pong") \in {0, 1}
      BY DEF One
    <3>3. CASE ping' = ping
      <4>1. Due' = Due
        BY <3>3 DEF Due
      <4> QED
        BY <1>0, <1>1, <1>9, <2>2, <2>5, <3>1, <3>2, <4>1, Balance
    <3>4. CASE Answered(m)
      <4>1. One(m, "pong") = 1 /\ Due = 1 /\ Due' = 0
        BY <3>4 DEF Answered, One, Due
      <4>2. Back = 1 + Back'
        BY <2>2, <4>1
      <4> QED
        BY <1>0, <1>1, <1>9, <2>5, <3>1, <4>1, <4>2, Balance
    <3> QED
      BY <2>3, <3>3, <3>4
  <2> QED
    BY <1>1, <2>2, <2>5, <2>6, <2>7 DEF PongInv
<1>5. CASE /\ Calls \/ UNCHANGED helperVars
           /\ Keeps \/ Tells
           /\ UNCHANGED <<toCore, toHelper>>
  <2> SUFFICES ASSUME error' = "none" PROVE PongInv'
    BY DEF PongInv
  <2>1. /\ error = "none" /\ Asked' \in Nat
        /\ Asked' <= Asked \/ (Asked' = Asked + 1 /\ \E token : send_ping(token))
        /\ \A x \in In(Transit') : x.type = "ping" => x \in In(Transit) \/ send_ping(x.token)
    BY <1>3, <1>5
  <2>2. Asked + Back + Held <= Due
    BY <2>1 DEF PongInv
  <2>3. Back' = Back
    BY <1>5 DEF Back
  <2>4. CASE \E token : send_ping(token)
    <3>1. PICK token : send_ping(token)
      BY <2>4
    <3>2. ~ping.outstanding /\ ping'.outstanding
      BY <3>1, SendsPing
    <3>3. Asked = 0 /\ Back = 0 /\ Held = 0
      <4>1. Due = 0
        BY <3>2 DEF Due
      <4> QED
        BY <1>0, <1>9, <2>1, <2>2, <4>1, Balance
    <3>4. \A x \in In(Transit) : x.type # "ping"
      <4>1. Transit \in Seq(HelperMessages)
        BY TransitMoves
      <4> QED
        BY <3>3, <4>1, CountIn DEF Asked
    <3>5. \A x \in In(Transit') : x.type = "ping" => x.token = ping'.token
      BY <2>1, <3>4, SendsPing
    <3>6. \A x \in In(toHelper) : x.type # "pong"
      BY <1>0, <3>3, CountIn DEF Back
    <3>7. \A x \in HeldIn : x.type # "pong"
      <4>1. CASE Up
        <5>1. ClientType /\ controls \in Seq(Waiting)
          BY DEF SessionType, CoreType, ClientType
        <5>2. Count(controls, "pong") = 0 /\ Count(wire, "pong") = 0
          BY <3>3, <4>1, <5>1, HeldType DEF Held
        <5>3. wire = << >> \/ wire \in Seq(CoreMessage)
          BY <5>1 DEF ClientType, StagedFits
        <5>4. \A x \in In(wire) : x.type # "pong"
          BY <5>2, <5>3, CountIn DEF In
        <5> QED
          BY <5>1, <5>2, <5>4, CountIn DEF HeldIn
      <4> QED
        BY <4>1 DEF HeldIn
    <3>8. Asked' + Back' + Held' <= Due'
      <4>1. Due = 0 /\ Due' = 1
        BY <3>2 DEF Due
      <4> QED
        BY <1>0, <1>1, <1>9, <2>1, <2>2, <2>3, <4>1, Balance
    <3> QED
      BY <1>1, <1>5, <3>2, <3>5, <3>6, <3>7, <3>8 DEF PongInv
  <2>5. CASE ~ \E token : send_ping(token)
    <3>1. ping'.outstanding = ping.outstanding /\ ping'.token = ping.token
      BY <1>0, <1>5, <2>5, CallPing
    <3>2. Asked' <= Asked
      BY <2>1, <2>5
    <3>3. Asked' + Back' + Held' <= Due'
      <4>1. Due' = Due
        BY <3>1 DEF Due
      <4>2. Held' <= Held
        BY <1>0, <1>1
      <4> QED
        BY <1>0, <1>9, <2>1, <2>2, <2>3, <3>2, <4>1, <4>2, Balance
    <3> QED
      BY <1>1, <1>5, <2>1, <2>5, <3>1, <3>3 DEF PongInv
  <2> QED
    BY <2>4, <2>5
<1> QED
  BY <1>2, <1>4, <1>5, WorkerTells

LEMMA ReadAsked ==
    ASSUME SessionType, toCore # << >>, toCore' = Tail(toCore), UNCHANGED outbound
    PROVE  /\ Asked = One(Head(toCore), "ping") + Asked'
           /\ In(Transit') \subseteq In(Transit) /\ Head(toCore) \in In(Transit)
<1>1. /\ Transit \in Seq(HelperMessages) /\ Transit # << >> /\ Head(Transit) = Head(toCore)
      /\ Tail(Transit) = Tail(toCore) \o Texts(outbound)
  BY TransitMoves
<1>2. Transit' = Tail(Transit)
  BY <1>1 DEF Transit
<1> DEFINE h == Head(toCore)
<1> HIDE DEF h
<1>3. Head(Transit) = h
  BY <1>1 DEF h
<1>4. Count(Transit, "ping") = One(h, "ping") + Count(Tail(Transit), "ping")
  BY <1>1, <1>3, CountTail
<1>5. Asked = One(h, "ping") + Asked'
  BY <1>2, <1>4 DEF Asked
<1> QED
  BY <1>1, <1>2, <1>3, <1>5, InMoves DEF h

LEMMA PongStep ==
    ASSUME SessionType, SessionType', OwedInv, SendInv, HelperInv, HearInv, PongInv, [Next]_vars
    PROVE  PongInv'
<1>1. CASE WorkerStep /\ UNCHANGED coreSide
  <2>1. UNCHANGED <<cError, wire, controls>>
    BY <1>1 DEF coreSide, clientVars, failVars
  <2> QED
    BY <1>1, <2>1, WorkerPongs
<1>2. CASE (CoreStep \/ CoreChoice) /\ UNCHANGED workerSide
  <2>0. /\ UNCHANGED <<ping, error, outbound>>
        /\ toHelper \in Seq(CoreMessage) /\ toHelper' \in Seq(CoreMessage)
        /\ toCore \in Seq(HelperMessages) /\ ClientType /\ ClientType'
        /\ Transit \in Seq(HelperMessages) /\ (Transit \in Seq(HelperMessages))'
    <3>1. UNCHANGED <<ping, error, outbound>>
      BY <1>2 DEF workerSide, helperVars, controlVars, queueVars
    <3>2. Transit \in Seq(HelperMessages)
      BY TransitMoves
    <3>3. (Transit \in Seq(HelperMessages))'
      BY TransitMoves, PTL
    <3> QED
      BY <3>1, <3>2, <3>3 DEF SessionType, SocketType, CoreType
  <2>1. /\ Asked \in Nat /\ Asked' \in Nat /\ Back \in Nat /\ Back' \in Nat /\ Held \in Nat
        /\ Held' \in Nat
    <3>1. Held \in Nat
      BY <2>0, HeldType
    <3>2. (Held \in Nat)'
      BY <2>0, HeldType, PTL
    <3> QED
      BY <2>0, <3>1, <3>2, CountType DEF Asked, Back
  <2> SUFFICES ASSUME error = "none" PROVE PongInv'
    BY <2>0 DEF PongInv
  <2>2. Asked + Back + Held <= Due /\ Due \in {0, 1} /\ Due' = Due
    BY <2>0 DEF PongInv, Due
  <2>3. CASE ~Up'
    <3>1. Held' = 0 /\ HeldIn' = {}
      BY <2>3 DEF Held, HeldIn
    <3>2. CASE CoreRead
      <4>1. toCore # << >> /\ toCore' = Tail(toCore) /\ toHelper' = toHelper
        BY <3>2 DEF CoreRead
      <4>2. Asked = One(Head(toCore), "ping") + Asked' /\ In(Transit') \subseteq In(Transit)
        BY <2>0, <4>1, ReadAsked
      <4>3. Back' = Back /\ One(Head(toCore), "ping") \in {0, 1}
        BY <4>1 DEF One, Back
      <4>4. Asked' + Back' + Held' <= Due'
        BY <2>1, <2>2, <3>1, <4>2, <4>3, Balance
      <4> QED
        BY <2>0, <3>1, <4>1, <4>2, <4>4 DEF PongInv
    <3>3. CASE UNCHANGED <<toCore, toHelper>>
      <4>1. Transit' = Transit
        BY <2>0, <3>3 DEF Transit
      <4>2. Asked' = Asked /\ Back' = Back
        BY <3>3, <4>1 DEF Asked, Back
      <4>3. Asked' + Back' + Held' <= Due'
        <5>1. 0 \in {0, 1} /\ Asked = 0 + Asked'
          BY <2>1, <4>2
        <5> QED
          BY <2>1, <2>2, <3>1, <4>2, <5>1, Balance
      <4> QED
        BY <2>0, <3>1, <3>3, <4>1, <4>3 DEF PongInv
    <3>4. CASE CoreWrite
      BY <2>3, <3>4 DEF CoreWrite, SendMessage, Up
    <3> QED
      BY <1>2, <3>2, <3>3, <3>4, CoreSaid
  <2>4. CASE Up'
    <3>1. CASE \E m \in HelperMessages : Reads(m)
      <4>1. PICK m \in HelperMessages : Reads(m)
        BY <3>1
      <4>2. Asked = One(m, "ping") + Asked' /\ In(Transit') \subseteq In(Transit)
            /\ m \in In(Transit)
        BY <2>0, <4>1, ReadAsked DEF Reads
      <4>3. Back' = Back /\ Held' <= Held + One(m, "ping") /\ One(m, "ping") \in {0, 1}
        BY <4>1 DEF Reads, One, Back
      <4>4. Asked' + Back' + Held' <= Due'
        BY <2>1, <2>2, <4>2, <4>3, Balance
      <4> QED
        BY <2>0, <4>1, <4>2, <4>4 DEF PongInv, Reads
    <3>2. CASE \E m \in CoreMessage : Writes(m)
      <4>1. PICK m \in CoreMessage : Writes(m)
        BY <3>2
      <4>2. Transit' = Transit /\ Asked' = Asked
        BY <2>0, <4>1 DEF Writes, Transit, Asked
      <4>3. Back' = Back + One(m, "pong") /\ In(toHelper') = In(toHelper) \cup {m}
        BY <2>0, <4>1, CountAppend, InMoves DEF Writes, Back
      <4>4. Held = Held' + One(m, "pong") /\ One(m, "pong") \in {0, 1}
        BY <4>1 DEF Writes, One
      <4>5. Asked' + Back' + Held' <= Due'
        BY <2>1, <2>2, <4>2, <4>3, <4>4, Balance
      <4> QED
        BY <2>0, <4>1, <4>2, <4>3, <4>5 DEF PongInv, Writes
    <3>3. CASE Rests
      <4>1. Transit' = Transit /\ toHelper' = toHelper
        BY <2>0, <3>3 DEF Rests, Transit
      <4>2. Asked' <= Asked /\ Back' = Back /\ Held' <= Held
        <5>1. Asked' = Asked
          BY <4>1 DEF Asked
        <5> QED
          BY <2>1, <3>3, <4>1, <5>1 DEF Back, Rests
      <4>3. Asked' + Back' + Held' <= Due'
        BY <2>1, <2>2, <4>2, Balance
      <4> QED
        BY <2>0, <3>3, <4>1, <4>3 DEF PongInv, Rests
    <3> QED
      BY <1>2, <2>4, <3>1, <3>2, <3>3, CorePongs
  <2> QED
    BY <2>3, <2>4
<1>3. CASE ((SwitchAway \/ SwitchBack) /\ UNCHANGED coreSide) \/ UNCHANGED vars
  <2>1. UNCHANGED <<helperVars, toCore, toHelper, cError, wire, controls>>
    BY <1>3 DEF SwitchAway, SwitchBack, coreSide, clientVars, failVars, vars, socketVars
  <2>2. UNCHANGED <<ping, error, toHelper, Transit, Asked, Back, Held, HeldIn, Due>>
    BY <2>1 DEF helperVars, controlVars, queueVars, Transit, Asked, Held, HeldIn, Due, Back, Up
  <2> QED
    BY <2>1, <2>2 DEF PongInv
<1> QED
  BY <1>1, <1>2, <1>3, SessionSteps

LEMMA PongAlways == Spec => []PongInv
<1>1. Init => PongInv
  <2> SUFFICES ASSUME Init PROVE PongInv
    OBVIOUS
  <2>1. /\ toCore = << >> /\ outbound = << >> /\ toHelper = << >>
        /\ wire = << >> /\ controls = <<Hello(TRUE)>>
    BY DEF Init, WorkerInit, HelperInit, SocketInit, CoreInit, ClientInit
  <2>2. One(Hello(TRUE), "pong") = 0 /\ Hello(TRUE).type # "pong"
    BY DEF One, Hello
  <2>3. Transit = << >>
    <3>1. Texts(<< >>) = << >>
      BY DEF Texts
    <3>2. << >> \o << >> = << >>
      OBVIOUS
    <3> QED
      BY <2>1, <3>1, <3>2, Zenon DEF Transit
  <2>4. Asked = 0 /\ Back = 0
    BY <2>1, <2>3, CountNone, Zenon DEF Asked, Back
  <2>5. In(Transit) = {} /\ In(toHelper) = {} /\ In(wire) = {}
    BY <2>1, <2>3 DEF In
  <2> DEFINE h == Hello(TRUE)
  <2>6. Count(<<h>>, "pong") = One(h, "pong") /\ In(<<h>>) = {h}
    BY CountOne
  <2>7. Count(controls, "pong") = 0 /\ Count(wire, "pong") = 0 /\ In(controls) = {h}
    BY <2>1, <2>2, <2>6, CountNone, Zenon
  <2>8. h.type # "pong"
    BY <2>2
  <2> HIDE DEF h
  <2>9. Held = 0
    BY <2>7 DEF Held
  <2>10. HeldIn \subseteq {h}
    BY <2>5, <2>7 DEF HeldIn
  <2>11. 0 + 0 + 0 <= Due
    BY DEF Due
  <2> QED
    BY <2>4, <2>5, <2>8, <2>9, <2>10, <2>11 DEF PongInv
<1>2. SessionType /\ SessionType' /\ OwedInv /\ SendInv /\ HelperInv /\ HearInv /\ PongInv /\ [Next]_vars
        => PongInv'
  BY PongStep
<1>3. ClientInv => SendInv
  BY DEF ClientInv
<1> QED
  BY <1>1, <1>2, <1>3, SessionTypeCorrect, OwedAlways, ClientAlways, HelperInSession, HearAlways, PTL DEF Spec

(***************************************************************************)
(* The frames under way belong to a generation the helper has had.         *)
(***************************************************************************)
BornInv ==
    /\ suspended => generation > 1
    /\ error = "none" => \A x \in In(toHelper) :
          x.type \in FrameTypes => x.generation <= generation /\ readySent

\* The core knows of no ownership the helper has not announced.
LEMMA Follows ==
    ASSUME SessionType, HearInv, Up, error = "none"
    PROVE  cGeneration <= generation /\ (cGeneration # 0 => readySent)
<1> DEFINE L == {t \in Views \X Views : t[1].generation <= t[2].generation}
<1>0. \A x, y : <<x, y>> \in L <=> x \in Views /\ y \in Views /\ x.generation <= y.generation
  OBVIOUS
<1>1. Along(Hears, Views, Transit, ClientView, HelperView)
  BY DEF HearInv
<1>2. Transit \in Seq(HelperMessages)
  BY TransitMoves
<1>3. \A x \in Views : x.generation \in Nat
  BY DEF Views
<1> HIDE DEF L
<1>4. Ordered(L, Views)
  <2>1. \A x \in Views : <<x, x>> \in L
    BY <1>0, <1>3
  <2>2. ASSUME NEW x \in Views, NEW y \in Views, NEW z \in Views, <<x, y>> \in L, <<y, z>> \in L
        PROVE <<x, z>> \in L
    <3>1. x.generation <= y.generation /\ y.generation <= z.generation
      BY <1>0, <2>2
    <3>2. x.generation \in Nat /\ y.generation \in Nat /\ z.generation \in Nat
      BY <1>3
    <3>3. x.generation <= z.generation
      BY <3>1, <3>2
    <3> QED
      BY <1>0, <3>3
  <2> QED
    BY <2>1, <2>2 DEF Ordered
<1>5. Respects(Hears, Views, L)
  <2>1. ASSUME NEW x \in Views, NEW y \in Views, NEW m, <<x, m, y>> \in Hears
        PROVE <<x, y>> \in L
    <3>1. Hear(x, m, y)
      BY <2>1, HearsIs
    <3>2. x.generation \in Nat /\ y.generation \in Nat
      BY <1>3
    <3>3. \/ x.generation <= m.generation /\ y.generation = m.generation
          \/ m.generation = x.generation + 1 /\ y.generation = m.generation
          \/ m.generation = x.generation /\ y.generation = m.generation
          \/ y = x
      <4>1. \A r, a, g : View(r, a, g).generation = g
        BY ViewFields
      <4>2. CASE m.type = "ready"
        <5>1. x.generation <= m.generation /\ y = View(TRUE, TRUE, m.generation)
          BY <3>1, <4>2, Zenon DEF Hear
        <5> QED
          BY <4>1, <5>1
      <4>3. CASE m.type = "suspend"
        <5>1. m.generation = x.generation + 1 /\ y = View(TRUE, FALSE, m.generation)
          BY <3>1, <4>3 DEF Hear
        <5> QED
          BY <4>1, <5>1
      <4>4. CASE m.type = "resume"
        <5>1. m.generation = x.generation /\ y = View(TRUE, TRUE, m.generation)
          BY <3>1, <4>4 DEF Hear
        <5> QED
          BY <4>1, <5>1
      <4>5. CASE m.type \notin {"ready", "suspend", "resume"}
        BY <3>1, <4>5 DEF Hear
      <4> QED
        BY <4>2, <4>3, <4>4, <4>5
    <3>4. x.generation <= y.generation
      BY <3>2, <3>3
    <3> QED
      BY <1>0, <3>4
  <2> QED
    BY <2>1 DEF Respects
<1>6. <<ClientView, HelperView>> \in L
  BY <1>1, <1>2, <1>4, <1>5, AlongRises
<1>7. ClientView.generation = cGeneration
      /\ HelperView.generation = IF readySent THEN generation ELSE 0
  BY ViewFields DEF ClientView, HelperView
<1>8. cGeneration \in Nat /\ generation \in Nat
  BY Ranges DEF SessionType, CoreType, ClientType, HelperTypeOK
<1>9. cGeneration <= IF readySent THEN generation ELSE 0
  BY <1>0, <1>6, <1>7
<1> QED
  BY <1>8, <1>9

\* The generation only grows, and READY is sent for good.
LEMMA ReceiveBorn ==
    ASSUME HelperTypeOK, NEW m, NEW presented, Receive(m, presented)
    PROVE  /\ UNCHANGED <<generation, suspended>>
           /\ helloReceived /\ readySent => readySent'
<1> USE DEF sessionVars
<1>1. CASE ReceiveHello(m) \/ RejectHello(m)
  BY <1>1 DEF ReceiveHello, RejectHello, Reject
<1>2. CASE handle_frame_begin(m) \/ handle_frame_data(m) \/ handle_frame_reference(m, presented)
  BY <1>2 DEF handle_frame_begin, handle_frame_data, handle_frame_reference, DropFrame,
     PresentFrame, PresentFails, RejectReference, Reject
<1>3. CASE handle_pong(m) \/ handle_shutdown
  BY <1>3 DEF handle_pong, handle_shutdown, Reject
<1>4. CASE \E cause : Reject(cause)
  BY <1>4 DEF Reject
<1> QED
  BY <1>1, <1>2, <1>3, <1>4 DEF Receive

LEMMA CallBorn ==
    ASSUME HelperTypeOK, Calls \/ ConsumeHead \/ UNCHANGED helperVars
    PROVE  /\ generation <= generation'
           /\ suspended' => suspended \/ generation' = generation + 1
           /\ readySent => readySent'
<1> USE DEF sessionVars
<1>0. generation \in Nat
  BY Ranges DEF HelperTypeOK
<1>1. CASE suspend
  BY <1>0, <1>1 DEF suspend
<1>2. CASE UNCHANGED <<generation, readySent>> /\ (suspended' => suspended)
  BY <1>0, <1>2
<1>3. CASE \E resized \in BOOLEAN : resume(resized)
  <2>1. generation' = generation /\ ~suspended'
    BY <1>3 DEF resume
  <2>2. readySent => readySent'
    BY <1>3, Zenon DEF resume
  <2> QED
    BY <1>0, <2>1, <2>2
<1>4. ASSUME UNCHANGED sessionVars
      PROVE  UNCHANGED <<generation, readySent>> /\ (suspended' => suspended)
  BY <1>4
<1>5. CASE \E gen \in Generations, serial \in Serials : complete_frame(gen, serial)
  BY <1>2, <1>4, <1>5 DEF complete_frame, Reject, helperVars
<1>6. CASE \E token \in Tokens : send_ping(token)
  BY <1>2, <1>4, <1>6 DEF send_ping
<1>7. CASE send_input \/ take_pong \/ report_fatal \/ StartHead \/ ConsumeHead
  BY <1>2, <1>4, <1>7 DEF send_input, take_pong, report_fatal, StartHead, ConsumeHead, Reject
<1>8. CASE UNCHANGED helperVars
  BY <1>2, <1>4, <1>8 DEF helperVars
<1> QED
  BY <1>1, <1>3, <1>5, <1>6, <1>7, <1>8 DEF Calls

LEMMA FrameMessages ==
    ASSUME NEW m \in CoreMessage, m.type \in FrameTypes
    PROVE  m.generation \in Generations /\ m.serial \in Serials
<1>1. CASE m \in Hellos \cup Pongs(Tokens) \cup {ShutdownRequest}
  BY <1>1 DEF Hellos, Hello, ShutdownRequest, Pongs, Pong, FrameTypes
<1>2. CASE m \in Begins(Generations, Serials)
  BY <1>2 DEF Begins
<1>3. CASE m \in Pieces(Generations, Serials)
  BY <1>3 DEF Pieces, Data
<1>4. CASE m \in Ends(Generations, Serials)
  BY <1>4 DEF Ends, Commit, Abort
<1> QED
  BY <1>1, <1>2, <1>3, <1>4 DEF CoreMessage, CoreMessages

LEMMA BornStep ==
    ASSUME SessionType, SessionType', OwedInv, SendInv, HelperInv, HearInv, BornInv, [Next]_vars
    PROVE  BornInv'
<1>0. /\ generation \in Nat /\ generation # 0 /\ generation' \in Nat /\ HelperTypeOK /\ ClientType
      /\ toHelper \in Seq(CoreMessage)
  BY Ranges DEF SessionType, HelperTypeOK, CoreType, SocketType, Generations
<1>1. CASE WorkerStep /\ UNCHANGED coreSide
  <2>1. \/ Drains
        \/ (Calls \/ ConsumeHead \/ UNCHANGED helperVars) /\ UNCHANGED toHelper
    BY <1>1, WorkerMoves DEF Flushes
  <2>2. In(toHelper') \subseteq In(toHelper)
    BY <1>0, <2>1, InMoves DEF Drains
  <2>3. \A x \in In(toHelper') : x.type \in FrameTypes => x.generation \in Nat
    <3>1. \A x \in CoreMessage : x.type \in FrameTypes => x.generation \in Nat
      BY FrameMessages, Ranges
    <3>2. In(toHelper) \subseteq CoreMessage
      BY <1>0, InMoves
    <3> QED
      BY <2>2, <3>1, <3>2
  <2>4. error' = "none" => error = "none"
    BY <1>1, WorkerTells DEF Keeps, Tells, Flushes, ConsumeHead
  <2>5. CASE Drains
    <3>1. UNCHANGED <<generation, suspended>> /\ (helloReceived /\ readySent => readySent')
      BY <1>0, <2>5, ReceiveBorn DEF Drains
    <3>2. readySent => helloReceived
      BY DEF SessionType, QueueInv
    <3> QED
      BY <2>2, <2>4, <3>1, <3>2 DEF BornInv
  <2>6. CASE Calls \/ ConsumeHead \/ UNCHANGED helperVars
    <3>1. /\ generation <= generation'
          /\ suspended' => suspended \/ generation' = generation + 1
          /\ readySent => readySent'
      BY <1>0, <2>6, CallBorn
    <3>2. suspended' => generation' > 1
      BY <1>0, <3>1 DEF BornInv
    <3>3. ASSUME error' = "none", NEW x \in In(toHelper'), x.type \in FrameTypes
          PROVE  x.generation <= generation' /\ readySent'
      <4>1. x.generation <= generation /\ readySent /\ x.generation \in Nat
        BY <2>2, <2>3, <2>4, <3>3 DEF BornInv
      <4> QED
        BY <1>0, <3>1, <4>1
    <3> QED
      BY <3>2, <3>3 DEF BornInv
  <2> QED
    BY <2>1, <2>5, <2>6
<1>2. CASE (CoreStep \/ CoreChoice) /\ UNCHANGED workerSide
  <2>1. UNCHANGED <<generation, readySent, suspended, error>>
    BY <1>2 DEF workerSide, helperVars, sessionVars, queueVars
  <2>2. CASE UNCHANGED toHelper
    BY <2>1, <2>2 DEF BornInv
  <2>3. CASE CoreWrite
    <3> DEFINE m == Outgoing[1]
    <3>1. toHelper' = Append(toHelper, m) /\ Up /\ Outgoing # << >>
      BY <2>3 DEF CoreWrite, SendMessage, Up
    <3>2. m \in CoreMessage /\ Piece(m, cFrame)
      BY <1>0, <3>1, OutgoingPieces
    <3>3. FrameFits(cFrame) /\ FrameIn(cFrame, cGeneration, cState, nextSerial)
      BY <1>0, <3>1 DEF ClientType, SendInv
    <3> HIDE DEF m
    <3>4. In(toHelper') = In(toHelper) \cup {m}
      BY <1>0, <3>1, <3>2, InMoves
    <3>5. ASSUME error = "none", m.type \in FrameTypes
          PROVE  m.generation <= generation /\ readySent
      <4>1. m.generation = cFrame.generation /\ cFrame.phase # "none"
        BY <3>2, <3>5 DEF Piece, FrameTypes
      <4>2. cFrame.generation \in Nat \ {0}
        BY <3>3, <4>1, Ranges DEF FrameFits, Generations
      <4>3. cFrame.generation <= cGeneration /\ cGeneration \in Nat
        BY <1>0, <3>3, <4>1, <4>2, Ranges DEF FrameIn, ClientType
      <4>4. cGeneration <= generation /\ (cGeneration # 0 => readySent)
        BY <3>1, <3>5, Follows
      <4> QED
        BY <1>0, <4>1, <4>2, <4>3, <4>4
    <3> QED
      BY <2>1, <3>4, <3>5 DEF BornInv
  <2> QED
    BY <1>2, <2>2, <2>3, CoreSaid
<1>3. CASE ((SwitchAway \/ SwitchBack) /\ UNCHANGED coreSide) \/ UNCHANGED vars
  <2>1. UNCHANGED <<helperVars, toHelper>>
    BY <1>3 DEF SwitchAway, SwitchBack, vars, socketVars
  <2> QED
    BY <2>1 DEF BornInv, helperVars, sessionVars, queueVars
<1> QED
  BY <1>1, <1>2, <1>3, SessionSteps

LEMMA BornAlways == Spec => []BornInv
<1>1. Init => BornInv
  <2>1. In(<< >>) = {}
    BY DEF In
  <2> QED
    BY <2>1 DEF Init, WorkerInit, HelperInit, SocketInit, BornInv
<1>2. SessionType /\ SessionType' /\ OwedInv /\ SendInv /\ HelperInv /\ HearInv /\ BornInv /\ [Next]_vars
        => BornInv'
  BY BornStep
<1>3. ClientInv => SendInv
  BY DEF ClientInv
<1> QED
  BY <1>1, <1>2, <1>3, SessionTypeCorrect, OwedAlways, ClientAlways, HelperInSession, HearAlways, PTL DEF Spec

(***************************************************************************)
(* What the core has sent takes the helper, message by message, from where *)
(* it is to where the core is; so it never receives one it would refuse.   *)
(***************************************************************************)
Reaches(q, v, w) == Along(Takings, Progresses, q, v, w)

ObeyInv == error = "none" =>
    \E v, w \in Progresses : Fits(v) /\ Reaches(toHelper, v, w) /\ (Up => Ahead(w))

\* The helper takes the first of the messages.
LEMMA TakesNext ==
    ASSUME toHelper \in Seq(CoreMessage), toHelper # << >>, NEW v, NEW w, Reaches(toHelper, v, w)
    PROVE  \E x \in Progresses :
              /\ v \in Progresses /\ w \in Progresses
              /\ Head(toHelper) \in CoreMessage /\ Take(v, Head(toHelper), x)
              /\ Reaches(Tail(toHelper), x, w)
<1>1. Along(Takings, Progresses, toHelper, v, w)
  BY DEF Reaches
<1>2. PICK x \in Progresses : /\ <<v, Head(toHelper), x>> \in Takings
                              /\ Along(Takings, Progresses, Tail(toHelper), x, w)
  BY <1>1, AlongTail
<1>3. v \in Progresses /\ w \in Progresses
  BY <1>1, AlongEnds
<1>4. Head(toHelper) \in CoreMessage /\ Take(v, Head(toHelper), x)
  BY <1>2, TakingsIs
<1> QED
  BY <1>2, <1>3, <1>4 DEF Reaches

LEMMA ObeyStep ==
    ASSUME SessionType, OwedInv, ClientInv, Books, HelperInv, HearInv, ObeyInv, [Next]_vars
    PROVE  ObeyInv'
<1>0. toHelper \in Seq(CoreMessage) /\ HelperTypeOK /\ OneFrameInFlight
  BY DEF SessionType, SocketType, HelperInv
<1> SUFFICES ASSUME error' = "none" PROVE ObeyInv'
  BY DEF ObeyInv
<1>1. CASE WorkerStep /\ UNCHANGED coreSide
  <2>1. error = "none"
    BY <1>1, WorkerTells DEF Keeps, Tells, Flushes, ConsumeHead
  <2>2. PICK v, w \in Progresses : Fits(v) /\ Reaches(toHelper, v, w) /\ (Up => Ahead(w))
    BY <2>1 DEF ObeyInv
  <2>3. Up' => Ahead(w)'
    <3>1. UNCHANGED <<helloSent, shutdownSent, cFrame, nextSerial, cState, painted, cGeneration, cError>>
      BY <1>1 DEF coreSide, clientVars, coreVars, drawVars, ownershipVars, shutdownVars, failVars
    <3> QED
      BY <2>2, <3>1 DEF Ahead, Up
  <2>4. CASE Drains
    <3> DEFINE m == Head(toHelper)
    <3>1. /\ toHelper # << >> /\ toHelper' = Tail(toHelper)
          /\ Receive(m, HostPresents(m)) /\ HostPresents(m) \in BOOLEAN
      BY <2>4 DEF Drains
    <3>2. PICK x \in Progresses : m \in CoreMessage /\ Take(v, m, x) /\ Reaches(Tail(toHelper), x, w)
      BY <1>0, <2>2, <3>1, TakesNext
    <3> HIDE DEF m
    <3>3. Fits(x)'
      BY <1>0, <2>1, <2>2, <3>1, <3>2, ReceiveTaken
    <3>4. Reaches(toHelper', x, w)
      BY <3>1, <3>2
    <3> QED
      BY <2>3, <3>3, <3>4 DEF ObeyInv, Reaches
  <2>5. CASE (Calls \/ ConsumeHead \/ UNCHANGED helperVars) /\ UNCHANGED toHelper
    <3>1. Fits(v)'
      BY <1>0, <2>1, <2>2, <2>5, CallFits
    <3>2. Reaches(toHelper', v, w)
      BY <2>2, <2>5
    <3> QED
      BY <2>2, <2>3, <3>1, <3>2 DEF ObeyInv, Reaches
  <2> QED
    BY <1>1, <2>1, <2>4, <2>5, WorkerFaults
<1>2. CASE (CoreStep \/ CoreChoice) /\ UNCHANGED workerSide
  <2>1. UNCHANGED helperVars /\ error = "none"
    BY <1>2 DEF workerSide, helperVars, queueVars
  <2>2. PICK v, w \in Progresses : Fits(v) /\ Reaches(toHelper, v, w) /\ (Up => Ahead(w))
    BY <2>1 DEF ObeyInv
  <2>3. Fits(v)'
    BY <2>1, <2>2 DEF Fits, helperVars, sessionVars, pixelVars, queueVars, controlVars
  <2>4. OwedInv /\ SendInv /\ OrderInv /\ DrawInv
    BY DEF ClientInv
  <2>5. CASE CoreWrite
    <3> DEFINE m == Outgoing[1]
    <3>1. Up /\ toHelper' = Append(toHelper, m) /\ Outgoing # << >>
      BY <2>5 DEF CoreWrite, SendMessage, Up
    <3>2. m \in CoreMessage
      BY <2>4, <3>1, OutgoingPieces DEF SessionType, CoreType
    <3>3. PICK x \in Progresses : Take(w, m, x) /\ Ahead(x)'
      BY <2>2, <2>4, <2>5, <3>1, SendAhead
    <3> HIDE DEF m
    <3>4. <<w, m, x>> \in Takings
      BY <3>2, <3>3, TakingsIs
    <3>5. Reaches(toHelper', v, x)
      <4>1. Along(Takings, Progresses, toHelper, v, w)
        BY <2>2 DEF Reaches
      <4>2. Along(Takings, Progresses, Append(toHelper, m), v, x)
        BY <1>0, <3>2, <3>4, <4>1, AlongAppend
      <4> QED
        BY <3>1, <4>2 DEF Reaches
    <3> QED
      BY <2>3, <3>3, <3>5 DEF ObeyInv, Reaches
  <2>6. CASE ~CoreWrite
    <3>1. UNCHANGED toHelper
      BY <1>2, <2>4, <2>6, CoreSaid
    <3>2. Up' => Up
      <4>1. CASE CoreRead
        BY <4>1, ReadEffect DEF SessionType
      <4>2. CASE CoreReadsEnd \/ CoreWriteFails
        BY <4>2, EndEffect
      <4>3. CASE CoreWriteBlocks
        BY <4>3 DEF CoreWriteBlocks, StageMessage, Up
      <4>4. CASE CoreStarts \/ CorePresents
        BY <4>4, PresentEffects DEF Up, SessionType
      <4>5. CASE CoreReleases \/ CoreAcquires
        BY <4>5, AnswerEffect
      <4>6. CASE CoreFrameCompletes
        BY <4>6, CompletesEffect
      <4>7. CASE CoreLogsOut
        BY <4>7, LogOutEffect
      <4>8. CASE CoreIsReady \/ CoreHandlesInput \/ CoreQuits \/ CoreFails \/ CoreTimesOut
                   \/ CoreCrashes \/ CoreDraws
        BY <4>8, Idles DEF failVars, Up
      <4> QED
        BY <1>2, <2>6, <4>1, <4>2, <4>3, <4>4, <4>5, <4>6, <4>7, <4>8, CoreCases
    <3>3. Up' => Ahead(w)'
      BY <1>2, <2>2, <2>4, <2>6, <3>2, CoreAhead DEF ClientInv
    <3>4. Reaches(toHelper', v, w)
      BY <2>2, <3>1
    <3> QED
      BY <2>2, <2>3, <3>3, <3>4 DEF ObeyInv, Reaches
  <2> QED
    BY <2>5, <2>6
<1>3. CASE ((SwitchAway \/ SwitchBack) /\ UNCHANGED coreSide) \/ UNCHANGED vars
  <2>1. UNCHANGED <<helperVars, toHelper, coreSide>>
    BY <1>3 DEF SwitchAway, SwitchBack, vars, socketVars, coreSide
  <2>2. UNCHANGED <<helloSent, shutdownSent, cFrame, nextSerial, cState, painted, cGeneration, cError>>
    BY <2>1 DEF coreSide, clientVars, coreVars, drawVars, ownershipVars, shutdownVars, failVars
  <2>3. error = "none"
    BY <2>1 DEF helperVars, queueVars
  <2>4. PICK v, w \in Progresses : Fits(v) /\ Reaches(toHelper, v, w) /\ (Up => Ahead(w))
    BY <2>3 DEF ObeyInv
  <2>5. Fits(v)'
    BY <2>1, <2>4 DEF Fits, helperVars, sessionVars, pixelVars, queueVars, controlVars
  <2>6. Up' => Ahead(w)'
    BY <2>2, <2>4 DEF Ahead, Up
  <2>7. Reaches(toHelper', v, w)
    BY <2>1, <2>4
  <2> QED
    BY <2>4, <2>5, <2>6, <2>7 DEF ObeyInv, Reaches
<1> QED
  BY <1>1, <1>2, <1>3, SessionSteps

LEMMA ObeyAlways == Spec => []ObeyInv
<1>1. Init => ObeyInv
  <2> SUFFICES ASSUME Init PROVE ObeyInv
    OBVIOUS
  <2> DEFINE v == [hello |-> FALSE, shut |-> FALSE, open |-> FALSE, generation |-> 0, serial |-> 0,
                   damage |-> {}, received |-> {}, base |-> 0]
  <2>0. HelperInit /\ SocketInit /\ CoreInit /\ ClientInit
    BY DEF Init, WorkerInit, CoreInit
  <2>1. v \in Progresses
    BY DEF Progresses
  <2>2. Fits(v)
    BY <2>0 DEF Fits, HelperInit, ClosedFrame
  <2>3. Ahead(v)
    BY <2>0 DEF Ahead, ClientInit, CoreInit, NoFrame, Underway
  <2>4. toHelper = << >>
    BY <2>0 DEF SocketInit
  <2> HIDE DEF v
  <2>5. Reaches(toHelper, v, v)
    BY <2>1, <2>4, AlongEmpty DEF Reaches
  <2> QED
    BY <2>1, <2>2, <2>3, <2>5 DEF ObeyInv
<1>2. SessionType /\ OwedInv /\ ClientInv /\ Books /\ HelperInv /\ HearInv /\ ObeyInv /\ [Next]_vars
        => ObeyInv'
  BY ObeyStep
<1> QED
  BY <1>1, <1>2, SessionTypeCorrect, OwedAlways, ClientAlways, BooksAlways, HelperInSession,
     HearAlways, PTL DEF Spec

\* A helper that has found a fault finds no other and keeps its generation.
LEMMA FaultStays ==
    ASSUME Drains \/ Calls \/ ConsumeHead \/ UNCHANGED helperVars, error # "none"
    PROVE  UNCHANGED <<error, generation>>
<1> USE DEF sessionVars, queueVars, failed
<1>1. ~Drains
  BY DEF Drains, Receive
<1>2. CASE suspend \/ send_input \/ report_fatal
  BY <1>2 DEF suspend, CanSuspend, send_input, CanSendInput, report_fatal
<1>3. CASE \E resized \in BOOLEAN : resume(resized)
  BY <1>3 DEF resume, CanResume
<1>4. CASE \E gen \in Generations, serial \in Serials : complete_frame(gen, serial)
  BY <1>4 DEF complete_frame
<1>5. CASE \E token \in Tokens : send_ping(token)
  BY <1>5 DEF send_ping, CanPing
<1>6. CASE take_pong \/ StartHead \/ ConsumeHead \/ UNCHANGED helperVars
  BY <1>6 DEF take_pong, StartHead, ConsumeHead, helperVars
<1> QED
  BY <1>1, <1>2, <1>3, <1>4, <1>5, <1>6 DEF Calls

\* A FRAME_BEGIN of the first generation is in order: nothing can have crossed it.
LEMMA FirstInOrder ==
    ASSUME HelperTypeOK, OneFrameInFlight, BornInv, TraceInv, error = "none", generation = 1,
           NEW m \in CoreMessage, m \in In(toHelper), m.type = "begin",
           NEW v \in Progresses, NEW x, Fits(v), Take(v, m, x)
    PROVE  BeginInOrder(m)
<1>1. m.generation <= generation /\ readySent /\ ~suspended
  BY DEF BornInv, FrameTypes
<1>2. m.generation \in Nat \ {0} /\ m.serial \in Nat
  <2>1. m.generation \in Generations /\ m.serial \in Serials
    BY MessageFields
  <2> QED
    <3>1. m.serial \in Nat /\ m.generation \in Nat
      BY <2>1, Ranges
    <3>2. \A g \in Generations : g # 0
      BY DEF Generations
    <3> QED
      BY <2>1, <3>1, <3>2
<1>3. m.generation = generation
  BY <1>1, <1>2
<1>4. ~v.open /\ v.serial < m.serial
  BY DEF Take
<1>5. ~frame.open /\ lastSubmitted < m.serial
  <2>1. ~frame.open /\ lastSubmitted <= v.serial
    BY <1>4 DEF Fits
  <2>2. v.serial \in Nat /\ lastSubmitted \in Nat
    BY ProgressFields DEF HelperTypeOK
  <2> QED
    BY <1>2, <1>4, <2>1, <2>2
<1>6. ~presentationPending
  <2> SUFFICES ASSUME presentationPending PROVE FALSE
    OBVIOUS
  <2>1. Mark(pending) \in Pend /\ Mark(pending).generation = generation
    BY DEF Pend, Mark, OneFrameInFlight
  <2>2. Mark(m) \in Sent /\ Mark(m).generation = m.generation
    BY DEF Sent, Mark, FrameTypes
  <2> QED
    BY <1>3, <2>1, <2>2 DEF TraceInv, Apart
<1> QED
  BY <1>1, <1>2, <1>3, <1>5, <1>6 DEF BeginInOrder, HelperTypeOK

\* A PONG under way is the one the helper waits for.
LEMMA PongIsDue ==
    ASSUME SessionType, PongInv, error = "none", NEW m \in In(toHelper), m.type = "pong"
    PROVE  ping.outstanding /\ m.token = ping.token
<1>1. /\ Asked + Back + Held <= Due
      /\ m.token = ping.token
  BY DEF PongInv
<1>2. toHelper \in Seq(CoreMessage) /\ ClientType /\ Transit \in Seq(HelperMessages)
  BY TransitMoves DEF SessionType, SocketType, CoreType
<1>3. Asked \in Nat /\ Back \in Nat /\ Held \in Nat
  BY <1>2, CountType, HeldType DEF Asked, Back
<1>4. Back # 0
  BY <1>2, CountIn DEF Back
<1>5. Due # 0
  BY <1>1, <1>3, <1>4 DEF Due
<1> QED
  BY <1>1, <1>5 DEF Due

LEMMA FaultStep ==
    ASSUME SessionType, OwedInv, Books, HelperInv, HearInv, TraceInv, PongInv, BornInv, ObeyInv,
           ClientObeysProtocol, [Next]_vars
    PROVE  ClientObeysProtocol'
<1>0. /\ toHelper \in Seq(CoreMessage) /\ HelperTypeOK /\ OneFrameInFlight
      /\ generation \in Nat /\ generation # 0
  BY Ranges DEF SessionType, SocketType, HelperInv, HelperTypeOK, Generations
<1>1. CASE WorkerStep
  <2>1. Drains \/ Calls \/ ConsumeHead \/ UNCHANGED helperVars
    BY <1>1, WorkerMoves DEF Flushes
  <2>2. CASE error # "none"
    BY <2>1, <2>2, FaultStays DEF ClientObeysProtocol
  <2>3. CASE error = "none" /\ error' \in {"none", "outbound_full", "reported"}
    BY <2>3 DEF ClientObeysProtocol
  <2>4. CASE error = "none" /\ Drains
    <3> DEFINE m == Head(toHelper)
    <3>1. toHelper # << >> /\ Receive(m, HostPresents(m)) /\ HostPresents(m) \in BOOLEAN
      BY <2>4 DEF Drains
    <3>2. PICK v, w \in Progresses : Fits(v) /\ Reaches(toHelper, v, w)
      BY <2>4 DEF ObeyInv
    <3>3. PICK x \in Progresses : m \in CoreMessage /\ Take(v, m, x)
      BY <1>0, <3>1, <3>2, TakesNext
    <3>4. m \in In(toHelper)
      BY <1>0, <3>1, InMoves
    <3> HIDE DEF m
    <3>5. Excused(m)
      BY <1>0, <2>4, <3>1, <3>2, <3>3, ReceiveTaken
    <3>6. generation' = generation
      BY <1>0, <3>1, ReceiveBorn
    <3>7. CASE error' \in {"none", "outbound_full", "presentation"}
      BY <3>7 DEF ClientObeysProtocol
    <3>8. CASE m.type = "begin" /\ ~BeginInOrder(m) /\ error' = "begin_order"
      <4>1. generation # 1
        BY <1>0, <2>4, <3>2, <3>3, <3>4, <3>8, FirstInOrder
      <4>2. generation' > 1
        BY <1>0, <3>6, <4>1
      <4> QED
        BY <3>8, <4>2 DEF ClientObeysProtocol
    <3>9. CASE m.type = "pong" /\ ~(ping.outstanding /\ m.token = ping.token)
      BY <2>4, <3>4, <3>9, PongIsDue
    <3> QED
      BY <3>5, <3>7, <3>8, <3>9 DEF Excused
  <2> QED
    BY <1>1, <2>2, <2>3, <2>4, WorkerFaults
<1>2. CASE UNCHANGED <<error, generation>>
  BY <1>2 DEF ClientObeysProtocol
<1>3. CASE UNCHANGED workerSide \/ SwitchAway \/ SwitchBack \/ UNCHANGED vars
  BY <1>2, <1>3 DEF SwitchAway, SwitchBack, workerSide, vars, helperVars, sessionVars, queueVars
<1> QED
  BY <1>1, <1>3, SessionSteps

\* The helper (handle_message of privsep_helper.c) finds no fault with the client of
\* host_privsep_client.c: no piece, end, pong, greeting or shutdown request of it is
\* out of order, for queues and sockets of every capacity and however often the
\* console changes hands; a FRAME_BEGIN may cross a suspension, and nothing else.
THEOREM ClientNeverAtFault == Spec => []ClientObeysProtocol
<1>1. Init => ClientObeysProtocol
  BY DEF Init, WorkerInit, HelperInit, ClientObeysProtocol
<1>2. SessionType /\ OwedInv /\ Books /\ HelperInv /\ HearInv /\ TraceInv /\ PongInv /\ BornInv
        /\ ObeyInv /\ ClientObeysProtocol /\ [Next]_vars
      => ClientObeysProtocol'
  BY FaultStep
<1> QED
  BY <1>1, <1>2, SessionTypeCorrect, OwedAlways, BooksAlways, HelperInSession, HearAlways,
     TraceAlways, PongAlways, BornAlways, ObeyAlways, PTL DEF Spec

(***************************************************************************)
(* What the screen shows.                                                  *)
(***************************************************************************)
\* The frame was presented, or there is none.
Settled == cFrame.phase = "none" \/ \E e \in Pend \cup Completed : e.generation = cGeneration

\* The core draws, in the ownership in progress.
Pictured == cState = "active" /\ painted # Unpainted /\ ~suspended /\ generation = cGeneration

DrawnAt(regions) == \A r \in regions : screen[r] = <<generation, painted[r]>>

PixInv == Up /\ Pictured =>
    /\ Settled => DrawnAt(Regions)
    /\ cFrame.phase # "none" => /\ DrawnAt(Regions \ cFrame.damage)
                                /\ \A r \in cFrame.damage : painted[r] = cFrame.serial

\* The console the core believes active, in the generation in progress, is not released.
LEMMA Awake ==
    ASSUME SessionType, OwnInv, HearInv, Up, error = "none", cState = "active",
           generation = cGeneration
    PROVE  ~suspended
<1> DEFINE L == {t \in Views \X Views : /\ t[1].generation <= t[2].generation
                                        /\ t[1].generation = t[2].generation /\ t[1].active
                                              => t[2].active}
<1>0. \A x, y : <<x, y>> \in L <=> /\ x \in Views /\ y \in Views /\ x.generation <= y.generation
                                   /\ x.generation = y.generation /\ x.active => y.active
  OBVIOUS
<1>1. Along(Hears, Views, Transit, ClientView, HelperView)
  BY DEF HearInv
<1>2. Transit \in Seq(HelperMessages)
  BY TransitMoves
<1>3. \A x \in Views : x.generation \in Nat /\ x.active \in BOOLEAN
  BY DEF Views
<1> HIDE DEF L
<1>4. Ordered(L, Views)
  <2>1. \A x \in Views : <<x, x>> \in L
    BY <1>0, <1>3
  <2>2. ASSUME NEW x \in Views, NEW y \in Views, NEW z \in Views, <<x, y>> \in L, <<y, z>> \in L
        PROVE <<x, z>> \in L
    <3>1. /\ x.generation <= y.generation /\ y.generation <= z.generation
          /\ x.generation = y.generation /\ x.active => y.active
          /\ y.generation = z.generation /\ y.active => z.active
      BY <1>0, <2>2
    <3>2. x.generation \in Nat /\ y.generation \in Nat /\ z.generation \in Nat
      BY <1>3
    <3>3. /\ x.generation <= z.generation
          /\ x.generation = z.generation => x.generation = y.generation /\ y.generation = z.generation
      BY <3>1, <3>2
    <3> QED
      BY <1>0, <3>1, <3>3
  <2> QED
    BY <2>1, <2>2 DEF Ordered
<1>5. Respects(Hears, Views, L)
  <2>1. ASSUME NEW x \in Views, NEW y \in Views, NEW m, <<x, m, y>> \in Hears
        PROVE <<x, y>> \in L
    <3>1. Hear(x, m, y)
      BY <2>1, HearsIs
    <3>2. x.generation \in Nat /\ y.generation \in Nat
      BY <1>3
    <3>4. \/ x.generation <= y.generation /\ y.active
          \/ y.generation = x.generation + 1
          \/ y = x
      <4>2. CASE m.type = "ready"
        <5>1. x.generation <= m.generation /\ y = View(TRUE, TRUE, m.generation)
          BY <3>1, <4>2, Zenon DEF Hear
        <5>2. y.generation = m.generation /\ y.active = TRUE
          BY <5>1 DEF View
        <5> QED
          BY <5>1, <5>2
      <4>3. CASE m.type = "suspend"
        <5>1. m.generation = x.generation + 1 /\ y = View(TRUE, FALSE, m.generation)
          BY <3>1, <4>3 DEF Hear
        <5>2. y.generation = m.generation
          BY <5>1 DEF View
        <5> QED
          BY <5>1, <5>2
      <4>4. CASE m.type = "resume"
        <5>1. m.generation = x.generation /\ y = View(TRUE, TRUE, m.generation)
          BY <3>1, <4>4 DEF Hear
        <5>2. y.generation = x.generation /\ y.active = TRUE
          BY <5>1 DEF View
        <5> QED
          BY <3>2, <5>2
      <4>5. CASE m.type \notin {"ready", "suspend", "resume"}
        BY <3>1, <4>5 DEF Hear
      <4> QED
        BY <4>2, <4>3, <4>4, <4>5
    <3>5. x.generation <= y.generation /\ (x.generation = y.generation /\ x.active => y.active)
      BY <3>2, <3>4
    <3> QED
      BY <1>0, <3>5
  <2> QED
    BY <2>1 DEF Respects
<1>6. <<ClientView, HelperView>> \in L
  BY <1>1, <1>2, <1>4, <1>5, AlongRises
<1>7. /\ ClientView.generation = cGeneration /\ ClientView.active = helperActive
      /\ HelperView.generation = IF readySent THEN generation ELSE 0
      /\ HelperView.active = (readySent /\ ~suspended)
  BY DEF ClientView, HelperView, View
<1>8. cGeneration \in Nat /\ cGeneration # 0 /\ helperActive
  BY Ranges DEF SessionType, CoreType, ClientType, OwnInv
<1>9. readySent
  BY <1>0, <1>6, <1>7, <1>8
<1>10. ClientView.generation = HelperView.generation /\ ClientView.active
  BY <1>7, <1>8, <1>9
<1> QED
  BY <1>0, <1>6, <1>7, <1>10

\* The frame the helper has open has the damage of the client's frame of its serial.
LEMMA OpenIsSent ==
    ASSUME SessionType, ObeyInv, Up, error = "none", frame.open,
           cFrame.phase \in Underway \cup {"wait"}, frame.serial = cFrame.serial
    PROVE  frame.damage = cFrame.damage
<1> DEFINE L == {t \in Progresses \X Progresses :
                   \/ t[1].serial < t[2].serial
                   \/ t[1].serial = t[2].serial /\ t[1].damage = t[2].damage}
<1>0. \A x, y : <<x, y>> \in L <=> /\ x \in Progresses /\ y \in Progresses
                                   /\ \/ x.serial < y.serial
                                      \/ x.serial = y.serial /\ x.damage = y.damage
  OBVIOUS
<1>1. PICK v, w \in Progresses : Fits(v) /\ Reaches(toHelper, v, w) /\ Ahead(w)
  BY DEF ObeyInv
<1>2. v.serial = frame.serial /\ v.damage = frame.damage
  BY <1>1 DEF Fits
<1>3. w.serial = cFrame.serial /\ w.damage = cFrame.damage
  BY <1>1 DEF Ahead
<1>4. \A x \in Progresses : x.serial \in Nat
  BY ProgressFields
<1> HIDE DEF L
<1>5. Ordered(L, Progresses)
  <2>1. \A x \in Progresses : <<x, x>> \in L
    BY <1>0
  <2>2. ASSUME NEW x \in Progresses, NEW y \in Progresses, NEW z \in Progresses,
               <<x, y>> \in L, <<y, z>> \in L
        PROVE <<x, z>> \in L
    <3>1. /\ x.serial < y.serial \/ (x.serial = y.serial /\ x.damage = y.damage)
          /\ y.serial < z.serial \/ (y.serial = z.serial /\ y.damage = z.damage)
      BY <1>0, <2>2
    <3>2. x.serial \in Nat /\ y.serial \in Nat /\ z.serial \in Nat
      BY <1>4
    <3>3. x.serial < z.serial \/ (x.serial = z.serial /\ x.damage = z.damage)
      BY <3>1, <3>2
    <3> QED
      BY <1>0, <3>3
  <2> QED
    BY <2>1, <2>2 DEF Ordered
<1>6. Respects(Takings, Progresses, L)
  <2>1. ASSUME NEW x \in Progresses, NEW y \in Progresses, NEW m, <<x, m, y>> \in Takings
        PROVE <<x, y>> \in L
    <3>1. Take(x, m, y)
      BY <2>1, TakingsIs
    <3>2. CASE m.type = "begin"
      <4>1. x.serial < m.serial
        BY <3>1, <3>2 DEF Take
      <4>2. y.serial = m.serial
        BY <3>1, <3>2, TakeFields
      <4> QED
        BY <1>0, <4>1, <4>2
    <3>3. CASE m.type # "begin"
      <4>1. y.serial = x.serial /\ y.damage = x.damage
        BY <3>1, <3>3, TakeFields DEF Same
      <4> QED
        BY <1>0, <4>1
    <3> QED
      BY <3>2, <3>3
  <2> QED
    BY <2>1 DEF Respects
<1>7. <<v, w>> \in L
  <2>1. toHelper \in Seq(CoreMessage) /\ Along(Takings, Progresses, toHelper, v, w)
    BY <1>1 DEF SessionType, SocketType, Reaches
  <2> QED
    BY <1>5, <1>6, <2>1, AlongRises
<1>8. v.serial = w.serial /\ v.serial \in Nat
  BY <1>2, <1>3, <1>4
<1> QED
  BY <1>0, <1>2, <1>3, <1>7, <1>8

\* A message that presents nothing leaves no presentation behind that was not there.
LEMMA ReceivePresents ==
    ASSUME NEW m, NEW presented \in BOOLEAN, Receive(m, presented)
    PROVE  PresentFrame(m) \/ Pend' \subseteq Pend
<1>0. ASSUME pending' \in {pending, NoPresentation} PROVE Pend' \subseteq Pend
  BY <1>0 DEF Pend, presentationPending
<1>1. ASSUME NEW cause, Reject(cause) PROVE Pend' \subseteq Pend
  BY <1>0, <1>1, FailEffect DEF Reject
<1>2. CASE ReceiveHello(m)
  BY <1>0, <1>2, EnqueueEffect DEF ReceiveHello, queueVars
<1>3. CASE RejectHello(m)
  BY <1>1, <1>3 DEF RejectHello
<1>4. CASE handle_frame_begin(m)
  BY <1>0, <1>1, <1>4 DEF handle_frame_begin
<1>5. CASE handle_frame_data(m)
  BY <1>0, <1>1, <1>5 DEF handle_frame_data
<1>6. CASE handle_frame_reference(m, presented)
  BY <1>0, <1>1, <1>6 DEF handle_frame_reference, DropFrame, PresentFails, RejectReference
<1>7. CASE handle_pong(m)
  BY <1>0, <1>1, <1>7 DEF handle_pong, queueVars
<1>8. CASE handle_shutdown
  BY <1>0, <1>8, EnqueueEffect DEF handle_shutdown
<1> QED
  BY <1>1, <1>2, <1>3, <1>4, <1>5, <1>6, <1>7, <1>8 DEF Receive

\* Who changes the picture, the generation or the ownership.
LEMMA WorkerPicture ==
    ASSUME SessionType, WorkerStep
    PROVE  \/ suspended'
           \/ UNCHANGED <<screen, generation, suspended>>
                /\ (Drains => ~PresentFrame(Head(toHelper)))
           \/ CanResume /\ ~Drains /\ UNCHANGED <<screen, generation>>
           \/ Drains /\ PresentFrame(Head(toHelper)) /\ UNCHANGED <<generation, suspended>>
<1>0. HelperTypeOK
  BY DEF SessionType
<1>1. CASE Drains
  <2> DEFINE m == Head(toHelper)
  <2>1. Receive(m, HostPresents(m)) /\ HostPresents(m) \in BOOLEAN
    BY <1>1 DEF Drains
  <2> HIDE DEF m
  <2>2. UNCHANGED <<generation, suspended>>
    BY <1>0, <2>1, ReceiveBorn
  <2>3. UNCHANGED screen \/ PresentFrame(m)
    BY <2>1, ReceiveOutcome
  <2> QED
    BY <1>1, <2>2, <2>3 DEF m
<1>2. CASE ~Drains
  <2> USE DEF sessionVars, pixelVars
  <2>1. Calls \/ ConsumeHead \/ UNCHANGED helperVars
    BY <1>2, WorkerMoves DEF Flushes
  <2>2. CASE suspend
    BY <2>2 DEF suspend
  <2>3. CASE \E resized \in BOOLEAN : resume(resized)
    BY <1>2, <2>3 DEF resume
  <2>4. CASE send_input \/ report_fatal
    BY <1>2, <2>4 DEF send_input, report_fatal, Reject
  <2>5. CASE \E gen \in Generations, serial \in Serials : complete_frame(gen, serial)
    BY <1>2, <2>5 DEF complete_frame, Reject, helperVars
  <2>6. CASE \E token \in Tokens : send_ping(token)
    BY <1>2, <2>6 DEF send_ping
  <2>7. CASE take_pong \/ StartHead \/ ConsumeHead \/ UNCHANGED helperVars
    BY <1>2, <2>7 DEF take_pong, StartHead, ConsumeHead, helperVars
  <2> QED
    BY <2>1, <2>2, <2>3, <2>4, <2>5, <2>6, <2>7 DEF Calls
<1> QED
  BY <1>1, <1>2

\* No trace of a presentation comes of nothing.
LEMMA WorkerSlots ==
    ASSUME SessionType, HelperInv, HearInv, WorkerStep, Drains => ~PresentFrame(Head(toHelper))
    PROVE  Pend' \cup Completed' \subseteq Pend \cup Completed
<1>1. CASE Flushes
  <2>1. Transit' = Transit
    BY <1>1, TransitMoves
  <2>2. Pend' \subseteq Pend
    BY <1>1, CallSlots DEF Flushes, SlotsKept
  <2> QED
    BY <2>1, <2>2 DEF Completed
<1>2. CASE Drains /\ (Keeps \/ Tells)
  <2>1. Completed' \subseteq Completed \cup Pend
    BY <1>2, ToldCompleted DEF Drains
  <2>2. Pend' \subseteq Pend
    BY <1>2, ReceivePresents DEF Drains
  <2> QED
    BY <2>1, <2>2
<1>3. CASE (Calls \/ UNCHANGED helperVars) /\ (Keeps \/ Tells) /\ UNCHANGED <<toCore, toHelper>>
  <2>1. Completed' \subseteq Completed \cup Pend
    BY <1>3, ToldCompleted
  <2>2. Pend' \subseteq Pend
    BY <1>3, CallSlots DEF SlotsKept
  <2> QED
    BY <2>1, <2>2
<1> QED
  BY <1>1, <1>2, <1>3, WorkerTells

\* Nothing moves that the picture rests on.
LEMMA StillPictured ==
    ASSUME PixInv, UNCHANGED <<screen, generation, painted, cGeneration, cFrame>>,
           suspended' = suspended, Pend' \cup Completed' \subseteq Pend \cup Completed,
           Up' => Up, Up' /\ cState' = "active" => cState = "active"
    PROVE  PixInv'
<1>1. Up' /\ Pictured' => Up /\ Pictured
  BY DEF Pictured
<1>2. Settled' => Settled
  BY DEF Settled
<1>3. (DrawnAt(Regions) => DrawnAt(Regions)')
      /\ (DrawnAt(Regions \ cFrame.damage) => DrawnAt(Regions \ cFrame.damage)')
  BY DEF DrawnAt
<1> QED
  BY <1>1, <1>2, <1>3 DEF PixInv

LEMMA WorkerPix ==
    ASSUME SessionType, ClientInv, HelperInv, HearInv, TraceInv, ObeyInv, PixInv, WorkerStep,
           UNCHANGED coreSide
    PROVE  PixInv'
<1>0. UNCHANGED <<painted, cGeneration, cFrame, cState, cError>>
  BY DEF coreSide, clientVars, coreVars, drawVars, ownershipVars, failVars
<1>1. CASE suspended'
  BY <1>1 DEF PixInv, Pictured
<1>2. CASE /\ UNCHANGED <<screen, generation, suspended>>
           /\ Drains => ~PresentFrame(Head(toHelper))
  <2>1. Pend' \cup Completed' \subseteq Pend \cup Completed
    BY <1>2, WorkerSlots
  <2> QED
    BY <1>0, <1>2, <2>1, StillPictured DEF Up
<1>3. CASE CanResume /\ UNCHANGED <<screen, generation>>
  <2>1. error = "none" /\ suspended
    BY <1>3 DEF CanResume, failed
  <2>2. ~(Up /\ cState = "active" /\ generation = cGeneration)
    BY <2>1, Awake DEF ClientInv
  <2> QED
    BY <1>0, <1>3, <2>2 DEF PixInv, Pictured, Up
<1>4. CASE Drains /\ PresentFrame(Head(toHelper)) /\ UNCHANGED <<generation, suspended>>
  <2> DEFINE m == Head(toHelper)
  <2>1. /\ EndsOpenFrame(m) /\ frame.received = frame.damage /\ ~frame.stale /\ frame.open
        /\ screen' = [r \in Regions |-> IF r \in frame.damage THEN staging[r] ELSE screen[r]]
    BY <1>4 DEF PresentFrame, Presentable, EndsOpenFrame
  <2>2. error = "none"
    BY <1>4 DEF Drains, Receive, failed
  <2> HIDE DEF m
  <2> SUFFICES ASSUME Up', Pictured' PROVE
               DrawnAt(Regions)' /\ \A r \in cFrame.damage : painted[r] = cFrame.serial
    <3>1. DrawnAt(Regions)' => DrawnAt(Regions \ cFrame.damage)'
      BY DEF DrawnAt
    <3> QED
      BY <1>0, <3>1 DEF PixInv
  <2>3. Up /\ Pictured
    BY <1>0, <1>4 DEF Up, Pictured
  <2>4. frame.generation = cGeneration /\ frame.generation = generation
    BY <2>1, <2>3 DEF HelperInv, OneFrameInFlight, Pictured
  <2>5. Mark(frame) \in Traces /\ Mark(frame).generation = frame.generation
        /\ Mark(frame).serial = frame.serial
    BY <2>1 DEF Traces, Opened, Mark
  <2>6. Current(Mark(frame))
    BY <2>3, <2>4, <2>5 DEF TraceInv, CoreTraces
  <2>7. cFrame.phase \in {"data", "commit", "wait"} /\ frame.serial = cFrame.serial
    BY <2>5, <2>6 DEF Current
  <2>8. frame.damage = cFrame.damage
    BY <2>1, <2>2, <2>3, <2>7, OpenIsSent DEF Underway
  <2>9. /\ \A r \in Regions \ cFrame.damage : screen[r] = <<generation, painted[r]>>
        /\ \A r \in cFrame.damage : painted[r] = cFrame.serial
    BY <2>3, <2>7 DEF PixInv, DrawnAt
  <2>10. \A r \in frame.damage : staging[r] = <<frame.generation, frame.serial>>
    BY <2>1 DEF HelperInv, PiecesAreStaged
  <2>11. \A r \in Regions : screen'[r] = <<generation, painted[r]>>
    <3>1. \A r \in Regions : screen'[r] = IF r \in frame.damage THEN staging[r] ELSE screen[r]
      BY <2>1
    <3> QED
      BY <2>4, <2>7, <2>8, <2>9, <2>10, <3>1
  <2> QED
    BY <1>0, <1>4, <2>9, <2>11 DEF DrawnAt
<1> QED
  BY <1>1, <1>2, <1>3, <1>4, WorkerPicture

\* The core draws a frame where there was none: all of it, or over what is shown.
LEMMA PresentPix ==
    ASSUME SessionType, ClientInv, TraceInv, PixInv, CoreStarts \/ CorePresents,
           UNCHANGED <<screen, generation, suspended, Pend, Completed>>
    PROVE  PixInv'
<1>0. CoreType /\ UNCHANGED <<cGeneration, cState, cError>>
  BY PresentEffects DEF SessionType, ownershipVars
<1> DEFINE all == corePc = "start" \/ fullDamage
           area == IF all THEN Regions ELSE damage
<1>1. CASE UNCHANGED <<cFrame, painted>>
  BY <1>0, <1>1, StillPictured DEF Up
<1>2. CASE /\ cState = "active" /\ cFrame.phase = "none"
           /\ cFrame' = [NoFrame EXCEPT !.phase = "begin", !.generation = cGeneration,
                            !.serial = nextSerial, !.damage = area, !.whole = all]
           /\ painted' = [r \in Regions |-> IF all \/ r \in damage THEN nextSerial ELSE painted[r]]
           /\ corePc = "start" \/ (corePc = "loop" /\ ~shutdownPending)
  <2> SUFFICES ASSUME Up', Pictured' PROVE PixInv'
    BY DEF PixInv
  <2>1. cFrame'.phase = "begin" /\ cFrame'.damage = area /\ cFrame'.serial = nextSerial
    BY <1>2 DEF NoFrame
  <2>2. Up /\ cState = "active" /\ ~suspended /\ generation = cGeneration
    BY <1>0, <1>2 DEF Up, Pictured
  <2>3. ~Settled'
    <3>1. \A e \in Pend \cup Completed : e.generation # cGeneration
      BY <1>2, <2>2 DEF TraceInv, CoreTraces, Traces, Current
    <3> QED
      BY <1>0, <2>1, <3>1 DEF Settled
  <2>4. \A r \in area : painted'[r] = nextSerial
    <3>1. area \subseteq Regions
      BY <1>0 DEF CoreType
    <3> QED
      BY <1>2, <3>1
  <2>5. ASSUME NEW r \in Regions \ area
        PROVE  screen[r] = <<generation, painted'[r]>>
    <3>1. ~all /\ painted'[r] = painted[r]
      BY <1>2, <2>5
    <3>2. painted # Unpainted
      BY <1>2, <2>2, <3>1 DEF ClientInv, DrawInv
    <3>3. DrawnAt(Regions)
      BY <1>2, <2>2, <3>2 DEF PixInv, Pictured, Settled
    <3> QED
      BY <3>1, <3>3 DEF DrawnAt
  <2> HIDE DEF area, all
  <2>6. DrawnAt(Regions \ cFrame.damage)'
    BY <2>1, <2>5 DEF DrawnAt
  <2> QED
    BY <2>1, <2>3, <2>4, <2>6 DEF PixInv
<1> QED
  BY <1>0, <1>1, <1>2, PresentEffects

\* A message leaves: the frame stays the frame it was.
LEMMA WritePix ==
    ASSUME SessionType, ClientInv, PixInv, CoreWrite,
           UNCHANGED <<screen, generation, suspended, Pend, Completed>>
    PROVE  PixInv'
<1> DEFINE m == Outgoing[1]
<1>0. ClientType /\ Up /\ Outgoing # << >>
  BY DEF SessionType, CoreType, CoreWrite, SendMessage, Up
<1>1. cFrame' = FrameAfter(m) /\ UNCHANGED <<cGeneration, cState, painted, cError>>
  BY DEF CoreWrite, SendMessage, coreVars, drawVars, ownershipVars
<1>2. m \in CoreMessage /\ Piece(m, cFrame)
  BY <1>0, OutgoingPieces DEF ClientInv
<1>3. /\ cFrame \in CoreFrames /\ FrameIn(cFrame, cGeneration, cState, nextSerial)
      /\ cState = "active" /\ cFrame.phase # "none" /\ cFrame.cancel => painted = Unpainted
  BY <1>0 DEF ClientType, FrameFits, ClientInv, SendInv, DrawInv
<1> HIDE DEF m
<1>4. CASE cFrame' = cFrame
  BY <1>1, <1>4, StillPictured DEF Up
<1>5. CASE m.type \in FrameTypes
  <2> SUFFICES ASSUME Up', Pictured' PROVE PixInv'
    BY DEF PixInv
  <2>1. Up /\ Pictured
    BY <1>0, <1>1 DEF Pictured
  <2>2. cFrame.phase # "none"
    BY <1>2, <1>5 DEF Piece, FrameTypes
  <2>3. ~cFrame.cancel
    BY <1>3, <2>1, <2>2 DEF Pictured
  <2>4. cFrame'.phase \in {"data", "commit", "wait"}
    BY <1>1, <1>2, <1>3, <1>5, <2>3, SentPhase
  <2>5. cFrame'.serial = cFrame.serial /\ cFrame'.damage = cFrame.damage
    <3>1. NoFrame.phase = "none"
      BY DEF NoFrame
    <3> QED
      BY <1>1, <1>2, <1>3, <1>5, <2>4, <3>1, AfterKeeps
  <2>6. Settled' => Settled
    BY <1>1, <2>4 DEF Settled
  <2>7. /\ DrawnAt(Regions) => DrawnAt(Regions)'
        /\ DrawnAt(Regions \ cFrame.damage) => DrawnAt(Regions \ cFrame.damage)'
    BY <1>1, <2>5 DEF DrawnAt
  <2>8. /\ DrawnAt(Regions \ cFrame.damage)
        /\ \A r \in cFrame.damage : painted[r] = cFrame.serial
        /\ Settled => DrawnAt(Regions)
    BY <2>1, <2>2 DEF PixInv
  <2>9. DrawnAt(Regions \ cFrame.damage)'
    BY <2>7, <2>8
  <2>10. (Regions \ cFrame.damage)' = Regions \ cFrame.damage
    BY <2>5
  <2> QED
    BY <1>1, <2>5, <2>6, <2>7, <2>8, <2>9, <2>10 DEF PixInv, DrawnAt
<1>6. m.type \notin FrameTypes => cFrame' = cFrame
  BY <1>1 DEF FrameAfter, FrameTypes
<1> QED
  BY <1>4, <1>5, <1>6

\* The core learns of a completion, or of a change of ownership.
LEMMA ReadPix ==
    ASSUME SessionType, OwedInv, ClientInv, TraceInv, PixInv, CoreRead,
           UNCHANGED <<screen, generation, suspended, outbound, pending>>
    PROVE  PixInv'
<1> SUFFICES ASSUME Up' PROVE PixInv'
  BY DEF PixInv
<1> DEFINE m == Head(toCore)
<1>1. /\ Up /\ Heeds(m) /\ toCore # << >> /\ toCore' = Tail(toCore)
      /\ UNCHANGED <<painted>>
  BY HeedCases DEF Up, coreVars, drawVars
<1>2. In(Transit') \subseteq In(Transit) /\ m \in In(Transit)
  BY <1>1, ReadAsked
<1> HIDE DEF m
<1>3. Pend' \cup Completed' \subseteq Pend \cup Completed
  BY <1>2 DEF Pend, Completed, presentationPending
<1>4. CASE UNCHANGED <<cGeneration, cFrame>> /\ (cState' = "active" => cState = "active")
  BY <1>1, <1>3, <1>4, StillPictured DEF Up
<1>5. CASE OkReady(m)
  <2>1. painted = Unpainted
    BY <1>1, <1>5 DEF OkReady, ClientInv, DrawInv
  <2> QED
    BY <1>1, <2>1 DEF PixInv, Pictured
<1>6. CASE OkSuspend(m)
  BY <1>6 DEF OkSuspend, PixInv, Pictured
<1>7. CASE OkComplete(m)
  <2>1. /\ m.type = "complete" /\ cState = "active" /\ cFrame.phase = "wait"
        /\ m.generation = cFrame.generation /\ cFrame' = NoFrame
        /\ UNCHANGED <<cGeneration, cState>>
    BY <1>7 DEF OkComplete
  <2>2. cFrame.generation = cGeneration
    BY <1>1, <2>1 DEF ClientInv, SendInv, FrameIn
  <2>3. Settled
    <3>1. Mark(m) \in Completed /\ Mark(m).generation = m.generation
      BY <1>2, <2>1 DEF Completed, Mark
    <3> QED
      BY <2>1, <2>2, <3>1 DEF Settled
  <2>4. Pictured' => Pictured
    BY <1>1, <2>1 DEF Pictured
  <2>5. Pictured => DrawnAt(Regions)
    BY <1>1, <2>3 DEF PixInv
  <2>6. DrawnAt(Regions) => DrawnAt(Regions)'
    BY <1>1 DEF DrawnAt
  <2>7. cFrame'.phase = "none"
    BY <2>1 DEF NoFrame
  <2> QED
    BY <2>4, <2>5, <2>6, <2>7 DEF PixInv
<1>8. CASE OkResume(m) \/ OkInput(m) \/ OkPing(m) \/ OkAccepted(m)
  BY <1>4, <1>8 DEF OkResume, OkInput, OkPing, OkAccepted
<1> QED
  BY <1>1, <1>5, <1>6, <1>7, <1>8 DEF Heeds

LEMMA CorePix ==
    ASSUME SessionType, OwedInv, ClientInv, TraceInv, PixInv, CoreStep \/ CoreChoice,
           UNCHANGED workerSide
    PROVE  PixInv'
<1>0. /\ UNCHANGED <<screen, generation, suspended, outbound, pending>>
      /\ CoreRead \/ UNCHANGED toCore
  BY CoreSaid DEF workerSide, helperVars, sessionVars, pixelVars, queueVars, ClientInv
<1>1. UNCHANGED toCore => UNCHANGED <<Pend, Completed>>
  BY <1>0 DEF Pend, Completed, presentationPending, Transit
<1>2. CASE CoreRead
  BY <1>0, <1>2, ReadPix
<1>3. CASE CoreReadsEnd \/ CoreWriteFails
  BY <1>3, EndEffect DEF PixInv
<1>4. CASE CoreWrite
  <2>1. UNCHANGED toCore
    BY <1>4 DEF CoreWrite
  <2> QED
    BY <1>0, <1>1, <1>4, <2>1, WritePix
<1>5. CASE CoreStarts \/ CorePresents
  <2>1. UNCHANGED toCore
    BY <1>5, PresentEffects DEF SessionType
  <2> QED
    BY <1>0, <1>1, <1>5, <2>1, PresentPix
<1>6. CASE CoreReleases \/ CoreAcquires
  <2>1. /\ UNCHANGED <<cGeneration, toCore>> /\ Up
        /\ painted' \in {painted, Unpainted}
        /\ Up' => /\ UNCHANGED cFrame
                  /\ \/ cState' \in {"acquire_pending", "suspended", "release_pending"}
                     \/ cState = "acquire_pending" /\ painted' = painted
    BY <1>6, AnswerEffect DEF ownershipVars
  <2>2. Up' /\ cState' = "active" => painted' = Unpainted
    BY <2>1 DEF ClientInv, DrawInv
  <2> QED
    BY <2>2 DEF PixInv, Pictured
<1>7. ASSUME UNCHANGED <<painted, cGeneration, cFrame, cState, cError, toCore>>
      PROVE  PixInv'
  BY <1>0, <1>1, <1>7, StillPictured DEF Up
<1>8. CASE CoreWriteBlocks
  BY <1>7, <1>8 DEF CoreWriteBlocks, StageMessage, coreVars, drawVars, ownershipVars, socketVars
<1>9. CASE CoreFrameCompletes
  BY <1>7, <1>9, CompletesEffect DEF ownershipVars, failVars
<1>10. CASE CoreLogsOut
  BY <1>7, <1>10, LogOutEffect DEF ownershipVars, failVars
<1>11. CASE CoreIsReady \/ CoreHandlesInput \/ CoreQuits \/ CoreFails \/ CoreTimesOut
             \/ CoreCrashes \/ CoreDraws
  BY <1>7, <1>11, Idles DEF ownershipVars, failVars
<1> QED
  BY <1>2, <1>3, <1>4, <1>5, <1>6, <1>8, <1>9, <1>10, <1>11, CoreCases

LEMMA PixStep ==
    ASSUME SessionType, OwedInv, ClientInv, HelperInv, HearInv, TraceInv, ObeyInv, PixInv, [Next]_vars
    PROVE  PixInv'
<1>1. CASE WorkerStep /\ UNCHANGED coreSide
  BY <1>1, WorkerPix
<1>2. CASE (CoreStep \/ CoreChoice) /\ UNCHANGED workerSide
  BY <1>2, CorePix
<1>3. CASE ((SwitchAway \/ SwitchBack) /\ UNCHANGED coreSide) \/ UNCHANGED vars
  <2>1. UNCHANGED <<helperVars, toCore, coreSide>>
    BY <1>3 DEF SwitchAway, SwitchBack, vars, socketVars, coreSide
  <2>2. UNCHANGED <<screen, generation, suspended, outbound, pending, painted, cGeneration, cFrame,
                    cState, cError>>
    BY <2>1 DEF helperVars, sessionVars, pixelVars, queueVars, coreSide, clientVars, coreVars, drawVars,
       ownershipVars, failVars
  <2>3. UNCHANGED <<Pend, Completed>>
    BY <2>1, <2>2 DEF Pend, Completed, presentationPending, Transit
  <2> QED
    BY <2>2, <2>3, StillPictured DEF Up
<1> QED
  BY <1>1, <1>2, <1>3, SessionSteps

LEMMA PixAlways == Spec => []PixInv
<1>1. Init => PixInv
  BY DEF Init, CoreInit, ClientInit, PixInv, Pictured
<1>2. SessionType /\ OwedInv /\ ClientInv /\ HelperInv /\ HearInv /\ TraceInv /\ ObeyInv /\ PixInv
        /\ [Next]_vars => PixInv'
  BY PixStep
<1> QED
  BY <1>1, <1>2, SessionTypeCorrect, OwedAlways, ClientAlways, HelperInSession, HearAlways,
     TraceAlways, ObeyAlways, PTL DEF Spec

\* What the core was told is displayed is displayed (present_frame of device_worker.c,
\* handle_frame_reference of privsep_helper.c, the frame slot of host_privsep_client.c):
\* with its last frame completed and the console still its own, every region of the
\* screen holds what the core last drew there, whatever was aborted, released or
\* merged on the way.
THEOREM CompletedIsVisible == Spec => []CompletedFrameIsVisible
<1>1. SessionType /\ ClientInv /\ PixInv => CompletedFrameIsVisible
  <2> SUFFICES ASSUME SessionType, ClientInv, PixInv, cState = "active", pendingSerial = 0,
                      painted # Unpainted, ~suspended, generation = cGeneration
               PROVE  \A r \in Regions : screen[r] = <<generation, painted[r]>>
    BY DEF CompletedFrameIsVisible
  <2>1. Up
    BY DEF ClientInv, OwnInv
  <2>2. cFrame.phase = "none"
    <3>1. cFrame.phase # "none" => cFrame.serial # 0
      BY DEF SessionType, CoreType, ClientType, FrameFits, Serials
    <3> QED
      BY <2>1, <3>1 DEF ClientInv, DrawInv
  <2> QED
    BY <2>1, <2>2 DEF PixInv, Pictured, Settled, DrawnAt
<1> QED
  BY <1>1, SessionTypeCorrect, ClientAlways, PixAlways, PTL

=============================================================================
