---------------------------- MODULE PrivsepClient ----------------------------
(***************************************************************************)
(* The unprivileged end of the channel, a host backend the session core    *)
(* drives (host_privsep_client.c).  It turns helper messages into host     *)
(* events, sends the core's frames piece by piece, and keeps its own view  *)
(* of who owns the console.  That view lags: the helper may be suspended,  *)
(* or resumed, again before the core has answered the event for the first  *)
(* change.                                                                 *)
(*                                                                         *)
(* The functions return false to fail the client; here each either takes   *)
(* its effect or fails with the cause in cError.                           *)
(***************************************************************************)
EXTENDS PrivsepMessages, Sequences

CONSTANTS
    EventCapacity,      \* NB_PRIVSEP_CLIENT_EVENT_CAPACITY
    ControlCapacity     \* NB_PRIVSEP_CLIENT_CONTROL_CAPACITY

ASSUME ClientAssumption ==
    /\ EventCapacity \in Nat \ {0}
    /\ ControlCapacity \in Nat \ {0}

VARIABLES
    cState, cGeneration, hasOutput, helperActive,
    helloSent, shutdownAsked, shutdownSent, shutdownAccepted,
    controls,           \* HELLO and PONG messages waiting to be staged
    wire,               \* << >> or the one staged message, perhaps half written
    cFrame,             \* the frame being sent
    events,             \* host events for the core
    cError              \* "none", or what failed the client

ownershipVars == <<cGeneration, hasOutput, helperActive>>
shutdownVars == <<shutdownAsked, shutdownSent, shutdownAccepted>>
failVars == <<cState, controls, wire, cFrame, cError>>
clientVars == <<ownershipVars, shutdownVars, helloSent, failVars, events>>

NoFrame ==
    [phase |-> "none", generation |-> 0, serial |-> 0, damage |-> {},
     whole |-> FALSE, offset |-> {}, begun |-> FALSE, cancel |-> FALSE,
     drop |-> FALSE]

ClientInit ==
    /\ cState = "suspended"
    /\ cGeneration = 0
    /\ hasOutput = FALSE
    /\ helperActive = FALSE
    /\ helloSent = FALSE
    /\ shutdownAsked = FALSE
    /\ shutdownSent = FALSE
    /\ shutdownAccepted = FALSE
    /\ controls = <<Hello(TRUE)>>
    /\ wire = << >>
    /\ cFrame = NoFrame
    /\ events = << >>
    /\ cError = "none"

fail_client(cause) ==
    /\ cState' = "failed"
    /\ controls' = << >>
    /\ wire' = << >>
    /\ cFrame' = NoFrame
    /\ cError' = cause

-----------------------------------------------------------------------------
(***************************************************************************)
(* Host events.                                                            *)
(***************************************************************************)
Event(type) == [type |-> type, generation |-> 0, serial |-> 0]
InputEvent(gen) == [Event("input") EXCEPT !.generation = gen]
CompleteEvent(serial) == [Event("complete") EXCEPT !.serial = serial]

event_is_input(e) == e.type = "input"

discard_queued_input(queue) ==
    LET kept[n \in 0 .. Len(queue)] ==
          IF n = 0 THEN << >>
          ELSE IF ~event_is_input(queue[n]) THEN Append(kept[n - 1], queue[n]) ELSE kept[n - 1]
    IN  kept[Len(queue)]

HasInput(queue) == \E i \in DOMAIN queue : event_is_input(queue[i])

discard_oldest_queued_input(queue) ==
    LET oldest == CHOOSE i \in DOMAIN queue :
                      /\ event_is_input(queue[i])
                      /\ \A j \in 1 .. i - 1 : ~event_is_input(queue[j])
    IN  SubSeq(queue, 1, oldest - 1) \o SubSeq(queue, oldest + 1, Len(queue))

\* Queue e and move to the given state and frame, or overflow.
push_event(queue, e, state, frm) ==
    IF Len(queue) < EventCapacity
    THEN /\ events' = Append(queue, e)
         /\ cState' = state
         /\ cFrame' = frm
         /\ UNCHANGED <<controls, wire, cError>>
    ELSE /\ events' = queue
         /\ fail_client("event_overflow")

\* A full queue makes room by forgetting its oldest input, or drops e.
push_input_event(e) ==
    IF Len(events) < EventCapacity
    THEN push_event(events, e, cState, cFrame)
    ELSE IF HasInput(events)
         THEN push_event(discard_oldest_queued_input(events), e, cState, cFrame)
         ELSE UNCHANGED <<events, failVars>>

-----------------------------------------------------------------------------
(***************************************************************************)
(* Sending.  Controls go first, then a shutdown request once no frame is   *)
(* in progress, then the next piece of the frame.                          *)
(***************************************************************************)
WireType == IF wire = << >> THEN "none" ELSE wire[1].type

NextPiece == CHOOSE r \in cFrame.damage \ cFrame.offset : TRUE

ShutdownDue == shutdownAsked /\ ~shutdownSent /\ cFrame.phase = "none"

\* The message stage_next_message would stage, << >> if there is none.
NextMessage ==
    IF controls # << >> THEN <<Head(controls)>>
    ELSE IF ShutdownDue THEN <<ShutdownRequest>>
    ELSE CASE cFrame.phase = "begin" ->
                <<Begin(cFrame.generation, cFrame.serial, cFrame.damage, cFrame.whole, TRUE)>>
           [] cFrame.phase = "data" ->
                <<Data(cFrame.generation, cFrame.serial, cFrame.offset, NextPiece)>>
           [] cFrame.phase = "commit" -> <<Commit(cFrame.generation, cFrame.serial)>>
           [] cFrame.phase = "abort" -> <<Abort(cFrame.generation, cFrame.serial)>>
           [] OTHER -> << >>

Outgoing == IF wire # << >> THEN wire ELSE NextMessage

\* What remains of the control queue once Outgoing has been staged.
ControlsAfterStaging ==
    IF wire = << >> /\ controls # << >> THEN Tail(controls) ELSE controls

\* The socket takes only a part of the message, or nothing of it.
StageMessage ==
    /\ cError = "none"
    /\ wire = << >>
    /\ NextMessage # << >>
    /\ wire' = NextMessage
    /\ controls' = ControlsAfterStaging
    /\ UNCHANGED <<ownershipVars, shutdownVars, helloSent, cState, cFrame, cError, events>>

MutantForgetDrop(m) ==
    CASE m.type = "begin" ->
           [cFrame EXCEPT !.begun = TRUE,
                          !.phase = IF cFrame.cancel THEN "abort" ELSE "data"]
      [] m.type = "data" ->
           [cFrame EXCEPT !.offset = @ \cup {m.region},
                          !.phase = IF cFrame.cancel THEN "abort"
                                    ELSE IF cFrame.offset \cup {m.region} = cFrame.damage
                                         THEN "commit" ELSE "data"]
      [] m.type = "commit" -> [cFrame EXCEPT !.offset = {}, !.phase = "wait"]
      [] m.type = "abort" -> NoFrame
      [] OTHER -> cFrame

\* complete_staged_message: the last byte of Outgoing leaves.
FrameAfter(m) ==
    CASE m.type = "begin" ->
           [cFrame EXCEPT !.begun = TRUE,
                          !.phase = IF cFrame.cancel THEN "abort" ELSE "data"]
      [] m.type = "data" ->
           [cFrame EXCEPT !.offset = @ \cup {m.region},
                          !.phase = IF cFrame.cancel THEN "abort"
                                    ELSE IF cFrame.offset \cup {m.region} = cFrame.damage
                                         THEN "commit" ELSE "data"]
      [] m.type = "commit" ->
           IF cFrame.drop THEN NoFrame
           ELSE [cFrame EXCEPT !.offset = {}, !.phase = "wait"]
      [] m.type = "abort" -> NoFrame
      [] OTHER -> cFrame

SendMessage ==
    /\ cError = "none"
    /\ Outgoing # << >>
    /\ wire' = << >>
    /\ controls' = ControlsAfterStaging
    /\ cFrame' = FrameAfter(Outgoing[1])
    /\ helloSent' = (helloSent \/ Outgoing[1].type = "hello")
    /\ shutdownSent' = (shutdownSent \/ Outgoing[1].type = "shutdown")
    /\ UNCHANGED <<ownershipVars, shutdownAsked, shutdownAccepted, cState, cError, events>>

MutantAbortCommitted ==
    CASE cFrame.phase = "none" -> cFrame
      [] cFrame.phase # "none" /\ WireType = "commit" ->
           [cFrame EXCEPT !.cancel = TRUE, !.drop = TRUE]
      [] cFrame.phase # "wait" /\ ~cFrame.begun /\ WireType # "begin" -> NoFrame
      [] OTHER ->
           [cFrame EXCEPT !.cancel = TRUE,
                          !.phase = IF WireType \in {"begin", "data"} THEN @ ELSE "abort"]

\* request_frame_abort: the frame left to send when its presentation is void.
AbortedFrame ==
    CASE cFrame.phase = "none" -> cFrame
      [] cFrame.phase # "none" /\ WireType = "commit" ->
           [cFrame EXCEPT !.cancel = TRUE, !.drop = TRUE]
      [] cFrame.phase = "wait" /\ WireType # "commit" -> NoFrame
      [] /\ cFrame.phase \notin {"none", "wait"} /\ WireType # "commit"
         /\ ~cFrame.begun /\ WireType # "begin" -> NoFrame
      [] OTHER ->
           [cFrame EXCEPT !.cancel = TRUE,
                          !.phase = IF WireType \in {"begin", "data"} THEN @ ELSE "abort"]

-----------------------------------------------------------------------------
(***************************************************************************)
(* Messages from the helper.                                               *)
(***************************************************************************)
OutOfOrder ==
    /\ fail_client("out_of_order")
    /\ UNCHANGED <<ownershipVars, shutdownVars, helloSent, events>>

handle_ready(m) ==
    IF helloSent /\ ~hasOutput /\ cState = "suspended"
    THEN /\ cGeneration' = m.generation
         /\ hasOutput' = TRUE
         /\ helperActive' = TRUE
         /\ UNCHANGED <<shutdownVars, helloSent>>
         /\ push_event(events, Event("output"), "active", cFrame)
    ELSE OutOfOrder

ExpectedSuspend(m) ==
    /\ helperActive
    /\ m.generation = cGeneration + 1
    /\ m.abandoned # 0 => cFrame.phase # "none" /\ cFrame.serial = m.abandoned
    /\ cState \in {"active", "release_pending", "acquire_pending"}

MutantMergedSuspend(m) ==
    IF ExpectedSuspend(m)
    THEN /\ cGeneration' = IF cState = "active" THEN m.generation ELSE cGeneration
         /\ helperActive' = FALSE
         /\ UNCHANGED <<hasOutput, shutdownVars, helloSent>>
         /\ IF cState = "active"
            THEN push_event(discard_queued_input(events), Event("release"),
                            "release_pending", AbortedFrame)
            ELSE /\ events' = discard_queued_input(events)
                 /\ cFrame' = AbortedFrame
                 /\ UNCHANGED <<cState, controls, wire, cError>>
    ELSE OutOfOrder

\* Suspension while an earlier change is unanswered adds no event.
handle_suspend(m) ==
    IF ExpectedSuspend(m)
    THEN /\ cGeneration' = m.generation
         /\ helperActive' = FALSE
         /\ UNCHANGED <<hasOutput, shutdownVars, helloSent>>
         /\ IF cState = "active"
            THEN push_event(discard_queued_input(events), Event("release"),
                            "release_pending", AbortedFrame)
            ELSE /\ events' = discard_queued_input(events)
                 /\ cFrame' = AbortedFrame
                 /\ UNCHANGED <<cState, controls, wire, cError>>
    ELSE OutOfOrder

ExpectedResume(m) ==
    /\ ~helperActive
    /\ m.generation = cGeneration
    /\ cState \in {"suspended", "release_pending", "acquire_pending"}

handle_resume(m) ==
    IF ExpectedResume(m)
    THEN /\ helperActive' = TRUE
         /\ UNCHANGED <<cGeneration, hasOutput, shutdownVars, helloSent>>
         /\ IF cState = "suspended"
            THEN push_event(events, Event("acquire"), "acquire_pending", cFrame)
            ELSE UNCHANGED <<events, failVars>>
    ELSE OutOfOrder

input_message_is_valid(m) == helperActive /\ hasOutput /\ m.generation = cGeneration

\* Pointer and key messages; input the core cannot use yet is dropped.
handle_input(m) ==
    IF input_message_is_valid(m)
    THEN /\ UNCHANGED <<ownershipVars, shutdownVars, helloSent>>
         /\ IF cState \in {"active", "acquire_pending"}
            THEN push_input_event(InputEvent(m.generation))
            ELSE UNCHANGED <<events, failVars>>
    ELSE OutOfOrder

handle_frame_complete(m) ==
    IF /\ cState = "active"
       /\ cFrame.phase = "wait"
       /\ m.generation = cFrame.generation
       /\ m.serial = cFrame.serial
    THEN /\ UNCHANGED <<ownershipVars, shutdownVars, helloSent>>
         /\ push_event(events, CompleteEvent(cFrame.serial), cState, NoFrame)
    ELSE OutOfOrder

MutantPingOnlyWhenActive(m) ==
    /\ UNCHANGED <<ownershipVars, shutdownVars, helloSent, events>>
    /\ IF shutdownSent \/ WireType = "shutdown" \/ cState # "active"
       THEN UNCHANGED failVars
       ELSE IF Len(controls) < ControlCapacity
            THEN /\ controls' = Append(controls, Pong(m.token))
                 /\ UNCHANGED <<cState, wire, cFrame, cError>>
            ELSE fail_client("control_overflow")

handle_ping(m) ==
    /\ UNCHANGED <<ownershipVars, shutdownVars, helloSent, events>>
    /\ IF shutdownSent \/ WireType = "shutdown"
       THEN UNCHANGED failVars
       ELSE IF Len(controls) < ControlCapacity
            THEN /\ controls' = Append(controls, Pong(m.token))
                 /\ UNCHANGED <<cState, wire, cFrame, cError>>
            ELSE fail_client("control_overflow")

handle_shutdown_accepted ==
    IF shutdownAsked /\ shutdownSent
    THEN /\ shutdownAccepted' = TRUE
         /\ events' = <<Event("quit")>>
         /\ UNCHANGED <<ownershipVars, shutdownAsked, shutdownSent, helloSent, failVars>>
    ELSE OutOfOrder

\* A fatal report of another ownership is refused; either way the client ends.
handle_fatal(m) ==
    IF m.generation # 0 /\ hasOutput /\ m.generation # cGeneration
    THEN OutOfOrder
    ELSE /\ fail_client("fatal")
         /\ UNCHANGED <<ownershipVars, shutdownVars, helloSent, events>>

CanIngest == cError = "none" /\ ~shutdownAccepted

ClientReceive(m) ==
    /\ CanIngest
    /\ CASE m.type = "ready" -> handle_ready(m)
         [] m.type = "suspend" -> handle_suspend(m)
         [] m.type = "resume" -> handle_resume(m)
         [] m.type = "input" -> handle_input(m)
         [] m.type = "complete" -> handle_frame_complete(m)
         [] m.type = "ping" -> handle_ping(m)
         [] m.type = "accepted" -> handle_shutdown_accepted
         [] m.type = "fatal" -> handle_fatal(m)

\* End of file on the socket, or a write that fails.
ClientDisconnected ==
    /\ cError = "none"
    /\ fail_client("closed")
    /\ UNCHANGED <<ownershipVars, shutdownVars, helloSent, events>>

-----------------------------------------------------------------------------
(***************************************************************************)
(* Calls from the core, which has taken an event: "rest" is the queue left.*)
(***************************************************************************)
\* The frame present() copies; the core checks for WOULD_BLOCK and SUSPENDED.
PresentableState == cState = "active" /\ cFrame.phase = "none"

present(serial, damage, whole) ==
    /\ PresentableState
    /\ cFrame' = [NoFrame EXCEPT !.phase = "begin", !.generation = cGeneration,
                                 !.serial = serial, !.damage = damage, !.whole = whole]
    /\ UNCHANGED <<ownershipVars, shutdownVars, helloSent, cState, controls, wire,
                   cError, events>>

complete_console_release(rest) ==
    /\ cState = "release_pending"
    /\ IF helperActive
       THEN push_event(rest, Event("acquire"), "acquire_pending", cFrame)
       ELSE /\ cState' = "suspended"
            /\ events' = rest
            /\ UNCHANGED <<controls, wire, cFrame, cError>>

complete_console_acquire(rest) ==
    /\ cState = "acquire_pending"
    /\ IF ~helperActive
       THEN push_event(rest, Event("release"), "release_pending", cFrame)
       ELSE /\ cState' = "active"
            /\ events' = rest
            /\ UNCHANGED <<controls, wire, cFrame, cError>>

=============================================================================
