---------------------------- MODULE PrivsepHelper ----------------------------
(***************************************************************************)
(* The privileged side of the core/helper channel (privsep_helper.c): it   *)
(* validates every message of an untrusted core, assembles frames in a     *)
(* trusted staging buffer, hands complete frames to the display, and keeps *)
(* the session generation that tells messages of one console ownership     *)
(* from those of an earlier one.                                           *)
(*                                                                         *)
(* A pixel is modelled by the stamp of the frame it came in: a region of   *)
(* staging or of the screen holds <<generation, serial>>.  What is never   *)
(* written by this session, uninitialised or another console's memory, is  *)
(* stamped Foreign.  The outbound ring is measured in records.             *)
(***************************************************************************)
EXTENDS PrivsepMessages, Sequences

CONSTANTS
    MaxGeneration,      \* UINT64_MAX in the code
    OutboundCapacity,   \* records the outbound ring holds
    ControlReserve,     \* records of it that input may not take
    MaxSerial,          \* bound on the serials the core uses
    Tokens              \* heartbeat tokens, 0 is not one of them

ASSUME HelperAssumption ==
    /\ MaxGeneration \in Nat \ {0}
    /\ OutboundCapacity \in Nat \ {0}
    /\ ControlReserve \in 0 .. OutboundCapacity
    /\ MaxSerial \in Nat
    /\ Tokens \subseteq Nat \ {0}

VARIABLES
    generation, lastSubmitted, helloReceived, readySent, suspended,
    frame,              \* the frame being received (frame_open, frame_stale, ...)
    pending,            \* the frame the display has not completed
    staging, stagingValid,
    screen,             \* what the present callback left in video memory
    outbound,           \* records not yet written to the socket
    ping,               \* outstanding token, and whether a pong waits to be taken
    shutdownRequested,
    error               \* "none", or the check that failed the helper

sessionVars == <<generation, helloReceived, readySent, suspended>>
pixelVars == <<lastSubmitted, staging, stagingValid, screen>>
queueVars == <<frame, pending, outbound, error>>
controlVars == <<ping, shutdownRequested>>
helperVars == <<sessionVars, pixelVars, queueVars, controlVars>>

Foreign == <<0, 0>>

Blank == [r \in Regions |-> Foreign]

ClosedFrame ==
    [open |-> FALSE, stale |-> FALSE, generation |-> 0, serial |-> 0,
     damage |-> {}, received |-> {}]

NoPresentation == [generation |-> 0, serial |-> 0]

presentationPending == pending # NoPresentation

failed == error # "none"

HelperInit ==
    /\ generation = 1
    /\ lastSubmitted = 0
    /\ helloReceived = FALSE
    /\ readySent = FALSE
    /\ suspended = FALSE
    /\ frame = ClosedFrame
    /\ pending = NoPresentation
    /\ staging = Blank
    /\ stagingValid = FALSE
    /\ screen = Blank
    /\ outbound = << >>
    /\ ping = [outstanding |-> FALSE, token |-> 0, pong |-> FALSE]
    /\ shutdownRequested = FALSE
    /\ error = "none"

-----------------------------------------------------------------------------
(***************************************************************************)
(* The outbound queue.                                                     *)
(***************************************************************************)
IsInput(m) == m.type = "input"

\* (Definitions named Mutant... are faults the properties are tried against;
\* no specification uses them.)

HasRoom(queue, m) ==
    Len(queue) + (IF IsInput(m) THEN ControlReserve ELSE 0) < OutboundCapacity

enqueue_message(queue, m) == Append(queue, [message |-> m, started |-> FALSE])

MutantPurgeNothing(queue) == queue

MutantPurgeControls(queue) == SelectSeq(queue, LAMBDA record : record.started)

\* Input whose first byte has not left is dropped, a started record is immutable.
StaysQueued(record) == record.started \/ ~IsInput(record.message)

purge_unsent_input(queue) ==
    LET kept[n \in 0 .. Len(queue)] ==
          IF n = 0 THEN << >>
          ELSE IF StaysQueued(queue[n]) THEN Append(kept[n - 1], queue[n]) ELSE kept[n - 1]
    IN  kept[Len(queue)]

fail_helper(queue, cause) ==
    /\ error' = cause
    /\ outbound' = IF HasRoom(queue, Fatal(generation'))
                   THEN enqueue_message(queue, Fatal(generation'))
                   ELSE queue
    /\ frame' = ClosedFrame
    /\ pending' = NoPresentation

\* Queue m and leave the frame state at frm and pnd, or fail when it has no room.
enqueue_or_fail(queue, m, frm, pnd) ==
    IF HasRoom(queue, m)
    THEN /\ outbound' = enqueue_message(queue, m)
         /\ frame' = frm
         /\ pending' = pnd
         /\ error' = error
    ELSE fail_helper(queue, "outbound_full")

-----------------------------------------------------------------------------
(***************************************************************************)
(* Messages from the core.                                                 *)
(***************************************************************************)
Reject(cause) ==
    /\ UNCHANGED <<sessionVars, pixelVars, controlVars>>
    /\ fail_helper(outbound, cause)

ReceiveHello(m) ==
    /\ ~helloReceived
    /\ m.type = "hello"
    /\ m.trusted
    /\ helloReceived' = TRUE
    /\ UNCHANGED <<generation, suspended, pixelVars, controlVars>>
    /\ IF suspended
       THEN UNCHANGED <<readySent, queueVars>>
       ELSE /\ enqueue_or_fail(outbound, ReadyMessage(generation), frame, pending)
            /\ readySent' = (error' = "none")

RejectHello(m) ==
    /\ ~helloReceived
    /\ \/ m.type # "hello" /\ Reject("hello_first")
       \/ m.type = "hello" /\ ~m.trusted /\ Reject("credentials")

BeginInOrder(m) ==
    /\ readySent
    /\ ~frame.open
    /\ ~presentationPending
    /\ m.generation = generation
    /\ ~suspended
    /\ m.serial > lastSubmitted

MutantPartialFirst(m) == m.sound

\* Partial damage needs the retained frame it is drawn over.
DamageAcceptable(m) == m.sound /\ (stagingValid \/ m.whole)

handle_frame_begin(m) ==
    \/ /\ BeginInOrder(m)
       /\ DamageAcceptable(m)
       /\ frame' = [open |-> TRUE, stale |-> FALSE, generation |-> m.generation,
                    serial |-> m.serial, damage |-> m.damage, received |-> {}]
       /\ UNCHANGED <<sessionVars, pixelVars, controlVars, pending, outbound, error>>
    \/ ~BeginInOrder(m) /\ Reject("begin_order")
    \/ BeginInOrder(m) /\ ~DamageAcceptable(m) /\ Reject("begin_damage")

DataInOrder(m) ==
    /\ frame.open
    /\ m.generation = frame.generation
    /\ m.serial = frame.serial
    /\ m.offset = frame.received

DataFits(m) == m.region \in frame.damage \ frame.received

handle_frame_data(m) ==
    \/ /\ DataInOrder(m)
       /\ DataFits(m)
       /\ frame' = [frame EXCEPT !.received = @ \cup {m.region}]
       /\ staging' = IF frame.stale THEN staging
                     ELSE [staging EXCEPT ![m.region] = <<m.generation, m.serial>>]
       /\ UNCHANGED <<sessionVars, controlVars, lastSubmitted, stagingValid, screen,
                      pending, outbound, error>>
    \/ ~DataInOrder(m) /\ Reject("data_order")
    \/ DataInOrder(m) /\ ~DataFits(m) /\ Reject("data_size")

EndsOpenFrame(m) ==
    frame.open /\ m.generation = frame.generation /\ m.serial = frame.serial

MutantKeepStaging(m) ==
    /\ EndsOpenFrame(m)
    /\ m.type = "abort" \/ (frame.received = frame.damage /\ frame.stale)
    /\ frame' = ClosedFrame
    /\ UNCHANGED <<sessionVars, controlVars, pixelVars, pending, outbound, error>>

\* An abort, and the commit of a frame that a suspension made stale.
DropFrame(m) ==
    /\ EndsOpenFrame(m)
    /\ m.type = "abort" \/ (frame.received = frame.damage /\ frame.stale)
    /\ stagingValid' = FALSE
    /\ frame' = ClosedFrame
    /\ UNCHANGED <<sessionVars, controlVars, lastSubmitted, staging, screen,
                   pending, outbound, error>>

MutantPresentStale(m) ==
    m.type = "commit" /\ EndsOpenFrame(m) /\ frame.received = frame.damage

Presentable(m) ==
    /\ m.type = "commit"
    /\ EndsOpenFrame(m)
    /\ frame.received = frame.damage
    /\ ~frame.stale

\* The present callback copies the damaged regions to video memory and succeeds.
PresentFrame(m) ==
    /\ Presentable(m)
    /\ screen' = [r \in Regions |-> IF r \in frame.damage THEN staging[r] ELSE screen[r]]
    /\ pending' = [generation |-> generation, serial |-> frame.serial]
    /\ lastSubmitted' = frame.serial
    /\ stagingValid' = TRUE
    /\ frame' = ClosedFrame
    /\ UNCHANGED <<sessionVars, controlVars, staging, outbound, error>>

PresentFails(m) == Presentable(m) /\ Reject("presentation")

RejectReference(m) ==
    \/ ~EndsOpenFrame(m) /\ Reject("terminator")
    \/ EndsOpenFrame(m) /\ m.type = "commit" /\ frame.received # frame.damage
         /\ Reject("incomplete")

handle_frame_reference(m, presented) ==
    \/ DropFrame(m)
    \/ presented /\ PresentFrame(m)
    \/ ~presented /\ PresentFails(m)
    \/ RejectReference(m)

handle_pong(m) ==
    IF ping.outstanding /\ m.token = ping.token
    THEN /\ ping' = [ping EXCEPT !.outstanding = FALSE, !.pong = TRUE]
         /\ UNCHANGED <<sessionVars, pixelVars, queueVars, shutdownRequested>>
    ELSE Reject("pong")

handle_shutdown ==
    /\ shutdownRequested' = TRUE
    /\ UNCHANGED <<sessionVars, pixelVars, ping>>
    /\ enqueue_or_fail(outbound, ShutdownAccepted, ClosedFrame, NoPresentation)

\* handle_message; "presented" is what the present callback would return.
Receive(m, presented) ==
    /\ ~failed
    /\ \/ ReceiveHello(m)
       \/ RejectHello(m)
       \/ helloReceived /\ shutdownRequested /\ Reject("after_shutdown")
       \/ /\ helloReceived /\ ~shutdownRequested
          /\ \/ m.type = "hello" /\ Reject("duplicate_hello")
             \/ m.type = "begin" /\ handle_frame_begin(m)
             \/ m.type = "data" /\ handle_frame_data(m)
             \/ m.type \in {"commit", "abort"} /\ handle_frame_reference(m, presented)
             \/ m.type = "pong" /\ handle_pong(m)
             \/ m.type = "shutdown" /\ handle_shutdown

\* Bytes the parser refuses.
ReceiveMalformed == ~failed /\ Reject("malformed")

-----------------------------------------------------------------------------
(***************************************************************************)
(* Calls from the device worker.  The worker decides what happens to the   *)
(* screen while the console is released, so suspend leaves screen' open.   *)
(***************************************************************************)
AbandonedSerial ==
    IF presentationPending THEN pending.serial
    ELSE IF frame.open THEN frame.serial
    ELSE 0

CanSuspend ==
    ~failed /\ ~shutdownRequested /\ ~suspended /\ generation < MaxGeneration

StaleFrame == IF frame.open THEN [frame EXCEPT !.stale = TRUE] ELSE frame

suspend ==
    /\ CanSuspend
    /\ generation' = generation + 1
    /\ suspended' = TRUE
    /\ stagingValid' = FALSE
    /\ UNCHANGED <<helloReceived, readySent, lastSubmitted, staging, controlVars>>
    /\ IF readySent
       THEN enqueue_or_fail(purge_unsent_input(outbound),
                            SuspendMessage(generation + 1, AbandonedSerial),
                            StaleFrame, NoPresentation)
       ELSE /\ frame' = StaleFrame
            /\ pending' = NoPresentation
            /\ UNCHANGED <<outbound, error>>

CanResume == ~failed /\ ~shutdownRequested /\ suspended

MutantReadyAgain(resized) ==
    /\ CanResume
    /\ staging' = IF resized THEN Blank ELSE staging
    /\ stagingValid' = FALSE
    /\ suspended' = FALSE
    /\ UNCHANGED <<generation, helloReceived, readySent, lastSubmitted, screen, controlVars>>
    /\ enqueue_or_fail(outbound, ReadyMessage(generation), frame, pending)

\* A new output size replaces staging by memory nothing was written to.
resume(resized) ==
    /\ CanResume
    /\ staging' = IF resized THEN Blank ELSE staging
    /\ stagingValid' = FALSE
    /\ suspended' = FALSE
    /\ UNCHANGED <<generation, helloReceived, lastSubmitted, screen, controlVars>>
    /\ IF helloReceived
       THEN /\ enqueue_or_fail(outbound,
                               IF readySent THEN ResumeMessage(generation)
                               ELSE ReadyMessage(generation),
                               frame, pending)
            /\ readySent' = (readySent \/ error' = "none")
       ELSE UNCHANGED <<readySent, queueVars>>

ResumeOutOfMemory == CanResume /\ Reject("allocation")

CanSendInput == ~failed /\ ~shutdownRequested /\ readySent /\ ~suspended

send_input ==
    /\ CanSendInput
    /\ UNCHANGED <<sessionVars, pixelVars, controlVars>>
    /\ enqueue_or_fail(outbound, InputMessage(generation), frame, pending)

MutantCompletesCurrentAsOlder(gen, serial) ==
    gen <= generation /\ serial # 0 /\ serial <= lastSubmitted

\* The display's completion of frame <<gen, serial>>; one of an ownership that
\* is over is late and ignored.
CompletesOlder(gen, serial) ==
    gen < generation /\ serial # 0 /\ serial <= lastSubmitted

CompletesPending(gen, serial) ==
    presentationPending /\ pending = [generation |-> gen, serial |-> serial]

CompletionError ==
    IF presentationPending THEN "completion_mismatch" ELSE "unexpected_completion"

complete_frame(gen, serial) ==
    /\ ~failed
    /\ ~shutdownRequested
    /\ \/ CompletesOlder(gen, serial) /\ UNCHANGED helperVars
       \/ /\ ~CompletesOlder(gen, serial)
          /\ ~CompletesPending(gen, serial)
          /\ Reject(CompletionError)
       \/ /\ ~CompletesOlder(gen, serial)
          /\ CompletesPending(gen, serial)
          /\ UNCHANGED <<sessionVars, pixelVars, controlVars>>
          /\ enqueue_or_fail(outbound, FrameComplete(gen, serial), frame, NoPresentation)

CanPing(token) ==
    /\ ~failed /\ ~shutdownRequested /\ readySent
    /\ ~ping.outstanding /\ ~ping.pong
    /\ token # 0

send_ping(token) ==
    /\ CanPing(token)
    /\ UNCHANGED <<sessionVars, pixelVars, shutdownRequested>>
    /\ enqueue_or_fail(outbound, Ping(token), frame, pending)
    /\ ping' = IF error' = "none"
               THEN [outstanding |-> TRUE, token |-> token, pong |-> FALSE]
               ELSE ping

take_pong ==
    /\ ping.pong
    /\ ping' = [ping EXCEPT !.pong = FALSE]
    /\ UNCHANGED <<sessionVars, pixelVars, queueVars, shutdownRequested>>

report_fatal == ~failed /\ Reject("reported")

\* Some bytes of the head record leave, or its last byte does.
StartHead ==
    /\ outbound # << >>
    /\ ~Head(outbound).started
    /\ outbound' = [outbound EXCEPT ![1].started = TRUE]
    /\ UNCHANGED <<sessionVars, pixelVars, controlVars, frame, pending, error>>

ConsumeHead ==
    /\ outbound # << >>
    /\ outbound' = Tail(outbound)
    /\ UNCHANGED <<sessionVars, pixelVars, controlVars, frame, pending, error>>

-----------------------------------------------------------------------------
Serials == 1 .. MaxSerial

Generations == 1 .. MaxGeneration

CoreMessage == CoreMessages(Generations, Serials, Tokens)

\* While another console owns the display the video memory is not ours.
SuspendScreen == screen' \in {screen, Blank}

FromCore ==
    \/ \E m \in CoreMessage, presented \in BOOLEAN : Receive(m, presented)
    \/ ReceiveMalformed

FromWorker ==
    \/ suspend /\ SuspendScreen
    \/ \E resized \in BOOLEAN : resume(resized)
    \/ ResumeOutOfMemory
    \/ send_input
    \/ \E gen \in Generations, serial \in Serials : complete_frame(gen, serial)
    \/ \E token \in Tokens : send_ping(token)
    \/ take_pong
    \/ report_fatal
    \/ StartHead
    \/ ConsumeHead

HelperNext == FromCore \/ FromWorker

HelperSpec == HelperInit /\ [][HelperNext]_helperVars

-----------------------------------------------------------------------------
(***************************************************************************)
(* Properties.                                                             *)
(***************************************************************************)
Stamps == Nat \X Nat

FrameType ==
    [open : BOOLEAN, stale : BOOLEAN, generation : Nat, serial : Nat,
     damage : SUBSET Regions, received : SUBSET Regions]

Errors ==
    {"none", "outbound_full", "hello_first", "credentials", "begin_order",
     "begin_damage", "data_order", "data_size", "presentation", "terminator",
     "incomplete", "pong", "after_shutdown", "duplicate_hello", "malformed",
     "allocation", "unexpected_completion", "completion_mismatch", "reported"}

\* The helper's fields keep their types, generation its range; the queue's
\* records are left to the outbound properties.
HelperTypeOK ==
    /\ generation \in Generations
    /\ lastSubmitted \in Nat
    /\ helloReceived \in BOOLEAN
    /\ readySent \in BOOLEAN
    /\ suspended \in BOOLEAN
    /\ frame \in FrameType
    /\ pending \in [generation : Nat, serial : Nat]
    /\ staging \in [Regions -> Stamps]
    /\ stagingValid \in BOOLEAN
    /\ screen \in [Regions -> Stamps]
    /\ ping \in [outstanding : BOOLEAN, token : Nat, pong : BOOLEAN]
    /\ shutdownRequested \in BOOLEAN
    /\ error \in Errors

\* The helper keeps the complete frame the screen shows (handle_frame_begin
\* lets partial damage only onto it): with no frame half received the staging
\* buffer it may still use equals video memory, whatever was aborted,
\* committed stale or released to another console before.  (A failure or a
\* shutdown request drops the open frame and leaves staging_valid alone, and
\* no frame follows either.)
RetainedFrameIsOnScreen ==
    (stagingValid /\ ~frame.open /\ ~shutdownRequested /\ ~failed) => staging = screen

\* After startup and after every acquire the screen is repainted completely:
\* a partial frame is never shown over pixels of an earlier ownership of the
\* console, over another console's or over uninitialised memory.
FullReplacementAfterAcquire ==
    stagingValid => \A r \in Regions : screen[r][1] = generation

\* At most one frame is between FRAME_BEGIN and completion, and one that is not
\* stale belongs to the ownership in progress; a stale one never leaves the
\* staging buffer usable (suspend, handle_frame_begin).
OneFrameInFlight ==
    /\ frame.open => ~presentationPending
    /\ (frame.open /\ ~frame.stale) =>
          readySent /\ ~suspended /\ frame.generation = generation
                    /\ frame.serial > lastSubmitted
    /\ (frame.open /\ frame.stale) => frame.generation < generation /\ ~stagingValid
    /\ presentationPending =>
          pending = [generation |-> generation, serial |-> lastSubmitted] /\ ~suspended

Display == INSTANCE ConsoleDisplay
               WITH released <- suspended, epoch <- generation,
                    last <- lastSubmitted, picture <- screen

\* The helper implements the promise of ConsoleDisplay: over pieces, ends,
\* aborts, failures and changes of ownership in any order, the screen only
\* ever goes from one complete picture to the next.
ImplementsConsoleDisplay == Display!Spec

\* Input queued in one ownership of the console is not delivered in the next:
\* only a record already begun on the wire outlives a suspend
\* (purge_unsent_input).
NoStaleInputQueued ==
    \A i \in DOMAIN outbound :
        (IsInput(outbound[i].message) /\ ~outbound[i].started)
            => outbound[i].message.generation = generation /\ ~suspended

\* The control messages of a queue, in order.
Controls(queue) ==
    LET controls[n \in 0 .. Len(queue)] ==
          IF n = 0 THEN << >>
          ELSE IF ~IsInput(queue[n].message) THEN Append(controls[n - 1], queue[n].message)
          ELSE controls[n - 1]
    IN  controls[Len(queue)]

Extends(after, before) ==
    Len(after) >= Len(before) /\ SubSeq(after, 1, Len(before)) = before

\* A control message, once queued, leaves only from the head of the queue and
\* in order; no purge, overflow or failure drops or reorders it.
ControlsAreKept ==
    [][\/ Extends(Controls(outbound'), Controls(outbound))
       \/ /\ outbound' = Tail(outbound)
          /\ Controls(outbound) = Controls(<<Head(outbound)>>) \o Controls(outbound')
      ]_helperVars

=============================================================================
