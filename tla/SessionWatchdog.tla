--------------------------- MODULE SessionWatchdog ---------------------------
(***************************************************************************)
(* The heartbeat of the device worker (session_watchdog.c) in the loop     *)
(* that drives it (run_device_worker): read the socket, note the handshake *)
(* or a pong, advance, and sleep at most until the deadline.  Time is the  *)
(* monotonic clock in milliseconds; a woken loop is at most Slack late and *)
(* an iteration takes at most Slack.  The core answers when it likes, or   *)
(* never.                                                                  *)
(***************************************************************************)
EXTENDS Naturals

CONSTANTS
    StartupGrace,       \* NB_SESSION_WATCHDOG_STARTUP_GRACE_MS
    PingInterval,       \* NB_SESSION_WATCHDOG_PING_INTERVAL_MS
    PongTimeout,        \* NB_SESSION_WATCHDOG_PONG_TIMEOUT_MS
    MaxTime,            \* UINT64_MAX milliseconds
    MaxWait,            \* UINT32_MAX milliseconds
    MaxToken,           \* UINT64_MAX
    Slack

ASSUME WatchdogAssumption ==
    /\ StartupGrace \in Nat \ {0}
    /\ PingInterval \in Nat \ {0}
    /\ PongTimeout \in Nat \ {0}
    /\ MaxTime \in Nat
    /\ MaxWait \in Nat \ {0}
    /\ MaxToken \in Nat \ {0}
    /\ Slack \in Nat

VARIABLES
    phase, deadline, next_token, outstanding_token,
    now,
    wakeBy,             \* the loop's next step is no later than this
    woken,              \* the loop is between reading and sleeping
    asked,              \* token of the ping the core has not answered, or 0
    answered,           \* token of the pong under way to the helper, or 0
    pong,               \* token the helper has for nb_privsep_helper_take_pong, or 0
    ready,              \* the helper has accepted the core's HELLO
    notedAt, pingedAt   \* history: last sign of life noted, last ping sent

watchdogVars == <<phase, deadline, next_token, outstanding_token>>
channelVars == <<asked, answered, pong, ready>>
historyVars == <<notedAt, pingedAt>>
wVars == <<watchdogVars, channelVars, historyVars, now, wakeBy, woken>>

AddMs(start, duration) == IF start + duration > MaxTime THEN MaxTime ELSE start + duration

Least(a, b) == IF a < b THEN a ELSE b

\* (Definitions named Mutant... are faults the properties are tried against;
\* no specification uses them.)

WatchdogInit ==
    /\ now \in 0 .. MaxTime
    /\ deadline = AddMs(now, StartupGrace)
    /\ next_token = 1
    /\ outstanding_token = 0
    /\ phase = "startup"
    /\ wakeBy = now + Slack
    /\ woken = FALSE
    /\ asked = 0
    /\ answered = 0
    /\ pong = 0
    /\ ready = FALSE
    /\ notedAt = now
    /\ pingedAt = now

-----------------------------------------------------------------------------
Expired == phase \in {"startup_expired", "heartbeat_expired"}

Tick ==
    /\ now < Least(MaxTime, wakeBy)
    /\ now' = now + 1
    /\ UNCHANGED <<watchdogVars, channelVars, historyVars, wakeBy, woken>>

\* The core completes the handshake, or answers the ping it was asked.
CoreAnswers ==
    /\ ~Expired
    /\ \/ asked # 0 /\ answered' = asked /\ asked' = 0 /\ UNCHANGED ready
       \/ ~ready /\ ready' = TRUE /\ UNCHANGED <<asked, answered>>
    /\ UNCHANGED <<watchdogVars, historyVars, now, wakeBy, woken, pong>>

-----------------------------------------------------------------------------
\* nb_session_watchdog_note_ready: the first time the helper is ready.
note_ready ==
    IF ready /\ phase = "startup"
    THEN /\ deadline' = AddMs(now, PingInterval)
         /\ outstanding_token' = 0
         /\ phase' = "ready"
         /\ notedAt' = now
         /\ UNCHANGED next_token
    ELSE UNCHANGED <<watchdogVars, notedAt>>

\* The first half of an iteration: the socket is read.
Read ==
    /\ ~woken
    /\ ~Expired
    /\ woken' = TRUE
    /\ wakeBy' = now + Slack
    /\ pong' = IF answered # 0 THEN answered ELSE pong
    /\ answered' = 0
    /\ note_ready
    /\ UNCHANGED <<now, asked, ready, pingedAt>>

\* nb_session_watchdog_note_pong; the helper has matched the token.
NotePong ==
    /\ deadline' = AddMs(now, PingInterval)
    /\ outstanding_token' = 0
    /\ phase' = "ready"
    /\ notedAt' = now
    /\ UNCHANGED <<next_token, asked, pingedAt>>

NextToken(token) == IF token = MaxToken THEN 1 ELSE token + 1

MutantShortTimeout ==
    /\ phase = "ready"
    /\ outstanding_token' = next_token
    /\ next_token' = NextToken(next_token)
    /\ deadline' = AddMs(now, PingInterval)
    /\ phase' = "awaiting_pong"
    /\ asked' = next_token
    /\ pingedAt' = now

SendPing ==
    /\ phase = "ready"
    /\ outstanding_token' = next_token
    /\ next_token' = NextToken(next_token)
    /\ deadline' = AddMs(now, PongTimeout)
    /\ phase' = "awaiting_pong"
    /\ asked' = next_token
    /\ pingedAt' = now

Expire ==
    /\ \/ phase = "startup" /\ phase' = "startup_expired"
       \/ phase = "awaiting_pong" /\ phase' = "heartbeat_expired"
    /\ UNCHANGED <<deadline, next_token, outstanding_token, asked, pingedAt>>

\* nb_session_watchdog_advance.
Advance ==
    \/ now < deadline /\ UNCHANGED <<watchdogVars, asked, pingedAt>>
    \/ now >= deadline /\ (SendPing \/ Expire)

\* A pong noted at "now" moves the deadline past it: advance then waits,
\* unless the clock has saturated, when a ping follows at once.
PongThenAdvance ==
    IF AddMs(now, PingInterval) > now
    THEN NotePong
    ELSE /\ outstanding_token' = next_token
         /\ next_token' = NextToken(next_token)
         /\ deadline' = AddMs(now, PongTimeout)
         /\ phase' = "awaiting_pong"
         /\ asked' = next_token
         /\ notedAt' = now
         /\ pingedAt' = now

MutantSleepsLong == MaxWait

wait_timeout == IF now >= deadline' THEN 0 ELSE Least(deadline' - now, MaxWait)

MutantClockFirst ==
    /\ woken
    /\ woken' = FALSE
    /\ IF pong # 0 /\ now < deadline
       THEN pong' = 0 /\ PongThenAdvance
       ELSE Advance /\ UNCHANGED <<pong, notedAt>>
    /\ wakeBy' = now + wait_timeout + Slack
    /\ UNCHANGED <<now, answered, ready>>

\* The second half: the pong is noted before the deadline is looked at.
Watch ==
    /\ woken
    /\ woken' = FALSE
    /\ IF pong # 0
       THEN pong' = 0 /\ PongThenAdvance
       ELSE Advance /\ UNCHANGED <<pong, notedAt>>
    /\ wakeBy' = now + wait_timeout + Slack
    /\ UNCHANGED <<now, answered, ready>>

WatchdogNext == Tick \/ CoreAnswers \/ Read \/ Watch

WatchdogSpec == WatchdogInit /\ [][WatchdogNext]_wVars

-----------------------------------------------------------------------------
Phases == {"startup", "ready", "awaiting_pong", "startup_expired", "heartbeat_expired"}

\* The watchdog's fields keep their types and ranges.
WatchdogTypeOK ==
    /\ phase \in Phases
    /\ deadline \in 0 .. MaxTime
    /\ next_token \in 1 .. MaxToken
    /\ outstanding_token \in 0 .. MaxToken
    /\ now \in 0 .. MaxTime
    /\ wakeBy \in Nat
    /\ woken \in BOOLEAN
    /\ asked \in 0 .. MaxToken
    /\ answered \in 0 .. MaxToken
    /\ pong \in 0 .. MaxToken
    /\ ready \in BOOLEAN
    /\ notedAt \in 0 .. MaxTime
    /\ pingedAt \in 0 .. MaxTime

\* A live session is never ended early: expiry means the core has had all of
\* PongTimeout since the ping, or all there is of time (advance).
NeverExpiresEarly ==
    phase = "heartbeat_expired" => now >= AddMs(pingedAt, PongTimeout)

\* A pong the helper has read wins over the deadline it is late for: the loop
\* notes it before it looks at the clock (run_device_worker, note_pong).
PongReadInTimeWins == phase = "heartbeat_expired" => pong = 0

\* One token names the ping from the watchdog to the core and back: whatever
\* is under way answers the ping outstanding, across the wrap of the counter.
OneHeartbeatInFlight ==
    /\ phase = "awaiting_pong" <=> (outstanding_token # 0 /\ ~Expired)
    /\ {asked, answered, pong} \subseteq {0, outstanding_token}
    /\ phase = "awaiting_pong" =>
          \/ asked # 0 /\ answered = 0 /\ pong = 0
          \/ asked = 0 /\ answered # 0 /\ pong = 0
          \/ asked = 0 /\ answered = 0 /\ pong # 0

\* A hung core is noticed: the session outlives the last sign of life by one
\* interval and one timeout, plus what the loop is late (wait_timeout never
\* sleeps past a deadline).
HangIsNoticed ==
    /\ phase = "startup" => now <= notedAt + StartupGrace + 2 * Slack
    /\ phase \in {"ready", "awaiting_pong"} =>
          now <= notedAt + PingInterval + PongTimeout + 4 * Slack

=============================================================================
