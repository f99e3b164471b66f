-------------------------- MODULE WorkerPartsProofs --------------------------
(***************************************************************************)
(* Two parts of the device worker that never touch each other's state:     *)
(*                                                                         *)
(*  - the heartbeat, for every choice of its periods, of the range of the  *)
(*    clock and of the tokens, and of how late the loop may be: a hung     *)
(*    core is noticed, and no live one is given up;                        *)
(*  - the keyboard and the mouse, for every keymap, every set of control   *)
(*    keys, output size, motion and gain: the reducer stays valid, the     *)
(*    core holds what is down, no device starves and no motion is lost.    *)
(***************************************************************************)
EXTENDS SessionWatchdog, ConsoleInput, FiniteSetTheorems, TLAPS

-----------------------------------------------------------------------------
(***************************************************************************)
(* The inductive invariant.  HangIsNoticed bounds the clock by the last    *)
(* sign of life; the parts below chain that bound: the clock by the next   *)
(* wake-up, the wake-up by the deadline, the deadline by what set it.      *)
(***************************************************************************)
\* The loop never sleeps past the deadline by more than it may be late, and an
\* expiry ends it.
WakesInTime ==
    /\ Expired => ~woken
    /\ ~Expired => /\ now <= wakeBy
                   /\ ~woken => wakeBy <= deadline + Slack
                   /\ woken => wakeBy <= deadline + 2 * Slack

\* Each phase's deadline is counted from what began the phase.
DeadlineIsDated ==
    /\ phase = "startup" => deadline <= notedAt + StartupGrace
    /\ phase = "ready" => deadline <= notedAt + PingInterval
    /\ phase = "awaiting_pong" =>
          /\ deadline = AddMs(pingedAt, PongTimeout)
          /\ pingedAt <= notedAt + PingInterval + 2 * Slack

WatchdogInv ==
    /\ WatchdogTypeOK
    /\ OneHeartbeatInFlight
    /\ PongReadInTimeWins
    /\ NeverExpiresEarly
    /\ WakesInTime
    /\ DeadlineIsDated

-----------------------------------------------------------------------------
\* Saturating addition stays in the clock's range, between its two bounds.
LEMMA AddMsBounds ==
    ASSUME NEW start \in 0 .. MaxTime, NEW duration \in Nat
    PROVE  /\ AddMs(start, duration) \in 0 .. MaxTime
           /\ start <= AddMs(start, duration)
           /\ AddMs(start, duration) <= start + duration
BY WatchdogAssumption DEF AddMs

\* The token counter wraps past zero.
LEMMA NextTokenType ==
    ASSUME NEW token \in 1 .. MaxToken
    PROVE  NextToken(token) \in 1 .. MaxToken
BY WatchdogAssumption DEF NextToken

\* The periods are naturals.
LEMMA Periods == /\ StartupGrace \in Nat /\ PingInterval \in Nat /\ PongTimeout \in Nat
                 /\ MaxTime \in Nat /\ MaxWait \in Nat /\ MaxToken \in Nat /\ Slack \in Nat
BY WatchdogAssumption

\* The invariant holds initially.
LEMMA WatchdogInitInv == WatchdogInit => WatchdogInv
<1> SUFFICES ASSUME WatchdogInit PROVE WatchdogInv
  OBVIOUS
<1> USE Periods DEF WatchdogInit
<1>1. deadline \in 0 .. MaxTime /\ now <= deadline /\ deadline <= now + StartupGrace
  BY AddMsBounds
<1>2. WatchdogTypeOK
  <2>1. woken \in BOOLEAN /\ ready \in BOOLEAN
    BY Zenon
  <2>2. 1 \in 1 .. MaxToken /\ 0 \in 0 .. MaxToken
    BY WatchdogAssumption
  <2>3. wakeBy \in Nat
    OBVIOUS
  <2> QED
    BY <1>1, <2>1, <2>2, <2>3 DEF WatchdogTypeOK, Phases
<1>3. OneHeartbeatInFlight /\ PongReadInTimeWins /\ NeverExpiresEarly
  BY DEF OneHeartbeatInFlight, PongReadInTimeWins, NeverExpiresEarly, Expired
<1>4. WakesInTime
  BY <1>1 DEF WakesInTime, Expired
<1>5. DeadlineIsDated
  BY <1>1 DEF DeadlineIsDated
<1> QED
  BY <1>2, <1>3, <1>4, <1>5 DEF WatchdogInv

\* The clock advances no further than the loop's next wake-up.
LEMMA TickKeeps == WatchdogInv /\ Tick => WatchdogInv'
<1> SUFFICES ASSUME WatchdogInv, Tick PROVE WatchdogInv'
  OBVIOUS
<1> USE Periods DEF WatchdogInv, Tick, watchdogVars, channelVars, historyVars
<1>1. now' = now + 1 /\ now' \in 0 .. MaxTime /\ now' <= wakeBy
  BY DEF WatchdogTypeOK, Least
<1>2. WatchdogTypeOK'
  BY <1>1 DEF WatchdogTypeOK
<1>3. OneHeartbeatInFlight' /\ PongReadInTimeWins'
  BY DEF OneHeartbeatInFlight, PongReadInTimeWins, Expired
<1>4. NeverExpiresEarly'
  <2>1. pingedAt \in 0 .. MaxTime /\ now \in Nat
    BY DEF WatchdogTypeOK
  <2>2. AddMs(pingedAt, PongTimeout) \in Nat
    BY <2>1 DEF AddMs
  <2> QED BY <1>1, <2>1, <2>2 DEF NeverExpiresEarly, AddMs
<1>5. WakesInTime'
  BY <1>1 DEF WakesInTime, Expired
<1>6. DeadlineIsDated'
  BY DEF DeadlineIsDated, AddMs
<1> QED
  BY <1>2, <1>3, <1>4, <1>5, <1>6

\* The core's answer moves the one token along.
LEMMA AnswerKeeps == WatchdogInv /\ CoreAnswers => WatchdogInv'
<1> SUFFICES ASSUME WatchdogInv, CoreAnswers PROVE WatchdogInv'
  OBVIOUS
<1> USE DEF WatchdogInv, CoreAnswers, watchdogVars, historyVars
<1>1. WatchdogTypeOK'
  <2>1. ready' \in BOOLEAN
    BY Zenon DEF WatchdogTypeOK
  <2> QED BY <2>1, Periods DEF WatchdogTypeOK
<1>2. OneHeartbeatInFlight'
  BY DEF OneHeartbeatInFlight, Expired
<1>3. PongReadInTimeWins' /\ NeverExpiresEarly' /\ WakesInTime' /\ DeadlineIsDated'
  BY DEF PongReadInTimeWins, NeverExpiresEarly, WakesInTime, DeadlineIsDated, Expired, AddMs
<1> QED
  BY <1>1, <1>2, <1>3

\* Reading the socket takes the pong up and may end the startup phase.
LEMMA ReadKeeps == WatchdogInv /\ Read => WatchdogInv'
<1> SUFFICES ASSUME WatchdogInv, Read PROVE WatchdogInv'
  OBVIOUS
<1> USE Periods DEF WatchdogInv, Read
<1>1. now \in 0 .. MaxTime /\ deadline \in 0 .. MaxTime /\ wakeBy \in Nat
  BY DEF WatchdogTypeOK
<1>2. /\ AddMs(now, PingInterval) \in 0 .. MaxTime
      /\ now <= AddMs(now, PingInterval)
      /\ AddMs(now, PingInterval) <= now + PingInterval
  BY <1>1, AddMsBounds
<1>3. WatchdogTypeOK'
  BY <1>2 DEF WatchdogTypeOK, note_ready, watchdogVars, Phases
<1>4. OneHeartbeatInFlight'
  BY DEF OneHeartbeatInFlight, Expired, note_ready, watchdogVars, WatchdogTypeOK
<1>5. PongReadInTimeWins' /\ NeverExpiresEarly'
  BY DEF PongReadInTimeWins, NeverExpiresEarly, Expired, note_ready, watchdogVars
<1>6. WakesInTime'
  BY <1>1, <1>2 DEF WakesInTime, Expired, note_ready, watchdogVars
<1>7. DeadlineIsDated'
  BY <1>1, <1>2 DEF DeadlineIsDated, note_ready, watchdogVars, AddMs
<1> QED
  BY <1>3, <1>4, <1>5, <1>6, <1>7

\* What one pass of the watchdog may do, with the deadline it leaves.
LEMMA WatchCases ==
    ASSUME WatchdogInv, Watch
    PROVE  \/ now < deadline /\ pong = 0
                /\ UNCHANGED <<watchdogVars, asked, pingedAt, pong, notedAt>>
           \/ now >= deadline /\ pong = 0 /\ SendPing /\ UNCHANGED <<pong, notedAt>>
           \/ now >= deadline /\ pong = 0 /\ Expire /\ UNCHANGED <<pong, notedAt>>
           \/ pong # 0 /\ pong' = 0 /\ NotePong /\ AddMs(now, PingInterval) > now
           \/ /\ pong # 0 /\ pong' = 0 /\ PongThenAdvance
              /\ ~(AddMs(now, PingInterval) > now)
<1>1. pong \in Nat /\ now \in Nat /\ deadline \in Nat
  BY Periods DEF WatchdogInv, WatchdogTypeOK
<1> QED
  BY <1>1 DEF Watch, Advance, PongThenAdvance

\* The time to a deadline d, cut at the longest sleep, ends no later than d.
LEMMA SleepBound ==
    ASSUME NEW n \in Nat, NEW d \in Nat, NEW s \in Nat, NEW w,
           w = IF n >= d THEN 0 ELSE Least(d - n, MaxWait)
    PROVE  /\ n + w + s \in Nat /\ n <= n + w + s
           /\ n <= d => n + w + s <= d + s
<1>1. w \in Nat
  BY Periods DEF Least
<1>2. n <= d => n + w <= d
  BY Periods DEF Least
<1> QED
  BY <1>1, <1>2

\* After a pass the loop sleeps no longer than its deadline allows.
LEMMA WatchSleeps ==
    ASSUME WatchdogInv, Watch, deadline' \in 0 .. MaxTime
    PROVE  /\ wakeBy' \in Nat /\ now <= wakeBy'
           /\ now <= deadline' => wakeBy' <= deadline' + Slack
<1>1. now \in Nat /\ Slack \in Nat
  BY Periods DEF WatchdogInv, WatchdogTypeOK
<1>2. PICK d \in Nat : d = deadline'
  BY Periods
<1>3. wait_timeout = IF now >= d THEN 0 ELSE Least(d - now, MaxWait)
  BY <1>2 DEF wait_timeout
<1>4. /\ now + wait_timeout + Slack \in Nat /\ now <= now + wait_timeout + Slack
      /\ now <= d => now + wait_timeout + Slack <= d + Slack
  BY <1>1, <1>3, SleepBound
<1>5. wakeBy' = now + wait_timeout + Slack
  BY DEF Watch
<1> QED
  BY <1>2, <1>4, <1>5

\* A pass of the watchdog.
LEMMA WatchKeeps == WatchdogInv /\ Watch => WatchdogInv'
<1> SUFFICES ASSUME WatchdogInv, Watch PROVE WatchdogInv'
  OBVIOUS
<1> USE Periods DEF WatchdogInv
<1>1. /\ now \in 0 .. MaxTime /\ deadline \in 0 .. MaxTime /\ wakeBy \in Nat
      /\ next_token \in 1 .. MaxToken /\ notedAt \in 0 .. MaxTime
      /\ pingedAt \in 0 .. MaxTime
  BY DEF WatchdogTypeOK
<1>2. /\ AddMs(now, PingInterval) \in 0 .. MaxTime
      /\ now <= AddMs(now, PingInterval)
      /\ AddMs(now, PingInterval) <= now + PingInterval
      /\ AddMs(now, PongTimeout) \in 0 .. MaxTime
      /\ now <= AddMs(now, PongTimeout)
      /\ AddMs(now, PongTimeout) <= now + PongTimeout
  BY <1>1, AddMsBounds
<1>3. NextToken(next_token) \in 1 .. MaxToken
  BY <1>1, NextTokenType
<1>4. now' = now /\ answered' = answered /\ ready' = ready /\ woken /\ woken' = FALSE
  BY DEF Watch
<1>flags. woken' \in BOOLEAN /\ ready' \in BOOLEAN
  BY <1>4, Zenon DEF WatchdogTypeOK
<1>5. CASE /\ now < deadline /\ pong = 0
           /\ UNCHANGED <<watchdogVars, asked, pingedAt, pong, notedAt>>
  <2> USE <1>4, <1>flags, <1>5 DEF watchdogVars
  <2>1. wakeBy' \in Nat /\ now <= wakeBy' /\ wakeBy' <= deadline' + Slack
    BY <1>1, WatchSleeps
  <2>2. WatchdogTypeOK'
    BY <2>1 DEF WatchdogTypeOK
  <2>3. OneHeartbeatInFlight' /\ PongReadInTimeWins' /\ NeverExpiresEarly' /\ DeadlineIsDated'
    BY DEF OneHeartbeatInFlight, PongReadInTimeWins, NeverExpiresEarly, DeadlineIsDated,
           Expired, AddMs
  <2>4. WakesInTime'
    BY <2>1 DEF WakesInTime, Expired
  <2> QED BY <2>2, <2>3, <2>4
<1>6. CASE now >= deadline /\ pong = 0 /\ SendPing /\ UNCHANGED <<pong, notedAt>>
  <2> USE <1>4, <1>flags, <1>6 DEF SendPing
  <2>1. wakeBy' \in Nat /\ now <= wakeBy' /\ wakeBy' <= deadline' + Slack
    BY <1>1, <1>2, WatchSleeps
  <2>2. WatchdogTypeOK'
    BY <1>1, <1>2, <1>3, <2>1 DEF WatchdogTypeOK, Phases
  <2>3. OneHeartbeatInFlight'
    BY <1>1 DEF OneHeartbeatInFlight, Expired, WatchdogTypeOK
  <2>4. PongReadInTimeWins' /\ NeverExpiresEarly'
    BY DEF PongReadInTimeWins, NeverExpiresEarly
  <2>5. WakesInTime'
    BY <2>1 DEF WakesInTime, Expired
  <2>6. DeadlineIsDated'
    <3>1. now <= deadline + 2 * Slack /\ deadline <= notedAt + PingInterval
      BY <1>1 DEF WakesInTime, DeadlineIsDated, Expired
    <3> QED BY <1>1, <3>1 DEF DeadlineIsDated, AddMs
  <2> QED BY <2>2, <2>3, <2>4, <2>5, <2>6
<1>7. CASE now >= deadline /\ pong = 0 /\ Expire /\ UNCHANGED <<pong, notedAt>>
  <2> USE <1>4, <1>flags, <1>7 DEF Expire
  <2>1. wakeBy' \in Nat
    BY <1>1, WatchSleeps
  <2>2. WatchdogTypeOK'
    BY <2>1 DEF WatchdogTypeOK, Phases
  <2>3. OneHeartbeatInFlight' /\ PongReadInTimeWins'
    BY DEF OneHeartbeatInFlight, PongReadInTimeWins, Expired
  <2>4. NeverExpiresEarly'
    BY DEF NeverExpiresEarly, DeadlineIsDated, AddMs
  <2>5. WakesInTime' /\ DeadlineIsDated'
    BY DEF WakesInTime, DeadlineIsDated, Expired
  <2> QED BY <2>2, <2>3, <2>4, <2>5
<1>8. CASE pong # 0 /\ pong' = 0 /\ NotePong /\ AddMs(now, PingInterval) > now
  <2> USE <1>4, <1>flags, <1>8 DEF NotePong
  <2>1. wakeBy' \in Nat /\ now <= wakeBy' /\ wakeBy' <= deadline' + Slack
    BY <1>1, <1>2, WatchSleeps
  <2>2. WatchdogTypeOK'
    BY <1>1, <1>2, <2>1 DEF WatchdogTypeOK, Phases
  <2>3. OneHeartbeatInFlight'
    <3>1. asked = 0 /\ answered = 0 /\ phase = "awaiting_pong"
      BY DEF OneHeartbeatInFlight, Expired, WakesInTime
    <3> QED BY <1>1, <3>1 DEF OneHeartbeatInFlight, Expired
  <2>4. PongReadInTimeWins' /\ NeverExpiresEarly'
    BY DEF PongReadInTimeWins, NeverExpiresEarly
  <2>5. WakesInTime'
    BY <2>1 DEF WakesInTime, Expired
  <2>6. DeadlineIsDated'
    BY <1>2 DEF DeadlineIsDated
  <2> QED BY <2>2, <2>3, <2>4, <2>5, <2>6
<1>9. CASE /\ pong # 0 /\ pong' = 0 /\ PongThenAdvance
           /\ ~(AddMs(now, PingInterval) > now)
  <2> USE <1>4, <1>flags, <1>9 DEF PongThenAdvance
  <2>1. wakeBy' \in Nat /\ now <= wakeBy' /\ wakeBy' <= deadline' + Slack
    BY <1>1, <1>2, WatchSleeps
  <2>2. WatchdogTypeOK'
    BY <1>1, <1>2, <1>3, <2>1 DEF WatchdogTypeOK, Phases
  <2>3. OneHeartbeatInFlight'
    <3>1. asked = 0 /\ answered = 0 /\ phase = "awaiting_pong"
      BY DEF OneHeartbeatInFlight, Expired, WakesInTime
    <3> QED BY <1>1, <3>1 DEF OneHeartbeatInFlight, Expired
  <2>4. PongReadInTimeWins' /\ NeverExpiresEarly'
    BY DEF PongReadInTimeWins, NeverExpiresEarly
  <2>5. WakesInTime'
    BY <2>1 DEF WakesInTime, Expired
  <2>6. DeadlineIsDated'
    BY <1>1 DEF DeadlineIsDated, AddMs
  <2> QED BY <2>2, <2>3, <2>4, <2>5, <2>6
<1> QED
  BY <1>5, <1>6, <1>7, <1>8, <1>9, WatchCases

\* The invariant holds in every reachable state.
LEMMA WatchdogInvAlways == WatchdogSpec => []WatchdogInv
<1>1. WatchdogInit => WatchdogInv
  BY WatchdogInitInv
<1>2. WatchdogInv /\ [WatchdogNext]_wVars => WatchdogInv'
  <2> SUFFICES ASSUME WatchdogInv, [WatchdogNext]_wVars PROVE WatchdogInv'
    OBVIOUS
  <2>1. CASE UNCHANGED wVars
    BY <2>1 DEF wVars, watchdogVars, channelVars, historyVars, WatchdogInv, WatchdogTypeOK,
                OneHeartbeatInFlight, PongReadInTimeWins, NeverExpiresEarly, WakesInTime,
                DeadlineIsDated, Expired, AddMs
  <2> QED
    BY <2>1, TickKeeps, AnswerKeeps, ReadKeeps, WatchKeeps DEF WatchdogNext
<1> QED
  BY <1>1, <1>2, PTL DEF WatchdogSpec

-----------------------------------------------------------------------------
\* Deadlines, tokens and the clock keep their ranges: neither saturating
\* addition nor the token counter's wrap leaves them.
THEOREM WatchdogTypeCorrect == WatchdogSpec => []WatchdogTypeOK
<1>1. WatchdogInv => WatchdogTypeOK
  BY DEF WatchdogInv
<1> QED
  BY <1>1, WatchdogInvAlways, PTL

\* A session whose core answers in time is never ended by the heartbeat: an
\* expiry comes no earlier than the whole of the timeout after the ping.
THEOREM ExpiryIsNeverEarly == WatchdogSpec => []NeverExpiresEarly
<1>1. WatchdogInv => NeverExpiresEarly
  BY DEF WatchdogInv
<1> QED
  BY <1>1, WatchdogInvAlways, PTL

\* One token is under way at most, and always the outstanding one.
THEOREM OneToken == WatchdogSpec => []OneHeartbeatInFlight
<1>1. WatchdogInv => OneHeartbeatInFlight
  BY DEF WatchdogInv
<1> QED
  BY <1>1, WatchdogInvAlways, PTL

\* A pong the helper holds is noted before the clock is looked at.
THEOREM PongWins == WatchdogSpec => []PongReadInTimeWins
<1>1. WatchdogInv => PongReadInTimeWins
  BY DEF WatchdogInv
<1> QED
  BY <1>1, WatchdogInvAlways, PTL

\* A hung core is noticed: the session never outlives the last sign of life by
\* more than one interval, one timeout and four times what the loop is late.
THEOREM HangNoticed == WatchdogSpec => []HangIsNoticed
<1>1. WatchdogInv => HangIsNoticed
  <2> SUFFICES ASSUME WatchdogInv PROVE HangIsNoticed
    OBVIOUS
  <2>1. /\ now \in Nat /\ deadline \in Nat /\ wakeBy \in Nat /\ notedAt \in Nat
        /\ pingedAt \in 0 .. MaxTime /\ woken \in BOOLEAN
    BY Periods DEF WatchdogInv, WatchdogTypeOK
  <2>2. ~Expired => now <= deadline + 2 * Slack
    BY <2>1, Periods DEF WatchdogInv, WakesInTime
  <2>3. AddMs(pingedAt, PongTimeout) <= pingedAt + PongTimeout
    BY <2>1, AddMsBounds, Periods
  <2> QED
    BY <2>1, <2>2, <2>3, Periods DEF WatchdogInv, DeadlineIsDated, HangIsNoticed, Expired
<1> QED
  BY <1>1, WatchdogInvAlways, PTL

-----------------------------------------------------------------------------
(***************************************************************************)
(* The keyboard and the mouse.  InputInv strengthens ReducerIsValid by     *)
(* what the history variables and the motion state agree on: the core      *)
(* holds what is down; the device that was passed over once has the next   *)
(* turn; and the fraction that is carried has the sign of the direction it *)
(* was moved in.                                                           *)
(***************************************************************************)
Pointers == [x : Int, remainder : Int, direction : {-1, 0, 1}, gain : 100 .. 250,
             grouped : BOOLEAN]

\* The fraction carried goes the way of the last motion.
CarriesForward(p) ==
    /\ p.direction = 0 => p.remainder = 0
    /\ p.direction = 1 => p.remainder >= 0
    /\ p.direction = -1 => p.remainder <= 0

PointerInv ==
    /\ pointer \in Pointers
    /\ PointerIsValid
    /\ CarriesForward(pointer)

\* Who was passed over has the next turn, and whose console it is not has no
\* devices.
TurnInv ==
    /\ passedOver \in [Devices -> {0, 1}]
    /\ \A d \in Devices : passedOver[d] = 1 =>
         active /\ d \in readable /\ prefer_mouse = (d = "mouse")
    /\ active => ours
    /\ ~ours => held = {}

InputInv == InputTypeOK /\ KeysAreValid /\ PointerInv /\ TurnInv /\ CoreHoldsWhatIsDown

-----------------------------------------------------------------------------
(***************************************************************************)
(* Keys and their names.                                                   *)
(***************************************************************************)
Named == {c \in Codes : KeyMap[c] # ""}

\* What the core should hold when these keys are down.
HoldsOf(codes, taken, pushed) == (Names(codes) \ taken) \cup pushed

LEMMA SequenceDomain ==
    ASSUME NEW T, NEW s \in Seq(T) PROVE DOMAIN s = 1 .. Len(s) /\ Len(s) \in Nat
OBVIOUS

LEMMA CodesAreNumbers == Codes \subseteq Nat \ {0} /\ IsFiniteSet(Codes)
<1>1. KeyMap \in Seq(STRING)
  BY InputAssumption
<1>2. Codes = 1 .. Len(KeyMap) /\ Len(KeyMap) \in Nat
  BY <1>1 DEF Codes
<1>3. IsFiniteSet(1 .. Len(KeyMap))
  BY <1>2, FS_Interval
<1> QED
  BY <1>2, <1>3

LEMMA NamesDiffer ==
    ASSUME NEW c \in Named, NEW d \in Codes, KeyMap[c] = KeyMap[d] PROVE c = d
BY InputAssumption DEF Named, Codes

LEMMA CodeOfName == ASSUME NEW c \in Named PROVE CodeOf(KeyMap[c]) = c
<1>1. \A d \in Codes : KeyMap[d] = KeyMap[c] => d = c
  BY NamesDiffer
<1> QED
  BY <1>1 DEF CodeOf, Named

LEMMA EscapeIsNamed == CodeOf("ESC") \in Named /\ KeyMap[CodeOf("ESC")] = "ESC"
<1>1. PICK c \in Codes : KeyMap[c] = "ESC"
  BY InputAssumption DEF Codes
<1> QED
  BY <1>1, CodeOfName DEF Named

LEMMA NamesWith ==
    ASSUME NEW S, NEW c
    PROVE  /\ Names(S \cup {c}) = Names(S) \cup {KeyMap[c]}
           /\ ControlNames(S \cup {c}) = ControlNames(S) \cup ControlNames({c})
BY DEF Names, ControlNames

LEMMA NamesWithout ==
    ASSUME NEW S, S \subseteq Named, NEW c \in S
    PROVE  /\ Names(S \ {c}) = Names(S) \ {KeyMap[c]}
           /\ ControlNames(S \ {c}) = ControlNames(S) \ ControlNames({c})
<1>1. \A d \in S : KeyMap[d] = KeyMap[c] => d = c
  BY NamesDiffer DEF Named
<1>2. Names(S \ {c}) = Names(S) \ {KeyMap[c]}
  BY <1>1 DEF Names
<1> QED
  BY <1>2 DEF ControlNames, Names

LEMMA ButtonsAreNoKeys == ASSUME NEW c \in Codes PROVE KeyMap[c] \notin PointerButtons
BY InputAssumption DEF Codes

-----------------------------------------------------------------------------
(***************************************************************************)
(* What the core is told (DrainKey).                                       *)
(***************************************************************************)
\* A press goes to the core unless a chord takes it, now or earlier.
LEMMA PressIsHeld ==
    ASSUME NEW c \in Named, NEW S, S \subseteq Codes, NEW repeat, repeat = (c \in S),
           held = HoldsOf(S, consumed, buttons),
           DrainKey(KeyEvent(KeyMap[c], TRUE, repeat))
    PROVE  held' = HoldsOf(S \cup {c}, consumed', buttons)
<1> DEFINE e == KeyEvent(KeyMap[c], TRUE, repeat)
<1>1. e.key = KeyMap[c] /\ e.down /\ e.repeat = repeat
  BY DEF KeyEvent
<1>2. c \notin S => KeyMap[c] \notin Names(S)
  BY NamesDiffer DEF Names
<1>3. Names(S \cup {c}) = Names(S) \cup {KeyMap[c]}
  BY NamesWith
<1>6. CASE StartsChord(e)
  <2>1. consumed' = consumed \cup {KeyMap[c]} /\ held' = held /\ c \notin S
    BY <1>1, <1>6 DEF DrainKey, ShortcutsApply, IsConsumed, StartsChord
  <2> QED
    BY <1>2, <1>3, <2>1 DEF HoldsOf
<1>4. CASE ~StartsChord(e) /\ e.key \in consumed
  <2>1. consumed' = consumed /\ held' = held /\ KeyMap[c] \in consumed
    BY <1>1, <1>4 DEF DrainKey, ShortcutsApply, IsConsumed
  <2> QED
    BY <1>3, <2>1 DEF HoldsOf
<1>5. CASE ~StartsChord(e) /\ e.key \notin consumed
  <2>1. consumed' = consumed /\ held' = held \cup {KeyMap[c]} /\ KeyMap[c] \notin consumed
    BY <1>1, <1>5 DEF DrainKey, ShortcutsApply, IsConsumed, Forward
  <2> QED
    BY <1>3, <2>1 DEF HoldsOf
<1> QED
  BY <1>4, <1>5, <1>6

\* A release goes to the core exactly when the press did.
LEMMA ReleaseIsTold ==
    ASSUME NEW S, S \subseteq Named, NEW c \in S,
           buttons \subseteq PointerButtons, held = HoldsOf(S, consumed, buttons),
           DrainKey(KeyEvent(KeyMap[c], FALSE, FALSE))
    PROVE  held' = HoldsOf(S \ {c}, consumed', buttons)
<1> DEFINE e == KeyEvent(KeyMap[c], FALSE, FALSE)
<1>1. e.key = KeyMap[c] /\ ~e.down /\ ~StartsChord(e)
  BY DEF KeyEvent, StartsChord
<1>2. KeyMap[c] \in Names(S) /\ KeyMap[c] \notin buttons
  BY ButtonsAreNoKeys DEF Names, Named
<1>3. consumed' = consumed \ {KeyMap[c]}
  BY <1>1 DEF DrainKey, ShortcutsApply
<1>5. Names(S \ {c}) = Names(S) \ {KeyMap[c]}
  BY NamesWithout
<1>4. held' = IF KeyMap[c] \in consumed THEN held ELSE held \ {KeyMap[c]}
  BY <1>1 DEF DrainKey, IsConsumed, Forward
<1> QED
  BY <1>2, <1>3, <1>4, <1>5 DEF HoldsOf

-----------------------------------------------------------------------------
(***************************************************************************)
(* Pending releases (ReleaseNext).                                         *)
(***************************************************************************)
Pending(keys) ==
    /\ keys.releasing \subseteq Named /\ keys.releasing # {}
    /\ keys.mask = ControlNames(keys.releasing)
    /\ keys.count = Cardinality(keys.releasing)
    /\ keys.mask # {} => keys.cursor = 0
    /\ keys.cursor \in {0} \cup Codes
    /\ keys.mask = {} => \A c \in keys.releasing : c > keys.cursor

LEMMA MinIsLeast ==
    ASSUME NEW S, S \subseteq Nat, S # {}
    PROVE  Min(S) \in S /\ \A n \in S : Min(S) <= n
<1>1. PICK x \in S : \A n \in S : <<n, x>> \notin OpToRel(<, Nat)
  BY NatLessThanWellFounded, WFMin
<1>2. ASSUME NEW n \in S PROVE x <= n
  <2>1. OpToRel(<, Nat) = {ss \in Nat \X Nat : ss[1] < ss[2]}
    BY Zenon DEF OpToRel
  <2>2. <<n, x>> \notin {ss \in Nat \X Nat : ss[1] < ss[2]}
    BY <1>1, <2>1, Zenon
  <2> QED
    BY <2>2
<1> QED
  BY <1>2 DEF Min

LEMMA FirstPendingIsPending ==
    ASSUME NEW keys, Pending(keys)
    PROVE  LET c == FirstPending(keys)
           IN  /\ c \in keys.releasing
               /\ keys.mask = {} => \A d \in keys.releasing : c <= d
<1> DEFINE c == FirstPending(keys)
<1>1. CASE keys.mask # {}
  <2> DEFINE I == {i \in DOMAIN ControlKeys : ControlKeys[i] \in keys.mask}
  <2>1. I # {} /\ I \subseteq Nat
    <3>1. ControlKeys \in Seq(STRING \ {""})
      BY InputAssumption
    <3>2. DOMAIN ControlKeys = 1 .. Len(ControlKeys) /\ Len(ControlKeys) \in Nat
      BY <3>1, SequenceDomain
    <3>3. keys.mask \subseteq {ControlKeys[i] : i \in DOMAIN ControlKeys}
      BY DEF Pending, ControlNames
    <3> QED
      BY <1>1, <3>2, <3>3
  <2>2. ControlKeys[Min(I)] \in keys.mask
    BY <2>1, MinIsLeast
  <2>3. PICK d \in keys.releasing : ControlKeys[Min(I)] = KeyMap[d]
    BY <2>2 DEF Pending, ControlNames, Names
  <2>4. c = CodeOf(KeyMap[d])
    BY <1>1, <2>3 DEF FirstPending
  <2> QED
    BY <1>1, <2>3, <2>4, CodeOfName DEF Pending
<1>2. CASE keys.mask = {}
  <2>1. c = Min({d \in keys.releasing : d > keys.cursor})
    BY <1>2 DEF FirstPending
  <2>2. keys.releasing = {d \in keys.releasing : d > keys.cursor}
    BY <1>2 DEF Pending
  <2>3. keys.releasing \subseteq Nat /\ keys.releasing # {}
    BY CodesAreNumbers DEF Pending, Named
  <2>4. c = Min(keys.releasing)
    BY <2>1, <2>2
  <2> QED
    BY <2>3, <2>4, MinIsLeast
<1> QED
  BY <1>1, <1>2

\* One pending release: the bookkeeping stays in order and the core is told.
LEMMA ReleaseNextEffect ==
    ASSUME NEW keys, Pending(keys), NEW S, S \subseteq Named, S \cap keys.releasing = {},
           buttons \subseteq PointerButtons,
           held = HoldsOf(S \cup keys.releasing, consumed, buttons),
           ReleaseNext(keys)
    PROVE  /\ releasing' \subseteq keys.releasing
           /\ mask' = ControlNames(releasing')
           /\ count' = Cardinality(releasing')
           /\ cursor' \in {0} \cup Codes
           /\ mask' # {} => cursor' = 0
           /\ mask' = {} => \A d \in releasing' : d > cursor'
           /\ count' = 0 => cursor' = 0
           /\ held' = HoldsOf(S \cup releasing', consumed', buttons)
<1> DEFINE c == FirstPending(keys)
<1>1. c \in keys.releasing /\ (keys.mask = {} => \A d \in keys.releasing : c <= d)
  BY FirstPendingIsPending
<1>2. keys.releasing \subseteq Named /\ keys.releasing \subseteq Codes
  BY DEF Pending, Named
<1>3. IsFiniteSet(keys.releasing)
  BY <1>2, CodesAreNumbers, FS_Subset
<1>4. /\ releasing' = keys.releasing \ {c}
      /\ mask' = keys.mask \ ControlNames({c})
      /\ count' = keys.count - 1
      /\ cursor' = IF count' = 0 THEN 0 ELSE IF keys.mask # {} THEN keys.cursor ELSE c
      /\ DrainKey(KeyEvent(KeyMap[c], FALSE, FALSE))
  BY DEF ReleaseNext
<1>5. mask' = ControlNames(releasing')
  BY <1>1, <1>2, <1>4, NamesWithout DEF Pending
<1>6. count' = Cardinality(releasing')
  <2>1. Cardinality(keys.releasing \ {c}) = Cardinality(keys.releasing) - 1
    BY <1>1, <1>3, FS_RemoveElement
  <2>2. keys.count = Cardinality(keys.releasing)
    BY DEF Pending
  <2> QED
    BY <1>4, <2>1, <2>2
<1>7. cursor' \in {0} \cup Codes
  BY <1>1, <1>2, <1>4 DEF Pending
<1>8. mask' # {} => cursor' = 0
  BY <1>4 DEF Pending
<1>9. ASSUME NEW d \in releasing' PROVE d > cursor'
  <2>1. d \in Nat \ {0} /\ c \in Nat /\ d # c /\ d \in keys.releasing
    BY <1>1, <1>2, <1>4, <1>9, CodesAreNumbers
  <2>2. CASE keys.mask # {}
    BY <1>4, <2>1, <2>2 DEF Pending
  <2>3. CASE keys.mask = {}
    BY <1>1, <1>4, <2>1, <2>3
  <2> QED
    BY <2>2, <2>3
<1>10. count' = 0 => cursor' = 0
  BY <1>4
<1>11. held' = HoldsOf(S \cup releasing', consumed', buttons)
  <2>1. (S \cup keys.releasing) \ {c} = S \cup releasing'
    BY <1>1, <1>4
  <2>2. S \cup keys.releasing \subseteq Named /\ c \in S \cup keys.releasing
    BY <1>1, <1>2
  <2>3. held' = HoldsOf((S \cup keys.releasing) \ {c}, consumed', buttons)
    BY <1>4, <2>2, ReleaseIsTold
  <2> QED
    BY <2>1, <2>3
<1>12. releasing' \subseteq keys.releasing
  BY <1>4
<1> QED
  BY <1>5, <1>6, <1>7, <1>8, <1>9, <1>10, <1>11, <1>12

-----------------------------------------------------------------------------
(***************************************************************************)
(* The steps.                                                              *)
(***************************************************************************)
LEMMA InputInvInit == InputInit => InputInv
<1> SUFFICES ASSUME InputInit PROVE InputInv
  OBVIOUS
<1>1. width \in Nat \ {0} /\ width \in Widths
  BY InputAssumption DEF InputInit
<1>2. InputTypeOK
  BY <1>1 DEF InputInit, InputTypeOK
<1>3. KeysAreValid
  BY FS_EmptySet DEF InputInit, KeysAreValid, ControlNames, Names
<1>4. PointerInv
  <2>1. (width - 1) \div 2 \in 0 .. width - 1
    BY <1>1
  <2>2. pointer = [x |-> (width - 1) \div 2, remainder |-> 0, direction |-> 0,
                   gain |-> 100, grouped |-> FALSE]
    BY DEF InputInit
  <2>3. pointer \in Pointers
    BY <2>1, <2>2 DEF Pointers
  <2>4. pointer.x \in 0 .. width - 1 /\ pointer.remainder = 0 /\ pointer.direction = 0
    BY <2>1, <2>2
  <2>5. pointer.gain = 100
    BY <2>2
  <2> QED
    BY <2>3, <2>4, <2>5 DEF PointerInv, PointerIsValid, CarriesForward
<1>5. TurnInv
  <2>1. passedOver = [d \in Devices |-> 0] /\ active = TRUE /\ ours = TRUE
    BY DEF InputInit
  <2> QED
    BY <2>1 DEF TurnInv
<1>6. CoreHoldsWhatIsDown
  BY DEF InputInit, CoreHoldsWhatIsDown, Names
<1> QED
  BY <1>2, <1>3, <1>4, <1>5, <1>6 DEF InputInv

LEMMA PointerUpdate ==
    ASSUME NEW p \in Pointers, NEW r \in Int, NEW d \in {-1, 0, 1}, NEW g \in 100 .. 250,
           NEW b \in BOOLEAN
    PROVE  [p EXCEPT !.remainder = r, !.direction = d, !.gain = g, !.grouped = b] \in Pointers
BY DEF Pointers

LEMMA PointerGrouped ==
    ASSUME NEW p \in Pointers, NEW b \in BOOLEAN
    PROVE  LET q == [p EXCEPT !.grouped = b]
           IN  q \in Pointers /\ q.x = p.x /\ q.remainder = p.remainder /\ q.direction = p.direction
BY DEF Pointers

LEMMA PointerTurned ==
    ASSUME NEW p \in Pointers, NEW r \in Int, NEW n \in {-1, 0, 1}
    PROVE  LET q == [p EXCEPT !.direction = n, !.remainder = r]
           IN  q \in Pointers /\ q.x = p.x /\ q.remainder = r /\ q.direction = n
BY DEF Pointers

LEMMA PointerPlaced ==
    ASSUME NEW p \in Pointers, NEW r \in Int, NEW x \in Int
    PROVE  LET q == [p EXCEPT !.x = x, !.remainder = r]
           IN  q \in Pointers /\ q.x = x /\ q.remainder = r /\ q.direction = p.direction
BY DEF Pointers

\* A pointer at rest where it is.
LEMMA AtRestIsValid ==
    ASSUME NEW p \in Pointers
    PROVE  /\ AtRest(p) \in Pointers /\ AtRest(p).x = p.x
           /\ AtRest(p).remainder = 0 /\ AtRest(p).direction = 0 /\ AtRest(p).gain = 100
           /\ CarriesForward(AtRest(p))
<1>1. AtRest(p) \in Pointers
  <2>1. 0 \in Int /\ 0 \in {-1, 0, 1} /\ 100 \in 100 .. 250 /\ FALSE \in BOOLEAN
    OBVIOUS
  <2> QED
    BY <2>1, PointerUpdate, Zenon DEF AtRest
<1>2. AtRest(p).x = p.x /\ AtRest(p).remainder = 0
  BY DEF AtRest, Pointers
<1>3. AtRest(p).direction = 0 /\ AtRest(p).gain = 100
  BY DEF AtRest, Pointers
<1> QED
  BY <1>1, <1>2, <1>3 DEF CarriesForward

LEMMA ClampIsInside ==
    ASSUME NEW coordinate \in Int, NEW extent \in Nat \ {0}
    PROVE  Clamp(coordinate, extent) \in 0 .. extent - 1
BY DEF Clamp

\* The reducer without keys or buttons, the pointer on the output.
LEMMA ResetIsValid ==
    ASSUME NEW p \in Pointers, p.x \in 0 .. width' - 1, width' \in Widths, ResetReducer(p)
    PROVE  /\ KeysAreValid' /\ PointerInv' /\ buttons' \subseteq PointerButtons
           /\ Names(pressed' \cup releasing') = {} /\ buttons' = {}
<1>1. KeysAreValid'
  BY FS_EmptySet DEF ResetReducer, KeysAreValid, ControlNames, Names
<1>2. PointerInv'
  BY AtRestIsValid DEF ResetReducer, PointerInv, PointerIsValid
<1> QED
  BY <1>1, <1>2 DEF ResetReducer, Names

\* A step that leaves keys, pointer and buttons alone.
LEMMA NothingReduced ==
    ASSUME InputInv, UNCHANGED <<keyVars, buttons, width, pointer>>
    PROVE  KeysAreValid' /\ PointerInv'
BY DEF InputInv, KeysAreValid, PointerInv, PointerIsValid, keyVars

\* Taking turns: the device not read now has the next one.
LEMMA TurnIsTaken ==
    ASSUME InputInv, NEW d \in Devices, TurnOf(d),
           UNCHANGED <<ours, over, active>>
    PROVE  TurnInv' /\ readable' \subseteq Devices /\ prefer_mouse' \in BOOLEAN
<1>1. \A o \in Devices : passedOver'[o] = IF o # d /\ o \in readable THEN passedOver[o] + 1 ELSE 0
  BY DEF TurnOf
<1>2. ours /\ active
  BY DEF TurnOf, InputInv, TurnInv
<1>3. ASSUME NEW o \in Devices, o # d, o \in readable PROVE passedOver[o] = 0
  <2>1. readable = Devices
    BY <1>3 DEF TurnOf, Devices, InputInv, InputTypeOK
  <2>2. (d = "mouse") = prefer_mouse
    BY <2>1 DEF TurnOf
  <2> QED
    BY <1>3, <2>2 DEF InputInv, TurnInv, Devices
<1>4. passedOver' \in [Devices -> {0, 1}]
  <2>1. DOMAIN passedOver' = Devices /\ passedOver' = [o \in Devices |-> passedOver'[o]]
    BY DEF TurnOf
  <2> QED
    BY <1>1, <1>3, <2>1
<1>5. ASSUME NEW o \in Devices, passedOver'[o] = 1
      PROVE  o \in readable' /\ prefer_mouse' = (o = "mouse")
  <2>1. o # d /\ o \in readable
    BY <1>1, <1>5
  <2> QED
    BY <2>1 DEF TurnOf, Devices
<1> QED
  BY <1>2, <1>4, <1>5 DEF TurnInv, TurnOf, InputInv, InputTypeOK

-----------------------------------------------------------------------------
(***************************************************************************)
(* Motion: gain, direction and remainder of a step of the pointer.         *)
(***************************************************************************)
\* A motion state of the worker's profile, with its fraction of a pixel.
InMotion(p) == p \in Pointers /\ p.remainder \in -99 .. 99 /\ CarriesForward(p)

LEMMA GainKeepsMotion ==
    ASSUME NEW p, InMotion(p), NEW q \in AdaptiveGains(p)
    PROVE  InMotion(q) /\ q.x = p.x
<1>1. p \in Pointers
  BY DEF InMotion
<1>2. ASSUME NEW r, InMotion(r), r.x = p.x, q = [r EXCEPT !.grouped = TRUE]
      PROVE  InMotion(q) /\ q.x = p.x
  <2>1. q \in Pointers /\ q.x = r.x /\ q.remainder = r.remainder /\ q.direction = r.direction
    BY <1>2, PointerGrouped DEF InMotion
  <2> QED
    BY <1>2, <2>1 DEF InMotion, CarriesForward
<1>3. InMotion(AtRest(p)) /\ AtRest(p).x = p.x
  BY <1>1, AtRestIsValid DEF InMotion
<1>4. ASSUME NEW g \in Gains, NEW r \in {0, p.remainder},
             q = [p EXCEPT !.gain = g, !.remainder = r]
      PROVE  InMotion(q) /\ q.x = p.x
  <2>1. g \in 100 .. 250
    BY InputAssumption
  <2>2. r \in Int /\ r \in -99 .. 99
    BY DEF InMotion
  <2>3. q \in Pointers
    BY <1>1, <1>4, <2>1, <2>2 DEF Pointers
  <2>4. q.x = p.x /\ q.remainder = r /\ q.direction = p.direction
    BY <1>1, <1>4 DEF Pointers
  <2> QED
    BY <2>2, <2>3, <2>4 DEF InMotion, CarriesForward
<1>5. \/ q = [p EXCEPT !.grouped = TRUE]
      \/ q = [AtRest(p) EXCEPT !.grouped = TRUE]
      \/ \E g \in Gains : \E r \in {0, p.remainder} : q = [p EXCEPT !.gain = g, !.remainder = r]
  BY DEF AdaptiveGains
<1> QED
  BY <1>2, <1>3, <1>4, <1>5

LEMMA DirectionKeepsMotion ==
    ASSUME NEW p, InMotion(p), NEW d \in Int
    PROVE  LET q == Towards(p, d)
           IN  /\ InMotion(q) /\ q.x = p.x
               /\ d > 0 => q.direction = 1
               /\ d < 0 => q.direction = -1
<1>1. CASE d = 0
  BY <1>1 DEF Towards
<1>2. CASE d # 0
  <2> DEFINE n == Direction(d)
             r == IF p.direction \in {0, n} THEN p.remainder ELSE 0
             q == [p EXCEPT !.direction = n, !.remainder = r]
  <2>1. n \in {-1, 1} /\ (d > 0 => n = 1) /\ (d < 0 => n = -1)
    BY <1>2 DEF Direction
  <2>2. Towards(p, d) = q
    BY <1>2 DEF Towards
  <2>3. r \in -99 .. 99 /\ (n = 1 => r >= 0) /\ (n = -1 => r <= 0)
    BY <2>1 DEF InMotion, CarriesForward, Pointers
  <2> HIDE DEF n, r
  <2>4. q \in Pointers /\ q.x = p.x /\ q.remainder = r /\ q.direction = n
    <3>1. p \in Pointers /\ n \in {-1, 0, 1} /\ r \in Int
      BY <2>1, <2>3 DEF InMotion
    <3> QED
      BY <3>1, PointerTurned
  <2>5. InMotion(q)
    BY <2>1, <2>3, <2>4 DEF InMotion, CarriesForward
  <2> QED
    BY <2>1, <2>2, <2>4, <2>5
<1> QED
  BY <1>1, <1>2

\* C's division by a hundred.
LEMMA HundredthsTruncates ==
    ASSUME NEW n \in Int
    PROVE  /\ Hundredths(n) \in Int /\ n - 100 * Hundredths(n) \in -99 .. 99
           /\ n >= 0 => n - 100 * Hundredths(n) >= 0
           /\ n <= 0 => n - 100 * Hundredths(n) <= 0
           /\ n \in -99 .. 99 => Hundredths(n) = 0
           /\ \A m \in Int : m >= 0 /\ n >= 100 * m => Hundredths(n) >= m
           /\ \A m \in Int : m <= 0 /\ n <= 100 * m => Hundredths(n) <= m
BY DEF Hundredths

LEMMA GainIsNoLoss ==
    ASSUME NEW d \in Int, NEW g \in 100 .. 250, NEW r \in Int
    PROVE  /\ d > 0 /\ r >= 0 => d * g + r >= 100 * d
           /\ d < 0 /\ r <= 0 => d * g + r <= 100 * d
           /\ d = 0 => d * g + r = r
           /\ d * g + r \in Int
OBVIOUS

\* One motion along the axis: the pointer stays on the output, and it goes as
\* far as the mouse.
LEMMA MovedKeepsMotion ==
    ASSUME NEW p, InMotion(p), NEW d \in Int, width \in Nat \ {0}, p.x \in 0 .. width - 1,
           d > 0 => p.direction = 1, d < 0 => p.direction = -1
    PROVE  LET q == Moved(p, d)
           IN  /\ InMotion(q) /\ q.x \in 0 .. width - 1
               /\ d > 0 => q.x >= Clamp(p.x + d, width)
               /\ d < 0 => q.x <= Clamp(p.x + d, width)
<1> DEFINE g == p.gain
           r == p.remainder
           scaled == d * g + r
           delta == Hundredths(scaled)
           to == Clamp(p.x + delta, width)
           outward == (d < 0 /\ p.x = 0) \/ (d > 0 /\ p.x = width - 1)
           rest == scaled - 100 * delta
           q == Moved(p, d)
<1>1. p \in Pointers /\ g \in 100 .. 250 /\ r \in -99 .. 99 /\ p.x \in Int
  BY DEF InMotion, Pointers
<1>0. (d > 0 => r >= 0) /\ (d < 0 => r <= 0)
  BY <1>1 DEF InMotion, CarriesForward
<1>3. /\ q = IF to - p.x # delta \/ outward THEN [AtRest(p) EXCEPT !.x = to]
             ELSE [p EXCEPT !.x = to, !.remainder = rest]
  BY DEF Moved
<1> HIDE DEF q, g, r
<1>2. /\ scaled \in Int
      /\ d > 0 => scaled >= 100 * d
      /\ d < 0 => scaled <= 100 * d
      /\ d = 0 => scaled = r
  BY <1>0, <1>1, GainIsNoLoss
<1> HIDE DEF scaled
<1>4. /\ delta \in Int /\ rest \in -99 .. 99
      /\ scaled >= 0 => rest >= 0
      /\ scaled <= 0 => rest <= 0
      /\ scaled \in -99 .. 99 => delta = 0
      /\ \A m \in Int : m >= 0 /\ scaled >= 100 * m => delta >= m
      /\ \A m \in Int : m <= 0 /\ scaled <= 100 * m => delta <= m
  BY <1>2, HundredthsTruncates
<1>5. (d > 0 => delta >= d) /\ (d < 0 => delta <= d)
  BY <1>2, <1>4
<1>6. (d > 0 => rest >= 0) /\ (d < 0 => rest <= 0) /\ (d = 0 => rest = r)
  BY <1>1, <1>2, <1>4
<1> HIDE DEF delta, rest
<1>7. to \in 0 .. width - 1
  <2>1. p.x + delta \in Int
    BY <1>1, <1>4
  <2> QED
    BY <2>1, ClampIsInside
<1>8. (d > 0 => to >= Clamp(p.x + d, width)) /\ (d < 0 => to <= Clamp(p.x + d, width))
  BY <1>1, <1>4, <1>5 DEF Clamp
<1> HIDE DEF to
<1>9. CASE to - p.x # delta \/ outward
  <2>1. AtRest(p) \in Pointers /\ CarriesForward(AtRest(p)) /\ AtRest(p).remainder = 0
    BY <1>1, AtRestIsValid
  <2>2. q = [AtRest(p) EXCEPT !.x = to]
    BY <1>3, <1>9
  <2>3. /\ q \in Pointers /\ q.x = to /\ q.remainder = AtRest(p).remainder
        /\ q.direction = AtRest(p).direction
    BY <1>7, <2>1, <2>2 DEF Pointers
  <2> QED
    BY <1>7, <1>8, <2>1, <2>3 DEF InMotion, CarriesForward, q
<1>10. CASE ~(to - p.x # delta \/ outward)
  <2>1. q = [p EXCEPT !.x = to, !.remainder = rest]
    BY <1>3, <1>10
  <2>2. to \in Int /\ rest \in Int
    BY <1>4, <1>7
  <2>3. q \in Pointers /\ q.x = to /\ q.remainder = rest /\ q.direction = p.direction
    <3>1. LET u == [p EXCEPT !.x = to, !.remainder = rest]
          IN  u \in Pointers /\ u.x = to /\ u.remainder = rest /\ u.direction = p.direction
      BY <1>1, <2>2, PointerPlaced
    <3> QED
      BY <2>1, <3>1
  <2>4. CarriesForward(q)
    BY <1>1, <1>6, <2>3 DEF InMotion, CarriesForward, r
  <2> QED
    BY <1>4, <1>7, <1>8, <2>3, <2>4 DEF InMotion, q
<1> QED
  BY <1>9, <1>10

LEMMA MotionMoves ==
    ASSUME InputInv, NEW d \in Deltas, Motion(d)
    PROVE  /\ InMotion(pointer') /\ pointer'.x \in 0 .. width - 1
           /\ d > 0 => pointer'.x >= Clamp(pointer.x + d, width)
           /\ d < 0 => pointer'.x <= Clamp(pointer.x + d, width)
<1>1. PICK p \in AdaptiveGains(pointer) : pointer' = Moved(Towards(p, d), d)
  BY DEF Motion
<1>2. d \in Int /\ width \in Nat \ {0}
  BY InputAssumption DEF InputInv, InputTypeOK
<1>3. InMotion(pointer) /\ pointer.x \in 0 .. width - 1
  BY DEF InputInv, PointerInv, PointerIsValid, InMotion
<1>4. InMotion(p) /\ p.x = pointer.x
  BY <1>1, <1>3, GainKeepsMotion
<1> DEFINE q == Towards(p, d)
<1>5. /\ InMotion(q) /\ q.x = pointer.x
      /\ d > 0 => q.direction = 1
      /\ d < 0 => q.direction = -1
  BY <1>2, <1>4, DirectionKeepsMotion
<1> HIDE DEF q
<1> QED
  BY <1>1, <1>2, <1>3, <1>5, MovedKeepsMotion DEF q

-----------------------------------------------------------------------------
(***************************************************************************)
(* Every step keeps the invariant.                                         *)
(***************************************************************************)
\* Between polls without pending releases nothing waits to be released.
LEMMA NoneWaiting ==
    ASSUME InputInv, count = 0
    PROVE  releasing = {} /\ mask = {} /\ cursor = 0
<1>1. count = Cardinality(releasing) /\ releasing \subseteq Codes
  BY DEF InputInv, KeysAreValid
<1>2. IsFiniteSet(releasing)
  BY <1>1, CodesAreNumbers, FS_Subset
<1>3. releasing = {}
  BY <1>1, <1>2, FS_EmptySet
<1> QED
  BY <1>3 DEF InputInv, KeysAreValid, ControlNames, Names

LEMMA HeldNow ==
    ASSUME InputInv, Reading
    PROVE  /\ held = HoldsOf(pressed \cup releasing, consumed, buttons)
           /\ pressed \subseteq Named /\ releasing \subseteq Named
           /\ pressed \subseteq Codes /\ releasing \subseteq Codes
           /\ buttons \subseteq PointerButtons
BY DEF InputInv, CoreHoldsWhatIsDown, HoldsOf, KeysAreValid, Named, InputTypeOK

\* A step of the keyboard that presses or releases keys.
LEMMA KeyStep ==
    ASSUME InputInv, TurnOf("keyboard"), UNCHANGED <<ours, over, active, buttons, width, pointer>>,
           pressed' \subseteq Named, releasing' \subseteq Named, pressed' \cap releasing' = {},
           controls' = ControlNames(pressed'), mask' = ControlNames(releasing'),
           count' = Cardinality(releasing'), cursor' \in {0} \cup Codes,
           mask' # {} => cursor' = 0,
           mask' = {} => \A c \in releasing' : c > cursor',
           count' = 0 => cursor' = 0,
           held' = HoldsOf(pressed' \cup releasing', consumed', buttons)
    PROVE  InputInv'
<1>1. TurnInv' /\ readable' \subseteq Devices /\ prefer_mouse' \in BOOLEAN
  BY TurnIsTaken DEF Devices
<1>2. InputTypeOK'
  BY <1>1 DEF InputInv, InputTypeOK
<1>3. KeysAreValid'
  BY DEF KeysAreValid, Named
<1>4. PointerInv'
  BY DEF InputInv, PointerInv, PointerIsValid
<1>5. CoreHoldsWhatIsDown'
  BY DEF CoreHoldsWhatIsDown, HoldsOf
<1> QED
  BY <1>1, <1>2, <1>3, <1>4, <1>5 DEF InputInv

\* A key goes down, whatever chord it may belong to.
LEMMA PressStep ==
    ASSUME InputInv, TurnOf("keyboard"), NEW c \in Named,
           pressed' = pressed \cup {c}, controls' = controls \cup ControlNames({c}),
           DrainKey(KeyEvent(KeyMap[c], TRUE, c \in pressed)),
           UNCHANGED <<ours, over, active, releasing, mask, count, cursor, buttons, width, pointer>>
    PROVE  InputInv'
<1>1. releasing = {} /\ mask = {} /\ cursor = 0 /\ count = 0 /\ Reading
  BY NoneWaiting DEF TurnOf
<1>2. held = HoldsOf(pressed, consumed, buttons) /\ pressed \subseteq Named /\ pressed \subseteq Codes
  BY <1>1, HeldNow
<1>3. held' = HoldsOf(pressed \cup {c}, consumed', buttons)
  BY <1>2, PressIsHeld
<1>4. controls' = ControlNames(pressed')
  BY NamesWith DEF InputInv, KeysAreValid
<1>5. mask = ControlNames(releasing) /\ count = Cardinality(releasing)
  BY DEF InputInv, KeysAreValid
<1> QED
  BY <1>1, <1>2, <1>3, <1>4, <1>5, KeyStep

LEMMA KeyDownStep == InputInv /\ KeyDown => InputInv'
<1> SUFFICES ASSUME InputInv, KeyDown PROVE InputInv'
  OBVIOUS
<1>1. PICK c \in Codes :
        /\ KeyMap[c] # ""
        /\ pressed' = pressed \cup {c} /\ controls' = controls \cup ControlNames({c})
        /\ DrainKey(KeyEvent(KeyMap[c], TRUE, c \in pressed))
  BY DEF KeyDown
<1>2. c \in Named
  BY <1>1 DEF Named
<1>3. TurnOf("keyboard")
      /\ UNCHANGED <<ours, over, active, releasing, mask, count, cursor, buttons, width, pointer>>
  BY DEF KeyDown
<1> QED
  BY <1>1, <1>2, <1>3, PressStep

LEMMA AsciiEscapeStep == InputInv /\ AsciiEscape => InputInv'
<1> SUFFICES ASSUME InputInv, AsciiEscape PROVE InputInv'
  OBVIOUS
<1> DEFINE c == CodeOf("ESC")
<1>1. c \in Named /\ KeyMap[c] = "ESC"
  BY EscapeIsNamed
<1>3. ControlNames({c}) = {"ESC"}
  <2>1. \E i \in DOMAIN ControlKeys : ControlKeys[i] = "ESC"
    BY InputAssumption
  <2> QED
    BY <1>1, <2>1 DEF ControlNames, Names
<1>2. /\ TurnOf("keyboard")
      /\ pressed' = pressed \cup {c} /\ controls' = controls \cup {"ESC"}
      /\ DrainKey(KeyEvent("ESC", TRUE, c \in pressed))
      /\ UNCHANGED <<ours, over, active, releasing, mask, count, cursor, buttons, width, pointer>>
  BY DEF AsciiEscape
<1> QED
  BY <1>1, <1>2, <1>3, PressStep

LEMMA KeyUpStep == InputInv /\ KeyUp => InputInv'
<1> SUFFICES ASSUME InputInv, KeyUp PROVE InputInv'
  OBVIOUS
<1>1. PICK c \in pressed :
        /\ pressed' = pressed \ {c} /\ controls' = controls \ ControlNames({c})
        /\ DrainKey(KeyEvent(KeyMap[c], FALSE, FALSE))
  BY DEF KeyUp
<1>2. /\ TurnOf("keyboard") /\ Reading
      /\ UNCHANGED <<ours, over, active, releasing, mask, count, cursor, buttons, width, pointer>>
  BY DEF KeyUp, TurnOf
<1>3. releasing = {} /\ mask = {} /\ cursor = 0 /\ count = 0
  BY <1>2, NoneWaiting DEF TurnOf
<1>4. held = HoldsOf(pressed, consumed, buttons) /\ pressed \subseteq Named
      /\ buttons \subseteq PointerButtons
  BY <1>2, <1>3, HeldNow
<1>5. held' = HoldsOf(pressed \ {c}, consumed', buttons)
  BY <1>1, <1>4, ReleaseIsTold
<1>6. controls' = ControlNames(pressed')
  BY <1>1, <1>4, NamesWithout DEF InputInv, KeysAreValid
<1>7. mask = ControlNames(releasing) /\ count = Cardinality(releasing)
  BY DEF InputInv, KeysAreValid
<1> QED
  BY <1>1, <1>2, <1>3, <1>4, <1>5, <1>6, <1>7, KeyStep

LEMMA KeyIgnoredStep == InputInv /\ KeyIgnored => InputInv'
<1> SUFFICES ASSUME InputInv, KeyIgnored PROVE InputInv'
  OBVIOUS
<1>1. /\ TurnOf("keyboard")
      /\ UNCHANGED <<ours, over, active, keyVars, buttons, width, pointer, shortcutVars, held>>
  BY DEF KeyIgnored
<1>2. TurnInv' /\ readable' \subseteq Devices /\ prefer_mouse' \in BOOLEAN
  BY <1>1, TurnIsTaken DEF Devices
<1>3. KeysAreValid' /\ PointerInv'
  BY <1>1, NothingReduced
<1>4. InputTypeOK' /\ CoreHoldsWhatIsDown'
  BY <1>1, <1>2 DEF InputInv, InputTypeOK, CoreHoldsWhatIsDown, Reading, keyVars, shortcutVars
<1> QED
  BY <1>2, <1>3, <1>4 DEF InputInv

LEMMA AllKeysUpStep == InputInv /\ AllKeysUp => InputInv'
<1> SUFFICES ASSUME InputInv, AllKeysUp PROVE InputInv'
  OBVIOUS
<1> DEFINE keys == [releasing |-> pressed, mask |-> controls, count |-> Cardinality(pressed),
                    cursor |-> 0]
<1>1. /\ TurnOf("keyboard") /\ Reading /\ pressed # {}
      /\ pressed' = {} /\ controls' = {}
      /\ ReleaseNext(keys)
      /\ UNCHANGED <<ours, over, active, buttons, width, pointer>>
  BY DEF AllKeysUp, TurnOf
<1>2. releasing = {}
  BY <1>1, NoneWaiting DEF TurnOf
<1>3. held = HoldsOf({} \cup pressed, consumed, buttons) /\ pressed \subseteq Named
      /\ buttons \subseteq PointerButtons
  BY <1>1, <1>2, HeldNow
<1>4. Pending(keys) /\ keys.releasing = pressed
  <2>1. \A c \in pressed : c > 0
    <3>1. pressed \subseteq Nat \ {0}
      BY <1>3, CodesAreNumbers DEF Named
    <3> QED
      BY <3>1
  <2>2. controls = ControlNames(pressed)
    BY DEF InputInv, KeysAreValid
  <2> QED
    BY <1>1, <1>3, <2>1, <2>2 DEF Pending
<1> HIDE DEF keys
<1>5. /\ releasing' \subseteq pressed
      /\ mask' = ControlNames(releasing')
      /\ count' = Cardinality(releasing')
      /\ cursor' \in {0} \cup Codes
      /\ mask' # {} => cursor' = 0
      /\ mask' = {} => \A d \in releasing' : d > cursor'
      /\ count' = 0 => cursor' = 0
      /\ held' = HoldsOf({} \cup releasing', consumed', buttons)
  <2>1. {} \subseteq Named /\ {} \cap keys.releasing = {}
    OBVIOUS
  <2>2. held = HoldsOf({} \cup keys.releasing, consumed, buttons)
    BY <1>3, <1>4
  <2>3. Pending(keys) /\ ReleaseNext(keys) /\ buttons \subseteq PointerButtons
    BY <1>1, <1>3, <1>4
  <2> HIDE <1>1, <1>3
  <2>4. /\ releasing' \subseteq keys.releasing
        /\ mask' = ControlNames(releasing')
        /\ count' = Cardinality(releasing')
        /\ cursor' \in {0} \cup Codes
        /\ mask' # {} => cursor' = 0
        /\ mask' = {} => \A d \in releasing' : d > cursor'
        /\ count' = 0 => cursor' = 0
        /\ held' = HoldsOf({} \cup releasing', consumed', buttons)
    BY <2>1, <2>2, <2>3, ReleaseNextEffect
  <2> QED
    BY <1>4, <2>4
<1>6. controls' = ControlNames(pressed')
  BY <1>1 DEF ControlNames, Names
<1> QED
  BY <1>1, <1>3, <1>5, <1>6, KeyStep

LEMMA PollPendingStep == InputInv /\ PollPending => InputInv'
<1> SUFFICES ASSUME InputInv, PollPending PROVE InputInv'
  OBVIOUS
<1> DEFINE keys == [releasing |-> releasing, mask |-> mask, count |-> count, cursor |-> cursor]
<1>1. /\ Reading /\ count # 0
      /\ ReleaseNext(keys)
      /\ UNCHANGED <<ours, over, deviceVars, pressed, controls, buttons, width, pointer>>
  BY DEF PollPending
<1>2. held = HoldsOf(pressed \cup releasing, consumed, buttons)
      /\ pressed \subseteq Named /\ buttons \subseteq PointerButtons
  BY <1>1, HeldNow
<1>3. pressed \cap releasing = {} /\ Pending(keys) /\ keys.releasing = releasing
  <2>1. releasing # {}
    BY <1>1, FS_EmptySet DEF InputInv, KeysAreValid
  <2> QED
    BY <2>1 DEF InputInv, KeysAreValid, Pending, Named
<1> HIDE DEF keys
<1>4. /\ releasing' \subseteq releasing
      /\ mask' = ControlNames(releasing')
      /\ count' = Cardinality(releasing')
      /\ cursor' \in {0} \cup Codes
      /\ mask' # {} => cursor' = 0
      /\ mask' = {} => \A d \in releasing' : d > cursor'
      /\ count' = 0 => cursor' = 0
      /\ held' = HoldsOf(pressed \cup releasing', consumed', buttons)
  BY <1>1, <1>2, <1>3, ReleaseNextEffect
<1>5. InputTypeOK' /\ PointerInv'
  BY <1>1 DEF InputInv, InputTypeOK, PointerInv, PointerIsValid, deviceVars
<1>6. KeysAreValid'
  BY <1>1, <1>3, <1>4 DEF InputInv, KeysAreValid
<1>7. TurnInv'
  BY <1>1 DEF InputInv, TurnInv, deviceVars, PollPending
<1>8. CoreHoldsWhatIsDown'
  BY <1>1, <1>4 DEF CoreHoldsWhatIsDown, HoldsOf
<1> QED
  BY <1>5, <1>6, <1>7, <1>8 DEF InputInv

LEMMA ButtonStep == InputInv /\ Button => InputInv'
<1> SUFFICES ASSUME InputInv, Button PROVE InputInv'
  OBVIOUS
<1>1. /\ TurnOf("mouse") /\ Reading
      /\ UNCHANGED <<ours, over, active, keyVars, width, pointer, shortcutVars>>
  BY DEF Button, TurnOf
<1>2. TurnInv' /\ readable' \subseteq Devices /\ prefer_mouse' \in BOOLEAN
  BY <1>1, TurnIsTaken DEF Devices
<1>3. KeysAreValid' /\ PointerInv'
  BY <1>1 DEF InputInv, KeysAreValid, PointerInv, PointerIsValid, keyVars
<1>4. PICK b \in PointerButtons :
        \/ b \notin buttons /\ buttons' = buttons \cup {b} /\ held' = held \cup {b}
        \/ b \in buttons /\ buttons' = buttons \ {b} /\ held' = held \ {b}
        \/ UNCHANGED <<buttons, held>>
  BY DEF Button
<1>5. InputTypeOK'
  BY <1>1, <1>2, <1>4 DEF InputInv, InputTypeOK
<1>6. b \notin Names(pressed \cup releasing)
  BY ButtonsAreNoKeys DEF Names, InputInv, KeysAreValid
<1>7. held = HoldsOf(pressed \cup releasing, consumed, buttons)
  BY <1>1, HeldNow
<1>8. held' = HoldsOf(pressed \cup releasing, consumed, buttons')
  BY <1>4, <1>6, <1>7 DEF HoldsOf
<1>9. CoreHoldsWhatIsDown'
  BY <1>1, <1>8 DEF CoreHoldsWhatIsDown, HoldsOf, keyVars, shortcutVars
<1> QED
  BY <1>2, <1>3, <1>5, <1>9 DEF InputInv

\* A step of the mouse that moves the pointer.
LEMMA PointerStep ==
    ASSUME InputInv, TurnOf("mouse"), InMotion(pointer'), pointer'.x \in 0 .. width - 1,
           UNCHANGED <<ours, over, active, keyVars, buttons, width, shortcutVars, held>>
    PROVE  InputInv'
<1>1. TurnInv' /\ readable' \subseteq Devices /\ prefer_mouse' \in BOOLEAN
  BY TurnIsTaken DEF Devices
<1>2. KeysAreValid' /\ CoreHoldsWhatIsDown'
  BY DEF InputInv, KeysAreValid, CoreHoldsWhatIsDown, Reading, keyVars, shortcutVars
<1>3. InputTypeOK'
  BY <1>1 DEF InputInv, InputTypeOK
<1>4. PointerInv'
  BY DEF PointerInv, PointerIsValid, InMotion, Pointers
<1> QED
  BY <1>1, <1>2, <1>3, <1>4 DEF InputInv

LEMMA MotionStep == ASSUME InputInv, NEW d \in Deltas, Motion(d) PROVE InputInv'
<1>1. TurnOf("mouse")
      /\ UNCHANGED <<ours, over, active, keyVars, buttons, width, shortcutVars, held>>
  BY DEF Motion
<1> QED
  BY <1>1, MotionMoves, PointerStep

LEMMA MotionAcrossStep == InputInv /\ MotionAcross => InputInv'
<1> SUFFICES ASSUME InputInv, MotionAcross PROVE InputInv'
  OBVIOUS
<1>1. TurnOf("mouse")
      /\ UNCHANGED <<ours, over, active, keyVars, buttons, width, shortcutVars, held>>
  BY DEF MotionAcross
<1>2. PICK p \in AdaptiveGains(pointer) : pointer' \in {p, AtRest(p)}
  BY DEF MotionAcross
<1>3. InMotion(pointer) /\ pointer.x \in 0 .. width - 1
  BY DEF InputInv, PointerInv, PointerIsValid, InMotion
<1>4. InMotion(p) /\ p.x = pointer.x
  BY <1>3, GainKeepsMotion
<1>5. p \in Pointers
  BY <1>4 DEF InMotion
<1>6. InMotion(AtRest(p)) /\ AtRest(p).x = pointer.x
  BY <1>4, <1>5, AtRestIsValid DEF InMotion
<1>7. InMotion(pointer') /\ pointer'.x = pointer.x
  BY <1>2, <1>4, <1>6
<1> QED
  BY <1>1, <1>3, <1>7, PointerStep

LEMMA EmergencyChordStep == InputInv /\ EmergencyChord => InputInv'
<1> SUFFICES ASSUME InputInv, EmergencyChord PROVE InputInv'
  OBVIOUS
<1>1. /\ TurnOf("keyboard") /\ readable' = {} /\ over' = "emergency" /\ active' = FALSE
      /\ ResetReducer(pointer) /\ UNCHANGED <<ours, width, held>>
  BY DEF EmergencyChord
<1>2. pointer \in Pointers /\ pointer.x \in 0 .. width' - 1 /\ width' \in Widths
  BY <1>1 DEF InputInv, PointerInv, PointerIsValid, InputTypeOK
<1>3. KeysAreValid' /\ PointerInv' /\ buttons' \subseteq PointerButtons
  BY <1>1, <1>2, ResetIsValid
<1>4. ours /\ readable \subseteq Devices
  BY <1>1 DEF TurnOf, InputInv, TurnInv, InputTypeOK
<1>5. passedOver' = [o \in Devices |-> 0]
  <2>1. readable \subseteq {"keyboard"}
    BY <1>1 DEF TurnOf
  <2> QED
    BY <1>1, <2>1 DEF TurnOf
<1>6. prefer_mouse' \in BOOLEAN
  BY <1>1 DEF TurnOf
<1>7. TurnInv' /\ InputTypeOK' /\ CoreHoldsWhatIsDown'
  <2>1. TurnInv'
    BY <1>1, <1>2, <1>3, <1>4, <1>5, <1>6 DEF TurnInv, InputInv
  <2>2. InputTypeOK'
    BY <1>1, <1>2, <1>3, <1>4, <1>5, <1>6 DEF InputInv, InputTypeOK
  <2>3. CoreHoldsWhatIsDown'
    BY <1>1, <1>2, <1>3, <1>4, <1>5, <1>6 DEF CoreHoldsWhatIsDown, Reading
  <2> QED
    BY <2>1, <2>2, <2>3
<1> QED
  BY <1>3, <1>7 DEF InputInv

LEMMA ReleaseConsoleStep == InputInv /\ ReleaseConsole => InputInv'
<1> SUFFICES ASSUME InputInv, ReleaseConsole PROVE InputInv'
  OBVIOUS
<1>1. /\ Reading /\ ours' = FALSE /\ held' = {} /\ active' = FALSE /\ readable' = {}
      /\ passedOver' = [d \in Devices |-> 0]
      /\ ResetReducer(pointer) /\ consumed' = {} /\ UNCHANGED <<over, width, prefer_mouse>>
  BY DEF ReleaseConsole, CloseDevices, ResetShortcuts
<1>2. pointer \in Pointers /\ pointer.x \in 0 .. width' - 1 /\ width' \in Widths
  BY <1>1 DEF InputInv, PointerInv, PointerIsValid, InputTypeOK
<1>3. KeysAreValid' /\ PointerInv' /\ buttons' \subseteq PointerButtons
      /\ Names(pressed' \cup releasing') = {} /\ buttons' = {}
  BY <1>1, <1>2, ResetIsValid
<1>4. TurnInv' /\ InputTypeOK' /\ CoreHoldsWhatIsDown'
  <2>1. TurnInv'
    BY <1>1, <1>2, <1>3 DEF TurnInv, InputInv
  <2>2. InputTypeOK'
    BY <1>1, <1>2, <1>3 DEF InputInv, InputTypeOK
  <2>3. CoreHoldsWhatIsDown'
    BY <1>1, <1>2, <1>3 DEF CoreHoldsWhatIsDown, Reading
  <2> QED
    BY <2>1, <2>2, <2>3
<1> QED
  BY <1>3, <1>4 DEF InputInv

LEMMA AcquireConsoleStep == InputInv /\ AcquireConsole => InputInv'
<1> SUFFICES ASSUME InputInv, AcquireConsole PROVE InputInv'
  OBVIOUS
<1> DEFINE p == [pointer EXCEPT !.x = Clamp(@, width')]
<1>1. /\ Reading /\ ~ours /\ ours' = TRUE /\ width' \in Widths
      /\ ResetReducer(p) /\ consumed' = {} /\ UNCHANGED <<readable, passedOver, held>>
      /\ \/ active' = TRUE /\ prefer_mouse' = TRUE /\ UNCHANGED over
         \/ over' = "failed" /\ UNCHANGED <<active, prefer_mouse>>
  BY DEF AcquireConsole, ResetShortcuts
<1>2. p \in Pointers /\ p.x \in 0 .. width' - 1
  <2>1. pointer \in Pointers /\ pointer.x \in Int
    BY DEF InputInv, PointerInv, Pointers
  <2>2. width' \in Nat \ {0}
    BY <1>1, InputAssumption
  <2>3. Clamp(pointer.x, width') \in 0 .. width' - 1
    BY <2>1, <2>2, ClampIsInside
  <2> QED
    BY <2>1, <2>2, <2>3 DEF Pointers
<1>3. KeysAreValid' /\ PointerInv' /\ buttons' \subseteq PointerButtons
      /\ Names(pressed' \cup releasing') = {} /\ buttons' = {}
  BY <1>1, <1>2, ResetIsValid
<1>4. held = {} /\ ~active /\ \A d \in Devices : passedOver[d] # 1
  BY <1>1 DEF InputInv, TurnInv
<1>5. TurnInv' /\ InputTypeOK' /\ CoreHoldsWhatIsDown'
  BY <1>1, <1>3, <1>4 DEF TurnInv, InputInv, InputTypeOK, CoreHoldsWhatIsDown, Reading
<1> QED
  BY <1>3, <1>5 DEF InputInv

LEMMA DeviceFailsStep == InputInv /\ DeviceFails => InputInv'
<1> SUFFICES ASSUME InputInv, DeviceFails PROVE InputInv'
  OBVIOUS
<1>1. /\ active /\ over' = "failed" /\ active' = FALSE /\ readable' = {}
      /\ passedOver' = [d \in Devices |-> 0]
      /\ ResetReducer(pointer) /\ UNCHANGED <<ours, width, prefer_mouse, held>>
  BY DEF DeviceFails, CloseDevices
<1>2. pointer \in Pointers /\ pointer.x \in 0 .. width' - 1 /\ width' \in Widths
  BY <1>1 DEF InputInv, PointerInv, PointerIsValid, InputTypeOK
<1>3. KeysAreValid' /\ PointerInv' /\ buttons' \subseteq PointerButtons
  BY <1>1, <1>2, ResetIsValid
<1>4. TurnInv' /\ InputTypeOK' /\ CoreHoldsWhatIsDown'
  <2>1. TurnInv'
    BY <1>1, <1>2, <1>3 DEF TurnInv, InputInv
  <2>2. InputTypeOK'
    BY <1>1, <1>2, <1>3 DEF InputInv, InputTypeOK
  <2>3. CoreHoldsWhatIsDown'
    BY <1>1, <1>2, <1>3 DEF CoreHoldsWhatIsDown, Reading
  <2> QED
    BY <2>1, <2>2, <2>3
<1> QED
  BY <1>3, <1>4 DEF InputInv

LEMMA DeviceReadableStep == InputInv /\ DeviceReadable => InputInv'
<1> SUFFICES ASSUME InputInv, DeviceReadable PROVE InputInv'
  OBVIOUS
<1>1. /\ readable \subseteq readable' /\ readable' \subseteq Devices
      /\ UNCHANGED <<ours, over, active, prefer_mouse, passedOver, keyVars, buttons, width,
                     pointer, shortcutVars, held>>
  BY DEF DeviceReadable, InputInv, InputTypeOK
<1>2. KeysAreValid' /\ PointerInv'
  BY <1>1, NothingReduced
<1>3. TurnInv' /\ InputTypeOK' /\ CoreHoldsWhatIsDown'
  BY <1>1 DEF TurnInv, InputInv, InputTypeOK, CoreHoldsWhatIsDown, Reading, keyVars, shortcutVars
<1> QED
  BY <1>2, <1>3 DEF InputInv

LEMMA InputInvStep == InputInv /\ [InputNext]_inputVars => InputInv'
<1> SUFFICES ASSUME InputInv, [InputNext]_inputVars PROVE InputInv'
  OBVIOUS
<1>1. CASE ReleaseConsole
  BY <1>1, ReleaseConsoleStep
<1>2. CASE AcquireConsole
  BY <1>2, AcquireConsoleStep
<1>3. CASE DeviceFails
  BY <1>3, DeviceFailsStep
<1>4. CASE DeviceReadable
  BY <1>4, DeviceReadableStep
<1>5. CASE KeyDown \/ AsciiEscape
  BY <1>5, KeyDownStep, AsciiEscapeStep
<1>6. CASE KeyUp \/ KeyIgnored
  BY <1>6, KeyUpStep, KeyIgnoredStep
<1>7. CASE EmergencyChord
  BY <1>7, EmergencyChordStep
<1>8. CASE AllKeysUp \/ PollPending
  BY <1>8, AllKeysUpStep, PollPendingStep
<1>9. CASE Button
  BY <1>9, ButtonStep
<1>10. ASSUME NEW d \in Deltas, Motion(d) PROVE InputInv'
  BY <1>10, MotionStep
<1>11. CASE MotionAcross
  BY <1>11, MotionAcrossStep
<1>12. CASE UNCHANGED inputVars
  BY <1>12 DEF inputVars, deviceVars, keyVars, shortcutVars, InputInv, InputTypeOK, KeysAreValid,
       PointerInv, PointerIsValid, TurnInv, CoreHoldsWhatIsDown, Reading
<1> QED
  BY <1>1, <1>2, <1>3, <1>4, <1>5, <1>6, <1>7, <1>8, <1>9, <1>10, <1>11, <1>12 DEF InputNext

LEMMA InputInvHolds == InputSpec => []InputInv
BY InputInvInit, InputInvStep, PTL DEF InputSpec

\* The checks that control_key_state_is_valid and reducer_is_valid make before
\* each operation never fail, so they never end the session.
THEOREM ReducerStaysValid == InputSpec => []ReducerIsValid
<1>1. InputInv => ReducerIsValid
  BY DEF InputInv, PointerInv, ReducerIsValid
<1> QED
  BY <1>1, InputInvHolds, PTL

\* No sequence of presses, repeats, chords, lost releases and console switches
\* leaves a key stuck in the core, or tells it of a release it has no press of.
THEOREM CoreKeysCorrect == InputSpec => []CoreHoldsWhatIsDown
<1>1. InputInv => CoreHoldsWhatIsDown
  BY DEF InputInv
<1> QED
  BY <1>1, InputInvHolds, PTL

\* Neither device waits for more than one event of the other.
THEOREM DevicesTakeTurns == InputSpec => []NeitherDeviceStarves
<1>1. InputInv => NeitherDeviceStarves
  BY DEF InputInv, TurnInv, NeitherDeviceStarves
<1> QED
  BY <1>1, InputInvHolds, PTL

\* For every gain from 100 to 250 percent and every motion the pointer goes at
\* least as far as the mouse.
THEOREM MotionIsKept == InputSpec => NoMotionIsLost
<1>1. InputInv /\ [InputNext]_inputVars =>
        [\A d \in Deltas \ {0} :
            Motion(d) => IF d > 0 THEN pointer'.x >= Clamp(pointer.x + d, width)
                                  ELSE pointer'.x <= Clamp(pointer.x + d, width)]_inputVars
  <2> SUFFICES ASSUME InputInv, NEW d \in Deltas \ {0}, Motion(d)
               PROVE  IF d > 0 THEN pointer'.x >= Clamp(pointer.x + d, width)
                               ELSE pointer'.x <= Clamp(pointer.x + d, width)
    OBVIOUS
  <2>1. d \in Int
    BY InputAssumption
  <2> QED
    BY <2>1, MotionMoves
<1> QED
  BY <1>1, InputInvHolds, PTL DEF InputSpec, NoMotionIsLost

=============================================================================
