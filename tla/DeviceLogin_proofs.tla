------------------------- MODULE DeviceLogin_proofs -------------------------
(***************************************************************************)
(* Proofs about the device login, for every cap, step, timeout and answer. *)
(* The interval is at every moment what the server asked for, grown by the *)
(* slow-downs heard, and a decision that a "pending" answer does not know  *)
(* of was taken while that answer was on its way.                          *)
(***************************************************************************)
EXTENDS DeviceLogin, TLAPS

Spacing(slowed) == Least(IntervalCap, Clamp(asked.interval, IntervalCap) + SlowDownStep * slowed)

Interval ==
  /\ phase = "request" => poll.slowed = 0 /\ poll.count = 0
  /\ phase \in {"show", "sleep", "posted"} => wait = Spacing(poll.slowed)
  /\ poll.count > 0 => poll.sent <= now

PendingIsBefore ==
  /\ phase = "sleep" => poll.answer = "none"
  /\ phase = "posted" /\ poll.answer = "pending" /\ user # "none" => decided.during

OutcomeIsLast == outcome # "none" => phase = "ended"

IInv == TypeOK /\ Interval /\ PendingIsBefore /\ OutcomeIsLast /\ PollsSpaced /\ ApprovalCollected

Polls == [sent : Nat, before : Nat, count : Nat, slowed : Nat,
          answer : Answers, heard : Answers \cup {"timeout"}]

----------------------------------------------------------------------------
(* The clamp of a wished-for interval lies between one and the cap.        *)
LEMMA ClampBounds ==
  ASSUME NEW value \in Int, NEW cap \in Nat \ {0}
  PROVE  Clamp(value, cap) \in 1..cap
BY DEF Clamp, Least, Most

(* A slow-down is worth one step, up to the cap.                           *)
LEMMA SlowDownSpacing ==
  ASSUME asked \in [interval : Int, closes : Int], NEW slowed \in Nat
  PROVE  /\ Spacing(slowed) \in 1..IntervalCap
         /\ Spacing(0) = Clamp(asked.interval, IntervalCap)
         /\ Spacing(slowed + 1) = Least(IntervalCap, Spacing(slowed) + SlowDownStep)
<1> DEFINE first == Clamp(asked.interval, IntervalCap)
           grown == SlowDownStep * slowed
<1>1. first \in 1..IntervalCap BY ClampBounds, LoginAssumption
<1>2. grown \in Nat /\ SlowDownStep * 0 = 0 /\ SlowDownStep * (slowed + 1) = grown + SlowDownStep
  BY LoginAssumption
<1> HIDE DEF first, grown
<1>3. /\ Spacing(slowed) = Least(IntervalCap, first + grown)
      /\ Spacing(0) = Least(IntervalCap, first + 0)
      /\ Spacing(slowed + 1) = Least(IntervalCap, first + (grown + SlowDownStep))
  BY <1>2 DEF Spacing, first, grown
<1>4. QED BY <1>1, <1>2, <1>3, LoginAssumption DEF Least, first

----------------------------------------------------------------------------
(* A step of the loop that goes back to its condition.                     *)
LEMMA Looping ==
  ASSUME IInv, phase \in {"show", "posted"}, now' \in Nat, now' >= now,
         NEW interval, NEW heard \in Answers \cup {"timeout"}, NEW slow \in {0, 1},
         \/ slow = 0 /\ interval = wait
         \/ slow = 1 /\ interval = Slower,
         heard = "pending" => phase = "posted" /\ poll.answer = "pending",
         LoopOn(now', interval, <<heard, slow>>)
  PROVE  IInv'
<1>1. /\ poll \in Polls /\ asked \in [interval : Int, closes : Int] /\ wait = Spacing(poll.slowed)
      /\ poll.count > 0 => poll.sent <= now
      /\ phase # "ended" /\ outcome = "none" /\ now \in Nat
  BY DEF IInv, TypeOK, Interval, OutcomeIsLast, Polls
<1>2. interval = Spacing(poll.slowed + slow) /\ interval \in 0..IntervalCap
  <2>1. poll.slowed \in Nat BY <1>1 DEF Polls
  <2>2. CASE slow = 0 BY <1>1, <2>1, <2>2, SlowDownSpacing
  <2>3. CASE slow = 1
    <3>1. /\ Spacing(poll.slowed) \in 1..IntervalCap
          /\ Spacing(poll.slowed + 1) = Least(IntervalCap, Spacing(poll.slowed) + SlowDownStep)
          /\ Spacing(poll.slowed + 1) \in 1..IntervalCap
      BY <1>1, <2>1, SlowDownSpacing
    <3>2. QED BY <1>1, <2>1, <2>3, <3>1 DEF Slower
  <2>4. QED BY <2>2, <2>3
<1>3. /\ poll' = [poll EXCEPT !.answer = "none", !.heard = heard, !.slowed = @ + slow]
      /\ wait' = interval
      /\ IF now' < expires THEN phase' = "sleep" /\ UNCHANGED outcome ELSE End("LOGIN_EXPIRED")
      /\ UNCHANGED <<user, decided, granted, attempt, expires, asked, kept>>
  BY DEF LoopOn, polling
<1>4. /\ poll' \in Polls /\ poll'.slowed = poll.slowed + slow /\ poll'.sent = poll.sent
      /\ poll'.count = poll.count /\ poll'.answer = "none" /\ poll'.heard = heard
  <2>1. "none" \in Answers /\ poll.slowed + slow \in Nat BY <1>1 DEF Polls, Answers
  <2>2. QED BY <1>1, <1>3, <2>1 DEF Polls
<1>5. /\ phase' \in {"sleep", "ended"}
      /\ phase' = "sleep" => outcome' = "none"
      /\ phase' = "ended" => now' >= expires
      /\ outcome' \in {"none", "LOGIN_EXPIRED"}
  BY <1>1, <1>3 DEF End, IInv, TypeOK
<1>6. TypeOK'
  BY <1>2, <1>3, <1>4, <1>5 DEF IInv, TypeOK, Phases, Codes, Polls
<1>7. Interval'
  BY <1>1, <1>2, <1>3, <1>4, <1>5 DEF Interval, Spacing, Polls
<1>8. PendingIsBefore' /\ PollsSpaced' BY <1>4, <1>5 DEF PendingIsBefore, PollsSpaced
<1>9. OutcomeIsLast' BY <1>5 DEF OutcomeIsLast
<1>10. ApprovalCollected'
  <2>1. SUFFICES ASSUME outcome' = "LOGIN_EXPIRED"
                 PROVE  /\ now' >= expires'
                        /\ heard = "pending" /\ user = "approved" => decided.during
    BY <1>3, <1>4 DEF ApprovalCollected
  <2>2. phase' = "ended" /\ now' >= expires' BY <2>1, <1>3, <1>5
  <2>3. phase = "posted" /\ heard = "pending" /\ user = "approved" => decided.during
    BY DEF IInv, PendingIsBefore
  <2>4. QED BY <2>2, <2>3
<1>11. QED BY <1>6, <1>7, <1>8, <1>9, <1>10 DEF IInv

(* A login that ends, however it does, keeps the invariant unless it ends  *)
(* because of its own clock.                                               *)
LEMMA Ending ==
  ASSUME IInv, now' \in Nat, now' >= now, NEW code \in Codes \ {"LOGIN_EXPIRED"}, Ends(code)
  PROVE  IInv'
<1>1. /\ phase' = "ended" /\ outcome' = code
      /\ UNCHANGED <<wait, user, decided, granted, poll, attempt, expires, asked, kept>>
  BY DEF Ends, End, polling
<1>2. TypeOK' BY <1>1 DEF IInv, TypeOK, Phases
<1>3. Interval'
  <2>1. poll.sent \in Nat /\ now \in Nat /\ (poll.count > 0 => poll.sent <= now)
    BY DEF IInv, TypeOK, Interval
  <2>2. QED BY <1>1, <2>1 DEF Interval
<1>4. PendingIsBefore' /\ OutcomeIsLast' /\ PollsSpaced' /\ ApprovalCollected'
  BY <1>1 DEF PendingIsBefore, OutcomeIsLast, PollsSpaced, ApprovalCollected
<1>5. QED BY <1>2, <1>3, <1>4 DEF IInv

(* A step before the first poll or after the last keeps everything but the *)
(* types, if it leaves the poll, the interval and the outcome alone.       *)
LEMMA Outside ==
  ASSUME IInv, TypeOK', now' >= now, phase' \notin {"show", "sleep", "posted"},
         phase' = "request" => phase = "request",
         UNCHANGED <<poll, asked, user, decided, expires>>,
         outcome' # "LOGIN_EXPIRED", outcome' # "none" => phase' = "ended"
  PROVE  IInv'
<1>1. poll.sent \in Nat /\ now \in Nat /\ now' \in Nat /\ (poll.count > 0 => poll.sent <= now)
  BY DEF IInv, TypeOK, Interval
<1>2. Interval'
  BY <1>1 DEF IInv, Interval
<1>3. PendingIsBefore' /\ OutcomeIsLast' /\ PollsSpaced' /\ ApprovalCollected'
  BY DEF PendingIsBefore, OutcomeIsLast, PollsSpaced, ApprovalCollected
<1>4. QED BY <1>2, <1>3 DEF IInv

(* A retry of the request for a code sleeps a positive while.              *)
LEMMA Retrying ==
  ASSUME IInv, phase = "request", attempt + 1 < MaxAttempts, NEW delay \in Nat, Retry(delay)
  PROVE  IInv'
<1>1. /\ now \in Nat /\ now' = now + delay /\ attempt' = attempt + 1 /\ attempt \in Nat
      /\ MaxAttempts \in Nat /\ outcome = "none"
      /\ UNCHANGED <<phase, wait, expires, asked, user, decided, granted, poll, kept, outcome>>
  BY LoginAssumption DEF IInv, TypeOK, OutcomeIsLast, Retry
<1>2. now' \in Nat /\ now' >= now /\ attempt' \in 0..(MaxAttempts - 1) BY <1>1
<1>3. TypeOK' BY <1>1, <1>2 DEF IInv, TypeOK
<1>4. QED BY <1>1, <1>2, <1>3, Outside

LEMMA BackoffIsShort ==
  ASSUME attempt \in 0..(MaxAttempts - 1)
  PROVE  Backoff \in {1, 2, 4, 8}
<1>1. attempt \in {0, 1, 2, 3} BY LoginAssumption
<1>2. QED BY <1>1 DEF Backoff

LEMMA RequestTimesOutKeeps == IInv /\ RequestTimesOut => IInv'
<1> SUFFICES ASSUME IInv, RequestTimesOut PROVE IInv'
  OBVIOUS
<1>1. now \in Nat /\ attempt \in 0..(MaxAttempts - 1) /\ MaxAttempts \in Nat
  BY LoginAssumption DEF IInv, TypeOK
<1>2. CASE attempt + 1 >= MaxAttempts
  <2>1. Ends("TIMEOUT") /\ now' = now BY <1>2 DEF RequestTimesOut
  <2>2. "TIMEOUT" \in Codes \ {"LOGIN_EXPIRED"} BY DEF Codes
  <2>3. QED BY <1>1, <2>1, <2>2, Ending
<1>3. CASE attempt + 1 < MaxAttempts
  <2>1. Retry(Backoff) /\ phase = "request" BY <1>1, <1>3 DEF RequestTimesOut
  <2>2. Backoff \in Nat BY <1>1, BackoffIsShort
  <2>3. QED BY <1>3, <2>1, <2>2, Retrying
<1>4. QED BY <1>1, <1>2, <1>3

LEMMA RequestBusyKeeps == IInv /\ RequestBusy => IInv'
<1> SUFFICES ASSUME IInv, RequestBusy PROVE IInv'
  OBVIOUS
<1>1. now \in Nat /\ attempt \in 0..(MaxAttempts - 1) /\ MaxAttempts \in Nat
  BY LoginAssumption DEF IInv, TypeOK
<1>2. PICK limited \in BOOLEAN, hint \in RetryHints \cup {NoHint} :
        IF attempt + 1 >= MaxAttempts
        THEN Ends(IF limited THEN "RATE_LIMITED" ELSE "LOGIN_UNAVAILABLE") /\ UNCHANGED now
        ELSE Retry(RetryDelay(hint))
  BY DEF RequestBusy
<1>3. CASE attempt + 1 >= MaxAttempts
  <2>1. (IF limited THEN "RATE_LIMITED" ELSE "LOGIN_UNAVAILABLE") \in Codes \ {"LOGIN_EXPIRED"}
    BY DEF Codes
  <2>2. QED BY <1>1, <1>2, <1>3, <2>1, Ending
<1>4. CASE attempt + 1 < MaxAttempts
  <2>1. Retry(RetryDelay(hint)) /\ phase = "request" BY <1>1, <1>2, <1>4 DEF RequestBusy
  <2>2. RetryDelay(hint) \in Nat
    <3>1. CASE hint = NoHint
      <4>1. Backoff \in {1, 2, 4, 8} BY <1>1, BackoffIsShort
      <4>2. QED BY <3>1, <4>1 DEF RetryDelay, Least
    <3>2. CASE hint # NoHint
      <4>1. hint \in Int /\ IntervalCap \in Nat \ {0} BY <3>2, LoginAssumption
      <4>2. Clamp(hint, IntervalCap) \in Nat BY <4>1, ClampBounds
      <4>3. QED BY <3>2, <4>2 DEF RetryDelay
    <3>3. QED BY <3>1, <3>2
  <2>3. QED BY <1>4, <2>1, <2>2, Retrying
<1>5. QED BY <1>1, <1>3, <1>4

LEMMA CodeGivenKeeps == IInv /\ CodeGiven => IInv'
<1> SUFFICES ASSUME IInv, CodeGiven PROVE IInv'
  OBVIOUS
<1>1. PICK interval \in AskedIntervals, lifetime \in AskedLifetimes :
        /\ asked' = [interval |-> interval, closes |-> now + lifetime]
        /\ wait' = Clamp(interval, IntervalCap)
        /\ expires' = now' + Clamp(lifetime, ExpiryCap)
  BY DEF CodeGiven
<1>2. /\ phase = "request" /\ phase' = "show" /\ now' \in now..(now + RequestTimeout)
      /\ UNCHANGED <<attempt, user, decided, granted, poll, kept, outcome>>
  BY DEF CodeGiven, Takes
<1>3. now \in Nat /\ interval \in Int /\ lifetime \in Int /\ outcome = "none"
      /\ IntervalCap \in Nat \ {0} /\ ExpiryCap \in Nat \ {0} /\ RequestTimeout \in Nat
  BY <1>2, LoginAssumption DEF IInv, TypeOK, OutcomeIsLast
<1>4. now' \in Nat /\ now' >= now BY <1>2, <1>3
<1>5. /\ Clamp(interval, IntervalCap) \in 1..IntervalCap /\ Clamp(lifetime, ExpiryCap) \in 1..ExpiryCap
  BY <1>3, ClampBounds
<1>6. asked' \in [interval : Int, closes : Int] /\ asked'.interval = interval
  BY <1>1, <1>3
<1>7. wait' \in 0..IntervalCap /\ expires' \in Nat BY <1>1, <1>3, <1>4, <1>5
<1>8. TypeOK' BY <1>2, <1>4, <1>6, <1>7 DEF IInv, TypeOK, Phases
<1>9. Interval'
  <2>1. poll.slowed = 0 /\ poll.count = 0 BY <1>2 DEF IInv, Interval
  <2>2. SlowDownStep * 0 = 0 BY LoginAssumption
  <2>3. Least(IntervalCap, Clamp(interval, IntervalCap) + 0) = Clamp(interval, IntervalCap)
    BY <1>3, <1>5 DEF Least
  <2>4. QED BY <1>1, <1>2, <1>6, <2>1, <2>2, <2>3 DEF Interval, Spacing
<1>10. PendingIsBefore' /\ OutcomeIsLast' /\ PollsSpaced' /\ ApprovalCollected'
  BY <1>2, <1>3 DEF PendingIsBefore, OutcomeIsLast, PollsSpaced, ApprovalCollected
<1>11. QED BY <1>8, <1>9, <1>10 DEF IInv

LEMMA DecideKeeps == IInv /\ Decide => IInv'
<1> SUFFICES ASSUME IInv, Decide PROVE IInv'
  OBVIOUS
<1>1. /\ phase \in {"show", "sleep", "posted"} /\ user' \in {"approved", "denied"}
      /\ decided' = [at |-> now, during |-> phase = "posted"]
      /\ UNCHANGED <<now, phase, wait, granted, poll, outcome, attempt, expires, asked, kept>>
  BY DEF Decide, polling
<1>2. decided' \in [at : Nat, during : BOOLEAN] /\ (phase = "posted" => decided'.during)
  BY <1>1 DEF IInv, TypeOK
<1>3. TypeOK' BY <1>1, <1>2 DEF IInv, TypeOK
<1>4. outcome' = "none" BY <1>1 DEF IInv, OutcomeIsLast
<1>5. Interval' BY <1>1 DEF IInv, Interval, Spacing
<1>6. PendingIsBefore' BY <1>1, <1>2 DEF IInv, PendingIsBefore
<1>7. PollsSpaced' BY <1>1 DEF IInv, PollsSpaced
<1>8. OutcomeIsLast' /\ ApprovalCollected' BY <1>4 DEF OutcomeIsLast, ApprovalCollected
<1>9. QED BY <1>3, <1>5, <1>6, <1>7, <1>8 DEF IInv

LEMMA ServerReadsKeeps == IInv /\ ServerReads => IInv'
<1> SUFFICES ASSUME IInv, ServerReads PROVE IInv'
  OBVIOUS
<1>1. PICK reply \in Replies :
        /\ poll' = [poll EXCEPT !.answer = reply]
        /\ granted' = (granted \/ reply \in {"authorized", "malformed"})
  BY DEF ServerReads
<1>2. /\ phase = "posted"
      /\ UNCHANGED <<now, phase, wait, user, decided, outcome, attempt, expires, asked, kept>>
  BY DEF ServerReads, polling
<1>3. reply \in Answers /\ (reply = "pending" => user = "none")
  BY DEF Replies, Answers
<1>4. /\ poll \in Polls /\ poll' \in Polls /\ poll'.answer = reply
      /\ poll'.sent = poll.sent /\ poll'.before = poll.before
      /\ poll'.count = poll.count /\ poll'.slowed = poll.slowed
  <2>1. poll \in Polls BY DEF IInv, TypeOK, Polls
  <2>2. QED BY <1>1, <1>3, <2>1 DEF Polls
<1>5. TypeOK'
  <2>1. granted' \in BOOLEAN BY <1>1 DEF IInv, TypeOK
  <2>2. QED BY <1>2, <1>4, <2>1 DEF IInv, TypeOK, Polls
<1>6. outcome' = "none" BY <1>2 DEF IInv, OutcomeIsLast
<1>7. Interval' BY <1>2, <1>4 DEF IInv, Interval, Spacing
<1>8. PendingIsBefore' BY <1>2, <1>3, <1>4 DEF PendingIsBefore
<1>9. PollsSpaced' BY <1>2, <1>4 DEF IInv, PollsSpaced
<1>10. OutcomeIsLast' /\ ApprovalCollected' BY <1>6 DEF OutcomeIsLast, ApprovalCollected
<1>11. QED BY <1>5, <1>7, <1>8, <1>9, <1>10 DEF IInv

LEMMA SleepKeeps == IInv /\ Sleep => IInv'
<1> SUFFICES ASSUME IInv, Sleep PROVE IInv'
  OBVIOUS
<1>1. /\ phase = "sleep" /\ now' = now + wait /\ phase' = "posted"
      /\ poll' = [poll EXCEPT !.sent = now', !.before = poll.sent, !.count = @ + 1]
      /\ UNCHANGED <<outcome, wait, user, decided, granted, attempt, expires, asked, kept>>
  BY DEF Sleep, Post, polling
<1>2. /\ now \in Nat /\ wait \in Nat /\ poll \in Polls /\ outcome = "none"
      /\ wait = Spacing(poll.slowed) /\ (poll.count > 0 => poll.sent <= now)
  BY <1>1, LoginAssumption DEF IInv, TypeOK, OutcomeIsLast, Interval, Polls
<1>3. now' \in Nat /\ poll.sent \in Nat /\ poll.count \in Nat BY <1>1, <1>2 DEF Polls
<1>4. /\ poll' \in Polls /\ poll'.sent = now' /\ poll'.before = poll.sent
      /\ poll'.count = poll.count + 1 /\ poll'.slowed = poll.slowed /\ poll'.answer = poll.answer
  <2>1. poll.count + 1 \in Nat BY <1>3
  <2>2. QED BY <1>1, <1>2, <1>3, <2>1 DEF Polls
<1>5. TypeOK' BY <1>1, <1>3, <1>4 DEF IInv, TypeOK, Phases, Polls
<1>6. Interval' BY <1>1, <1>2, <1>3, <1>4 DEF Interval, Spacing
<1>7. PollsSpaced'
  <2>1. SUFFICES ASSUME poll'.count > 1 PROVE poll'.sent - poll'.before >= Spacing(poll.slowed)
    BY <1>1, <1>4 DEF PollsSpaced, Spacing
  <2>2. poll.sent <= now BY <1>2, <1>3, <1>4, <2>1
  <2>3. now' - poll.sent >= wait BY <1>1, <1>2, <1>3, <2>2
  <2>4. QED BY <1>2, <1>4, <2>3
<1>8. PendingIsBefore' BY <1>1, <1>4 DEF IInv, PendingIsBefore
<1>9. OutcomeIsLast' /\ ApprovalCollected'
  BY <1>1, <1>2 DEF OutcomeIsLast, ApprovalCollected
<1>10. QED BY <1>5, <1>6, <1>7, <1>8, <1>9 DEF IInv


LEMMA PollTimesOutKeeps == IInv /\ PollTimesOut => IInv'
<1> SUFFICES ASSUME IInv, PollTimesOut PROVE IInv'
  OBVIOUS
<1>1. phase = "posted" /\ now' = now + RequestTimeout /\ LoopOn(now', wait, <<"timeout", 0>>)
  BY DEF PollTimesOut
<1>2. now' \in Nat /\ now' >= now BY <1>1, LoginAssumption DEF IInv, TypeOK
<1>3. "timeout" \in Answers \cup {"timeout"} /\ 0 \in {0, 1} /\ phase \in {"show", "posted"}
  BY <1>1
<1>4. ("timeout" = "pending" => phase = "posted" /\ poll.answer = "pending")
      /\ ((0 = 0 /\ wait = wait) \/ (0 = 1 /\ wait = Slower))
  OBVIOUS
<1>5. QED BY <1>1, <1>2, <1>3, <1>4, Looping

LEMMA BeginPollingKeeps == IInv /\ BeginPolling => IInv'
<1> SUFFICES ASSUME IInv, BeginPolling PROVE IInv'
  OBVIOUS
<1>1. phase = "show" /\ now' \in now..(now + RequestTimeout) /\ LoopOn(now', wait, <<"none", 0>>)
  BY DEF BeginPolling, Takes
<1>2. now' \in Nat /\ now' >= now BY <1>1, LoginAssumption DEF IInv, TypeOK
<1>3. "none" \in Answers \cup {"timeout"} /\ 0 \in {0, 1} /\ phase \in {"show", "posted"}
  BY <1>1 DEF Answers
<1>4. ("none" = "pending" => phase = "posted" /\ poll.answer = "pending")
      /\ ((0 = 0 /\ wait = wait) \/ (0 = 1 /\ wait = Slower))
  OBVIOUS
<1>5. QED BY <1>1, <1>2, <1>3, <1>4, Looping

LEMMA HeardKeeps == IInv /\ Heard => IInv'
<1> SUFFICES ASSUME IInv, Heard PROVE IInv'
  OBVIOUS
<1>1. phase = "posted" /\ now' \in now..(now + RequestTimeout) /\ outcome = "none"
  BY DEF Heard, Takes, IInv, OutcomeIsLast
<1>2. now' \in Nat /\ now' >= now BY <1>1, LoginAssumption DEF IInv, TypeOK
<1>3. CASE poll.answer = "authorized"
  <2>1. /\ phase' = "exchange"
        /\ UNCHANGED <<wait, user, decided, granted, poll, outcome, attempt, expires, asked, kept>>
    BY <1>3 DEF Heard, polling
  <2>2. TypeOK' BY <1>2, <2>1 DEF IInv, TypeOK, Phases
  <2>3. QED BY <1>1, <1>2, <2>1, <2>2, Outside
<1>4. CASE poll.answer = "slow_down"
  <2>1. LoopOn(now', Slower, <<"slow_down", 1>>) BY <1>4 DEF Heard
  <2>2. "slow_down" \in Answers \cup {"timeout"} /\ 1 \in {0, 1} /\ phase \in {"show", "posted"}
    BY <1>1 DEF Answers
  <2>3. ("slow_down" = "pending" => phase = "posted" /\ poll.answer = "pending")
        /\ ((1 = 0 /\ Slower = wait) \/ (1 = 1 /\ Slower = Slower))
    OBVIOUS
  <2>4. QED BY <1>2, <2>1, <2>2, <2>3, Looping
<1>5. CASE poll.answer = "pending"
  <2>1. LoopOn(now', wait, <<"pending", 0>>) BY <1>5 DEF Heard
  <2>2. "pending" \in Answers \cup {"timeout"} /\ 0 \in {0, 1} /\ phase \in {"show", "posted"}
    BY <1>1 DEF Answers
  <2>3. ("pending" = "pending" => phase = "posted" /\ poll.answer = "pending")
        /\ ((0 = 0 /\ wait = wait) \/ (0 = 1 /\ wait = Slower))
    BY <1>1, <1>5
  <2>4. QED BY <1>2, <2>1, <2>2, <2>3, Looping
<1>6. CASE poll.answer \notin {"authorized", "slow_down", "pending"}
  <2>1. PICK code \in {"RESPONSE_INVALID", "ACCESS_DENIED", "EXPIRED_BY_SERVER", "LOGIN_UNAVAILABLE"} :
          Ends(code)
    BY <1>6 DEF Heard
  <2>2. code \in Codes \ {"LOGIN_EXPIRED"} BY DEF Codes
  <2>3. QED BY <1>2, <2>1, <2>2, Ending
<1>7. QED BY <1>3, <1>4, <1>5, <1>6

(* The actions that end the login with the clock standing still, and those *)
(* that come after the last poll.                                          *)
LEMMA EndingsKeep ==
  ASSUME IInv, RequestRefused \/ PollBreaks \/ ExchangeFails \/ Interrupt
  PROVE  IInv'
<1>1. now \in Nat /\ now' = now
  BY DEF IInv, TypeOK, RequestRefused, PollBreaks, ExchangeFails, Interrupt
<1>2. PICK code \in {"LOGIN_UNAVAILABLE", "RESPONSE_INVALID", "TIMEOUT", "RATE_LIMITED", "CANCELLED"} :
        Ends(code)
  BY DEF RequestRefused, PollBreaks, ExchangeFails, Interrupt
<1>3. code \in Codes \ {"LOGIN_EXPIRED"} BY DEF Codes
<1>4. QED BY <1>1, <1>2, <1>3, Ending

LEMMA CollectingKeeps ==
  ASSUME IInv, Exchange \/ Save \/ Choose
  PROVE  IInv'
<1>1. now \in Nat /\ now' = now /\ outcome = "none"
  BY DEF IInv, TypeOK, OutcomeIsLast, Exchange, Save, Choose
<1>2. CASE Exchange
  <2>1. /\ phase' = "save"
        /\ UNCHANGED <<now, wait, user, decided, granted, poll, outcome, attempt, expires, asked, kept>>
    BY <1>2 DEF Exchange, polling
  <2>2. TypeOK' BY <2>1 DEF IInv, TypeOK, Phases
  <2>3. QED BY <1>1, <2>1, <2>2, Outside
<1>3. CASE Save
  <2>1. CASE Ends("NOT_STORED")
    <3>1. "NOT_STORED" \in Codes \ {"LOGIN_EXPIRED"} BY DEF Codes
    <3>2. QED BY <1>1, <2>1, <3>1, Ending
  <2>2. CASE phase' = "choose" /\ kept' = [kept EXCEPT !.tokens = TRUE]
             /\ UNCHANGED <<now, attempt, wait, expires, asked, user, decided, granted, poll, outcome>>
    <3>1. TypeOK' BY <2>2 DEF IInv, TypeOK, Phases
    <3>2. QED BY <1>1, <2>2, <3>1, Outside
  <2>3. QED BY <1>3, <2>1, <2>2 DEF Save
<1>4. CASE Choose
  <2>1. CASE Ends("STATE_ERROR")
    <3>1. "STATE_ERROR" \in Codes \ {"LOGIN_EXPIRED"} BY DEF Codes
    <3>2. QED BY <1>1, <2>1, <3>1, Ending
  <2>2. CASE kept' = [kept EXCEPT !.provider = TRUE] /\ End("SUCCESS")
             /\ UNCHANGED <<now, attempt, wait, expires, asked, user, decided, granted, poll>>
    <3>1. phase' = "ended" /\ outcome' = "SUCCESS" BY <2>2 DEF End
    <3>2. TypeOK' BY <2>2, <3>1 DEF IInv, TypeOK, Phases, Codes
    <3>3. QED BY <1>1, <2>2, <3>1, <3>2, Outside
  <2>3. QED BY <1>4, <2>1, <2>2 DEF Choose
<1>5. QED BY <1>2, <1>3, <1>4

----------------------------------------------------------------------------
LEMMA InitIsGood == Init => IInv
<1> SUFFICES ASSUME Init PROVE IInv
  OBVIOUS
<1>1. TypeOK
  <2>1. poll \in Polls
    <3>1. "none" \in Answers BY DEF Answers
    <3>2. QED BY <3>1 DEF Init, Polls
  <2>2. 0 \in 0..(MaxAttempts - 1) /\ 0 \in 0..IntervalCap BY LoginAssumption
  <2>3. "none" \in Codes /\ "request" \in Phases BY DEF Codes, Phases
  <2>4. /\ now = 0 /\ phase = "request" /\ attempt = 0 /\ wait = 0 /\ expires = 0
        /\ user = "none" /\ granted = FALSE /\ outcome = "none"
    BY DEF Init
  <2>5. /\ asked \in [interval : Int, closes : Int] /\ decided \in [at : Nat, during : BOOLEAN]
        /\ kept \in [tokens : BOOLEAN, provider : BOOLEAN]
    BY DEF Init
  <2>6. QED BY <2>1, <2>2, <2>3, <2>4, <2>5 DEF TypeOK, Polls
<1>2. Interval /\ PendingIsBefore /\ OutcomeIsLast /\ PollsSpaced /\ ApprovalCollected
  BY DEF Init, Interval, PendingIsBefore, OutcomeIsLast, PollsSpaced, ApprovalCollected
<1>3. QED BY <1>1, <1>2 DEF IInv

LEMMA StepsKeep == IInv /\ [Next]_vars => IInv'
<1> SUFFICES ASSUME IInv, [Next]_vars PROVE IInv'
  OBVIOUS
<1>1. CASE Next
  BY <1>1, RequestTimesOutKeeps, RequestBusyKeeps, CodeGivenKeeps, DecideKeeps, ServerReadsKeeps,
     BeginPollingKeeps, SleepKeeps, PollTimesOutKeeps, HeardKeeps, EndingsKeep, CollectingKeeps
     DEF Next
<1>2. CASE UNCHANGED vars
  BY <1>2 DEF vars, IInv, TypeOK, Interval, Spacing, PendingIsBefore, OutcomeIsLast, PollsSpaced,
              ApprovalCollected
<1>3. QED BY <1>1, <1>2

LEMMA Inductive == Spec => []IInv
BY InitIsGood, StepsKeep, PTL DEF Spec

(* The polls keep their distance: for every interval the server asks for,  *)
(* every cap and every number of slow-downs, the loop never polls sooner   *)
(* after a poll than it promised to.                                       *)
THEOREM PollsKeepDistance == Spec => []PollsSpaced
<1>1. IInv => PollsSpaced BY DEF IInv
<1>2. QED BY Inductive, <1>1, PTL

(* A login that gives up on its own clock has let the lifetime pass, and   *)
(* a last answer "pending" proves that the user approved too late, or      *)
(* while that very poll was on its way.                                    *)
THEOREM ApprovalIsCollected == Spec => []ApprovalCollected
<1>1. IInv => ApprovalCollected BY DEF IInv
<1>2. QED BY Inductive, <1>1, PTL
=============================================================================
