---------------------------- MODULE DeviceLogin ----------------------------
(***************************************************************************)
(* "netsage ai codex login": the device authorization                      *)
(* (src/src/netsage/ai/providers/openai_codex/oauth.py) and the command    *)
(* that runs it (cli/ai_commands.py, codex_oauth_login).  NetSage asks for *)
(* a code, the user approves it in a browser, and NetSage polls until the  *)
(* server hands out an authorization code or its own clock says the code   *)
(* expired.  Sleeps, answers and the user's decision are separate steps, so *)
(* that the decision and the expiry fall anywhere between them.            *)
(***************************************************************************)
EXTENDS Integers, Sequences

CONSTANTS IntervalCap,     \* the largest interval, and the largest Retry-After
          SlowDownStep,    \* CODEX_DEVICE_AUTH_SLOW_DOWN_SECONDS
          ExpiryCap,       \* CODEX_DEVICE_AUTH_DEFAULT_EXPIRY_SECONDS
          RequestTimeout,  \* request_timeout
          MaxAttempts,     \* max_transient_attempts
          AskedIntervals, AskedLifetimes, \* what the server may ask for
          RetryHints,      \* the values of Retry-After
          NoHint           \* no usable Retry-After

ASSUME LoginAssumption ==
  /\ IntervalCap \in Nat \ {0} /\ SlowDownStep \in Nat /\ ExpiryCap \in Nat \ {0}
  /\ RequestTimeout \in Nat /\ MaxAttempts \in 1..4
  /\ AskedIntervals \subseteq Int /\ AskedLifetimes \subseteq Int /\ RetryHints \subseteq Int
  /\ NoHint \notin Int

VARIABLES now,      \* the clock, in the units of the constants
          phase,    \* what the login does
          attempt,  \* of the request for a device code
          wait,     \* the interval between polls
          expires,  \* authorization.expires_at
          asked,    \* the interval and lifetime the server gave: the code's own terms
          user,     \* the user's decision: "none", "approved", "denied"
          decided,  \* when, and whether a poll was under way
          granted,  \* whether the server handed out an authorization code
          poll,     \* the poll: when it was sent and the one before, the answer under way,
                    \* what NetSage heard last, and the slow-downs it heard
          kept,     \* what is stored: the tokens, and the choice of the provider
          outcome   \* what the command says
vars == <<now, phase, attempt, wait, expires, asked, user, decided, granted, poll, kept, outcome>>
polling == <<attempt, expires, asked, kept>>

Phases == {"request", "show", "sleep", "posted", "exchange", "save", "choose", "ended"}

Least(a, b) == IF a < b THEN a ELSE b
Most(a, b) == IF a > b THEN a ELSE b
Clamp(value, cap) == Most(1, Least(value, cap))

Init ==
  /\ now = 0 /\ phase = "request" /\ attempt = 0 /\ wait = 0 /\ expires = 0
  /\ asked = [interval |-> 0, closes |-> 0]
  /\ user = "none" /\ decided = [at |-> 0, during |-> FALSE] /\ granted = FALSE
  /\ poll = [sent |-> 0, before |-> 0, count |-> 0, slowed |-> 0, answer |-> "none", heard |-> "none"]
  /\ kept = [tokens |-> FALSE, provider |-> FALSE]
  /\ outcome = "none"

End(code) == phase' = "ended" /\ outcome' = code
Ends(code) ==
  /\ End(code)
  /\ UNCHANGED <<wait, user, decided, granted, poll>> /\ UNCHANGED polling
Takes == now' \in now..(now + RequestTimeout)

----------------------------------------------------------------------------
(* request_device_authorization.                                           *)

\* What a retry sleeps after a timeout, and after a 429, 502, 503 or 504.
Backoff == <<1, 2, 4, 8>>[attempt + 1]
RetryDelay(hint) == IF hint = NoHint THEN Least(Backoff, 8) ELSE Clamp(hint, IntervalCap)

Retry(delay) ==
  /\ now' = now + delay /\ attempt' = attempt + 1
  /\ UNCHANGED <<phase, wait, expires, asked, user, decided, granted, poll, kept, outcome>>

RequestTimesOut ==
  /\ phase = "request"
  /\ IF attempt + 1 >= MaxAttempts THEN Ends("TIMEOUT") /\ UNCHANGED now ELSE Retry(Backoff)

RequestBusy ==
  /\ phase = "request"
  /\ \E limited \in BOOLEAN, hint \in RetryHints \cup {NoHint} :
       IF attempt + 1 >= MaxAttempts
       THEN Ends(IF limited THEN "RATE_LIMITED" ELSE "LOGIN_UNAVAILABLE") /\ UNCHANGED now
       ELSE Retry(RetryDelay(hint))

\* No connection, another status, or a body that is no device code.
RequestRefused ==
  /\ phase = "request"
  /\ \E code \in {"LOGIN_UNAVAILABLE", "RESPONSE_INVALID"} : Ends(code)
  /\ UNCHANGED now

CodeGiven ==
  /\ phase = "request" /\ Takes
  /\ \E interval \in AskedIntervals, lifetime \in AskedLifetimes :
       /\ asked' = [interval |-> interval, closes |-> now + lifetime]
       /\ wait' = Clamp(interval, IntervalCap)
       /\ expires' = now' + Clamp(lifetime, ExpiryCap)
  /\ phase' = "show"
  /\ UNCHANGED <<attempt, user, decided, granted, poll, kept, outcome>>

----------------------------------------------------------------------------
(* The user and the server.                                                *)

\* The browser is open from the moment the code is shown.
Decide ==
  /\ phase \in {"show", "sleep", "posted"} /\ user = "none" /\ now < asked.closes
  /\ user' \in {"approved", "denied"}
  /\ decided' = [at |-> now, during |-> phase = "posted"]
  /\ UNCHANGED <<now, phase, wait, granted, poll, outcome>> /\ UNCHANGED polling

\* The server may put off or fail any poll; it hands out a code only for an
\* approval, and may or may not hand it out a second time.
Replies ==
  {"slow_down", "failed"}
  \cup (IF user = "approved" THEN {"authorized", "malformed"} ELSE {})
  \cup (IF user = "denied" THEN {"access_denied"} ELSE {})
  \cup (IF user = "none" /\ now < asked.closes THEN {"pending"} ELSE {})
  \cup (IF granted \/ now >= asked.closes THEN {"expired"} ELSE {})

ServerReads ==
  /\ phase = "posted" /\ poll.answer = "none"
  /\ \E reply \in Replies :
       /\ poll' = [poll EXCEPT !.answer = reply]
       /\ granted' = (granted \/ reply \in {"authorized", "malformed"})
  /\ UNCHANGED <<now, phase, wait, user, decided, outcome>> /\ UNCHANGED polling

----------------------------------------------------------------------------
(* complete_device_authorization.                                          *)

\* The loop's condition, before each sleep.
LoopOn(clock, interval, heard) ==
  /\ poll' = [poll EXCEPT !.answer = "none", !.heard = heard[1], !.slowed = @ + heard[2]]
  /\ wait' = interval
  /\ IF clock < expires THEN phase' = "sleep" /\ UNCHANGED outcome ELSE End("LOGIN_EXPIRED")
  /\ UNCHANGED <<user, decided, granted>> /\ UNCHANGED polling

\* The page is opened, which may take as long as a request.
BeginPolling == phase = "show" /\ Takes /\ LoopOn(now', wait, <<"none", 0>>)

(* Mutant: the expiry is looked at again after the sleep.                  *)
Post_Rechecks(clock) ==
  IF clock >= expires
  THEN End("LOGIN_EXPIRED") /\ UNCHANGED poll
  ELSE /\ phase' = "posted" /\ UNCHANGED outcome
       /\ poll' = [poll EXCEPT !.sent = clock, !.before = poll.sent, !.count = @ + 1]
Post(clock) ==
  /\ phase' = "posted" /\ UNCHANGED outcome
  /\ poll' = [poll EXCEPT !.sent = clock, !.before = poll.sent, !.count = @ + 1]

\* The poll is sent whatever the clock says after the sleep.
Sleep ==
  /\ phase = "sleep"
  /\ now' = now + wait
  /\ Post(now')
  /\ UNCHANGED <<wait, user, decided, granted>> /\ UNCHANGED polling

PollTimesOut ==
  /\ phase = "posted"
  /\ now' = now + RequestTimeout
  /\ LoopOn(now', wait, <<"timeout", 0>>)

PollBreaks == phase = "posted" /\ Ends("LOGIN_UNAVAILABLE") /\ UNCHANGED now

(* Mutant: every slow-down starts from the interval first asked for.       *)
Slower_Once == Least(IntervalCap, Clamp(asked.interval, IntervalCap) + SlowDownStep)
Slower == Least(IntervalCap, wait + SlowDownStep)

\* The code says LOGIN_EXPIRED of the server's expiry as of its own clock's;
\* here the two have different names.
Heard ==
  /\ phase = "posted" /\ poll.answer # "none" /\ Takes
  /\ CASE poll.answer = "authorized" ->
            phase' = "exchange" /\ UNCHANGED <<wait, user, decided, granted, poll, outcome>>
            /\ UNCHANGED polling
       [] poll.answer = "malformed" -> Ends("RESPONSE_INVALID")
       [] poll.answer = "slow_down" -> LoopOn(now', Slower, <<"slow_down", 1>>)
       [] poll.answer = "access_denied" -> Ends("ACCESS_DENIED")
       [] poll.answer = "expired" -> Ends("EXPIRED_BY_SERVER")
       [] poll.answer = "pending" -> LoopOn(now', wait, <<"pending", 0>>)
       [] OTHER -> Ends("LOGIN_UNAVAILABLE")

\* _exchange_authorization_code: one request, never repeated.
ExchangeFails ==
  /\ phase = "exchange"
  /\ \E code \in {"TIMEOUT", "LOGIN_UNAVAILABLE", "RATE_LIMITED", "RESPONSE_INVALID"} : Ends(code)
  /\ UNCHANGED now

Exchange ==
  /\ phase = "exchange" /\ phase' = "save"
  /\ UNCHANGED <<now, wait, user, decided, granted, poll, outcome>> /\ UNCHANGED polling

----------------------------------------------------------------------------
(* codex_oauth_login.                                                      *)

Save ==
  /\ phase = "save"
  /\ \/ Ends("NOT_STORED") /\ UNCHANGED now
     \/ /\ phase' = "choose" /\ kept' = [kept EXCEPT !.tokens = TRUE]
        /\ UNCHANGED <<now, attempt, wait, expires, asked, user, decided, granted, poll, outcome>>

\* The choice is written after the tokens; it may fail with them stored.
Choose ==
  /\ phase = "choose"
  /\ \/ Ends("STATE_ERROR") /\ UNCHANGED now
     \/ /\ kept' = [kept EXCEPT !.provider = TRUE] /\ End("SUCCESS")
        /\ UNCHANGED <<now, attempt, wait, expires, asked, user, decided, granted, poll>>

\* Ctrl+C; the command says that nothing was stored.
Interrupt == phase # "ended" /\ Ends("CANCELLED") /\ UNCHANGED now

Next ==
  \/ RequestTimesOut \/ RequestBusy \/ RequestRefused \/ CodeGiven
  \/ Decide \/ ServerReads
  \/ BeginPolling \/ Sleep \/ PollTimesOut \/ PollBreaks \/ Heard
  \/ ExchangeFails \/ Exchange \/ Save \/ Choose \/ Interrupt

Spec == Init /\ [][Next]_vars

----------------------------------------------------------------------------
Answers == {"none", "authorized", "malformed", "slow_down", "failed", "access_denied",
            "pending", "expired"}
Codes == {"none", "TIMEOUT", "RATE_LIMITED", "LOGIN_UNAVAILABLE", "RESPONSE_INVALID",
          "LOGIN_EXPIRED", "ACCESS_DENIED", "EXPIRED_BY_SERVER", "NOT_STORED", "STATE_ERROR",
          "CANCELLED", "SUCCESS"}
TypeOK ==
  /\ now \in Nat /\ phase \in Phases /\ attempt \in 0..(MaxAttempts - 1)
  /\ wait \in 0..IntervalCap /\ expires \in Nat
  /\ asked \in [interval : Int, closes : Int]
  /\ user \in {"none", "approved", "denied"} /\ decided \in [at : Nat, during : BOOLEAN]
  /\ granted \in BOOLEAN
  /\ poll \in [sent : Nat, before : Nat, count : Nat, slowed : Nat,
               answer : Answers, heard : Answers \cup {"timeout"}]
  /\ kept \in [tokens : BOOLEAN, provider : BOOLEAN] /\ outcome \in Codes

(* The polling interval survives everything the loop does: two polls are   *)
(* never closer than the interval the server asked for, grown by every     *)
(* slow-down heard so far and held at the cap, whatever timeouts and       *)
(* pending answers came between (docs/providers/openai-codex.md, "Polling  *)
(* honors the returned interval, authorization_pending, slow_down").       *)
PollsSpaced ==
  phase = "posted" /\ poll.count > 1 =>
    poll.sent - poll.before >=
      Least(IntervalCap, Clamp(asked.interval, IntervalCap) + SlowDownStep * poll.slowed)

(* An approval in time is collected: when the login gives up on its own    *)
(* clock, the clock is past the expiry, and if the last poll was answered  *)
(* "pending" the user had not approved before the expiry, unless while     *)
(* that poll was on its way.                                               *)
ApprovalCollected ==
  outcome = "LOGIN_EXPIRED" =>
    /\ now >= expires
    /\ poll.heard = "pending" /\ user = "approved" /\ decided.at < expires => decided.during
=============================================================================
