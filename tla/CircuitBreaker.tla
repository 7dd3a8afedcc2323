---------------------------- MODULE CircuitBreaker ----------------------------
(***************************************************************************)
(* The per-host circuit breaker (Scripts/circuit_breaker.py) and the       *)
(* requests that share it (Scripts/async_fetchers.py).  The scan, the      *)
(* micro loops and the callbacks send requests to one host from threads of *)
(* their own; a listing asks allow() once and then sends many pages.       *)
(*                                                                         *)
(* The breaker's clock is kept as the age of _opened_at, which stops       *)
(* counting at CoolDown: allow() asks only whether it got there.  For the  *)
(* same reason _consecutive_failures stops at FailureThreshold.            *)
(***************************************************************************)
EXTENDS Integers

CONSTANTS
  Requests,          \* requests that can be under way at once
  FailureThreshold,  \* failure_threshold
  SuccessThreshold,  \* success_threshold
  CoolDown           \* cool_down_seconds

ASSUME FailureAssumption == FailureThreshold \in Nat \ {0}
ASSUME SuccessAssumption == SuccessThreshold \in Nat \ {0}
ASSUME CoolDownAssumption == CoolDown \in Nat

VARIABLES
  state,      \* _state
  failures,   \* _consecutive_failures
  successes,  \* _consecutive_successes
  age,        \* time since _opened_at, or Unset
  pending,    \* how many alerts wait in _pending_callbacks
  stage,      \* where each request stands
  granted,    \* requests whose allow() has decided True and not returned yet
  quiet       \* time since the breaker last opened (history)

breakerVars == <<state, failures, successes, age, pending, stage, granted, quiet>>

breaker == <<state, failures, successes, age, quiet>>

Unset == -1

\* "draining" looks at the alert queue without the lock, "taking" is about to
\* empty it under the lock, "alerting" is posting what it took.
Stages == {"idle", "sent", "draining", "taking", "alerting"}

BreakerTypeOK ==
  /\ state \in {"closed", "open", "half_open"}
  /\ failures \in 0..FailureThreshold
  /\ successes \in 0..(SuccessThreshold - 1)
  /\ age \in {Unset} \cup 0..CoolDown
  /\ pending \in Nat
  /\ stage \in [Requests -> Stages]
  /\ granted \subseteq Requests
  /\ quiet \in 0..CoolDown
  /\ state = "closed" <=> age = Unset
  /\ state = "closed" => failures < FailureThreshold
  /\ state # "half_open" => successes = 0

BreakerInit ==
  /\ state = "closed"
  /\ failures = 0
  /\ successes = 0
  /\ age = Unset
  /\ pending = 0
  /\ stage = [r \in Requests |-> "idle"]
  /\ granted = {}
  /\ quiet = CoolDown

------------------------------------------------------------------------------
\* allow, on_success, on_failure: each runs under the lock and drains the
\* alerts after releasing it

Goto(r, s) == stage' = [stage EXCEPT ![r] = s]

\* The request goes out, with the other pages of its listing.
Send(r) ==
  \E pages \in SUBSET {q \in Requests : stage[q] = "idle"} :
    stage' = [q \in Requests |-> IF q = r \/ q \in pages THEN "sent" ELSE stage[q]]

Grant(r, yes) == granted' = IF yes THEN granted \cup {r} ELSE granted \ {r}

\* A closed breaker lets the request go at once.
AllowClosed(r) ==
  /\ state = "closed"
  /\ Send(r)
  /\ UNCHANGED <<breaker, pending, granted>>

\* Fault: every probe starts the count of successes again.
AllowRestartsCount(r) ==
  /\ state = "half_open"
  /\ successes' = 0
  /\ Goto(r, "draining") /\ Grant(r, TRUE)
  /\ UNCHANGED <<state, failures, age, quiet, pending>>

\* A half-open breaker lets every request go.
AllowHalfOpen(r) ==
  /\ state = "half_open"
  /\ Goto(r, "draining") /\ Grant(r, TRUE)
  /\ UNCHANGED <<breaker, pending>>

\* Fault: the request that ends the cool-down leaves before the drain.
HalfOpenSkipsDrain(r) ==
  /\ state = "open" /\ age = CoolDown
  /\ state' = "half_open" /\ successes' = 0 /\ quiet' = CoolDown
  /\ pending' = pending + 1
  /\ Send(r)
  /\ UNCHANGED <<failures, age, granted>>

\* An open breaker turns half-open for the first request after the cool-down.
HalfOpen(r) ==
  /\ state = "open" /\ age = CoolDown
  /\ state' = "half_open" /\ successes' = 0 /\ quiet' = CoolDown
  /\ pending' = pending + 1
  /\ Goto(r, "draining") /\ Grant(r, TRUE)
  /\ UNCHANGED <<failures, age>>

Deny(r) ==
  /\ state = "open" /\ age # CoolDown
  /\ Goto(r, "draining") /\ Grant(r, FALSE)
  /\ UNCHANGED <<breaker, pending>>

Allow(r) ==
  /\ stage[r] = "idle"
  /\ AllowClosed(r) \/ AllowHalfOpen(r) \/ HalfOpen(r) \/ Deny(r)

\* A usable answer; enough of them in a row close a half-open breaker.
OnSuccess(r) ==
  /\ stage[r] = "sent"
  /\ failures' = 0
  /\ IF state = "half_open" /\ successes + 1 >= SuccessThreshold
       THEN /\ state' = "closed" /\ successes' = 0 /\ age' = Unset
            /\ pending' = pending + 1
       ELSE /\ successes' = IF state = "half_open" THEN successes + 1 ELSE successes
            /\ UNCHANGED <<state, age, pending>>
  /\ Goto(r, "draining") /\ Grant(r, FALSE)
  /\ UNCHANGED quiet

CountFailure == IF failures < FailureThreshold THEN failures + 1 ELSE failures

\* Fault: the breaker opens one failure late.
TripsLate == state = "half_open" \/ (state = "closed" /\ failures = FailureThreshold)

\* A failed probe opens the breaker, and so does the last of FailureThreshold
\* failures in a row.
Trips == state = "half_open" \/ (state = "closed" /\ CountFailure = FailureThreshold)

\* Fault: a failed probe opens the breaker with the old _opened_at.
TripKeepsClock ==
  /\ state' = "open" /\ quiet' = 0 /\ pending' = pending + 1
  /\ age' = IF state = "half_open" THEN age ELSE 0

Trip ==
  /\ state' = "open" /\ quiet' = 0 /\ pending' = pending + 1
  /\ age' = 0

\* A refusal, a server error or an exception.
OnFailure(r) ==
  /\ stage[r] = "sent"
  /\ successes' = 0
  /\ failures' = CountFailure
  /\ IF Trips THEN Trip ELSE UNCHANGED <<state, age, quiet, pending>>
  /\ Goto(r, "draining") /\ Grant(r, FALSE)

\* A client error says nothing of the host: neither success nor failure.
SkipClientErr(r) ==
  /\ stage[r] = "sent"
  /\ Goto(r, "idle")
  /\ UNCHANGED <<breaker, pending, granted>>

------------------------------------------------------------------------------
\* _drain_pending_callbacks

\* The call returns, and a request that was allowed goes out.
Leave(r) ==
  /\ IF r \in granted THEN Send(r) ELSE Goto(r, "idle")
  /\ granted' = granted \ {r}

\* The queue is looked at without the lock.
Drain(r) ==
  /\ stage[r] = "draining"
  /\ IF pending = 0
       THEN Leave(r)
       ELSE Goto(r, "taking") /\ UNCHANGED granted
  /\ UNCHANGED <<breaker, pending>>

\* The queue is emptied under the lock; another thread may have been first.
Take(r) ==
  /\ stage[r] = "taking"
  /\ pending' = 0
  /\ Goto(r, "alerting")
  /\ UNCHANGED <<breaker, granted>>

\* Every alert taken was posted or has failed.
Alerted(r) ==
  /\ stage[r] = "alerting"
  /\ Leave(r)
  /\ UNCHANGED <<breaker, pending>>

------------------------------------------------------------------------------

Older(a) == IF a \in 0..(CoolDown - 1) THEN a + 1 ELSE a

Tick ==
  /\ age' = Older(age)
  /\ quiet' = Older(quiet)
  /\ <<age, quiet>>' # <<age, quiet>>
  /\ UNCHANGED <<state, failures, successes, pending, stage, granted>>

BreakerNext ==
  \/ \E r \in Requests :
       \/ Allow(r) \/ OnSuccess(r) \/ OnFailure(r) \/ SkipClientErr(r)
       \/ Drain(r) \/ Take(r) \/ Alerted(r)
  \/ Tick

BreakerSpec == BreakerInit /\ [][BreakerNext]_breakerVars

\* Time passes, the radar keeps asking, calls return, and requests keep being
\* answered with something other than a client error.
BreakerFairness ==
  /\ WF_breakerVars(Tick)
  /\ \A r \in Requests :
       /\ WF_breakerVars(Allow(r))
       /\ WF_breakerVars(Drain(r) \/ Take(r) \/ Alerted(r))
       /\ SF_breakerVars(OnSuccess(r) \/ OnFailure(r))

BreakerFairSpec == BreakerSpec /\ BreakerFairness

------------------------------------------------------------------------------
\* Properties

\* A breaker that opened stays open, and grants no request, until a whole
\* cool-down has gone by since it last opened, whatever the requests still
\* under way report meanwhile.
QuietPeriod ==
  [][state = "open" /\ quiet < CoolDown =>
       state' = "open" /\ granted' \subseteq granted]_breakerVars

\* The queue is checked without the lock and emptied under it, yet an alert
\* in the queue always has a thread on its way to take it.
NoAlertStranded ==
  pending > 0 => \E r \in Requests : stage[r] \in {"draining", "taking"}

\* An open breaker is retried and a half-open one resolves: it stays in
\* neither under any sequence of failures, late successes and cool-downs, as
\* long as the host answers.
NeverStuck == \A s \in {"open", "half_open"} : state = s ~> state # s

==============================================================================
