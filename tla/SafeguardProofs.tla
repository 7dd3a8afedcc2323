--------------------------- MODULE SafeguardProofs ----------------------------
(***************************************************************************)
(* The three safeguards between a deal and its orders, each on its own     *)
(* specification: the claims of FireDispatch, CircuitBreaker before a request *)
(* to Limitless, and KillSwitch over what is fired.                        *)
(***************************************************************************)
EXTENDS FireDispatch, CircuitBreaker, KillSwitch, TLAPS

------------------------------------------------------------------------------
(***************************************************************************)
(* FireDispatch, for any number of callers and deals: type correctness and *)
(* the exclusiveness of claims.                                            *)
(***************************************************************************)

\* A deal in a caller's hand is tracked under that caller's claim, unless
\* the claim is past its cooldown or fell to the hard cap.
HeldIsTracked ==
  \A c \in Callers : \A k \in InHand(c) :
    \/ k \in capped
    \/ now - stamp[c] > Cooldown
    \/ k \in DOMAIN tracked /\ tracked[k] = stamp[c]

DispatchInv == DispatchTypeOK /\ HeldIsTracked /\ ClaimsExclusive

------------------------------------------------------------------------------
\* Steps outside the store's lock

\* A step that leaves the store alone and takes nothing new in hand keeps
\* the claims as they are.
LEMMA OutsideTheLock ==
  ASSUME DispatchInv, DispatchTypeOK', UNCHANGED store, now <= now',
         \A c \in Callers : /\ InHand(c)' \subseteq InHand(c)
                            /\ InHand(c)' # {} => stamp'[c] = stamp[c]
  PROVE  DispatchInv'
<1>1. now \in Int /\ now' \in Int /\ Cooldown \in Int
  BY CooldownAssumption, HorizonAssumption DEF DispatchInv, DispatchTypeOK
<1>2. \A c \in Callers : stamp[c] \in Int
  BY DEF DispatchInv, DispatchTypeOK
<1>3. tracked' = tracked /\ capped' = capped
  BY DEF store
<1>4. HeldIsTracked'
  BY <1>1, <1>2, <1>3 DEF DispatchInv, HeldIsTracked
<1>5. ClaimsExclusive'
  BY <1>1, <1>2, <1>3 DEF DispatchInv, ClaimsExclusive
<1> QED
  BY <1>4, <1>5 DEF DispatchInv

\* Every step of a caller or of the executors other than reserve, and the
\* clock.
LEMMA QuietSteps ==
  ASSUME DispatchInv, NEW c \in Callers,
         \/ Enter(c) \/ Dispatch(c) \/ PostFails(c) \/ PostTimesOut(c)
         \/ PythonReturns(c) \/ TsStarts(c) \/ TsAnswers(c) \/ TsEnds(c) \/ ClockTick
  PROVE  DispatchInv'
<1> USE DEF InHand
<1>1. DispatchTypeOK
  BY DEF DispatchInv
<1>2. CASE Enter(c)
  <2>1. InHand(c) = {}
    BY <1>1, <1>2 DEF DispatchTypeOK, Enter
  <2>2. DispatchTypeOK'
    BY <1>1, <1>2, <2>1 DEF DispatchTypeOK, Enter, CallerStages, store
  <2>3. \A d \in Callers : InHand(d)' = InHand(d) /\ (d # c => stamp'[d] = stamp[d])
    BY <1>1, <1>2 DEF DispatchTypeOK, Enter
  <2> QED
    BY <1>1, <1>2, <2>1, <2>2, <2>3, OutsideTheLock DEF Enter, DispatchTypeOK
<1>3. CASE Dispatch(c)
  <2>1. PICK k \in todo[c] : /\ firing' = [firing EXCEPT ![c] = {k}]
                             /\ todo' = [todo EXCEPT ![c] = @ \ {k}]
    BY <1>3 DEF Dispatch
  <2>2. k \in Keys
    BY <1>1, <2>1 DEF DispatchTypeOK
  <2>3. DispatchTypeOK'
    BY <1>1, <1>3, <2>1, <2>2 DEF DispatchTypeOK, Dispatch, CallerStages, store
  <2>4. \A d \in Callers : InHand(d)' \subseteq InHand(d)
    BY <1>1, <2>1 DEF DispatchTypeOK
  <2> QED
    BY <1>1, <1>3, <2>3, <2>4, OutsideTheLock DEF Dispatch, DispatchTypeOK
<1>4. ASSUME NEW next \in {"running", "python", "both"},
             at[c] \in {"posted", "running", "both"}, FallBack(c, next)
      PROVE  DispatchInv'
  <2>1. DispatchTypeOK'
    BY <1>1, <1>4 DEF DispatchTypeOK, FallBack, CallerStages, store
  <2> QED
    BY <1>1, <1>4, <2>1, OutsideTheLock DEF FallBack, DispatchTypeOK
<1>5. CASE PostFails(c) \/ PostTimesOut(c) \/ TsEnds(c)
  BY <1>4, <1>5 DEF PostFails, PostTimesOut, TsEnds
<1>6. CASE TsStarts(c)
  BY <1>4, <1>6 DEF TsStarts, FallBack
<1>7. CASE TsAnswers(c) \/ PythonReturns(c)
  <2>1. /\ at[c] \in {"running", "python", "both"}
        /\ NextDeal(c)
        /\ UNCHANGED <<now, store, todo>>
    BY <1>7 DEF TsAnswers, PythonReturns
  <2>2. DispatchTypeOK'
    BY <1>1, <2>1 DEF DispatchTypeOK, NextDeal, CallerStages, store
  <2>3. \A d \in Callers : /\ InHand(d)' \subseteq InHand(d)
                           /\ InHand(d)' # {} => stamp'[d] = stamp[d]
    BY <1>1, <2>1 DEF DispatchTypeOK, NextDeal
  <2> QED
    BY <1>1, <2>1, <2>2, <2>3, OutsideTheLock DEF DispatchTypeOK
<1>8. CASE ClockTick
  <2>1. now \in Int /\ now' = now + 1 /\ now' <= Horizon
    BY <1>1, <1>8, HorizonAssumption DEF ClockTick, DispatchTypeOK
  <2>2. \A i \in 0..now : i \in 0..now'
    BY <2>1
  <2>3. DispatchTypeOK'
    BY <1>1, <1>8, <2>1, <2>2, HorizonAssumption DEF DispatchTypeOK, ClockTick, store
  <2> QED
    BY <1>1, <1>8, <2>1, <2>3, OutsideTheLock DEF ClockTick
<1> QED
  BY <1>2, <1>3, <1>5, <1>6, <1>7, <1>8

------------------------------------------------------------------------------
\* The step under the lock

\* reserve forgets what is old, or over the cap, and claims what is left.
LEMMA ReserveStep ==
  ASSUME DispatchInv, NEW c \in Callers, Reserve(c)
  PROVE  DispatchInv'
<1> USE DEF InHand
<1>1. DispatchTypeOK /\ HeldIsTracked /\ ClaimsExclusive
  BY DEF DispatchInv
<1>2. PICK deals \in SUBSET Keys, kept \in SUBSET LiveClaims(stamp[c]) :
        /\ tracked' = [k \in kept \cup (deals \ kept) |->
                         IF k \in deals \ kept THEN stamp[c] ELSE tracked[k]]
        /\ capped' = {k \in capped \cup (LiveClaims(stamp[c]) \ kept) :
                        \E d \in Callers : k \in InHand(d)}
        /\ Claim(c, deals \ kept)
  BY DEF Reserve
<1> DEFINE new == deals \ kept
<1>3. /\ UNCHANGED <<now, firing>>
      /\ todo' = [todo EXCEPT ![c] = new]
      /\ at' = [at EXCEPT ![c] = IF new = {} THEN "idle" ELSE "firing"]
      /\ stamp' = [stamp EXCEPT ![c] = IF new = {} THEN 0 ELSE @]
      /\ at[c] = "reserving"
  BY <1>2 DEF Reserve, Claim
<1>4. /\ kept \subseteq DOMAIN tracked /\ kept \subseteq Keys
      /\ new \subseteq Keys
  BY <1>1, <1>2 DEF LiveClaims, DispatchTypeOK
<1>5. /\ now \in Int /\ now >= 0 /\ Cooldown \in Int
      /\ \A d \in Callers : stamp[d] \in Int /\ stamp[d] <= now
      /\ \A k \in DOMAIN tracked : tracked[k] \in Int
  BY <1>1, CooldownAssumption DEF DispatchTypeOK
<1>6. /\ DOMAIN tracked' = kept \cup new
      /\ \A k \in new : tracked'[k] = stamp[c]
      /\ \A k \in kept \ new : tracked'[k] = tracked[k]
  BY <1>2
<1>7. InHand(c) = {} /\ InHand(c)' = new
  BY <1>1, <1>3 DEF DispatchTypeOK
<1>8. DispatchTypeOK'
  <2>1. /\ DOMAIN tracked' \subseteq Keys
        /\ \A k \in DOMAIN tracked' : tracked'[k] \in 0..now'
    BY <1>1, <1>3, <1>4, <1>6 DEF DispatchTypeOK
  <2>2. capped' \subseteq Keys
    BY <1>1, <1>2, <1>4 DEF DispatchTypeOK, LiveClaims
  <2>3. /\ stamp' \in [Callers -> 0..now']
        /\ at' \in [Callers -> CallerStages]
        /\ todo' \in [Callers -> SUBSET Keys]
        /\ firing' \in [Callers -> SUBSET Keys]
        /\ now' \in 0..Horizon
    BY <1>1, <1>3, <1>4, <1>5 DEF DispatchTypeOK, CallerStages
  <2>4. \A d \in Callers :
          /\ at'[d] \in {"idle", "reserving"} <=> InHand(d)' = {}
          /\ at'[d] \in {"posted", "running", "python", "both"} <=> \E k \in Keys : firing'[d] = {k}
    BY <1>1, <1>3, <1>7 DEF DispatchTypeOK
  <2> QED
    BY <2>1, <2>2, <2>3, <2>4 DEF DispatchTypeOK
<1> HIDE DEF new
\* What another caller has in hand stays tracked, capped, or past its cooldown.
<1>9. ASSUME NEW d \in Callers, d # c, NEW k \in InHand(d)
      PROVE  \/ k \in capped'
             \/ now' - stamp'[d] > Cooldown
             \/ k \in kept /\ k \notin new /\ tracked'[k] = stamp'[d]
  <2>1. stamp'[d] = stamp[d] /\ now' = now
    BY <1>1, <1>3, <1>9 DEF DispatchTypeOK
  <2>2. CASE k \in capped
    BY <1>2, <2>2
  <2>3. CASE now - stamp[d] > Cooldown
    BY <2>1, <2>3
  <2>4. CASE k \in DOMAIN tracked /\ tracked[k] = stamp[d]
    <3>1. CASE k \in kept
      BY <1>6, <2>1, <2>4, <3>1 DEF new
    <3>2. CASE k \in LiveClaims(stamp[c]) \ kept
      BY <1>2, <3>2
    <3>3. CASE k \notin LiveClaims(stamp[c])
      <4>1. stamp[c] - stamp[d] > Cooldown
        BY <1>5, <2>4, <3>3 DEF LiveClaims
      <4> QED
        BY <1>5, <2>1, <4>1
    <3> QED
      BY <3>1, <3>2, <3>3
  <2> QED
    BY <1>1, <2>2, <2>3, <2>4 DEF HeldIsTracked
<1>10. \A d \in Callers : d # c => InHand(d)' = InHand(d)
  BY <1>1, <1>3 DEF DispatchTypeOK
<1>11. \A k \in InHand(c)' : k \in DOMAIN tracked' /\ tracked'[k] = stamp'[c]
  BY <1>1, <1>3, <1>6, <1>7 DEF DispatchTypeOK
<1>12. HeldIsTracked'
  BY <1>6, <1>9, <1>10, <1>11 DEF HeldIsTracked
<1>13. ClaimsExclusive'
  <2> SUFFICES ASSUME NEW d \in Callers, NEW e \in Callers, d # e,
                      NEW k \in InHand(d)' \cap InHand(e)'
               PROVE  \/ k \in capped'
                      \/ now' - stamp'[d] > Cooldown
                      \/ now' - stamp'[e] > Cooldown
    BY DEF ClaimsExclusive
  <2>1. CASE d = c
    BY <1>7, <1>9, <1>10, <2>1
  <2>2. CASE e = c
    BY <1>7, <1>9, <1>10, <2>2
  <2>3. CASE d # c /\ e # c
    <3>1. /\ stamp'[d] = stamp[d] /\ stamp'[e] = stamp[e] /\ now' = now
          /\ k \in InHand(d) \cap InHand(e)
      BY <1>1, <1>3, <1>10, <2>3 DEF DispatchTypeOK
    <3>2. k \in capped => k \in capped'
      BY <1>2, <3>1
    <3> QED
      BY <1>1, <3>1, <3>2 DEF ClaimsExclusive
  <2> QED
    BY <2>1, <2>2, <2>3
<1> QED
  BY <1>8, <1>12, <1>13 DEF DispatchInv

------------------------------------------------------------------------------
\* Theorems

\* Every step keeps the invariant.
LEMMA DispatchInvariance == DispatchSpec => []DispatchInv
<1>1. DispatchInit => DispatchInv
  BY HorizonAssumption DEF DispatchInit, DispatchInv, DispatchTypeOK, HeldIsTracked, ClaimsExclusive, InHand, CallerStages
<1>2. DispatchInv /\ [DispatchNext]_dispatchVars => DispatchInv'
  <2> SUFFICES ASSUME DispatchInv, [DispatchNext]_dispatchVars PROVE DispatchInv'
    OBVIOUS
  <2>1. ASSUME NEW c \in Callers, CallerStep(c) \/ TsStep(c) PROVE DispatchInv'
    BY <2>1, QuietSteps, ReserveStep DEF CallerStep, TsStep
  <2>2. CASE ClockTick
    <3>1. CASE Callers = {}
      BY <2>2, <3>1, HorizonAssumption
         DEF ClockTick, DispatchInv, DispatchTypeOK, HeldIsTracked, ClaimsExclusive, store
    <3>2. CASE Callers # {}
      BY <2>2, <3>2, QuietSteps
    <3> QED
      BY <3>1, <3>2
  <2>3. CASE Restart
    BY <2>3 DEF Restart, DispatchInv, DispatchTypeOK, HeldIsTracked, ClaimsExclusive, InHand, CallerStages
  <2>4. CASE UNCHANGED dispatchVars
    BY <2>4 DEF dispatchVars, DispatchInv, DispatchTypeOK, HeldIsTracked, ClaimsExclusive, InHand
  <2> QED
    BY <2>1, <2>2, <2>3, <2>4 DEF DispatchNext
<1> QED
  BY <1>1, <1>2, PTL DEF DispatchSpec

\* Every variable keeps its type; in particular a caller that left the loop
\* has no reserved deal left behind.
THEOREM DispatchTypeCorrect == DispatchSpec => []DispatchTypeOK
<1>1. DispatchInv => DispatchTypeOK
  BY DEF DispatchInv
<1> QED
  BY DispatchInvariance, <1>1, PTL

\* The two-phase commit of _maybe_dry_fire: no deal is in the hands of two
\* callers, for any number of callers, deals and any cap, unless a claim
\* outlived its cooldown or fell to the cap.
THEOREM OneCallerPerDeal == DispatchSpec => []ClaimsExclusive
<1>1. DispatchInv => ClaimsExclusive
  BY DEF DispatchInv
<1> QED
  BY DispatchInvariance, <1>1, PTL

------------------------------------------------------------------------------
(***************************************************************************)
(* CircuitBreaker, for every number of requests, every threshold and every *)
(* cool-down: its variables agree with its state, it never opens its gate  *)
(* early, and no alert is left behind in its queue.                        *)
(***************************************************************************)

\* While the breaker is open the clock it goes by is the time since it last
\* opened: the two differ once it is half-open.
ClockIsTrue == state = "open" => age = quiet

BreakerInv == BreakerTypeOK /\ ClockIsTrue /\ NoAlertStranded

ThreadStep(r) ==
  \/ Allow(r) \/ OnSuccess(r) \/ OnFailure(r) \/ SkipClientErr(r)
  \/ Drain(r) \/ Take(r) \/ Alerted(r)

------------------------------------------------------------------------------
\* Stages

\* Sending a request and its pages moves idle requests only.
LEMMA SendKeepsOthers ==
  ASSUME stage \in [Requests -> Stages], NEW r \in Requests, Send(r)
  PROVE  /\ stage' \in [Requests -> Stages]
         /\ \A q \in Requests :
              q # r /\ stage[q] # "idle" => stage'[q] = stage[q]
BY DEF Send, Stages

\* A request that moves on leaves the others where they are.
LEMMA GotoKeepsOthers ==
  ASSUME stage \in [Requests -> Stages], NEW r \in Requests, NEW s \in Stages,
         Goto(r, s)
  PROVE  /\ stage' \in [Requests -> Stages]
         /\ stage'[r] = s
         /\ \A q \in Requests : q # r => stage'[q] = stage[q]
BY DEF Goto, Stages

\* Leaving the drain types the stages and moves idle requests only.
LEMMA LeaveKeepsOthers ==
  ASSUME stage \in [Requests -> Stages], granted \subseteq Requests,
         NEW r \in Requests, Leave(r)
  PROVE  /\ stage' \in [Requests -> Stages]
         /\ granted' \subseteq granted
         /\ \A q \in Requests :
              q # r /\ stage[q] # "idle" => stage'[q] = stage[q]
BY SendKeepsOthers, GotoKeepsOthers DEF Leave, Stages

------------------------------------------------------------------------------
\* The inductive invariant

\* A breaker starts closed, with nothing counted or pending.
LEMMA InitBreakerInv == BreakerInit => BreakerInv
BY FailureAssumption, SuccessAssumption, CoolDownAssumption
   DEF BreakerInit, BreakerInv, BreakerTypeOK, ClockIsTrue, NoAlertStranded, Stages, Unset

\* allow: an open breaker half-opens only after its cool-down.
LEMMA AllowKeepsBreakerInv ==
  ASSUME BreakerInv, NEW r \in Requests, Allow(r)
  PROVE  BreakerInv'
<1> USE FailureAssumption, SuccessAssumption, CoolDownAssumption
<1>0. stage[r] = "idle" BY DEF Allow
<1>1. CASE AllowClosed(r)
  <2>1. /\ stage' \in [Requests -> Stages]
        /\ \A q \in Requests :
             q # r /\ stage[q] # "idle" => stage'[q] = stage[q]
    BY <1>1, SendKeepsOthers DEF AllowClosed, BreakerInv, BreakerTypeOK
  <2> QED
    BY <1>0, <1>1, <2>1
       DEF AllowClosed, breaker, BreakerInv, BreakerTypeOK, ClockIsTrue, NoAlertStranded
<1>2. CASE AllowHalfOpen(r) \/ HalfOpen(r) \/ Deny(r)
  <2>1. /\ stage' \in [Requests -> Stages]
        /\ stage'[r] = "draining"
        /\ \A q \in Requests : q # r => stage'[q] = stage[q]
    BY <1>2, GotoKeepsOthers
       DEF AllowHalfOpen, HalfOpen, Deny, BreakerInv, BreakerTypeOK, Stages
  <2>2. NoAlertStranded'
    BY <2>1 DEF NoAlertStranded
  <2>3. BreakerTypeOK' /\ ClockIsTrue'
    <3>1. CASE AllowHalfOpen(r)
      BY <2>1, <3>1 DEF AllowHalfOpen, Grant, breaker, BreakerInv, BreakerTypeOK, ClockIsTrue
    <3>2. CASE HalfOpen(r)
      BY <2>1, <3>2 DEF HalfOpen, Grant, BreakerInv, BreakerTypeOK, ClockIsTrue, Unset
    <3>3. CASE Deny(r)
      BY <2>1, <3>3 DEF Deny, Grant, breaker, BreakerInv, BreakerTypeOK, ClockIsTrue
    <3> QED BY <1>2, <3>1, <3>2, <3>3
  <2> QED BY <2>2, <2>3 DEF BreakerInv
<1> QED BY <1>1, <1>2 DEF Allow

\* on_success and on_failure: a transition queues an alert and sends the caller
\* on to drain it.
LEMMA ResultKeepsBreakerInv ==
  ASSUME BreakerInv, NEW r \in Requests, OnSuccess(r) \/ OnFailure(r)
  PROVE  BreakerInv'
<1> USE FailureAssumption, SuccessAssumption, CoolDownAssumption
<1>1. /\ stage' \in [Requests -> Stages]
      /\ stage'[r] = "draining"
      /\ \A q \in Requests : q # r => stage'[q] = stage[q]
  BY GotoKeepsOthers DEF OnSuccess, OnFailure, BreakerInv, BreakerTypeOK, Stages
<1>2. NoAlertStranded'
  BY <1>1 DEF NoAlertStranded
<1>3. BreakerTypeOK' /\ ClockIsTrue'
  <2>1. CASE OnSuccess(r)
    BY <1>1, <2>1 DEF OnSuccess, Grant, BreakerInv, BreakerTypeOK, ClockIsTrue, Unset
  <2>2. CASE OnFailure(r) /\ Trips
    BY <1>1, <2>2
       DEF OnFailure, Trip, CountFailure, Grant, BreakerInv, BreakerTypeOK, ClockIsTrue, Unset
  <2>3. CASE OnFailure(r) /\ ~Trips
    BY <1>1, <2>3
       DEF OnFailure, Trips, CountFailure, Grant, BreakerInv, BreakerTypeOK, ClockIsTrue
  <2> QED BY <2>1, <2>2, <2>3
<1> QED BY <1>2, <1>3 DEF BreakerInv

\* The drain: who finds the queue empty leaves, who takes alerts has them.
LEMMA DrainKeepsBreakerInv ==
  ASSUME BreakerInv, NEW r \in Requests, Drain(r) \/ Take(r) \/ Alerted(r)
  PROVE  BreakerInv'
<1>1. CASE Drain(r) /\ pending = 0
  <2>1. /\ stage' \in [Requests -> Stages]
        /\ granted' \subseteq granted
    BY <1>1, LeaveKeepsOthers DEF Drain, BreakerInv, BreakerTypeOK
  <2> QED
    BY <1>1, <2>1 DEF Drain, breaker, BreakerInv, BreakerTypeOK, ClockIsTrue, NoAlertStranded
<1>2. CASE Drain(r) /\ pending # 0
  <2>1. /\ stage' \in [Requests -> Stages]
        /\ stage'[r] = "taking"
        /\ UNCHANGED granted
    BY <1>2, GotoKeepsOthers DEF Drain, BreakerInv, BreakerTypeOK, Stages
  <2> QED
    BY <1>2, <2>1 DEF Drain, breaker, BreakerInv, BreakerTypeOK, ClockIsTrue, NoAlertStranded
<1>3. CASE Take(r)
  <2>1. stage' \in [Requests -> Stages]
    BY <1>3, GotoKeepsOthers DEF Take, BreakerInv, BreakerTypeOK, Stages
  <2> QED
    BY <1>3, <2>1 DEF Take, breaker, BreakerInv, BreakerTypeOK, ClockIsTrue, NoAlertStranded
<1>4. CASE Alerted(r)
  <2>1. /\ stage' \in [Requests -> Stages]
        /\ granted' \subseteq granted
        /\ \A q \in Requests :
             q # r /\ stage[q] # "idle" => stage'[q] = stage[q]
    BY <1>4, LeaveKeepsOthers DEF Alerted, BreakerInv, BreakerTypeOK
  <2> QED
    BY <1>4, <2>1 DEF Alerted, breaker, BreakerInv, BreakerTypeOK, ClockIsTrue, NoAlertStranded
<1> QED BY <1>1, <1>2, <1>3, <1>4

\* Every step keeps the invariant.
LEMMA NextKeepsBreakerInv == BreakerInv /\ [BreakerNext]_breakerVars => BreakerInv'
<1> SUFFICES ASSUME BreakerInv, [BreakerNext]_breakerVars PROVE BreakerInv'
  OBVIOUS
<1>1. ASSUME NEW r \in Requests, SkipClientErr(r)
      PROVE  BreakerInv'
  <2>1. /\ stage' \in [Requests -> Stages]
        /\ \A q \in Requests : q # r => stage'[q] = stage[q]
    BY <1>1, GotoKeepsOthers DEF SkipClientErr, BreakerInv, BreakerTypeOK, Stages
  <2> QED
    BY <1>1, <2>1
       DEF SkipClientErr, breaker, BreakerInv, BreakerTypeOK, ClockIsTrue, NoAlertStranded
<1>2. CASE Tick
  BY <1>2, CoolDownAssumption
     DEF Tick, Older, BreakerInv, BreakerTypeOK, ClockIsTrue, NoAlertStranded, Unset
<1>3. CASE UNCHANGED breakerVars
  BY <1>3 DEF breakerVars, BreakerInv, BreakerTypeOK, ClockIsTrue, NoAlertStranded
<1> QED
  BY <1>1, <1>2, <1>3, AllowKeepsBreakerInv, ResultKeepsBreakerInv, DrainKeepsBreakerInv DEF BreakerNext

\* So it holds for ever.
LEMMA BreakerInvariance == BreakerSpec => []BreakerInv
BY InitBreakerInv, NextKeepsBreakerInv, PTL DEF BreakerSpec

------------------------------------------------------------------------------
\* The theorems

\* The breaker's variables have their types and agree with its state: closed
\* means no _opened_at and fewer failures than the threshold, and successes
\* are counted in half-open only (CircuitBreaker._transition and its callers).
THEOREM BreakerTypeCorrect == BreakerSpec => []BreakerTypeOK
<1>1. BreakerInv => BreakerTypeOK BY DEF BreakerInv
<1> QED BY <1>1, BreakerInvariance, PTL

\* _drain_pending_callbacks looks at the queue without the lock and still
\* leaves no alert behind.
THEOREM NoAlertIsLeftBehind == BreakerSpec => []NoAlertStranded
<1>1. BreakerInv => NoAlertStranded BY DEF BreakerInv
<1> QED BY <1>1, BreakerInvariance, PTL

\* allow() grants nothing between the failure that opened the breaker and the
\* end of its cool-down, and no late answer shortens it.
THEOREM OpenMeansQuiet == BreakerSpec => QuietPeriod
<1>1. BreakerInv /\ [BreakerNext]_breakerVars =>
        [state = "open" /\ quiet < CoolDown =>
           state' = "open" /\ granted' \subseteq granted]_breakerVars
  <2> SUFFICES ASSUME BreakerInv, BreakerNext, state = "open", quiet < CoolDown
               PROVE  state' = "open" /\ granted' \subseteq granted
    OBVIOUS
  <2>1. age # CoolDown
    BY CoolDownAssumption DEF BreakerInv, ClockIsTrue, BreakerTypeOK
  <2>2. ASSUME NEW r \in Requests, ThreadStep(r)
        PROVE  state' = "open" /\ granted' \subseteq granted
    <3>1. CASE Allow(r)
      BY <2>1, <3>1
         DEF Allow, AllowClosed, AllowHalfOpen, HalfOpen, Deny, Grant, breaker
    <3>2. CASE OnSuccess(r) \/ OnFailure(r)
      BY <3>2 DEF OnSuccess, OnFailure, Trips, Grant
    <3>3. CASE Drain(r) \/ Take(r) \/ Alerted(r) \/ SkipClientErr(r)
      BY <3>3 DEF Drain, Take, Alerted, SkipClientErr, Leave, breaker
    <3> QED BY <2>2, <3>1, <3>2, <3>3 DEF ThreadStep
  <2>3. CASE Tick
    BY <2>3 DEF Tick
  <2> QED BY <2>2, <2>3 DEF BreakerNext, ThreadStep
<1> QED BY <1>1, BreakerInvariance, PTL DEF BreakerSpec, QuietPeriod

------------------------------------------------------------------------------
(***************************************************************************)
(* KillSwitch, for any fires of any accounts on any exchanges: its types,  *)
(* and that a cancel hook which reports no error leaves no order behind in *)
(* its reach that rested when the watchdog saw the kill.                   *)
(***************************************************************************)

\* Orders of the kill at hand that the hook still has to reach.
Missed == owed \cap In({"open"})

\* How much of the sweep each of the hook's steps has behind it.
SweepSoFar ==
  /\ wd = "cancel" /\ ~errors => Missed \cap OnAccount \subseteq batch
  /\ wd = "poly" /\ ~errors => Missed \cap OnAccount = {}

SwitchInv == SwitchTypeOK /\ SweepSoFar /\ SweepIsComplete

\* What all steps outside the watchdog have in common: an order that was past
\* the exchange's door stays there, and none comes back to rest.
Onwards ==
  /\ \A a \in Arbs : fire'[a] = "open" => fire[a] \in {"open", "cleared"}
  /\ \A a \in Arbs :
       fire[a] \in {"open", "held", "closed", "over"} =>
         fire'[a] \in {"open", "held", "closed", "over"}

------------------------------------------------------------------------------
\* Steps that leave the watchdog alone

\* They cannot disturb the sweep: what they add to the resting orders was not
\* resting when the kill was seen.
LEMMA OthersKeepSweep ==
  ASSUME SwitchTypeOK, SweepSoFar, SweepIsComplete, Onwards, UNCHANGED watchdog
  PROVE  SweepSoFar' /\ SweepIsComplete'
<1>1. Missed' \subseteq Missed
  BY DEF Missed, In, Onwards, SwitchTypeOK, watchdog
<1>2. QED
  BY <1>1 DEF SweepSoFar, SweepIsComplete, Missed, watchdog

\* A fire adds no order to those that rested when the kill was seen.
LEMMA FireKeepsTypes ==
  ASSUME SwitchTypeOK, NEW a \in Arbs, FireStep(a)
  PROVE  SwitchTypeOK' /\ Onwards
<1>1. CASE Gate(a)
  BY <1>1 DEF Gate, Moves, Onwards, SwitchTypeOK, In, reconcile, watchdog
<1>2. CASE Post(a)
  BY <1>2 DEF Post, Moves, Onwards, SwitchTypeOK, In, reconcile, watchdog
<1>3. CASE Settle(a)
  BY <1>3 DEF Settle, Moves, Onwards, SwitchTypeOK, In, reconcile, watchdog
<1>4. CASE LogPosition(a)
  BY <1>4 DEF LogPosition, Onwards, SwitchTypeOK, In, reconcile, watchdog
<1>5. CASE Close(a)
  BY <1>5 DEF Close, Moves, Onwards, SwitchTypeOK, In, reconcile, watchdog
<1>6. QED
  BY <1>1, <1>2, <1>3, <1>4, <1>5 DEF FireStep

\* Reconcile touches neither orders nor the watchdog.
LEMMA ReconcileKeepsTypes ==
  ASSUME SwitchTypeOK, CacheAges \/ Reconcile \/ \E a \in Arbs : Push(a)
  PROVE  SwitchTypeOK' /\ UNCHANGED <<fire, watchdog>>
<1>1. CASE \E a \in Arbs : Push(a)
  BY <1>1 DEF Push, SwitchTypeOK, In, On, OnAccount, trading, watchdog
<1>2. CASE ReadLocal
  BY <1>2 DEF ReadLocal, SwitchTypeOK, In, trading, watchdog
<1>3. CASE FetchCache \/ FetchPortfolio
  BY <1>3 DEF FetchCache, FetchPortfolio, Fetched, SwitchTypeOK, In, On, trading, watchdog
<1>4. CASE FetchFails \/ CacheAges
  <2>1. CASE FetchFails
    BY <2>1 DEF FetchFails, Fetched, SwitchTypeOK, In, trading, watchdog
  <2>2. CASE CacheAges
    BY <2>2 DEF CacheAges, SwitchTypeOK, In, trading, watchdog
  <2>3. QED
    BY <1>4, <2>1, <2>2
<1>5. CASE Diff
  BY <1>5 DEF Diff, Killed, SwitchTypeOK, In, trading, watchdog
<1>6. QED
  BY <1>1, <1>2, <1>3, <1>4, <1>5 DEF Reconcile, Fetch

\* Nor do those who set and clear the flag.
LEMMA FlagKeepsTypes ==
  ASSUME SwitchTypeOK, Kill \/ Resume \/ FileSystem
  PROVE  SwitchTypeOK' /\ UNCHANGED <<fire, watchdog>>
<1>1. CASE Kill
  BY <1>1 DEF Kill, Killed, SwitchTypeOK, In, trading, reconcile, watchdog
<1>2. CASE Resume
  BY <1>2 DEF Resume, SwitchTypeOK, In, trading, reconcile, watchdog
<1>3. CASE FileSystem
  <2>1. readable' \in BOOLEAN /\ UNCHANGED <<flag, trading, reconcile, watchdog>>
    BY <1>3 DEF FileSystem
  <2>2. QED BY <2>1 DEF SwitchTypeOK, In, trading, reconcile, watchdog
<1>4. QED
  BY <1>1, <1>2, <1>3

\* A restart of the radar ends its fires and leaves the orders.
LEMMA RestartKeepsTypes ==
  ASSUME SwitchTypeOK, RadarRestarts
  PROVE  SwitchTypeOK' /\ Onwards /\ UNCHANGED watchdog
BY DEF RadarRestarts, Onwards, SwitchTypeOK, In, watchdog

------------------------------------------------------------------------------
\* The watchdog's steps

\* A poll that sees the kill starts a sweep of what rests now.
LEMMA PollKeepsSwitchInv ==
  ASSUME SwitchInv, Poll
  PROVE  SwitchInv'
BY DEF Poll, SwitchInv, SwitchTypeOK, SweepSoFar, SweepIsComplete, Missed, In, On,
       IsKilled, trading, reconcile

\* A cancelled order rests no more.
LEMMA CancelledMoves ==
  ASSUME SwitchTypeOK, NEW set \in SUBSET Arbs, Cancelled(set)
  PROVE  /\ fire' \in [Arbs -> {"idle", "cleared", "open", "held", "closed", "over"}]
         /\ rows \subseteq In({"held", "closed"})'
         /\ owed \subseteq In({"open", "held", "closed", "over"})'
         /\ In({"open"})' = In({"open"}) \ set
BY DEF Cancelled, SwitchTypeOK, In

\* Each stage of the hook leaves nothing of its exchange behind, or an error.
LEMMA HookKeepsSwitchInv ==
  ASSUME SwitchInv, Hook
  PROVE  SwitchInv'
<1>1. CASE ListOrders
  BY <1>1 DEF ListOrders, Listed, SwitchInv, SwitchTypeOK, SweepSoFar, SweepIsComplete,
              Missed, In, On, OnAccount, trading, reconcile
<1>2. CASE CancelBatch
  <2>1. CASE Cancelled(batch) /\ UNCHANGED errors
    <3>1. batch \in SUBSET Arbs
      BY DEF SwitchInv, SwitchTypeOK, On
    <3>2. In({"open"})' = In({"open"}) \ batch
      BY <2>1, <3>1, CancelledMoves DEF SwitchInv
    <3>3. SwitchTypeOK'
      <4>1. /\ fire' \in [Arbs -> {"idle", "cleared", "open", "held", "closed", "over"}]
            /\ rows \subseteq In({"held", "closed"})'
            /\ owed \subseteq In({"open", "held", "closed", "over"})'
        BY <2>1, <3>1, CancelledMoves DEF SwitchInv
      <4>2. QED
        BY <1>2, <2>1, <4>1 DEF CancelBatch, SwitchInv, SwitchTypeOK, reconcile, On
    <3>4. SweepSoFar' /\ SweepIsComplete'
      BY <1>2, <2>1, <3>2
         DEF CancelBatch, SwitchInv, SweepSoFar, SweepIsComplete, Missed
    <3>5. QED BY <3>3, <3>4 DEF SwitchInv
  <2>2. CASE errors' = TRUE /\ UNCHANGED fire
    BY <1>2, <2>2 DEF CancelBatch, SwitchInv, SwitchTypeOK, SweepSoFar, SweepIsComplete,
                      In, On, reconcile
  <2>3. QED BY <1>2, <2>1, <2>2 DEF CancelBatch
<1>3. CASE CancelPoly
  <2>1. PICK set \in SUBSET On("Polymarket") :
          /\ Cancelled(set)
          /\ (set = On("Polymarket") /\ UNCHANGED errors) \/ errors' = TRUE
    BY <1>3 DEF CancelPoly
  <2>2. set \in SUBSET Arbs
    BY DEF On
  <2>3. SwitchTypeOK'
    BY <1>3, <2>1, <2>2, CancelledMoves DEF CancelPoly, SwitchInv, SwitchTypeOK, In, reconcile
  <2>4. SweepSoFar'
    BY <1>3 DEF CancelPoly, SweepSoFar
  <2>5. SweepIsComplete'
    <3>1. SUFFICES ASSUME ~errors',
                          NEW a, a \in owed, a \in In({"open"})'
                   PROVE  a \notin InReach
      <4>1. UNCHANGED owed BY <1>3 DEF CancelPoly
      <4>2. QED BY <4>1 DEF SweepIsComplete
    <3> /\ set = On("Polymarket") /\ ~errors
        /\ a \in Arbs
      BY <2>1, <3>1 DEF In
    <3>2. a \in In({"open"}) /\ a \notin On("Polymarket")
      BY <2>1, <2>2, <3>1, CancelledMoves DEF SwitchInv
    <3>3. a \notin OnAccount
      BY <1>3, <3>1, <3>2 DEF SwitchInv, SweepSoFar, CancelPoly, Missed
    <3>4. QED
      BY <3>2, <3>3 DEF InReach
  <2>6. QED BY <2>3, <2>4, <2>5 DEF SwitchInv
<1>4. CASE HookEnds \/ HookRaises
  BY <1>4 DEF HookEnds, HookRaises, SwitchInv, SwitchTypeOK, SweepSoFar, SweepIsComplete,
              In, trading, reconcile
<1>5. QED
  BY <1>1, <1>2, <1>3, <1>4 DEF Hook

LEMMA WatchdogRestartKeepsSwitchInv ==
  ASSUME SwitchInv, WatchdogRestarts
  PROVE  SwitchInv'
BY DEF WatchdogRestarts, SwitchInv, SwitchTypeOK, SweepSoFar, SweepIsComplete, In,
       IsKilled, trading, reconcile

------------------------------------------------------------------------------
\* The inductive invariant

\* At the start nothing is swept.
LEMMA InitSwitchInv == SwitchInit => SwitchInv
BY DEF SwitchInit, SwitchInv, SwitchTypeOK, SweepSoFar, SweepIsComplete, In

\* Every step keeps the invariant.
LEMMA NextSwitchInv == SwitchInv /\ [SwitchNext]_switchVars => SwitchInv'
<1> SUFFICES ASSUME SwitchInv, [SwitchNext]_switchVars PROVE SwitchInv'
  OBVIOUS
<1>1. ASSUME UNCHANGED fire PROVE Onwards
  BY <1>1 DEF Onwards
<1>2. CASE \E a \in Arbs : FireStep(a)
  <2>1. SwitchTypeOK' /\ Onwards
    BY <1>2, FireKeepsTypes DEF SwitchInv
  <2>2. UNCHANGED watchdog
    BY <1>2 DEF FireStep, Gate, Post, Settle, LogPosition, Close, watchdog
  <2>3. QED BY <2>1, <2>2, OthersKeepSweep DEF SwitchInv
<1>3. CASE CacheAges \/ Reconcile \/ \E a \in Arbs : Push(a)
  BY <1>1, <1>3, ReconcileKeepsTypes, OthersKeepSweep DEF SwitchInv
<1>4. CASE Kill \/ Resume \/ FileSystem
  BY <1>1, <1>4, FlagKeepsTypes, OthersKeepSweep DEF SwitchInv
<1>5. CASE RadarRestarts
  BY <1>5, RestartKeepsTypes, OthersKeepSweep DEF SwitchInv
<1>6. CASE Poll \/ Hook \/ WatchdogRestarts
  BY <1>6, PollKeepsSwitchInv, HookKeepsSwitchInv, WatchdogRestartKeepsSwitchInv
<1>7. CASE UNCHANGED switchVars
  <2>1. SwitchTypeOK'
    BY <1>7 DEF switchVars, SwitchInv, SwitchTypeOK, In
  <2>2. UNCHANGED fire /\ UNCHANGED watchdog
    BY <1>7 DEF switchVars, watchdog
  <2>3. QED
    BY <1>1, <2>1, <2>2, OthersKeepSweep DEF SwitchInv
<1>8. QED
  BY <1>2, <1>3, <1>4, <1>5, <1>6, <1>7 DEF SwitchNext

\* So it holds for ever.
LEMMA SwitchInductive == SwitchSpec => []SwitchInv
BY InitSwitchInv, NextSwitchInv, PTL DEF SwitchSpec

\* Every variable keeps its type, the hook runs only on a kill that is news,
\* and orders are listed only to be cancelled.
THEOREM SwitchTypeCorrect == SwitchSpec => []SwitchTypeOK
<1>1. SwitchInv => SwitchTypeOK BY DEF SwitchInv
<1>2. QED BY <1>1, SwitchInductive, PTL

\* A cancel hook that ends without an error leaves none of the orders that
\* rested when the watchdog saw the kill: of the global account at Limitless
\* and of any wallet at Polymarket.
THEOREM CleanSweep == SwitchSpec => []SweepIsComplete
<1>1. SwitchInv => SweepIsComplete BY DEF SwitchInv
<1>2. QED BY <1>1, SwitchInductive, PTL

==============================================================================
