------------------------------- MODULE FireArb -------------------------------
(***************************************************************************)
(* One arb in the TypeScript executor: fireArb and fireLeg                 *)
(* (executor-ts/src/executor/atomic.ts), the fill registry (fills.ts), the *)
(* revert planner and executor (revert.ts), and the outside world they     *)
(* meet: the exchanges and the user-channel sockets that carry fills back. *)
(*                                                                         *)
(* fireLeg is a coroutine.  A leg can have three of them alive at once:    *)
(* the first attempt, the retry of a partial fill, and the revert sell.    *)
(* Promise.race settles a leg when its timer wins but does not stop the    *)
(* coroutine, so a beaten attempt keeps posting, listening and cancelling  *)
(* while the arb has moved on.  All three share one (arbId, legIdx), the   *)
(* key by which the registry wakes listeners.                              *)
(*                                                                         *)
(* An action is what the event loop runs from one await to the next.       *)
(***************************************************************************)
EXTENDS Naturals

CONSTANTS
  Legs,          \* legIdx values, in revert order
  RetryEnabled   \* PARTIAL_FILL_RETRY is not "0"

ASSUME LegsAssumption == Legs \subseteq Nat /\ Legs # {}
ASSUME RetryAssumption == RetryEnabled \in BOOLEAN

VARIABLES
  dryRun,        \* the arb is logged and never posted
  syncLegs,      \* the sx_bet legs: their POST answers with the fill itself
  phase,         \* where fireArb stands
  call,          \* progress of every fireLeg coroutine, then its result
  settled,       \* what this round's Promise.race has resolved to, per leg
  legs,          \* result.legs[l].status
  revertStatus,  \* result.legs[l].revertStatus
  byOrderId,     \* calls with an entry in the fill registry
  order,         \* state of each call's order at its exchange
  wire           \* calls whose fill notice has not reached the registry

vars == <<dryRun, syncLegs, phase, call, settled, legs, revertStatus, byOrderId,
          order, wire>>

deal == <<dryRun, syncLegs>>
world == <<order, wire>>
report == <<legs, revertStatus>>

------------------------------------------------------------------------------
\* Values

Roles == {"fire", "retry", "revert"}
Calls == Legs \X Roles
LegOf(c) == c[1]
RoleOf(c) == c[2]

Live == {"filled", "slipped"}
Broken == {"rejected", "timeout", "aborted"}
Results == Live \cup {"rejected", "timeout", "dry-fired"}
Progress == {"idle", "jitter", "posting", "awaiting", "cancelling"}
OrderStates == {"none", "sent", "refused", "open", "gone"} \cup Live
Phases == {"gate", "fire", "retry", "revert", "done", "aborted"}

TypeOK ==
  /\ dryRun \in BOOLEAN
  /\ syncLegs \subseteq Legs
  /\ phase \in Phases
  /\ call \in [Calls -> Progress \cup Results]
  /\ settled \in [Legs -> Results \cup {"pending"}]
  /\ legs \in [Legs -> Results \cup {"none", "aborted"}]
  /\ revertStatus \in [Legs -> {"none", "pending", "sold", "failed"}]
  /\ byOrderId \subseteq Calls
  /\ order \in [Calls -> OrderStates]
  /\ wire \subseteq Calls

Init ==
  /\ dryRun \in BOOLEAN
  /\ syncLegs \in SUBSET Legs
  /\ phase = "gate"
  /\ call = [c \in Calls |-> "idle"]
  /\ settled = [l \in Legs |-> "pending"]
  /\ legs = [l \in Legs |-> "none"]
  /\ revertStatus = [l \in Legs |-> "none"]
  /\ byOrderId = {}
  /\ order = [c \in Calls |-> "none"]
  /\ wire = {}

------------------------------------------------------------------------------
\* fireLeg

\* Fault: a coroutine that lost the race overwrites its leg's result.
ReturnOverwrites(S, s) ==
  /\ call' = [c \in Calls |-> IF c \in S THEN s ELSE call[c]]
  /\ settled' = [l \in Legs |->
       IF \E r \in Roles : <<l, r>> \in S THEN s ELSE settled[l]]

\* The calls in S, all of one leg, return s.  A call of the current round
\* settles its leg unless the per-leg timer already has.
Return(S, s) ==
  /\ call' = [c \in Calls |-> IF c \in S THEN s ELSE call[c]]
  /\ settled' = [l \in Legs |->
       IF settled[l] = "pending" /\ <<l, phase>> \in S THEN s ELSE settled[l]]

\* After the jitter: build and sign.  A builder that throws and an unsigned
\* order are rejected before anything is posted; a dry run stops here.
\* Otherwise the user socket is pointed at the market and the POST leaves.
BuildLeg(c) ==
  /\ call[c] = "jitter"
  /\ \/ /\ Return({c}, "rejected")
        /\ UNCHANGED order
     \/ /\ dryRun
        /\ Return({c}, "dry-fired")
        /\ UNCHANGED order
     \/ /\ ~dryRun
        /\ call' = [call EXCEPT ![c] = "posting"]
        /\ order' = [order EXCEPT ![c] = "sent"]
        /\ UNCHANGED settled
  /\ UNCHANGED <<deal, phase, report, byOrderId, wire>>

Accepted(c) == order[c] \in {"open", "gone"} \cup Live

\* The POST answers with an order id.  sx_bet answers with the fill itself;
\* the other platforms register with the fill registry and start the
\* dead-man timer.
PostAnswers(c) ==
  /\ call[c] = "posting"
  /\ Accepted(c)
  /\ IF LegOf(c) \in syncLegs
       THEN /\ Return({c}, "filled")
            /\ UNCHANGED byOrderId
       ELSE /\ call' = [call EXCEPT ![c] = "awaiting"]
            /\ byOrderId' = byOrderId \cup {c}
            /\ UNCHANGED settled
  /\ UNCHANGED <<deal, phase, report, world>>

\* The POST throws or answers without an order id: refused by the exchange,
\* a network error, a request that timed out, an answer that was lost.  The
\* order may be at the exchange all the same.
PostFails(c) ==
  /\ call[c] = "posting"
  /\ Return({c}, "rejected")
  /\ UNCHANGED <<deal, phase, report, byOrderId, world>>

\* Fault: the revert waits for its fill with no dead-man timer.
DeadmanSparesRevert(c) ==
  /\ call[c] = "awaiting"
  /\ RoleOf(c) # "revert"
  /\ byOrderId' = byOrderId \ {c}
  /\ \/ call' = [call EXCEPT ![c] = "cancelling"] /\ UNCHANGED settled
     \/ Return({c}, "timeout")
  /\ UNCHANGED <<deal, phase, report, world>>

\* The dead-man timer ends the wait: the registration and its listener go,
\* and the order is cancelled where the wallet has the credentials for it.
Deadman(c) ==
  /\ call[c] = "awaiting"
  /\ byOrderId' = byOrderId \ {c}
  /\ \/ call' = [call EXCEPT ![c] = "cancelling"] /\ UNCHANGED settled
     \/ Return({c}, "timeout")
  /\ UNCHANGED <<deal, phase, report, world>>

\* DELETE /order returns or throws: the leg is a timeout either way.
CancelReturns(c) ==
  /\ call[c] = "cancelling"
  /\ \/ order[c] = "open" /\ order' = [order EXCEPT ![c] = "gone"]
     \/ UNCHANGED order
  /\ Return({c}, "timeout")
  /\ UNCHANGED <<deal, phase, report, byOrderId, wire>>

------------------------------------------------------------------------------
\* Fill registry

\* Fault: the listener compares the arbId alone.
ListenersOfArb(l) == {c \in Calls : call[c] = "awaiting"}

\* Listeners are woken by (arbId, legIdx), whatever order they wait for.
Listeners(l) == {c \in Calls : LegOf(c) = l /\ call[c] = "awaiting"}

\* A fill notice arrives: consumeByOrderId drops the registration and emits,
\* and every listener of that leg resolves with this fill.  A notice nobody
\* registered for is dropped.
WsNotice(c) ==
  /\ c \in wire
  /\ wire' = wire \ {c}
  /\ IF c \in byOrderId
       THEN /\ byOrderId' = byOrderId \ {c}
            /\ Return(Listeners(LegOf(c)), order[c])
       ELSE UNCHANGED <<byOrderId, call, settled>>
  /\ UNCHANGED <<deal, phase, report, order>>

\* Fault: REG_TTL_S shorter than the dead-man timer.
ExpireLiveEntry(c) ==
  /\ c \in byOrderId
  /\ byOrderId' = byOrderId \ {c}
  /\ UNCHANGED <<deal, phase, call, settled, report, world>>

\* The janitor drops registrations older than REG_TTL_S = 30.  An entry that
\* old has outlived its listener, whose dead-man timer is 5 seconds.
ExpireStale(c) ==
  /\ c \in byOrderId
  /\ call[c] # "awaiting"
  /\ byOrderId' = byOrderId \ {c}
  /\ UNCHANGED <<deal, phase, call, settled, report, world>>

------------------------------------------------------------------------------
\* fireArb

\* Kill switch, risk limits or wallet assignment denies the arb.
Abort ==
  /\ phase = "gate"
  /\ phase' = "aborted"
  /\ legs' = [l \in Legs |-> "aborted"]
  /\ UNCHANGED <<deal, call, settled, revertStatus, byOrderId, world>>

\* All gates pass: one fireLeg per leg, each racing its timer.
FireLegs ==
  /\ phase = "gate"
  /\ phase' = "fire"
  /\ call' = [c \in Calls |-> IF RoleOf(c) = "fire" THEN "jitter" ELSE call[c]]
  /\ UNCHANGED <<deal, settled, report, byOrderId, world>>

\* Fault: the first round's timer, too, resolves to the result so far.
LegTimerKeepsStatus(l) ==
  /\ phase \in {"fire", "retry"}
  /\ settled[l] = "pending"
  /\ settled' = [settled EXCEPT ![l] = legs[l]]
  /\ UNCHANGED <<deal, phase, call, report, byOrderId, world>>

\* The per-leg timer wins the race.  In the retry round it resolves to the
\* first round's result.
LegTimer(l) ==
  /\ phase \in {"fire", "retry"}
  /\ settled[l] = "pending"
  /\ settled' = [settled EXCEPT ![l] =
                   IF phase = "fire" THEN "rejected" ELSE legs[l]]
  /\ UNCHANGED <<deal, phase, call, report, byOrderId, world>>

\* Fault: a slipped fill does not count as exposure.
FilledLegs(f) == {l \in Legs : f[l] = "filled"}

LiveLegs(f) == {l \in Legs : f[l] \in Live}
BrokenLegs(f) == {l \in Legs : f[l] \in Broken}

\* Fault: legs that timed out are sold too, to be on the safe side.
PlanRevertTimeouts(f) ==
  IF BrokenLegs(f) = {} \/ LiveLegs(f) = {}
    THEN {} ELSE {l \in Legs : f[l] \in Live \cup {"timeout"}}

PlanRevert(f) == IF BrokenLegs(f) = {} THEN {} ELSE LiveLegs(f)

\* planRevert and annotateLegsWithPlan on the final statuses f.
Conclude(f) ==
  /\ legs' = f
  /\ revertStatus' = [l \in Legs |->
                        IF l \in PlanRevert(f) THEN "pending" ELSE "none"]
  /\ phase' = IF PlanRevert(f) = {} THEN "done" ELSE "revert"

AllSettled == \A l \in Legs : settled[l] # "pending"

\* A leg is retried once when a sibling filled within tolerance.
RetryLegs(f) ==
  IF RetryEnabled /\ ~dryRun /\ \E l \in Legs : f[l] = "filled"
    THEN {l \in Legs : f[l] \in {"rejected", "timeout"}}
    ELSE {}

JoinFire ==
  /\ phase = "fire"
  /\ AllSettled
  /\ LET R == RetryLegs(settled) IN
     IF R = {}
       THEN Conclude(settled) /\ UNCHANGED <<call, settled>>
       ELSE /\ phase' = "retry"
            /\ legs' = settled
            /\ settled' = [l \in Legs |->
                             IF l \in R THEN "pending" ELSE settled[l]]
            /\ call' = [c \in Calls |->
                          IF LegOf(c) \in R /\ RoleOf(c) = "retry"
                            THEN "jitter" ELSE call[c]]
            /\ UNCHANGED revertStatus
  /\ UNCHANGED <<deal, byOrderId, world>>

JoinRetry ==
  /\ phase = "retry"
  /\ AllSettled
  /\ Conclude(settled)
  /\ UNCHANGED <<deal, call, settled, byOrderId, world>>

\* executeRevertPlan sells the planned legs one after the other, through
\* fireLeg but with no race timer around it.
RevertLeg(l) ==
  /\ phase = "revert"
  /\ revertStatus[l] = "pending"
  /\ \A k \in Legs : revertStatus[k] = "pending" => l <= k
  /\ call[<<l, "revert">>] = "idle"
  /\ call' = [call EXCEPT ![<<l, "revert">>] = "jitter"]
  /\ UNCHANGED <<deal, phase, settled, report, byOrderId, world>>

\* The sell returned: 'sold' if it filled at any price, 'failed' otherwise.
RevertSettles(l) ==
  /\ phase = "revert"
  /\ revertStatus[l] = "pending"
  /\ call[<<l, "revert">>] \in Results
  /\ revertStatus' = [revertStatus EXCEPT ![l] =
       IF call[<<l, "revert">>] \in Live THEN "sold" ELSE "failed"]
  /\ phase' = IF \E k \in Legs \ {l} : revertStatus[k] = "pending"
                THEN "revert" ELSE "done"
  /\ UNCHANGED <<deal, call, settled, legs, byOrderId, world>>

------------------------------------------------------------------------------
\* Exchanges and sockets

\* A request in flight reaches the exchange.  sx_bet fills or refuses a
\* taker at once; elsewhere the order rests until it fills or expires.
Receive(c) ==
  /\ order[c] = "sent"
  /\ \E s \in {"refused"} \cup
        IF LegOf(c) \in syncLegs THEN {"filled"} ELSE {"open"} :
       order' = [order EXCEPT ![c] = s]
  /\ UNCHANGED <<deal, phase, call, settled, report, byOrderId, wire>>

\* The order fills, within SLIPPAGE_TOLERANCE of the expected price or not, and
\* the exchange says so. The sockets' bridges take whatever event names an order
\* for its fill; here, as the code trusts, an event tells a fill.
Fill(c) ==
  /\ order[c] = "open"
  /\ \E s \in Live : order' = [order EXCEPT ![c] = s]
  /\ wire' = wire \cup {c}
  /\ UNCHANGED <<deal, phase, call, settled, report, byOrderId>>

\* Expiry, or a fill-or-kill order that found no match.
Expire(c) ==
  /\ order[c] = "open"
  /\ order' = [order EXCEPT ![c] = "gone"]
  /\ UNCHANGED <<deal, phase, call, settled, report, byOrderId, wire>>

\* The notice falls into a reconnect of the user socket.
WsLost(c) ==
  /\ c \in wire
  /\ wire' = wire \ {c}
  /\ UNCHANGED <<deal, phase, call, settled, report, byOrderId, order>>

------------------------------------------------------------------------------

LegStep(c) ==
  BuildLeg(c) \/ PostAnswers(c) \/ PostFails(c) \/ Deadman(c) \/ CancelReturns(c)

WorldStep(c) ==
  Receive(c) \/ Fill(c) \/ Expire(c) \/ WsNotice(c) \/ WsLost(c) \/ ExpireStale(c)

ArbStep ==
  \/ FireLegs \/ Abort \/ JoinFire \/ JoinRetry
  \/ \E l \in Legs : LegTimer(l) \/ RevertLeg(l) \/ RevertSettles(l)

\* The arb has returned and every coroutine it left behind has ended.
Terminated ==
  /\ phase \in {"done", "aborted"}
  /\ \A c \in Calls : call[c] \in Results \cup {"idle"}
  /\ UNCHANGED vars

Next ==
  \/ ArbStep
  \/ \E c \in Calls : LegStep(c) \/ WorldStep(c)
  \/ Terminated

\* Timers fire, HTTP requests end (postJson aborts a request that takes too
\* long) and the event loop runs what is ready.  Nothing is promised of the
\* exchanges or the sockets.
Fairness == WF_vars(ArbStep) /\ \A c \in Calls : WF_vars(LegStep(c))

Spec == Init /\ [][Next]_vars

FairSpec == Spec /\ Fairness

------------------------------------------------------------------------------
\* Properties

Bought(l) == \E r \in {"fire", "retry"} : order[<<l, r>>] \in Live

\* A leg reported filled or slipped is backed by a buy of that leg that
\* filled at the exchange, whichever attempt it belonged to.
ReportedFillIsReal == \A l \in Legs : legs[l] \in Live => Bought(l)

\* While a call waits for its fill the registry holds its order id, so a
\* notice that arrives in time is never dropped by the janitor, by another
\* attempt of the leg or by a notice for one.
WaitingIsRegistered == \A c \in Calls : call[c] = "awaiting" => c \in byOrderId

\* A sell is sent only for a leg that really was bought.
NoSellWithoutBuy ==
  \A l \in Legs : order[<<l, "revert">>] # "none" => Bought(l)

\* Coroutines that lost their race go on running, yet what fireArb returned
\* never changes afterwards, and a leg that settled keeps its result for
\* the round.
LateResultsIgnored ==
  [][/\ phase \in {"done", "aborted"} => UNCHANGED <<phase, report>>
     /\ phase' = phase =>
          \A l \in Legs : settled[l] # "pending" => settled'[l] = settled[l]]_vars

\* fireArb returns: no lost notice, hung POST or silent exchange holds it.
FireReturns == (phase = "gate") ~> (phase \in {"done", "aborted"})

\* The reported statuses implement AtomicArb.
standing == [l \in Legs |->
  IF phase \in {"gate", "fire", "retry"} THEN "open"
  ELSE IF legs[l] \notin {"filled", "slipped"} THEN "missed"
  ELSE IF revertStatus[l] = "pending" THEN "flattening"
  ELSE IF revertStatus[l] = "sold" THEN "sold"
  ELSE IF revertStatus[l] = "failed" THEN "stuck"
  ELSE "held"]

Abstract == INSTANCE AtomicArb WITH leg <- standing

ReportsAtomically == Abstract!Spec

==============================================================================
