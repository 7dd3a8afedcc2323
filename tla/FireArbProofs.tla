---------------------------- MODULE FireArbProofs ----------------------------
(***************************************************************************)
(* Proofs about FireArb, for every set of legs: type correctness, the      *)
(* registry and position invariants, and that what fireArb reports         *)
(* implements AtomicArb.                                                   *)
(***************************************************************************)
EXTENDS FireArb, TLAPS

------------------------------------------------------------------------------
\* The inductive invariant

\* A call that has not posted has no order, and the three attempts at a leg
\* start in the phase they belong to.
OrdersFollowCalls ==
  /\ \A c \in Calls : call[c] \in {"idle", "jitter"} => order[c] = "none"
  /\ \A l \in Legs :
       /\ phase = "gate" => call[<<l, "fire">>] = "idle"
       /\ phase \in {"gate", "fire"} => call[<<l, "retry">>] = "idle"
       /\ phase \in {"gate", "fire", "retry"} => call[<<l, "revert">>] = "idle"

\* Notices are of real fills, and an sx_bet order never rests.
FillsAreReal ==
  /\ \A c \in wire : order[c] \in Live
  /\ \A c \in Calls : LegOf(c) \in syncLegs => order[c] \notin {"open", "gone"}

\* A leg that settled live, was reported live or is being sold was bought.
LiveIsBought ==
  /\ \A l \in Legs : settled[l] \in Live => Bought(l)
  /\ \A l \in Legs : legs[l] \in Live => Bought(l)
  /\ \A l \in Legs : revertStatus[l] # "none" => legs[l] \in Live
  /\ \A l \in Legs : call[<<l, "revert">>] # "idle" => Bought(l)

\* A dry run posts nothing, and only a dry run dry-fires.
DryRunIsDry ==
  /\ dryRun => \A c \in Calls : order[c] = "none"
  /\ ~dryRun => \A l \in Legs : settled[l] # "dry-fired" /\ legs[l] # "dry-fired"

\* The retry round starts from a status for every leg, and nothing is
\* planned for the revert before the final statuses are in.
RoundHasStatus ==
  /\ phase = "retry" => legs \in [Legs -> Results]
  /\ phase \in {"gate", "fire", "retry"} => \A l \in Legs : revertStatus[l] = "none"

IInv ==
  /\ TypeOK
  /\ RoundHasStatus
  /\ OrdersFollowCalls
  /\ FillsAreReal
  /\ LiveIsBought
  /\ DryRunIsDry
  /\ WaitingIsRegistered

------------------------------------------------------------------------------
\* Lemmas

\* A call is a leg and a role.
LEMMA CallParts ==
  /\ \A l \in Legs, r \in Roles : /\ <<l, r>> \in Calls
                                  /\ LegOf(<<l, r>>) = l
                                  /\ RoleOf(<<l, r>>) = r
  /\ \A c \in Calls : /\ LegOf(c) \in Legs
                       /\ RoleOf(c) \in Roles
                       /\ c = <<LegOf(c), RoleOf(c)>>
BY DEF Calls, LegOf, RoleOf

\* What a returning call leaves behind: every call keeps its value or takes
\* s, and so does every leg, a leg only if one of the calls is of it.
LEMMA ReturnEffect ==
  ASSUME TypeOK, NEW S \in SUBSET Calls, NEW s \in Results, Return(S, s)
  PROVE  /\ call' \in [Calls -> Progress \cup Results]
         /\ settled' \in [Legs -> Results \cup {"pending"}]
         /\ \A c \in Calls : call'[c] = IF c \in S THEN s ELSE call[c]
         /\ \A l \in Legs : settled'[l] # settled[l] =>
               /\ settled'[l] = s
               /\ settled[l] = "pending"
               /\ <<l, phase>> \in S
BY DEF TypeOK, Return

\* An order that filled stays filled, so a leg that was bought stays bought.
LEMMA FilledForGood ==
  ASSUME IInv, [Next]_vars
  PROVE  /\ \A c \in Calls : order[c] \in Live => order'[c] = order[c]
         /\ \A l \in Legs : Bought(l) => Bought(l)'
<1> USE CallParts DEF Live
<1>1. ASSUME order' # order
      PROVE  \E c \in Calls : /\ order[c] \notin Live
                              /\ \E s \in OrderStates :
                                   order' = [order EXCEPT ![c] = s]
  <2>1. CASE ArbStep
    BY <1>1, <2>1 DEF ArbStep, FireLegs, Abort, JoinFire, JoinRetry, LegTimer,
       RevertLeg, RevertSettles, world
  <2>2. CASE \E c \in Calls : LegStep(c)
    BY <1>1, <2>2 DEF IInv, OrdersFollowCalls, LegStep, BuildLeg, PostAnswers,
       PostFails, Deadman, CancelReturns, world, OrderStates
  <2>3. CASE \E c \in Calls : WorldStep(c)
    BY <1>1, <2>3 DEF WorldStep, Receive, Fill, Expire, WsNotice, WsLost,
       ExpireStale, world, OrderStates
  <2> QED
    BY <1>1, <2>1, <2>2, <2>3 DEF Next, Terminated, vars
<1>2. \A c \in Calls : order[c] \in Live => order'[c] = order[c]
  BY <1>1 DEF IInv, TypeOK
<1> QED
  BY <1>2 DEF Bought, Roles

\* A step in which the calls S return s, all started before, keeps the
\* invariant, provided a live s was bought, only a dry run dry-fires, no
\* waiting call outside S loses its registration, and orders at most expire.
LEMMA ReturnInv ==
  ASSUME IInv, [Next]_vars, NEW S \in SUBSET Calls, NEW s \in Results,
         Return(S, s), UNCHANGED <<deal, phase, report>>,
         \A c \in S : call[c] # "idle",
         s \in Live => \A c \in S : Bought(LegOf(c)),
         s = "dry-fired" => dryRun,
         byOrderId' \subseteq byOrderId,
         \A c \in Calls \ S : call[c] = "awaiting" => c \in byOrderId',
         order' = order \/ \E c \in Calls : /\ order[c] = "open"
                                            /\ order' = [order EXCEPT ![c] = "gone"],
         wire' \subseteq wire
  PROVE  IInv'
<1>1. /\ TypeOK
      /\ RoundHasStatus
      /\ OrdersFollowCalls
      /\ FillsAreReal
      /\ LiveIsBought
      /\ DryRunIsDry
      /\ WaitingIsRegistered
  BY DEF IInv
<1>2. /\ call' \in [Calls -> Progress \cup Results]
      /\ settled' \in [Legs -> Results \cup {"pending"}]
      /\ \A c \in Calls : call'[c] = IF c \in S THEN s ELSE call[c]
      /\ \A l \in Legs : settled'[l] # settled[l] =>
           /\ settled'[l] = s
           /\ settled[l] = "pending"
           /\ <<l, phase>> \in S
  BY <1>1, ReturnEffect
<1>3. UNCHANGED <<dryRun, syncLegs, phase, legs, revertStatus>>
  BY DEF deal, report
<1>4. s \notin {"idle", "jitter", "awaiting"}
  BY DEF Results, Live
<1>5. \A c \in Calls : \/ order'[c] = order[c]
                       \/ order[c] = "open" /\ order'[c] = "gone"
  BY <1>1 DEF TypeOK
<1>6. TypeOK'
  BY <1>1, <1>2, <1>3 DEF TypeOK, OrderStates
<1>7. RoundHasStatus'
  BY <1>1, <1>3 DEF RoundHasStatus
<1>8. OrdersFollowCalls'
  <2>1. \A c \in Calls : call'[c] \in {"idle", "jitter"} => order'[c] = "none"
    BY <1>1, <1>2, <1>4, <1>5 DEF OrdersFollowCalls
  <2>2. \A l \in Legs, r \in Roles : call[<<l, r>>] = "idle" => call'[<<l, r>>] = "idle"
    BY <1>2, CallParts
  <2> QED
    BY <1>1, <1>3, <2>1, <2>2 DEF OrdersFollowCalls, Roles
<1>9. FillsAreReal'
  BY <1>1, <1>3, <1>5, FilledForGood, CallParts DEF FillsAreReal, Live, TypeOK
<1>10. LiveIsBought'
  <2>1. \A l \in Legs : settled'[l] \in Live => Bought(l)
    <3> SUFFICES ASSUME NEW l \in Legs, settled'[l] \in Live, settled'[l] # settled[l]
                 PROVE  Bought(l)
      BY <1>1 DEF LiveIsBought
    <3>1. s \in Live /\ <<l, phase>> \in S
      BY <1>2
    <3> QED
      BY <3>1 DEF LegOf
  <2>2. \A l \in Legs : call'[<<l, "revert">>] # "idle" => Bought(l)
    BY <1>1, <1>2, CallParts DEF LiveIsBought, Roles
  <2> QED
    BY <1>1, <1>3, <2>1, <2>2, FilledForGood DEF LiveIsBought, Live
<1>11. DryRunIsDry'
  BY <1>1, <1>2, <1>3, <1>5 DEF DryRunIsDry
<1>12. WaitingIsRegistered'
  BY <1>1, <1>2, <1>4 DEF WaitingIsRegistered
<1> QED
  BY <1>6, <1>7, <1>8, <1>9, <1>10, <1>11, <1>12 DEF IInv

\* A step that leaves calls and results alone keeps what is said of them.
LEMMA WorldInv ==
  ASSUME IInv, [Next]_vars, UNCHANGED <<deal, phase, call, settled, report>>,
         order' \in [Calls -> OrderStates],
         byOrderId' \in SUBSET Calls, wire' \in SUBSET Calls
  PROVE  TypeOK' /\ RoundHasStatus' /\ LiveIsBought'
<1>1. UNCHANGED <<dryRun, syncLegs, phase, call, settled, legs, revertStatus>>
  BY DEF deal, report
<1>2. TypeOK'
  BY <1>1 DEF IInv, TypeOK
<1>3. RoundHasStatus'
  BY <1>1 DEF IInv, RoundHasStatus
<1>4. LiveIsBought'
  BY <1>1, FilledForGood DEF IInv, LiveIsBought, Live
<1> QED
  BY <1>2, <1>3, <1>4

\* IInv is inductive.
LEMMA IInvStep ==
  ASSUME IInv, [Next]_vars
  PROVE  IInv'
<1> USE CallParts
<1>0. /\ TypeOK
      /\ RoundHasStatus
      /\ OrdersFollowCalls
      /\ FillsAreReal
      /\ LiveIsBought
      /\ DryRunIsDry
      /\ WaitingIsRegistered
  BY DEF IInv
<1>1. ASSUME NEW c \in Calls, ExpireStale(c) PROVE IInv'
  <2>1. UNCHANGED <<deal, phase, call, settled, report>>
    BY <1>1 DEF ExpireStale, world
  <2>2. /\ order' \in [Calls -> OrderStates]
        /\ byOrderId' \in SUBSET Calls
        /\ wire' \in SUBSET Calls
    BY <1>0, <1>1 DEF ExpireStale, world, TypeOK, OrderStates, Live
  <2>3. TypeOK' /\ RoundHasStatus' /\ LiveIsBought'
    BY <2>1, <2>2, WorldInv
  <2>4. OrdersFollowCalls'
    BY <1>0, <1>1 DEF ExpireStale, OrdersFollowCalls, TypeOK, world
  <2>5. FillsAreReal'
    BY <1>0, <1>1 DEF ExpireStale, FillsAreReal, TypeOK, deal, world, Live
  <2>6. DryRunIsDry'
    BY <1>0, <1>1 DEF ExpireStale, DryRunIsDry, TypeOK, deal, report, world
  <2>7. WaitingIsRegistered'
    BY <1>0, <1>1 DEF ExpireStale, WaitingIsRegistered
  <2> QED
    BY <2>3, <2>4, <2>5, <2>6, <2>7 DEF IInv
<1>2. ASSUME NEW c \in Calls, Receive(c) PROVE IInv'
  <2>1. UNCHANGED <<deal, phase, call, settled, report>>
    BY <1>2 DEF Receive, world
  <2>2. /\ order' \in [Calls -> OrderStates]
        /\ byOrderId' \in SUBSET Calls
        /\ wire' \in SUBSET Calls
    BY <1>0, <1>2 DEF Receive, world, TypeOK, OrderStates, Live
  <2>3. TypeOK' /\ RoundHasStatus' /\ LiveIsBought'
    BY <2>1, <2>2, WorldInv
  <2>4. OrdersFollowCalls'
    BY <1>0, <1>2 DEF Receive, OrdersFollowCalls, TypeOK, world
  <2>5. FillsAreReal'
    BY <1>0, <1>2 DEF Receive, FillsAreReal, TypeOK, deal, world, Live
  <2>6. DryRunIsDry'
    BY <1>0, <1>2 DEF Receive, DryRunIsDry, TypeOK, deal, report, world
  <2>7. WaitingIsRegistered'
    BY <1>0, <1>2 DEF Receive, WaitingIsRegistered
  <2> QED
    BY <2>3, <2>4, <2>5, <2>6, <2>7 DEF IInv
<1>3. ASSUME NEW c \in Calls, Fill(c) PROVE IInv'
  <2>1. UNCHANGED <<deal, phase, call, settled, report>>
    BY <1>3 DEF Fill, world
  <2>2. /\ order' \in [Calls -> OrderStates]
        /\ byOrderId' \in SUBSET Calls
        /\ wire' \in SUBSET Calls
    BY <1>0, <1>3 DEF Fill, world, TypeOK, OrderStates, Live
  <2>3. TypeOK' /\ RoundHasStatus' /\ LiveIsBought'
    BY <2>1, <2>2, WorldInv
  <2>4. OrdersFollowCalls'
    BY <1>0, <1>3 DEF Fill, OrdersFollowCalls, TypeOK, world
  <2>5. FillsAreReal'
    BY <1>0, <1>3 DEF Fill, FillsAreReal, TypeOK, deal, world, Live
  <2>6. DryRunIsDry'
    BY <1>0, <1>3 DEF Fill, DryRunIsDry, TypeOK, deal, report, world
  <2>7. WaitingIsRegistered'
    BY <1>0, <1>3 DEF Fill, WaitingIsRegistered
  <2> QED
    BY <2>3, <2>4, <2>5, <2>6, <2>7 DEF IInv
<1>4. ASSUME NEW c \in Calls, Expire(c) PROVE IInv'
  <2>1. UNCHANGED <<deal, phase, call, settled, report>>
    BY <1>4 DEF Expire, world
  <2>2. /\ order' \in [Calls -> OrderStates]
        /\ byOrderId' \in SUBSET Calls
        /\ wire' \in SUBSET Calls
    BY <1>0, <1>4 DEF Expire, world, TypeOK, OrderStates, Live
  <2>3. TypeOK' /\ RoundHasStatus' /\ LiveIsBought'
    BY <2>1, <2>2, WorldInv
  <2>4. OrdersFollowCalls'
    BY <1>0, <1>4 DEF Expire, OrdersFollowCalls, TypeOK, world
  <2>5. FillsAreReal'
    BY <1>0, <1>4 DEF Expire, FillsAreReal, TypeOK, deal, world, Live
  <2>6. DryRunIsDry'
    BY <1>0, <1>4 DEF Expire, DryRunIsDry, TypeOK, deal, report, world
  <2>7. WaitingIsRegistered'
    BY <1>0, <1>4 DEF Expire, WaitingIsRegistered
  <2> QED
    BY <2>3, <2>4, <2>5, <2>6, <2>7 DEF IInv
<1>5. ASSUME NEW c \in Calls, WsLost(c) PROVE IInv'
  <2>1. UNCHANGED <<deal, phase, call, settled, report>>
    BY <1>5 DEF WsLost, world
  <2>2. /\ order' \in [Calls -> OrderStates]
        /\ byOrderId' \in SUBSET Calls
        /\ wire' \in SUBSET Calls
    BY <1>0, <1>5 DEF WsLost, world, TypeOK, OrderStates, Live
  <2>3. TypeOK' /\ RoundHasStatus' /\ LiveIsBought'
    BY <2>1, <2>2, WorldInv
  <2>4. OrdersFollowCalls'
    BY <1>0, <1>5 DEF WsLost, OrdersFollowCalls, TypeOK, world
  <2>5. FillsAreReal'
    BY <1>0, <1>5 DEF WsLost, FillsAreReal, TypeOK, deal, world, Live
  <2>6. DryRunIsDry'
    BY <1>0, <1>5 DEF WsLost, DryRunIsDry, TypeOK, deal, report, world
  <2>7. WaitingIsRegistered'
    BY <1>0, <1>5 DEF WsLost, WaitingIsRegistered
  <2> QED
    BY <2>3, <2>4, <2>5, <2>6, <2>7 DEF IInv
<1>6. ASSUME NEW c \in Calls, BuildLeg(c) PROVE IInv'
  <2>1. CASE Return({c}, "rejected") /\ UNCHANGED order
    BY <1>0, <1>6, <2>1, ReturnInv DEF BuildLeg, Results, Live, WaitingIsRegistered
  <2>2. CASE dryRun /\ Return({c}, "dry-fired") /\ UNCHANGED order
    BY <1>0, <1>6, <2>2, ReturnInv DEF BuildLeg, Results, Live, WaitingIsRegistered
  <2>3. CASE /\ ~dryRun
             /\ call' = [call EXCEPT ![c] = "posting"]
             /\ order' = [order EXCEPT ![c] = "sent"]
             /\ UNCHANGED settled
    <3>1. UNCHANGED <<dryRun, syncLegs, phase, settled, legs, revertStatus, byOrderId, wire>>
      BY <1>6, <2>3 DEF BuildLeg, deal, report
    <3>2. TypeOK'
      BY <1>0, <2>3, <3>1 DEF TypeOK, Progress, OrderStates
    <3>3. OrdersFollowCalls'
      BY <1>0, <1>6, <2>3, <3>1 DEF OrdersFollowCalls, TypeOK, BuildLeg, Roles
    <3>4. FillsAreReal'
      BY <1>0, <1>6, <2>3, <3>1 DEF FillsAreReal, OrdersFollowCalls, TypeOK, BuildLeg, Live
    <3>5. LiveIsBought'
      BY <1>0, <1>6, <2>3, <3>1, FilledForGood DEF LiveIsBought, TypeOK, BuildLeg, Live, Roles
    <3>6. RoundHasStatus' /\ DryRunIsDry' /\ WaitingIsRegistered'
      BY <1>0, <2>3, <3>1 DEF RoundHasStatus, DryRunIsDry, WaitingIsRegistered, TypeOK
    <3> QED
      BY <3>2, <3>3, <3>4, <3>5, <3>6 DEF IInv
  <2> QED
    BY <1>6, <2>1, <2>2, <2>3 DEF BuildLeg
<1>7. ASSUME NEW c \in Calls, PostFails(c) PROVE IInv'
  BY <1>0, <1>7, ReturnInv DEF PostFails, Results, Live, WaitingIsRegistered, world
<1>8. ASSUME NEW c \in Calls, CancelReturns(c) PROVE IInv'
  BY <1>0, <1>8, ReturnInv DEF CancelReturns, Results, Live, WaitingIsRegistered
<1>9. ASSUME NEW c \in Calls, PostAnswers(c) PROVE IInv'
  <2>1. CASE LegOf(c) \in syncLegs
    <3>1. order[c] \in Live
      BY <1>0, <1>9, <2>1 DEF PostAnswers, Accepted, FillsAreReal
    <3>2. Bought(LegOf(c))
      BY <1>0, <1>9, <3>1 DEF PostAnswers, LiveIsBought, Bought, Roles
    <3> QED
      BY <1>0, <1>9, <2>1, <3>2, ReturnInv
         DEF PostAnswers, Results, Live, WaitingIsRegistered, world
  <2>2. CASE LegOf(c) \notin syncLegs
    <3>1. /\ call' = [call EXCEPT ![c] = "awaiting"]
          /\ byOrderId' = byOrderId \cup {c}
          /\ UNCHANGED <<dryRun, syncLegs, phase, settled, legs, revertStatus, order, wire>>
      BY <1>9, <2>2 DEF PostAnswers, deal, report, world
    <3>2. TypeOK'
      BY <1>0, <3>1 DEF TypeOK, Progress
    <3>3. OrdersFollowCalls'
      BY <1>0, <1>9, <3>1 DEF OrdersFollowCalls, TypeOK, PostAnswers, Roles
    <3>4. LiveIsBought'
      BY <1>0, <1>9, <3>1, FilledForGood DEF LiveIsBought, TypeOK, PostAnswers, Live, Roles
    <3>5. /\ RoundHasStatus'
          /\ FillsAreReal'
          /\ DryRunIsDry'
          /\ WaitingIsRegistered'
      BY <1>0, <3>1 DEF RoundHasStatus, FillsAreReal, DryRunIsDry, WaitingIsRegistered, TypeOK
    <3> QED
      BY <3>2, <3>3, <3>4, <3>5 DEF IInv
  <2> QED
    BY <2>1, <2>2
<1>10. ASSUME NEW c \in Calls, Deadman(c) PROVE IInv'
  <2>1. CASE Return({c}, "timeout")
    BY <1>0, <1>10, <2>1, ReturnInv DEF Deadman, Results, Live, WaitingIsRegistered, world
  <2>2. CASE call' = [call EXCEPT ![c] = "cancelling"] /\ UNCHANGED settled
    <3>1. /\ byOrderId' = byOrderId \ {c}
          /\ UNCHANGED <<dryRun, syncLegs, phase, settled, legs, revertStatus, order, wire>>
      BY <1>10, <2>2 DEF Deadman, deal, report, world
    <3>2. TypeOK'
      BY <1>0, <2>2, <3>1 DEF TypeOK, Progress
    <3>3. OrdersFollowCalls'
      BY <1>0, <1>10, <2>2, <3>1 DEF OrdersFollowCalls, TypeOK, Deadman, Roles
    <3>4. LiveIsBought'
      BY <1>0, <1>10, <2>2, <3>1, FilledForGood DEF LiveIsBought, TypeOK, Deadman, Live, Roles
    <3>5. /\ RoundHasStatus'
          /\ FillsAreReal'
          /\ DryRunIsDry'
          /\ WaitingIsRegistered'
      BY <1>0, <2>2, <3>1 DEF RoundHasStatus, FillsAreReal, DryRunIsDry, WaitingIsRegistered, TypeOK
    <3> QED
      BY <3>2, <3>3, <3>4, <3>5 DEF IInv
  <2> QED
    BY <1>10, <2>1, <2>2 DEF Deadman
<1>11. ASSUME NEW c \in Calls, WsNotice(c) PROVE IInv'
  <2>1. order[c] \in Live /\ Bought(LegOf(c))
    BY <1>0, <1>11 DEF WsNotice, FillsAreReal, LiveIsBought, OrdersFollowCalls, Bought, Roles, Live
  <2>2. CASE c \in byOrderId
    <3>1. Listeners(LegOf(c)) \in SUBSET Calls
      BY DEF Listeners
    <3>2. c \in Listeners(LegOf(c)) \/ call[c] # "awaiting"
      BY DEF Listeners
    <3> QED
      BY <1>0, <1>11, <2>1, <2>2, <3>1, <3>2, ReturnInv
         DEF WsNotice, Listeners, Results, Live, WaitingIsRegistered
  <2>3. CASE c \notin byOrderId
    <3>1. UNCHANGED <<dryRun, syncLegs, phase, call, settled, legs, revertStatus, byOrderId, order>>
      BY <1>11, <2>3 DEF WsNotice, deal, report
    <3>2. wire' = wire \ {c}
      BY <1>11 DEF WsNotice
    <3> QED
      BY <1>0, <3>1, <3>2 DEF IInv, TypeOK, RoundHasStatus, OrdersFollowCalls,
         FillsAreReal, LiveIsBought, DryRunIsDry, WaitingIsRegistered, Bought
  <2> QED
    BY <2>2, <2>3
<1>12. CASE Abort
  <2>1. UNCHANGED <<dryRun, syncLegs, call, settled, revertStatus, byOrderId, order, wire>>
    BY <1>12 DEF Abort, deal, world
  <2>2. revertStatus' = revertStatus /\ \A l \in Legs : revertStatus[l] = "none"
    BY <1>0, <1>12, <2>1 DEF Abort, RoundHasStatus
  <2> QED
    BY <1>0, <1>12, <2>1, <2>2 DEF Abort, IInv, TypeOK, RoundHasStatus,
       OrdersFollowCalls, FillsAreReal, LiveIsBought, DryRunIsDry,
       WaitingIsRegistered, Bought, Live, Phases
<1>13. CASE FireLegs
  <2>1. UNCHANGED <<dryRun, syncLegs, settled, legs, revertStatus, byOrderId, order, wire>>
    BY <1>13 DEF FireLegs, deal, report, world
  <2>2. \A c \in Calls : call'[c] = IF RoleOf(c) = "fire" THEN "jitter" ELSE call[c]
    BY <1>13 DEF FireLegs
  <2>3. TypeOK'
    BY <1>0, <1>13, <2>1 DEF FireLegs, TypeOK, Phases, Progress
  <2>4. OrdersFollowCalls'
    <3>1. \A c \in Calls : RoleOf(c) = "fire" => order[c] = "none"
      <4> SUFFICES ASSUME NEW c \in Calls, RoleOf(c) = "fire" PROVE order[c] = "none"
        OBVIOUS
      <4>1. call[<<LegOf(c), "fire">>] = "idle"
        BY <1>0, <1>13 DEF FireLegs, OrdersFollowCalls
      <4> QED
        BY <1>0, <4>1 DEF OrdersFollowCalls
    <3>2. \A c \in Calls : call'[c] \in {"idle", "jitter"} => order'[c] = "none"
      BY <1>0, <2>1, <2>2, <3>1 DEF OrdersFollowCalls
    <3>3. \A l \in Legs : /\ call'[<<l, "retry">>] = call[<<l, "retry">>]
                         /\ call'[<<l, "revert">>] = call[<<l, "revert">>]
      BY <2>2 DEF Roles
    <3> QED
      BY <1>0, <1>13, <2>1, <3>2, <3>3 DEF FireLegs, OrdersFollowCalls
  <2>5. LiveIsBought'
    BY <1>0, <2>1, <2>2 DEF LiveIsBought, Bought, Live, Roles
  <2>6. RoundHasStatus' /\ FillsAreReal' /\ DryRunIsDry' /\ WaitingIsRegistered'
    BY <1>0, <1>13, <2>1, <2>2 DEF FireLegs, RoundHasStatus, FillsAreReal,
       DryRunIsDry, WaitingIsRegistered
  <2> QED
    BY <2>3, <2>4, <2>5, <2>6 DEF IInv
<1>14. ASSUME phase \in {"fire", "retry"}, AllSettled, Conclude(settled),
              UNCHANGED <<deal, call, settled, byOrderId, world>>
       PROVE  IInv'
  <2>1. UNCHANGED <<dryRun, syncLegs, call, settled, byOrderId, order, wire>>
    BY <1>14 DEF deal, world
  <2>2. settled \in [Legs -> Results]
    BY <1>0, <1>14 DEF TypeOK, AllSettled
  <2>3. /\ legs' = settled
        /\ revertStatus' \in [Legs -> {"none", "pending"}]
        /\ \A l \in Legs : revertStatus'[l] # "none" => legs'[l] \in Live
        /\ phase' \in {"done", "revert"}
    BY <1>14 DEF Conclude, PlanRevert, LiveLegs
  <2>4. LiveIsBought'
    BY <1>0, <2>1, <2>3 DEF LiveIsBought, Bought, Live
  <2> QED
    BY <1>0, <2>1, <2>2, <2>3, <2>4 DEF IInv, TypeOK, RoundHasStatus,
       OrdersFollowCalls, FillsAreReal, DryRunIsDry, WaitingIsRegistered, Phases
<1>15. CASE JoinFire
  <2>1. CASE RetryLegs(settled) = {}
    BY <1>14, <1>15, <2>1 DEF JoinFire
  <2>2. CASE RetryLegs(settled) # {}
    <3> DEFINE R == RetryLegs(settled)
    <3>1. /\ phase = "fire" /\ phase' = "retry"
          /\ legs' = settled
          /\ settled' = [l \in Legs |-> IF l \in R THEN "pending" ELSE settled[l]]
          /\ call' = [c \in Calls |->
                        IF LegOf(c) \in R /\ RoleOf(c) = "retry" THEN "jitter" ELSE call[c]]
          /\ UNCHANGED <<dryRun, syncLegs, revertStatus, byOrderId, order, wire>>
      BY <1>15, <2>2 DEF JoinFire, deal, world
    <3>2. settled \in [Legs -> Results]
      BY <1>0, <1>15 DEF JoinFire, TypeOK, AllSettled
    <3> HIDE DEF R
    <3>3. \A c \in Calls : call'[c] # call[c] => RoleOf(c) = "retry" /\ call'[c] = "jitter"
      BY <3>1
    <3>4. \A l \in Legs : revertStatus[l] = "none"
      BY <1>0, <3>1 DEF RoundHasStatus
    <3>5. TypeOK'
      BY <1>0, <3>1, <3>2 DEF TypeOK, Phases, Progress
    <3>6. OrdersFollowCalls'
      <4>1. \A c \in Calls : RoleOf(c) = "retry" => order[c] = "none"
        <5> SUFFICES ASSUME NEW c \in Calls, RoleOf(c) = "retry" PROVE order[c] = "none"
          OBVIOUS
        <5>1. call[<<LegOf(c), "retry">>] = "idle"
          BY <1>0, <3>1 DEF OrdersFollowCalls
        <5> QED
          BY <1>0, <5>1 DEF OrdersFollowCalls
      <4>2. \A c \in Calls : call'[c] \in {"idle", "jitter"} => order'[c] = "none"
        BY <1>0, <3>1, <3>3, <4>1 DEF OrdersFollowCalls
      <4>3. \A l \in Legs : call'[<<l, "revert">>] = call[<<l, "revert">>]
        BY <3>3 DEF Roles
      <4> QED
        BY <1>0, <3>1, <4>2, <4>3 DEF OrdersFollowCalls
    <3>7. LiveIsBought'
      BY <1>0, <3>1, <3>3, <3>4 DEF LiveIsBought, Bought, Live, Roles
    <3>8. RoundHasStatus' /\ FillsAreReal' /\ DryRunIsDry' /\ WaitingIsRegistered'
      BY <1>0, <3>1, <3>2, <3>3 DEF RoundHasStatus, FillsAreReal, DryRunIsDry, WaitingIsRegistered
    <3> QED
      BY <3>5, <3>6, <3>7, <3>8 DEF IInv
  <2> QED
    BY <2>1, <2>2
<1>16. CASE JoinRetry
  BY <1>14, <1>16 DEF JoinRetry
<1>17. ASSUME NEW l \in Legs, LegTimer(l) PROVE IInv'
  <2>1. /\ settled' = [settled EXCEPT ![l] = IF phase = "fire" THEN "rejected" ELSE legs[l]]
        /\ UNCHANGED <<dryRun, syncLegs, phase, call, legs, revertStatus, byOrderId, order, wire>>
    BY <1>17 DEF LegTimer, deal, report, world
  <2>2. settled'[l] \in Results
    BY <1>0, <1>17, <2>1 DEF LegTimer, TypeOK, RoundHasStatus, Results
  <2> QED
    BY <1>0, <1>17, <2>1, <2>2 DEF LegTimer, IInv, TypeOK, RoundHasStatus,
       OrdersFollowCalls, FillsAreReal, LiveIsBought, DryRunIsDry,
       WaitingIsRegistered, Bought, Live
<1>18. ASSUME NEW l \in Legs, RevertLeg(l) PROVE IInv'
  <2>1. /\ phase = "revert" /\ revertStatus[l] = "pending"
        /\ call[<<l, "revert">>] = "idle"
        /\ call' = [call EXCEPT ![<<l, "revert">>] = "jitter"]
        /\ UNCHANGED <<dryRun, syncLegs, phase, settled, legs, revertStatus, byOrderId, order, wire>>
    BY <1>18 DEF RevertLeg, deal, report, world
  <2>2. Bought(l)
    BY <1>0, <2>1 DEF LiveIsBought
  <2>3. TypeOK' /\ RoundHasStatus' /\ FillsAreReal' /\ DryRunIsDry' /\ WaitingIsRegistered'
    BY <1>0, <2>1 DEF TypeOK, Progress, RoundHasStatus, FillsAreReal, DryRunIsDry,
       WaitingIsRegistered
  <2>4. OrdersFollowCalls'
    BY <1>0, <2>1 DEF OrdersFollowCalls, TypeOK, Roles
  <2>5. LiveIsBought'
    BY <1>0, <2>1, <2>2 DEF LiveIsBought, TypeOK, Bought, Live, Roles
  <2> QED
    BY <2>3, <2>4, <2>5 DEF IInv
<1>19. ASSUME NEW l \in Legs, RevertSettles(l) PROVE IInv'
  <2>1. /\ phase = "revert" /\ revertStatus[l] = "pending"
        /\ revertStatus' = [revertStatus EXCEPT ![l] =
             IF call[<<l, "revert">>] \in Live THEN "sold" ELSE "failed"]
        /\ phase' \in {"revert", "done"}
        /\ UNCHANGED <<dryRun, syncLegs, call, settled, legs, byOrderId, order, wire>>
    BY <1>19 DEF RevertSettles, deal, world
  <2> QED
    BY <1>0, <2>1 DEF IInv, TypeOK, RoundHasStatus, OrdersFollowCalls, FillsAreReal,
       LiveIsBought, DryRunIsDry, WaitingIsRegistered, Bought, Live, Phases
<1>20. CASE UNCHANGED vars
  BY <1>0, <1>20 DEF vars, IInv, TypeOK, RoundHasStatus, OrdersFollowCalls,
     FillsAreReal, LiveIsBought, DryRunIsDry, WaitingIsRegistered, Bought
<1> QED
  BY <1>1, <1>2, <1>3, <1>4, <1>5, <1>6, <1>7, <1>8, <1>9, <1>10, <1>11, <1>12,
     <1>13, <1>15, <1>16, <1>17, <1>18, <1>19, <1>20
     DEF Next, ArbStep, LegStep, WorldStep, Terminated

\* IInv holds initially and always.
LEMMA IInvInit == Init => IInv
BY DEF Init, IInv, TypeOK, RoundHasStatus, OrdersFollowCalls, FillsAreReal,
   LiveIsBought, DryRunIsDry, WaitingIsRegistered, Bought, Calls, Roles, LegOf,
   Live, Results, Progress, OrderStates, Phases

\* So the invariant holds for ever.
LEMMA Invariance == Spec => []IInv
<1>1. IInv /\ [Next]_vars => IInv'
  BY IInvStep
<1> QED
  BY IInvInit, <1>1, PTL DEF Spec

------------------------------------------------------------------------------
\* Theorems

\* Every variable keeps its type.
THEOREM TypeCorrect == Spec => []TypeOK
<1>1. IInv => TypeOK
  BY DEF IInv
<1> QED
  BY Invariance, <1>1, PTL

\* fireArb never reports a fill that no exchange made, however its attempts,
\* notices and timers interleave.
THEOREM FillsAreNotInvented == Spec => []ReportedFillIsReal
<1>1. IInv => ReportedFillIsReal
  BY DEF IInv, LiveIsBought, ReportedFillIsReal
<1> QED
  BY Invariance, <1>1, PTL

\* The registry holds the order id of every call that waits, so neither the
\* janitor nor another attempt of the leg takes it away.
THEOREM RegistryServesWaiters == Spec => []WaitingIsRegistered
<1>1. IInv => WaitingIsRegistered
  BY DEF IInv
<1> QED
  BY Invariance, <1>1, PTL

\* The revert never sells a leg that was not bought.
THEOREM RevertSellsWhatWasBought == Spec => []NoSellWithoutBuy
<1>1. IInv => NoSellWithoutBuy
  BY CallParts DEF IInv, LiveIsBought, OrdersFollowCalls, NoSellWithoutBuy, Roles
<1> QED
  BY Invariance, <1>1, PTL

\* An attempt that lost its race changes neither its leg's result for the
\* round nor, once fireArb returned, what it returned.
THEOREM LateResultsChangeNothing == Spec => LateResultsIgnored
<1>1. ASSUME TypeOK, [Next]_vars
      PROVE  /\ phase \in {"done", "aborted"} => UNCHANGED <<phase, report>>
             /\ phase' = phase =>
                  \A l \in Legs : settled[l] # "pending" => settled'[l] = settled[l]
  <2>1. CASE ArbStep
    <3>1. CASE \E l \in Legs : LegTimer(l)
      BY <1>1, <3>1 DEF LegTimer, TypeOK
    <3>2. CASE JoinFire \/ JoinRetry
      BY <3>2 DEF JoinFire, JoinRetry, Conclude
    <3>3. CASE FireLegs \/ Abort \/ \E l \in Legs : RevertLeg(l) \/ RevertSettles(l)
      BY <3>3 DEF Abort, FireLegs, RevertLeg, RevertSettles
    <3> QED
      BY <2>1, <3>1, <3>2, <3>3 DEF ArbStep
  <2>2. CASE \E c \in Calls : LegStep(c)
    BY <2>2 DEF LegStep, BuildLeg, PostAnswers, PostFails, Deadman, CancelReturns, Return
  <2>3. CASE \E c \in Calls : WorldStep(c)
    BY <2>3 DEF WorldStep, Receive, Fill, Expire, WsNotice, WsLost, ExpireStale, Return
  <2>4. CASE UNCHANGED vars
    BY <2>4 DEF vars, report
  <2> QED
    BY <1>1, <2>1, <2>2, <2>3, <2>4 DEF Next, Terminated
<1> QED
  BY <1>1, TypeCorrect, PTL DEF Spec, LateResultsIgnored

------------------------------------------------------------------------------
\* The reported statuses implement AtomicArb

\* A verdict on f that plans the revert leaves no leg held beside a missed one.
LEMMA ConcludeDecides ==
  ASSUME IInv, IInv', phase \in {"fire", "retry"}, AllSettled, Conclude(settled),
         UNCHANGED <<deal, call, settled, byOrderId, world>>
  PROVE  Abstract!Decide
<1> DEFINE f == settled
<1>1. \A l \in Legs : standing[l] = "open"
  BY DEF standing
<1>2. /\ legs' = settled
      /\ phase' = IF PlanRevert(settled) = {} THEN "done" ELSE "revert"
      /\ \A l \in Legs : revertStatus'[l] =
           IF l \in PlanRevert(settled) THEN "pending" ELSE "none"
  BY DEF Conclude
<1>3. \A l \in Legs : standing'[l] =
        IF settled[l] \notin Live THEN "missed"
        ELSE IF l \in PlanRevert(settled) THEN "flattening" ELSE "held"
  BY <1>2 DEF standing, Live
<1>4. standing' \in [Legs -> {"held", "missed", "flattening"}]
  <2>1. standing' = [l \in Legs |-> standing'[l]]
    BY DEF standing
  <2>2. \A l \in Legs : standing'[l] \in {"held", "missed", "flattening"}
    BY <1>3
  <2> QED
    BY <2>1, <2>2
<1>5. ASSUME NEW h \in Legs, standing'[h] = "held"
      PROVE  \A l \in Legs : standing'[l] = "held"
  <2>1. settled[h] \in Live /\ BrokenLegs(settled) = {}
    BY <1>3, <1>5 DEF PlanRevert, LiveLegs
  <2>2. ~dryRun
    BY <2>1 DEF IInv, LiveIsBought, DryRunIsDry, Bought, Calls, Roles, Live
  <2>3. \A l \in Legs : settled[l] \in Live
    BY <2>1, <2>2 DEF IInv, TypeOK, DryRunIsDry, AllSettled, BrokenLegs, Broken, Results, Live
  <2> QED
    BY <1>3, <2>1, <2>3 DEF PlanRevert
<1>6. ASSUME NEW h \in Legs, standing'[h] = "flattening"
      PROVE  \E l \in Legs : standing'[l] = "missed"
  <2>1. BrokenLegs(settled) # {}
    BY <1>3, <1>6 DEF PlanRevert
  <2>2. PICK l \in Legs : settled[l] \in Broken
    BY <2>1 DEF BrokenLegs
  <2> QED
    BY <1>3, <2>2 DEF Broken, Live
<1> QED
  BY <1>1, <1>4, <1>5, <1>6 DEF Abstract!Decide, Abstract!Verdict

\* Every step of the executor is a step of AtomicArb or leaves it alone.
LEMMA StepRefines ==
  ASSUME IInv, IInv', [Next]_vars
  PROVE  [Abstract!Next]_standing
<1>1. CASE UNCHANGED <<phase, report>>
  BY <1>1 DEF standing, report
<1>2. CASE Abort
  <2>1. \A l \in Legs : standing[l] = "open"
    BY <1>2 DEF Abort, standing
  <2>2. standing' = [l \in Legs |-> "missed"]
    BY <1>2 DEF Abort, standing
  <2> QED
    BY <2>1, <2>2 DEF Abstract!Next, Abstract!Decide, Abstract!Verdict
<1>3. CASE FireLegs
  BY <1>3 DEF FireLegs, standing
<1>4. CASE JoinFire
  <2>1. CASE RetryLegs(settled) = {}
    BY <1>4, <2>1, ConcludeDecides DEF JoinFire, Abstract!Next
  <2>2. CASE RetryLegs(settled) # {}
    BY <1>4, <2>2 DEF JoinFire, standing
  <2> QED
    BY <2>1, <2>2
<1>5. CASE JoinRetry
  BY <1>5, ConcludeDecides DEF JoinRetry, Abstract!Next
<1>6. ASSUME NEW k \in Legs, RevertSettles(k) PROVE Abstract!Flatten(k)
  <2>1. /\ phase = "revert" /\ phase' \in {"revert", "done"}
        /\ revertStatus[k] = "pending" /\ legs' = legs
        /\ \A l \in Legs : revertStatus'[l] =
             IF l = k THEN IF call[<<k, "revert">>] \in Live THEN "sold" ELSE "failed"
             ELSE revertStatus[l]
    BY <1>6 DEF RevertSettles, IInv, TypeOK
  <2>2. legs[k] \in Live
    BY <2>1 DEF IInv, LiveIsBought
  <2>3. standing[k] = "flattening"
    BY <2>1, <2>2 DEF standing, Live
  <2>4. standing'[k] \in {"sold", "stuck"}
    BY <2>1, <2>2 DEF standing, Live
  <2>5. \A l \in Legs \ {k} : standing'[l] = standing[l]
    BY <2>1 DEF standing
  <2>6. standing' = [standing EXCEPT ![k] = standing'[k]]
    <3>1. /\ standing = [l \in Legs |-> standing[l]]
          /\ standing' = [l \in Legs |-> standing'[l]]
      BY DEF standing
    <3> QED
      BY <2>5, <3>1
  <2> QED
    BY <2>3, <2>4, <2>6 DEF Abstract!Flatten
<1>7. CASE ArbStep
  <2>1. ASSUME NEW l \in Legs, LegTimer(l) \/ RevertLeg(l)
        PROVE  UNCHANGED <<phase, report>>
    BY <2>1 DEF LegTimer, RevertLeg
  <2> QED
    BY <1>1, <1>2, <1>3, <1>4, <1>5, <1>6, <1>7, <2>1 DEF ArbStep, Abstract!Next
<1>8. CASE \E c \in Calls : LegStep(c)
  BY <1>1, <1>8 DEF LegStep, BuildLeg, PostAnswers, PostFails, Deadman, CancelReturns
<1>9. CASE \E c \in Calls : WorldStep(c)
  BY <1>1, <1>9 DEF WorldStep, Receive, Fill, Expire, WsNotice, WsLost, ExpireStale
<1>10. CASE UNCHANGED vars
  BY <1>1, <1>10 DEF vars, report
<1> QED
  BY <1>7, <1>8, <1>9, <1>10 DEF Next, Terminated

\* What fireArb reports is a verdict on all legs together followed by the
\* flattening of the legs it named: no leg is reported held beside a missed
\* one, and none is sold or stuck that was not to be flattened.
THEOREM ReportsImplementAtomicArb == Spec => ReportsAtomically
<1>1. Init => Abstract!Init
  BY DEF Init, Abstract!Init, standing
<1>2. IInv /\ IInv' /\ [Next]_vars => [Abstract!Next]_standing
  BY StepRefines
<1> QED
  BY Invariance, <1>1, <1>2, PTL DEF Spec, ReportsAtomically, Abstract!Spec

\* No leg is ever reported held beside a leg that was missed, sold or stuck.
THEOREM NoLegHeldAlone == Spec => []Abstract!NoNakedLeg
<1>1. Init => Abstract!NoNakedLeg
  BY DEF Init, Abstract!NoNakedLeg, standing
<1>2. ASSUME Abstract!NoNakedLeg, [Abstract!Next]_standing
      PROVE  Abstract!NoNakedLeg'
  <2>1. CASE Abstract!Decide
    BY <2>1 DEF Abstract!Decide, Abstract!Verdict, Abstract!NoNakedLeg
  <2>2. ASSUME NEW k \in Legs, Abstract!Flatten(k) PROVE Abstract!NoNakedLeg'
    <3>1. DOMAIN standing = Legs
      BY DEF standing
    <3>2. \A l \in Legs : standing[l] # "held"
      BY <1>2, <2>2 DEF Abstract!Flatten, Abstract!NoNakedLeg
    <3>3. \A l \in Legs : standing'[l] # "held"
      BY <2>2, <3>1, <3>2 DEF Abstract!Flatten
    <3> QED
      BY <3>3 DEF Abstract!NoNakedLeg
  <2>3. CASE UNCHANGED standing
    BY <1>2, <2>3 DEF Abstract!NoNakedLeg
  <2> QED
    BY <1>2, <2>1, <2>2, <2>3 DEF Abstract!Next
<1>3. IInv /\ IInv' /\ [Next]_vars => [Abstract!Next]_standing
  BY StepRefines
<1> QED
  BY Invariance, <1>1, <1>2, <1>3, PTL DEF Spec

==============================================================================
