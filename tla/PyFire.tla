-------------------------------- MODULE PyFire --------------------------------
(***************************************************************************)
(* The in-process executor: fire_arb, its leg threads and its revert       *)
(* (Scripts/executor/atomic.py), the fill registry they wait on            *)
(* (Scripts/executor/fills.py) and the handlers that feed it from the user *)
(* sockets (on_lim_fill, on_poly_fill in Scripts/arb_server.py).           *)
(*                                                                         *)
(* Every leg has a thread that posts, registers the order id the answer    *)
(* brought, and waits.  A fill brings two notices: the match and the       *)
(* settlement, or MATCHED and CONFIRMED.  A notice is looked up by order   *)
(* id first and by market (slug) otherwise, and the threads of every arb   *)
(* in flight share the registry.  Every order event that Limitless pushes  *)
(* is taken for a fill, those of other orders on the market too.           *)
(***************************************************************************)
EXTENDS Naturals, Sequences, SequencesExt

CONSTANTS
  Arbs,     \* arbs fired by threads of their own
  Legs,     \* leg_idx values, in revert order
  Slugs,    \* markets
  NoSlug    \* what a leg registers that has no slug: polymarket and sx_bet

Calls == Arbs \X Legs
ArbOf(c) == c[1]
LegOf(c) == c[2]

ASSUME LegsAssumption == Legs \subseteq Nat /\ Legs # {}
ASSUME NoSlugAssumption == NoSlug \notin Slugs

VARIABLES
  dryRun,     \* the arbs are logged and not posted
  slug,       \* the market each leg registers
  phase,      \* where each fire_arb stands
  call,       \* progress of every leg's thread, then the leg's status
  order,      \* state of each order at its exchange
  hasId,      \* legs whose answer carried an order id
  wire,       \* notices on their way
  strange,    \* history: markets where a push that told no fill of ours woke a leg
  byOrderId,  \* _by_order_id: legs registered under their order id
  bySlug,     \* _by_slug: legs registered under their market, oldest first
  sell        \* each leg's entry in the revert results

vars == <<dryRun, slug, phase, call, order, hasId, wire, strange, byOrderId, bySlug, sell>>

deal == <<dryRun, slug>>

registry == <<byOrderId, bySlug>>
world == <<order, wire, strange>>

------------------------------------------------------------------------------
\* Values

Live == {"filled", "filled_with_slippage"}
Bought == Live \cup {"part"}
Failed == {"rejected", "timeout", "disabled", "filled_with_slippage"}
Results == Live \cup Failed \cup {"dry-fired", "partial"}
Progress == {"idle", "jitter", "posting", "answered", "waiting"}
Notices == {"match", "settlement"}

LegsOf(a) == {c \in Calls : ArbOf(c) = a}

\* Fault: the results are read before every thread has returned.
SomeReturned(a) == \E c \in LegsOf(a) : call[c] \in Results

AllReturned(a) == \A c \in LegsOf(a) : call[c] \in Results

TypeOK ==
  /\ dryRun \in BOOLEAN
  /\ slug \in [Calls -> Slugs \cup {NoSlug}]
  /\ phase \in [Arbs -> {"gate", "fire", "late", "revert", "done", "aborted", "raised"}]
  /\ call \in [Calls -> Progress \cup Results]
  /\ order \in [Calls -> {"none", "sent", "refused", "open", "gone"} \cup Bought]
  /\ hasId \subseteq Calls
  /\ wire \subseteq Calls \X Notices
  /\ strange \subseteq Slugs
  /\ byOrderId \subseteq hasId
  /\ bySlug \in [Slugs -> Seq(Calls)]
  /\ sell \in [Calls -> {"none", "due", "posting", "sold", "unsold"}]
  /\ \A c \in Calls :
       phase[ArbOf(c)] \in {"revert", "done", "raised"} => call[c] \in Results

\* A deal is on one platform, so its legs have slugs or none has.
Init ==
  /\ dryRun \in BOOLEAN
  /\ slug \in [Calls -> Slugs \cup {NoSlug}]
  /\ \A c, d \in Calls :
       ArbOf(c) = ArbOf(d) => (slug[c] = NoSlug <=> slug[d] = NoSlug)
  /\ phase = [a \in Arbs |-> "gate"]
  /\ call = [c \in Calls |-> "idle"]
  /\ order = [c \in Calls |-> "none"]
  /\ hasId = {}
  /\ wire = {}
  /\ strange = {}
  /\ byOrderId = {}
  /\ bySlug = [s \in Slugs |-> <<>>]
  /\ sell = [c \in Calls |-> "none"]

------------------------------------------------------------------------------
\* _fire_one_leg_live, _fire_one_leg_dryrun

Becomes(c, s) == call' = [call EXCEPT ![c] = s]

\* After the jitter: the builder finds nothing to build or the platform is
\* disabled, a dry run logs the order, or the POST leaves.
BuildLeg(c) ==
  /\ call[c] = "jitter"
  /\ \/ \E s \in {"rejected", "disabled"} : Becomes(c, s) /\ UNCHANGED order
     \/ /\ dryRun
        /\ \E s \in {"dry-fired", "partial"} : Becomes(c, s)
        /\ UNCHANGED order
     \/ /\ ~dryRun
        /\ Becomes(c, "posting")
        /\ order' = [order EXCEPT ![c] = "sent"]
  /\ UNCHANGED <<deal, phase, hasId, wire, strange, registry, sell>>

\* A 2xx answer: with the order id, or without one when the exchange accepts
\* the request and refuses the order.
PostAnswers(c) ==
  /\ call[c] = "posting"
  /\ order[c] # "sent"
  /\ Becomes(c, "answered")
  /\ hasId' = IF order[c] = "refused" THEN hasId ELSE hasId \cup {c}
  /\ UNCHANGED <<deal, phase, world, registry, sell>>

\* Any other status, or an exception: the order may be at the exchange.
PostFails(c) ==
  /\ call[c] = "posting"
  /\ Becomes(c, "rejected")
  /\ UNCHANGED <<deal, phase, hasId, world, registry, sell>>

\* FillRegistry.register, once the answer is parsed.
Register(c) ==
  /\ call[c] = "answered"
  /\ Becomes(c, "waiting")
  /\ byOrderId' = IF c \in hasId THEN byOrderId \cup {c} ELSE byOrderId
  /\ bySlug' = [s \in Slugs |->
                  IF s = slug[c] THEN Append(bySlug[s], c) ELSE bySlug[s]]
  /\ UNCHANGED <<deal, phase, hasId, world, sell>>

\* Fault: only a leg with an order id waits with a timeout.
DeadmanNeedsId(c) ==
  /\ call[c] = "waiting"
  /\ c \in hasId
  /\ Becomes(c, "timeout")
  /\ UNCHANGED <<deal, phase, hasId, world, registry, sell>>

\* The dead-man timer.  The order is not cancelled and the registration stays.
Deadman(c) ==
  /\ call[c] = "waiting"
  /\ Becomes(c, "timeout")
  /\ UNCHANGED <<deal, phase, hasId, world, registry, sell>>

------------------------------------------------------------------------------
\* FillRegistry.consume_by_order_id, consume_by_slug

WithoutCall(c) == [s \in Slugs |-> RemoveFirst(bySlug[s], c)]

\* Fault: the entry under the order id outlives the one under the slug.
ConsumeLeavesId(c) ==
  /\ byOrderId' = byOrderId
  /\ bySlug' = WithoutCall(c)

\* The registration of c is taken off both indexes.
Consume(c) ==
  /\ byOrderId' = byOrderId \ {c}
  /\ bySlug' = WithoutCall(c)

\* Fault: the fallback looks through the platform's registrations.
OldestOfPlatform(s) ==
  LET waiting == {t \in Slugs : bySlug[t] # <<>>} IN
  IF s = NoSlug THEN {} ELSE {Head(bySlug[t]) : t \in waiting}

\* The oldest registration on the market, if any.
OldestOn(s) ==
  IF s = NoSlug THEN {} ELSE IF bySlug[s] = <<>> THEN {} ELSE {Head(bySlug[s])}

\* Whom a notice of order c is for: the leg registered under its order id,
\* else the oldest registration on its market.
Addressee(c) == IF c \in byOrderId THEN {c} ELSE OldestOn(slug[c])

\* The event of leg c is set; nobody waits for it once the leg timed out.
Wake(c, s) == call' = [call EXCEPT ![c] = IF @ = "waiting" THEN s ELSE @]

\* What leg c makes of a fill of order d: it compares the price with its own,
\* and takes the fill as it is when no price came.  What remains of the order
\* is noted and not looked at.
Statuses(c, d) == IF c = d /\ order[c] = "filled" THEN {"filled"} ELSE Live

\* on_lim_fill, on_poly_fill: a notice of an order of ours.
OnFill(d, n) ==
  /\ <<d, n>> \in wire
  /\ wire' = wire \ {<<d, n>>}
  /\ IF Addressee(d) = {}
       THEN UNCHANGED <<call, registry>>
       ELSE \E c \in Addressee(d) :
              /\ Consume(c)
              /\ \E s \in Statuses(c, d) : Wake(c, s)
  /\ UNCHANGED <<deal, phase, order, hasId, strange, sell>>

\* on_lim_fill: a push on market s that tells no fill of these orders.  It names
\* an order no leg registered, and goes to the oldest wait on the market, or
\* one of ours, and goes to its leg: the event's type is not looked at.  Where
\* nothing is registered it changes nothing.
OnStrangePush(s) ==
  /\ \E c \in OldestOn(s) \cup {d \in byOrderId : slug[d] = s} :
       /\ Consume(c)
       /\ \E status \in Live : Wake(c, status)
  /\ strange' = strange \cup {s}
  /\ UNCHANGED <<deal, phase, order, hasId, wire, sell>>

------------------------------------------------------------------------------
\* fire_arb

\* A gate denies the arb: wallets, risk, no legs, min net, preflight, depth,
\* graduation.
Abort(a) ==
  /\ phase[a] = "gate"
  /\ phase' = [phase EXCEPT ![a] = "aborted"]
  /\ UNCHANGED <<deal, call, hasId, world, registry, sell>>

FireLegs(a) ==
  /\ phase[a] = "gate"
  /\ phase' = [phase EXCEPT ![a] = "fire"]
  /\ call' = [c \in Calls |-> IF ArbOf(c) = a THEN "jitter" ELSE call[c]]
  /\ UNCHANGED <<deal, hasId, world, registry, sell>>

With(a, statuses) == {c \in LegsOf(a) : call[c] \in statuses}

\* A partial leg breaks the arb, and so does a failed leg beside a filled one.
\* A leg that filled off its price is both.
ArbBroken(a) ==
  \/ With(a, {"partial"}) # {}
  \/ With(a, Failed) # {} /\ With(a, Live) # {}

\* Fault: the revert takes the legs that filled at their price only.
CleanLegs(a) == With(a, {"filled"})

\* The legs revert_filled_legs sells.
FilledLegs(a) == With(a, Live)

Join(a) ==
  /\ phase[a] = "fire"
  /\ AllReturned(a)
  /\ IF ArbBroken(a) /\ FilledLegs(a) # {}
       THEN /\ phase' = [phase EXCEPT ![a] = "revert"]
            /\ sell' = [c \in Calls |-> IF c \in FilledLegs(a) THEN "due" ELSE sell[c]]
       ELSE phase' = [phase EXCEPT ![a] = "done"] /\ UNCHANGED sell
  /\ UNCHANGED <<deal, call, hasId, world, registry>>

\* as_completed runs out of its time while a leg is still at work.
JoinTimesOut(a) ==
  /\ phase[a] = "fire"
  /\ ~AllReturned(a)
  /\ phase' = [phase EXCEPT ![a] = "late"]
  /\ UNCHANGED <<deal, call, hasId, world, registry, sell>>

\* The pool waits for its threads, then the exception leaves fire_arb.
Raise(a) ==
  /\ phase[a] = "late"
  /\ AllReturned(a)
  /\ phase' = [phase EXCEPT ![a] = "raised"]
  /\ UNCHANGED <<deal, call, hasId, world, registry, sell>>

\* revert_filled_legs takes the next leg: its sell is posted, or the leg is
\* given up because an identifier or a builder fails.
RevertLeg(c) ==
  /\ phase[ArbOf(c)] = "revert"
  /\ sell[c] = "due"
  /\ \A d \in LegsOf(ArbOf(c)) : sell[d] = "due" => LegOf(c) <= LegOf(d)
  /\ \A d \in LegsOf(ArbOf(c)) : sell[d] # "posting"
  /\ \E s \in {"posting", "unsold"} : sell' = [sell EXCEPT ![c] = s]
  /\ UNCHANGED <<deal, phase, call, hasId, world, registry>>

\* The answer to the sell's POST is all the revert waits for.
SellAnswers(c) ==
  /\ sell[c] = "posting"
  /\ \E s \in {"sold", "unsold"} : sell' = [sell EXCEPT ![c] = s]
  /\ UNCHANGED <<deal, phase, call, hasId, world, registry>>

Reverted(a) ==
  /\ phase[a] = "revert"
  /\ \A c \in LegsOf(a) : sell[c] \notin {"due", "posting"}
  /\ phase' = [phase EXCEPT ![a] = "done"]
  /\ UNCHANGED <<deal, call, hasId, world, registry, sell>>

------------------------------------------------------------------------------
\* Exchanges and sockets

Receive(c) ==
  /\ order[c] = "sent"
  /\ \E s \in {"refused", "open"} : order' = [order EXCEPT ![c] = s]
  /\ UNCHANGED <<deal, phase, call, hasId, wire, strange, registry, sell>>

\* The order fills, at once or what remained of it, and its two notices set out.
Fill(c) ==
  /\ order[c] \in {"open", "part"}
  /\ \E s \in Live : order' = [order EXCEPT ![c] = s]
  /\ wire' = wire \cup ({c} \X Notices)
  /\ UNCHANGED <<deal, phase, call, hasId, strange, registry, sell>>

\* A part of the order fills.
FillPart(c) ==
  /\ order[c] = "open"
  /\ order' = [order EXCEPT ![c] = "part"]
  /\ wire' = wire \cup {<<c, "match">>}
  /\ UNCHANGED <<deal, phase, call, hasId, strange, registry, sell>>

Expire(c) ==
  /\ order[c] = "open"
  /\ order' = [order EXCEPT ![c] = "gone"]
  /\ UNCHANGED <<deal, phase, call, hasId, wire, strange, registry, sell>>

WsLost(c, n) ==
  /\ <<c, n>> \in wire
  /\ wire' = wire \ {<<c, n>>}
  /\ UNCHANGED <<deal, phase, call, order, hasId, strange, registry, sell>>

------------------------------------------------------------------------------

LegStep(c) ==
  \/ BuildLeg(c) \/ PostAnswers(c) \/ PostFails(c) \/ Register(c) \/ Deadman(c)
  \/ RevertLeg(c) \/ SellAnswers(c)

ArbStep(a) ==
  Abort(a) \/ FireLegs(a) \/ Join(a) \/ JoinTimesOut(a) \/ Raise(a) \/ Reverted(a)

WorldStep(c) ==
  \/ Receive(c) \/ Fill(c) \/ FillPart(c) \/ Expire(c)
  \/ \E n \in Notices : OnFill(c, n) \/ WsLost(c, n)

Terminated ==
  /\ \A a \in Arbs : phase[a] \in {"done", "aborted", "raised"}
  /\ UNCHANGED vars

Next ==
  \/ \E a \in Arbs : ArbStep(a)
  \/ \E c \in Calls : LegStep(c) \/ WorldStep(c)
  \/ \E s \in Slugs : OnStrangePush(s)
  \/ Terminated

\* Threads run, POSTs and waits time out.  Nothing is asked of the exchanges.
Fairness ==
  /\ \A a \in Arbs : WF_vars(ArbStep(a))
  /\ \A c \in Calls : WF_vars(LegStep(c))

Spec == Init /\ [][Next]_vars

FairSpec == Spec /\ Fairness

------------------------------------------------------------------------------
\* Properties

\* The two indexes agree: while a leg waits it can be found under its order
\* id and under its market, and a registration taken off one of them is off
\* the other, so that it is never handed out a second time.
IndexesAgree ==
  \A c \in Calls :
    LET listed == slug[c] # NoSlug /\ Contains(bySlug[slug[c]], c) IN
    /\ c \in hasId /\ slug[c] # NoSlug => (c \in byOrderId <=> listed)
    /\ c \in hasId /\ call[c] = "waiting" => c \in byOrderId

\* A push wakes legs of its own market only, whichever leg it finds there: a
\* leg that registered no market reports a fill only if its own order filled,
\* and another one only if its order did, an order of another leg on its market
\* did, or some other order event of its market was pushed.
FillOnItsMarket ==
  \A c \in Calls : call[c] \in Live =>
    \/ order[c] \in Bought
    \/ /\ slug[c] # NoSlug
       /\ \/ slug[c] \in strange
          \/ \E d \in Calls : order[d] \in Bought /\ slug[d] = slug[c]

\* Unless fire_arb raises, it returns with every leg filled at its price, or
\* no leg filled, or a sell attempted for each leg that filled.
BrokenArbIsReverted ==
  \A a \in Arbs : phase[a] = "done" =>
    \/ With(a, {"filled"}) = LegsOf(a)
    \/ \A c \in LegsOf(a) : call[c] \in Live => sell[c] \in {"sold", "unsold"}

\* fire_arb returns or raises, whatever the exchanges and the sockets do.
FireReturns ==
  \A a \in Arbs : phase[a] = "fire" ~> phase[a] \in {"done", "raised"}

==============================================================================
