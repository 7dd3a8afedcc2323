----------------------------- MODULE EventFlow -----------------------------
(****************************************************************************)
(* One event's way through run_scan, scan after scan: filter, evaluate,     *)
(* classify, subscribe, while the market-data socket pushes prices and each *)
(* push evaluates the event again. Its prices stand still, so whatever      *)
(* changes from scan to scan is the radar's own doing.                      *)
(****************************************************************************)
EXTENDS Evaluate

CONSTANTS
  RawEvents,   \* the events a scan may come upon
  PushSides    \* which tokens of a Polymarket market the socket pushes

ASSUME EventFlowAssumption ==
  /\ RawEvents \subseteq Event
  /\ PushSides \subseteq Sides

VARIABLES
  ev,       \* the event
  at,       \* where run_scan is with it
  deals,    \* its rows on the board
  pool,     \* the pool and the reverse index it is in
  watched,  \* its tokens are in the socket's _desired
  closing,  \* its books are dropped, the connection that pushes them is not
  ws,       \* best asks in the socket's books, none being 0
  late,     \* a push came in such a moment
  rows      \* its rows in /api/near

vars == <<ev, at, deals, pool, watched, closing, ws, late, rows>>

NoBooks == [i \in All(ev) |-> [s \in Sides |-> 0]]
Streams == {"poly", "lim"}

Init ==
  /\ ev \in RawEvents
  /\ at = "filter"
  /\ deals = {}
  /\ pool = "none"
  /\ watched = FALSE
  /\ closing = FALSE
  /\ ws = NoBooks
  /\ late = FALSE
  /\ rows = {}

\* filter_poly and filter_kalshi stand before the pools too; Limitless's and
\* SX's only before the evaluator.
FiltersPools == {"poly", "kalshi"}

Filter ==
  /\ at = "filter"
  /\ IF Passes(ev)
     THEN at' = "evaluate" /\ UNCHANGED <<deals, pool>>
     ELSE /\ deals' = {}
          /\ IF ev.platform \in FiltersPools
             THEN at' = "subscribe" /\ pool' = "none"
             ELSE at' = "classify" /\ UNCHANGED pool
  /\ UNCHANGED <<ev, watched, closing, ws, late, rows>>

\* run_scan evaluates what it has fetched, without the stream.
EvaluateBooks ==
  /\ at = "evaluate"
  /\ deals' = Evaluated(ev, NoBooks)
  /\ at' = "classify"
  /\ UNCHANGED <<ev, pool, watched, closing, ws, late, rows>>

\* The pools, where Polymarket's stream comes in, and the reverse index.
OwnBooks == IF ev.platform = "poly" THEN ws ELSE NoBooks

ClassifyEvent ==
  /\ at = "classify"
  /\ pool' = Classify(ev, OwnBooks)
  /\ at' = "subscribe"
  /\ UNCHANGED <<ev, deals, watched, closing, ws, late, rows>>

\* Fault: a token that leaves the set leaves its book behind.
SubscribeKeepsBooks ==
  /\ at = "subscribe"
  /\ watched' = (ev.platform \in Streams /\ pool # "none")
  /\ closing' = (closing \/ (watched /\ pool = "none"))
  /\ at' = "filter"
  /\ UNCHANGED <<ev, deals, pool, ws, late, rows>>

\* update_subscriptions: the books of what leaves the set go, and then the
\* connection.
Subscribe ==
  /\ at = "subscribe"
  /\ watched' = (ev.platform \in Streams /\ pool # "none")
  /\ closing' = (closing \/ (watched /\ pool = "none"))
  /\ ws' = IF watched /\ pool = "none" THEN NoBooks ELSE ws
  /\ at' = "filter"
  /\ UNCHANGED <<ev, deals, pool, late, rows>>

\* The socket is back with the set it is to have.
Reconnected ==
  /\ closing
  /\ closing' = FALSE
  /\ UNCHANGED <<ev, at, deals, pool, watched, ws, late, rows>>

\* A push of a token's ask: the callback evaluates with the stream's books on
\* top of the last scan's and replaces the event's rows, if the index has it.
AskOf(i, s) == IF s = "yes" THEN ev.markets[i].yes ELSE ev.markets[i].no

\* Fault: the price is kept for the market, not for its token.
TakePushOfMarket(i, s) ==
  /\ Quoted(AskOf(i, s))
  /\ ws' = [ws EXCEPT ![i] = [x \in Sides |-> AskOf(i, s).price]]
  /\ deals' = IF pool = "none" THEN deals ELSE Evaluated(ev, ws')
  /\ UNCHANGED <<ev, at, pool, watched, closing, rows>>

TakePush(i, s) ==
  /\ Quoted(AskOf(i, s))
  /\ ws' = [ws EXCEPT ![i][s] = AskOf(i, s).price]
  /\ deals' = IF pool = "none" THEN deals ELSE Evaluated(ev, ws')
  /\ UNCHANGED <<ev, at, pool, watched, closing, rows>>

Push(i, s) ==
  /\ watched
  /\ ev.platform = "lim" => s = "yes"
  /\ TakePush(i, s)
  /\ UNCHANGED late

\* What arrives before the connection closes is taken by Polymarket's client;
\* Limitless's asks whether the slug is wanted.
LatePush(i, s) ==
  /\ closing
  /\ ~watched
  /\ ev.platform = "poly"
  /\ TakePush(i, s)
  /\ late' = TRUE

\* /api/near
Near ==
  /\ rows' = IF pool = "near" THEN NearRows(ev, OwnBooks) ELSE {}
  /\ UNCHANGED <<ev, at, deals, pool, watched, closing, ws, late>>

Scan == Filter \/ EvaluateBooks \/ ClassifyEvent \/ Subscribe

Next ==
  \/ Scan
  \/ Reconnected
  \/ \E i \in All(ev), s \in PushSides : Push(i, s) \/ LatePush(i, s)
  \/ Near

\* scan_loop and the socket's supervisor go on; the exchange owes no pushes.
Spec == Init /\ [][Next]_vars
FairSpec == Spec /\ WF_vars(Scan) /\ WF_vars(Reconnected)

-----------------------------------------------------------------------------
\* Properties

\* Types of the scan's state and of the rows.
TypeOK ==
  /\ ev \in RawEvents
  /\ at \in {"filter", "evaluate", "classify", "subscribe"}
  /\ \A d \in deals : d.legs # {} /\ \A l \in d.legs : l.m \in All(ev) /\ l.side \in Sides
  /\ pool \in {"none", "hot", "near"}
  /\ watched \in BOOLEAN /\ closing \in BOOLEAN /\ late \in BOOLEAN
  /\ DOMAIN ws = All(ev)
  /\ \A i \in All(ev), s \in Sides : ws[i][s] \in {0, AskOf(i, s).price}
  /\ \A o \in rows : \A l \in o.legs : l.m \in All(ev)

\* The outcomes an event can have, as sets of the markets that resolve YES:
\* of a series a prefix, of a single market either, else exactly one, or none
\* of those listed where there is an "Other".
Worlds ==
  LET one == {{i} : i \in All(ev)}
  IN IF Series(ev) \/ Len(ev.markets) = 1 THEN {1..k : k \in 0..Len(ev.markets)}
     ELSE IF ev.other THEN one \cup {{}}
     ELSE one

Wins(leg, world) == (leg.side = "yes") = (leg.m \in world)
Pays(legs, world) == One * Cardinality({l \in legs : Wins(l, world)})

\* What a leg is charged for one contract, times One.
ChargeTimesOne(leg) ==
  CASE ev.platform = "poly" -> ev.markets[leg.m].fee * leg.price
    [] ev.platform = "kalshi" -> (Theta["kalshi"] * leg.price * (One - leg.price)) \div One
    [] OTHER -> Theta[ev.platform] * leg.price

\* Kalshi's evaluator asks neither for a series nor for an "Other".
GuardedGroups == ev.platform = "kalshi" => ~Series(ev) /\ ~ev.other
FeesKnown == ev.platform = "poly" => KnownFees(ev) = Rough(ev)

\* Whatever the evaluators put on the board, from a scan or from a push, pays
\* more than it cost and was charged, however the event turns out: coverage,
\* the threshold series and "Other" guards, the fee and the payout each
\* structure assumes have to work together.
ProfitInEveryOutcome ==
  GuardedGroups /\ FeesKnown =>
    \A d \in deals, world \in Worlds :
      (Pays(d.legs, world) - Total(d.legs)) * One > SumFunction([l \in d.legs |-> ChargeTimesOne(l)])

\* The orders a leg is bought from: for a NO out of a YES bid, that bid.
BookOf(leg) ==
  LET m == ev.markets[leg.m]
  IN IF leg.side = "yes" THEN m.yes
     ELSE IF ev.platform = "lim" \/ ~Quoted(m.no) THEN m.bid
     ELSE m.no

\* Whose depth is known to be misread: Polymarket's YES bid for its NO, and less
\* than a dollar that Limitless tells in millionths.
Misread(leg) ==
  \/ leg.src = "clob_synthetic"
  \/ ev.platform = "lim" /\ ev.markets[leg.m].raw /\ BookOf(leg).cost < Dollar

\* The orders near the best price of every leg hold the stake of that leg, and
\* even that of the dearest, unless a leg's depth is misread: the balance, the
\* thinnest leg and the risk cap together bound the stakes. (Of the contracts
\* the last may cost half a cent more than the best price they are bought at.)
FitsTheBooks ==
  \A d \in deals :
    (\A l \in d.legs : ~Misread(l)) =>
      \A l \in d.legs : StakeTimesTotal(d.legs) <= BookOf(l).cost * Total(d.legs)

\* Everything traded and quoted, nothing implied, one fee for all.
Plain ==
  /\ ev.age <= 0 /\ ~ev.blacklisted
  /\ \A i \in All(ev) : LET m == ev.markets[i]
                        IN m.open /\ m.rated /\ m.traded /\ m.known /\ m.fee = ev.markets[1].fee
  /\ \E i \in Rough(ev) : \A side \in Sides : Price(ev, NoBooks, i, side).src \in RealSources
  /\ Passes(ev)

\* The pools have their own arithmetic: an event with a deal on the board and
\* no stream yet is in the HOT pool, whence it is streamed and dealt again.
DealtIsHot ==
  at = "subscribe" /\ Plain /\ ws = NoBooks /\ deals # {} => pool = "hot"

\* A row of the NEAR table that spans the event's markets pays its structure's
\* payout however the event turns out, unless the event is a series by its
\* slugs alone, which the table does not look at.
RowPays(row) ==
  IF row.structure = "all_no" THEN (Cardinality(row.legs) - 1) * One ELSE One

RowsHedged ==
  ~ev.other /\ (ev.slugSeries => ev.series) => \A row \in rows, world \in Worlds :
    (row.structure = "yes_no_pair" \/ {l.m : l \in row.legs} = All(ev)) =>
      Pays(row.legs, world) >= RowPays(row)

\* A Limitless event that is close enough is streamed from some scan on; a
\* Polymarket event goes in and out, the stream's price being none of the
\* sources the pools count, but comes in again and again if no push meets the
\* moment between the drop of its book and the end of its connection.
Close == Classify(ev, NoBooks) # "none"
StaysStreamed ==
  /\ ev.platform = "lim" /\ Close => <>[]watched
  /\ ev.platform = "poly" /\ Passes(ev) /\ Close /\ []~late => []<>watched

=============================================================================
