------------------------------ MODULE Evaluate ------------------------------
(****************************************************************************)
(* What the radar makes of one event: the filters, the price snapshot of    *)
(* each market, the evaluators' three structures (ALL_YES, ALL_NO and       *)
(* YES_NO_PAIR), build_deal, and the HOT and NEAR pools with their own      *)
(* arithmetic. Operators only; EventFlow puts them in the order of a scan.  *)
(*                                                                          *)
(* Prices, fees and thresholds are in units of which a contract pays One;   *)
(* money is in units of which a dollar has Dollar. Where the code compares  *)
(* quotients, both sides are multiplied out.                                *)
(****************************************************************************)
EXTENDS Integers, Sequences, FiniteSets, FiniteSetsExt

CONSTANTS
  One,            \* what a winning contract pays
  Dollar,         \* a dollar
  Platforms,      \* subset of {"poly", "lim", "kalshi", "sx"}
  Theta,          \* fee rate each evaluator assumes
  Threshold,      \* THRESH_*: what a set of contracts may cost
  FeeFloor,       \* POLY_DYNAMIC_THRESH_FLOOR
  FeeCap,         \* POLY_DYNAMIC_THRESH_CAP
  Slippage,       \* POLY_SLIPPAGE_RESERVE + POLY_SAFETY_BUFFER
  NearBuffer,     \* NEAR_BUFFER
  PairNear,       \* C_NEAR_MAX_DISTANCE
  SumFloor,       \* *_REALISTIC_SUM_FLOOR, by platform
  KalshiMinAsk,   \* the lowest ask Kalshi's evaluator looks at
  KalshiMinSum,   \* and the lowest sum
  KalshiFavourite,\* a leg of an ALL_YES deal has to cost more than this
  NearCut,        \* how far under its threshold a NEAR row may be
  Balance,        \* BALANCE
  LegCap,         \* MAX_PER_TRADE_USD
  MinLegLiq,      \* MIN_LEG_LIQ_USD
  TightCutoff,    \* QUALITY_TIGHT_CUTOFF_CENTS
  TightLiq,       \* QUALITY_TIGHT_MIN_LIQ and QUALITY_LIM_TIGHT_MIN_LIQ
  TightSlip,      \* QUALITY_TIGHT_MAX_SLIP, in per cent, as a quotient <<n, d>>
  WindowAhead     \* WINDOW_DAYS, in minutes

ASSUME EvaluateAssumption ==
  /\ {One, Dollar} \subseteq Nat \ {0}
  /\ Platforms \subseteq {"poly", "lim", "kalshi", "sx"}
  /\ Theta \in [Platforms -> Nat]
  /\ Threshold \in [Platforms -> Nat]
  /\ {FeeFloor, FeeCap, Slippage, NearBuffer, KalshiMinAsk, KalshiMinSum,
      Balance, LegCap} \subseteq Nat

Sides == {"yes", "no"}

\* One side of a market's book: its best price, none being 0, and of all its
\* orders within DEPTH_SLIPPAGE_TOLERANCE of that what they cost who takes them
\* and what those who made them put up.
Book == [price : 0..(One - 1), cost : Nat, paid : Nat]
Quoted(book) == book.price > 0

\* A market: whether its outcome takes orders and has a price of its own,
\* that price, its taker fee and whether /markets/{cid} answers, whether it
\* has traded, its asks and the bid of the YES token, and whether the API
\* tells their sizes in millionths.
Market == [open : BOOLEAN, rated : BOOLEAN, implied : 1..(One - 1), fee : Nat,
           known : BOOLEAN, traded : BOOLEAN, yes : Book, no : Book, bid : Book,
           raw : BOOLEAN]

\* An event: what the filters ask about it, and its markets. "other" is
\* has_other_outcome; a threshold series shows by its titles ("series") or by
\* its markets' slugs alone ("slugSeries"), and not all callers of
\* is_threshold_series pass the slugs. What they read off titles and slugs is
\* taken to be so. "lone" is a Limitless group with one child.
Event == [platform : Platforms, blacklisted : BOOLEAN, closed : BOOLEAN,
          exclusive : BOOLEAN, deadline : BOOLEAN, other : BOOLEAN, series : BOOLEAN,
          slugSeries : BOOLEAN, lone : BOOLEAN, age : Int,
          lasts : {"minutes", "hour", "day", "days", "unknown"}, markets : Seq(Market)]

All(ev) == DOMAIN ev.markets
Single(ev) == Len(ev.markets) = 1 /\ ~(ev.platform = "lim" /\ ev.lone)
Series(ev) == ev.series \/ ev.slugSeries
Total(legs) == SumFunction([l \in legs |-> l.price])

-----------------------------------------------------------------------------
\* Filters

\* compute_adaptive_grace_minutes, by how long the event lasts.
Grace(lasts) ==
  CASE lasts = "minutes" -> 1
    [] lasts = "hour" -> 3
    [] lasts = "day" -> 15
    [] lasts = "days" -> 30
    [] OTHER -> 15

\* filter_poly has brackets of its own.
PolyGrace(lasts) ==
  CASE lasts = "minutes" -> 1
    [] lasts = "hour" -> 5
    [] lasts = "day" -> 30
    [] lasts = "days" -> 60
    [] OTHER -> 30

\* is_within_window ahead; behind, the grace is the tighter of the two.
InWindow(ev) == ev.age >= -WindowAhead

Open(ev) == {i \in All(ev) : ev.markets[i].open}
Rough(ev) == {i \in Open(ev) : ev.markets[i].rated}

\* filter_poly. Of a multi-outcome event with closed children one open one is
\* enough, and only without them is the sum of its prices looked at.
FilterPoly(ev) ==
  LET closedChildren == ~Single(ev) /\ Open(ev) # All(ev)
  IN /\ ~ev.blacklisted
     /\ InWindow(ev)
     /\ ev.age <= PolyGrace(ev.lasts)
     /\ ~ev.closed
     /\ All(ev) # {}
     /\ Single(ev) \/ ev.exclusive
     /\ Cardinality(Rough(ev)) >= (IF Single(ev) \/ closedChildren THEN 1 ELSE 2)
     /\ Single(ev) \/ closedChildren
          \/ 100 * SumFunction([i \in Rough(ev) |-> ev.markets[i].implied]) < 99 * One
     /\ Cardinality(Rough(ev)) < 2 \/ ~ev.deadline

\* filter_limitless: one closed child drops the whole group. SX's and Kalshi's
\* filters ask less; SX knows no duration. is_deadline answers for two names
\* or more.
FilterLim(ev) ==
  /\ ~ev.blacklisted
  /\ ~ev.closed
  /\ InWindow(ev)
  /\ ev.age <= Grace(ev.lasts)
  /\ Single(ev) \/ ((~ev.deadline \/ ev.lone) /\ Open(ev) = All(ev))

FilterSx(ev) ==
  /\ ~ev.closed
  /\ ~ev.blacklisted
  /\ InWindow(ev)
  /\ ev.age <= Grace("unknown")

FilterKalshi(ev) ==
  /\ Len(ev.markets) >= 2
  /\ InWindow(ev)
  /\ ev.age <= Grace(ev.lasts)
  /\ ~ev.deadline

Passes(ev) ==
  CASE ev.platform = "poly" -> FilterPoly(ev)
    [] ev.platform = "lim" -> FilterLim(ev)
    [] ev.platform = "sx" -> FilterSx(ev)
    [] ev.platform = "kalshi" -> FilterKalshi(ev)

-----------------------------------------------------------------------------
\* Prices: what the evaluators see of one side of a market

None == [price |-> 0, liq |-> 0, src |-> "none"]
Seen(price, liq, src) == [price |-> price, liq |-> liq, src |-> src]

\* Best ask and what the asks near it cost.
Ask(book, src) == IF Quoted(book) THEN Seen(book.price, book.cost, src) ELSE None

\* The NO ask a YES bid stands for, with what the bidders put up.
FromBidPaid(bid, src) == IF Quoted(bid) THEN Seen(One - bid.price, bid.paid, src) ELSE None

\* The same, with what NO costs there.
FromBid(bid, src) == IF Quoted(bid) THEN Seen(One - bid.price, bid.cost, src) ELSE None

\* _lim_depth_usd guesses the unit: a million or more is in millionths, less is
\* in dollars. No book has more than a million.
Million == 1000000
LimDollars(m, book) ==
  LET usd == IF m.raw /\ book.cost < Dollar THEN book.cost * Million
             ELSE IF ~m.raw /\ book.cost >= Million * Dollar THEN book.cost \div Million
             ELSE book.cost
  IN [book EXCEPT !.cost = Min({usd, Million * Dollar})]

\* _poly_per_market: the stream's price, the book's, or the implied one, which
\* has the market's liquidity on the YES side and none on the other.
PolyYes(m, ws) ==
  IF ws.yes > 0 THEN Seen(ws.yes, 1, "ws")
  ELSE IF Quoted(m.yes) THEN Ask(m.yes, "clob_ask")
  ELSE Seen(m.implied, 1, "implied")

\* A NO ask out of the YES bid keeps the bidders' dollars.
PolyNo(m, ws) ==
  IF ws.no > 0 THEN Seen(ws.no, 0, "ws")
  ELSE IF Quoted(m.no) THEN Ask(m.no, "clob_ask")
  ELSE IF Quoted(m.bid) THEN FromBidPaid(m.bid, "clob_synthetic")
  ELSE Seen(One - m.implied, 0, "implied")

\* The other platforms' books. Limitless has no NO book, and a scan asks for
\* none of a market that never traded: the stream may still show it.
OtherYes(platform, m, ws) ==
  CASE platform = "lim" -> IF m.traded \/ ws.yes > 0 THEN Ask(LimDollars(m, m.yes), "lim_clob") ELSE None
    [] platform = "kalshi" -> IF m.yes.price >= KalshiMinAsk THEN Ask(m.yes, "kalshi_ob") ELSE None
    [] platform = "sx" -> Ask(m.yes, "sx_ob")
OtherNo(platform, m, ws) ==
  CASE platform = "lim" -> IF m.traded \/ ws.yes > 0 THEN FromBid(LimDollars(m, m.bid), "lim_clob") ELSE None
    [] platform = "kalshi" -> Ask(m.no, "kalshi_ob")
    [] platform = "sx" -> Ask(m.no, "sx_ob")

Price(ev, ws, i, side) ==
  LET m == ev.markets[i]
  IN IF ev.platform = "poly"
     THEN IF side = "yes" THEN PolyYes(m, ws[i]) ELSE PolyNo(m, ws[i])
     ELSE IF side = "yes" THEN OtherYes(ev.platform, m, ws[i])
          ELSE OtherNo(ev.platform, m, ws[i])

\* The markets an evaluator has a YES price of; on Polymarket, of those that
\* passed the filter.
Priced(ev, ws) ==
  IF ev.platform = "poly" THEN Rough(ev)
  ELSE {i \in All(ev) : Price(ev, ws, i, "yes").price > 0}
BothPriced(ev, ws) == {i \in Priced(ev, ws) : Price(ev, ws, i, "no").price > 0}

Leg(ev, ws, i, side) ==
  LET p == Price(ev, ws, i, side)
  IN [m |-> i, side |-> side, price |-> p.price, liq |-> p.liq, src |-> p.src]
LegsOn(ev, ws, S, side) == {Leg(ev, ws, i, side) : i \in S}

-----------------------------------------------------------------------------
\* build_deal

RealSources == {"clob_ask", "clob_synthetic", "lim_clob", "kalshi_ob", "sx_ob"}

MinLiq(legs) == Min({l.liq : l \in legs})
Dearest(legs) == Max({l.price : l \in legs})

\* The largest stake times the total: the balance's share, the thinnest leg's
\* dollars or the risk cap, whichever is least.
StakeTimesTotal(legs) ==
  Min({Balance * Dearest(legs), MinLiq(legs) * Total(legs), LegCap * Total(legs)})

\* calc_fee of all legs times the total, for one contract of each: flat on
\* what is paid, except on Kalshi.
FeeTimesOne(platform, theta, legs) ==
  IF platform = "kalshi"
  THEN (theta * SumFunction([l \in legs |-> l.price * (One - l.price)])) \div One
  ELSE theta * Total(legs)

Nets(platform, theta, payout, legs) ==
  (payout * One - Total(legs)) * One > FeeTimesOne(platform, theta, legs)

\* The gates a deal has to pass.
Stands(platform, theta, payout, legs) ==
  /\ \A l \in legs : l.src \in RealSources /\ l.liq > 0
  /\ MinLiq(legs) >= MinLegLiq
  /\ Nets(platform, theta, payout, legs)

\* _quality_ok: a tight deal needs depth and a stake that is a small percentage
\* of it.
QualityOk(platform, legs) ==
  Total(legs) >= TightCutoff =>
    /\ MinLiq(legs) >= TightLiq[platform]
    /\ StakeTimesTotal(legs) * 100 * TightSlip[2] < TightSlip[1] * MinLiq(legs) * Total(legs)

Deal(ev, structure, legs, theta, payout) ==
  [platform |-> ev.platform, structure |-> structure, legs |-> legs, theta |-> theta,
   payout |-> payout]

If(cond, deal) == IF cond THEN {deal} ELSE {}

-----------------------------------------------------------------------------
\* Evaluators

\* compute_poly_threshold
PolyThreshold(fee) ==
  LET raw == One - (fee + Slippage)
  IN IF raw < FeeFloor THEN FeeFloor ELSE IF raw > FeeCap THEN FeeCap ELSE raw

KnownFees(ev) == {i \in Rough(ev) : ev.markets[i].known}

\* The worst fee among the markets that answer.
WorstFee(ev) ==
  IF KnownFees(ev) = {} THEN Theta["poly"] ELSE Max({ev.markets[i].fee : i \in KnownFees(ev)})

\* A pair's own fee is looked up by position in the list of the answers, which
\* is shorter than the list of the markets when some did not answer.
LegFee(ev, i) ==
  LET nth == Cardinality({j \in Rough(ev) : j <= i})
      has == {j \in KnownFees(ev) : Cardinality({x \in KnownFees(ev) : x <= j}) = nth}
  IN IF has = {} THEN WorstFee(ev) ELSE ev.markets[CHOOSE j \in has : TRUE].fee

\* _eval_poly_structures. An ALL_NO deal passes no quality gate.
PolyAllYes(ev, ws) ==
  LET legs == LegsOn(ev, ws, Rough(ev), "yes")
      fee == WorstFee(ev)
  IN If(/\ ~Single(ev) /\ Rough(ev) = All(ev)
        /\ ~Series(ev) /\ ~ev.other
        /\ Total(legs) < PolyThreshold(fee)
        /\ Stands("poly", fee, 1, legs)
        /\ QualityOk("poly", legs),
        Deal(ev, "all_yes", legs, fee, 1))

PolyAllNo(ev, ws) ==
  LET legs == LegsOn(ev, ws, Rough(ev), "no")
      fee == WorstFee(ev)
      n == Cardinality(Rough(ev))
  IN If(/\ n >= 3 /\ Rough(ev) = All(ev)
        /\ ~Series(ev) /\ ~ev.other
        /\ Total(legs) < (n - 1) * PolyThreshold(fee)
        /\ Stands("poly", fee, n - 1, legs),
        Deal(ev, "all_no", legs, fee, n - 1))

PolyPair(ev, ws, i) ==
  LET legs == {Leg(ev, ws, i, "yes"), Leg(ev, ws, i, "no")}
      fee == LegFee(ev, i)
  IN If(/\ ~ev.other
        /\ Total(legs) < PolyThreshold(fee)
        /\ Total(legs) >= SumFloor["poly"]
        /\ Stands("poly", fee, 1, legs)
        /\ QualityOk("poly", legs),
        Deal(ev, "yes_no_pair", legs, fee, 1))

EvalPoly(ev, ws) ==
  IF Single(ev) \/ Cardinality(Rough(ev)) >= 2
  THEN PolyAllYes(ev, ws) \cup PolyAllNo(ev, ws) \cup UNION {PolyPair(ev, ws, i) : i \in Rough(ev)}
  ELSE {}

\* eval_limitless, eval_kalshi and eval_sx by what they share: a group's
\* structures want every outcome priced, a pair its own market. Limitless
\* wants no series, some trading and quality; Kalshi a likely outcome; SX and
\* a Limitless binary are one pair.
MayGroup(ev, S) ==
  CASE ev.platform = "lim" -> ~Series(ev) /\ \E i \in S : ev.markets[i].traded
    [] ev.platform = "kalshi" -> TRUE
    [] ev.platform = "sx" -> FALSE

MayPair(ev, i) == ev.platform = "lim" => ev.markets[i].traded

Quality(ev, legs) == ev.platform = "lim" => QualityOk("lim", legs)

LikelySum(ev, legs) ==
  ev.platform = "kalshi" => Total(legs) >= KalshiMinSum /\ Dearest(legs) > KalshiFavourite

\* Fault: coverage is not asked for.
AllYesOfPriced(ev, ws) ==
  LET legs == LegsOn(ev, ws, Priced(ev, ws), "yes")
      theta == Theta[ev.platform]
  IN If(/\ MayGroup(ev, Priced(ev, ws))
        /\ LikelySum(ev, legs)
        /\ Total(legs) < Threshold[ev.platform]
        /\ Stands(ev.platform, theta, 1, legs)
        /\ Quality(ev, legs),
        Deal(ev, "all_yes", legs, theta, 1))

AllYes(ev, ws) ==
  LET legs == LegsOn(ev, ws, Priced(ev, ws), "yes")
      theta == Theta[ev.platform]
  IN If(/\ Priced(ev, ws) = All(ev)
        /\ MayGroup(ev, Priced(ev, ws))
        /\ LikelySum(ev, legs)
        /\ Total(legs) < Threshold[ev.platform]
        /\ Stands(ev.platform, theta, 1, legs)
        /\ Quality(ev, legs),
        Deal(ev, "all_yes", legs, theta, 1))

AllNo(ev, ws) ==
  LET S == BothPriced(ev, ws)
      legs == LegsOn(ev, ws, S, "no")
      n == Cardinality(S)
      theta == Theta[ev.platform]
  IN If(/\ n >= 3 /\ S = All(ev)
        /\ MayGroup(ev, S)
        /\ Total(legs) < (n - 1) * Threshold[ev.platform]
        /\ Stands(ev.platform, theta, n - 1, legs)
        /\ Quality(ev, legs),
        Deal(ev, "all_no", legs, theta, n - 1))

Pair(ev, ws, i) ==
  LET legs == {Leg(ev, ws, i, "yes"), Leg(ev, ws, i, "no")}
      theta == Theta[ev.platform]
  IN If(/\ MayPair(ev, i)
        /\ Total(legs) < Threshold[ev.platform]
        /\ ev.platform = "lim" => Total(legs) >= SumFloor["lim"]
        /\ Stands(ev.platform, theta, 1, legs)
        /\ Quality(ev, legs),
        Deal(ev, "yes_no_pair", legs, theta, 1))

\* A group of which one outcome alone has a price is left out altogether.
EvalOther(ev, ws) ==
  LET pairs == UNION {Pair(ev, ws, i) : i \in BothPriced(ev, ws)}
  IN IF (ev.platform = "lim" /\ ev.other) \/ (~Single(ev) /\ Cardinality(Priced(ev, ws)) < 2)
     THEN {}
     ELSE pairs \cup IF Single(ev) THEN {} ELSE AllYes(ev, ws) \cup AllNo(ev, ws)

Evaluated(ev, ws) == IF ev.platform = "poly" THEN EvalPoly(ev, ws) ELSE EvalOther(ev, ws)

-----------------------------------------------------------------------------
\* Pools

\* The sums a pool ranks an event by, as quotients <<sum, n>>; an ALL_NO sum
\* is divided by its payout. Neither the pools nor the NEAR table look at the
\* slugs of a series.
YesSum(ev, ws, S) == <<Total(LegsOn(ev, ws, S, "yes")), 1>>

\* Fault: as if one NO won.
NoSumOfOne(ev, ws, S) == <<Total(LegsOn(ev, ws, S, "no")), 1>>

NoSum(ev, ws, S) == <<Total(LegsOn(ev, ws, S, "no")), Cardinality(S) - 1>>
PairSum(ev, ws, i) == <<Price(ev, ws, i, "yes").price + Price(ev, ws, i, "no").price, 1>>

\* _sum_poly_cand
SumPoly(ev, ws) ==
  LET S == Rough(ev)
      group == S = All(ev) /\ ~Single(ev) /\ ~ev.series
  IN IF ~Single(ev) /\ Cardinality(S) < 2 THEN {}
     ELSE If(group, YesSum(ev, ws, S)) \cup If(group /\ Cardinality(S) >= 3, NoSum(ev, ws, S))
            \cup {PairSum(ev, ws, i) : i \in S}

\* _sum_limitless_cand: every leg of a group must have traded.
SumLim(ev, ws) ==
  LET S == Priced(ev, ws)
      B == BothPriced(ev, ws)
      alive(T) == \A i \in T : ev.markets[i].traded
      group == ~Single(ev) /\ ~ev.series /\ alive(S)
      yes == YesSum(ev, ws, S)
      no == NoSum(ev, ws, B)
  IN If(group /\ S = All(ev) /\ 2 * yes[1] <= 3 * One, yes)
       \cup If(/\ group /\ B = All(ev) /\ Cardinality(B) >= 3
              /\ 2 * no[1] <= (2 * Cardinality(B) - 1) * One, no)
       \cup {PairSum(ev, ws, i) : i \in {x \in B : ev.markets[x].traded}}

\* _sum_kalshi_cand and _sum_sx_market
SumKalshi(ev, ws) ==
  LET S == Priced(ev, ws)
      B == BothPriced(ev, ws)
  IN IF Cardinality(S) < 2 THEN {}
     ELSE If(S = All(ev) /\ YesSum(ev, ws, S)[1] >= KalshiMinSum, YesSum(ev, ws, S))
            \cup If(B = All(ev) /\ Cardinality(B) >= 3, NoSum(ev, ws, B))
            \cup {PairSum(ev, ws, i) : i \in B}

SumSx(ev, ws) == {PairSum(ev, ws, i) : i \in BothPriced(ev, ws)}

Sums(ev, ws) ==
  CASE ev.platform = "poly" -> SumPoly(ev, ws)
    [] ev.platform = "lim" -> SumLim(ev, ws)
    [] ev.platform = "kalshi" -> SumKalshi(ev, ws)
    [] ev.platform = "sx" -> SumSx(ev, ws)

\* has_real: some market has both its prices from a book of the exchange; the
\* stream's prices do not count.
HasReal(ev, ws) ==
  \E i \in Rough(ev) : \A side \in Sides : Price(ev, ws, i, side).src \in RealSources

\* classify_pools' threshold: the worst known fee, or none at all.
PoolThreshold(ev) ==
  IF ev.platform = "poly"
  THEN PolyThreshold(IF KnownFees(ev) = {} THEN 0 ELSE WorstFee(ev))
  ELSE Threshold[ev.platform]

Below(sums, level) == \E s \in sums : s[1] < level * s[2]

\* classify_pools
Classify(ev, ws) ==
  LET sums == IF ev.platform = "poly" /\ ~HasReal(ev, ws) THEN {} ELSE Sums(ev, ws)
  IN IF Below(sums, PoolThreshold(ev)) THEN "hot"
     ELSE IF Below(sums, PoolThreshold(ev) + NearBuffer) THEN "near"
     ELSE "none"

\* _best_near_structure, before the best of the options is picked: only markets
\* with book prices on both sides are looked at. Limitless's have no source on
\* a side without a price; Kalshi's rows carry none and are all dropped.
NearMarkets(ev, ws) ==
  CASE ev.platform = "poly" -> {i \in Rough(ev) : \A side \in Sides :
                                                 Price(ev, ws, i, side).src \in RealSources}
    [] ev.platform = "lim" -> Priced(ev, ws)
    [] ev.platform = "kalshi" -> {}
    [] ev.platform = "sx" -> BothPriced(ev, ws)

\* near_summary's own threshold: without a known fee, THRESH_POLY.
NearThreshold(ev) ==
  IF ev.platform = "poly" /\ KnownFees(ev) # {} /\ WorstFee(ev) > 0
  THEN PolyThreshold(WorstFee(ev))
  ELSE Threshold[ev.platform]

Alive(ev, S) == ev.platform = "lim" => \A i \in S : ev.markets[i].traded

Option(structure, legs, threshold) ==
  [structure |-> structure, legs |-> legs, distance |-> Total(legs) - threshold]

\* Fault: a series is an event like another.
NearGroupsOfSeries(ev, ws, S) ==
  LET B == S \cap BothPriced(ev, ws)
      yes == LegsOn(ev, ws, S, "yes")
      no == LegsOn(ev, ws, B, "no")
  IN If(Cardinality(S) >= 2, Option("all_yes", yes, NearThreshold(ev)))
       \cup If(Cardinality(B) >= 3, Option("all_no", no, (Cardinality(B) - 1) * NearThreshold(ev)))

NearGroups(ev, ws, S) ==
  LET B == S \cap BothPriced(ev, ws)
      yes == LegsOn(ev, ws, S, "yes")
      no == LegsOn(ev, ws, B, "no")
      may == ev.platform # "sx" /\ ~ev.series /\ Alive(ev, S)
  IN If(may /\ Cardinality(S) >= 2 /\ 2 * Total(yes) <= 3 * One,
        Option("all_yes", yes, NearThreshold(ev)))
       \cup If(may /\ Cardinality(B) >= 3 /\ 2 * Total(no) <= (2 * Cardinality(B) - 1) * One,
              Option("all_no", no, (Cardinality(B) - 1) * NearThreshold(ev)))

NearPairs(ev, ws, S) ==
  {Option("yes_no_pair", LegsOn(ev, ws, {i}, "yes") \cup LegsOn(ev, ws, {i}, "no"), NearThreshold(ev)) :
     i \in {x \in S \cap BothPriced(ev, ws) : Alive(ev, {x})}}

\* near_summary: the option closest to its threshold, if it is near enough and
\* not already an arb. SX's rows are not asked how near they are.
NearRows(ev, ws) ==
  LET S == NearMarkets(ev, ws)
      near == {o \in NearGroups(ev, ws, S) : o.distance <= NearBuffer}
                \cup {o \in NearPairs(ev, ws, S) : ev.platform # "sx" => o.distance <= PairNear}
      best == {o \in near : \A x \in near : o.distance <= x.distance}
  IN IF \/ ev.platform = "poly" /\ (ev.other \/ ev.age > 60)
        \/ ev.platform = "lim" /\ ev.age > Grace("unknown")
     THEN {}
     ELSE {o \in best : o.distance >= -NearCut}

=============================================================================
