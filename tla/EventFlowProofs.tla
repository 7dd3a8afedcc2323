---------------------------- MODULE EventFlowProofs ----------------------------
(****************************************************************************)
(* Theorems about the evaluators and one event's way through run_scan, for  *)
(* every event, fee, threshold, limit and number of markets. An evaluator   *)
(* deals one of three structures (Shaped), all YES, all NO or a pair, which *)
(* pays what it assumes in every outcome of the event and is charged no     *)
(* more than it assumes; the stake is within the book of every leg, unless  *)
(* a depth is misread; and whatever build_deal nets, the pools' own         *)
(* arithmetic ranks as HOT.                                                 *)
(****************************************************************************)
EXTENDS EventFlow, DataTheorems

-----------------------------------------------------------------------------
\* Events and what is seen of their markets

\* What the socket's books of an event may hold.
Books(e) == [All(e) -> [Sides -> 0..(One - 1)]]

\* The numbers the code is configured with.
LEMMA Units ==
  /\ One \in Nat /\ One > 0 /\ Dollar \in Nat /\ Dollar > 0
  /\ Balance \in Nat /\ LegCap \in Nat
  /\ FeeFloor \in Nat /\ FeeCap \in Nat /\ Slippage \in Nat
  /\ NearBuffer \in Nat /\ KalshiMinSum \in Nat
BY EvaluateAssumption

\* What an event is made of.
LEMMA Fields ==
  ASSUME NEW e \in Event
  PROVE  /\ e.platform \in Platforms
         /\ e.platform \in {"poly", "lim", "kalshi", "sx"}
         /\ e.markets \in Seq(Market)
         /\ All(e) = 1..Len(e.markets)
         /\ Len(e.markets) \in Nat
         /\ \A i \in All(e) : e.markets[i] \in Market
<1>1. e.platform \in Platforms /\ e.markets \in Seq(Market)
  BY DEF Event
<1>2. e.platform \in {"poly", "lim", "kalshi", "sx"}
  BY <1>1, EvaluateAssumption
<1>3. QED
  BY <1>1, <1>2 DEF All

\* What a market is made of.
LEMMA MarketFields ==
  ASSUME NEW m \in Market
  PROVE  /\ m.implied \in 1..(One - 1)
         /\ m.fee \in Nat
         /\ m.raw \in BOOLEAN
         /\ m.yes.price \in 0..(One - 1) /\ m.yes.cost \in Nat
         /\ m.no.price \in 0..(One - 1) /\ m.no.cost \in Nat
         /\ m.bid.price \in 0..(One - 1) /\ m.bid.cost \in Nat
BY DEF Market, Book

\* An event has finitely many markets.
LEMMA FewMarkets ==
  ASSUME NEW e \in Event, NEW S \in SUBSET All(e)
  PROVE  /\ IsFiniteSet(S) /\ Cardinality(S) \in Nat
         /\ Cardinality(S) <= Cardinality(All(e))
         /\ Cardinality(All(e)) = Len(e.markets)
         /\ IsFiniteSet(All(e))
<1>1. IsFiniteSet(1..Len(e.markets)) /\ Cardinality(1..Len(e.markets)) = Len(e.markets)
  BY Fields, FS_Interval
<1>2. QED
  BY <1>1, Fields, FS_Subset, FS_CardinalityType

\* What is seen of a side is a price below the payout and the dollars there.
Sources == RealSources \cup {"none", "ws", "implied"}
Sight == [price : 0..(One - 1), liq : Nat, src : Sources]

\* A price below the payout and some dollars are a sight.
LEMMA SeenOf ==
  ASSUME NEW p \in 0..(One - 1), NEW liq \in Nat, NEW src \in Sources
  PROVE  Seen(p, liq, src) \in Sight /\ None \in Sight
BY Units DEF Seen, None, Sight, Sources

\* What is seen of a book's asks, or through its bids.
LEMMA AskSeen ==
  ASSUME NEW book \in Book, NEW src \in Sources
  PROVE  /\ Ask(book, src) \in Sight
         /\ FromBid(book, src) \in Sight
         /\ FromBidPaid(book, src) \in Sight
<1>1. book.price \in 0..(One - 1) /\ book.cost \in Nat /\ book.paid \in Nat
  BY DEF Book
<1>2. Quoted(book) => One - book.price \in 0..(One - 1)
  BY <1>1, Units DEF Quoted
<1>3. QED
  BY <1>1, <1>2, SeenOf DEF Ask, FromBid, FromBidPaid

\* A million is a number to divide by.
LEMMA MillionParts ==
  /\ Million \in Nat /\ Million > 0
  /\ \A n \in Nat : n \div Million \in Nat /\ n \div Million <= n /\ n * Million \in Nat
BY DEF Million

\* The guess of the unit leaves the price, and makes more of the depth only
\* where it takes less than a dollar told in millionths for dollars.
LEMMA GuessedUnit ==
  ASSUME NEW m \in Market, NEW book \in Book
  PROVE  /\ LimDollars(m, book) \in Book
         /\ LimDollars(m, book).price = book.price
         /\ ~(m.raw /\ book.cost < Dollar) => LimDollars(m, book).cost <= book.cost
<1> DEFINE usd == IF m.raw /\ book.cost < Dollar THEN book.cost * Million
                  ELSE IF ~m.raw /\ book.cost >= Million * Dollar THEN book.cost \div Million
                  ELSE book.cost
           most == Million * Dollar
<1>1. book.cost \in Nat
  BY DEF Book
<1>2. usd \in Nat /\ (~(m.raw /\ book.cost < Dollar) => usd <= book.cost)
  BY <1>1, MillionParts
<1>3. most \in Nat
  BY Units, MillionParts, Products
<1>4. LimDollars(m, book) = [book EXCEPT !.cost = Min({usd, most})]
  BY DEF LimDollars
<1> HIDE DEF usd, most
<1>5. Min({usd, most}) \in {usd, most} /\ Min({usd, most}) <= usd
  <2>1. IsFiniteSet({usd, most})
    BY FewElements
  <2>2. {usd, most} \in SUBSET Int /\ usd \in {usd, most}
    BY <1>2, <1>3
  <2>3. QED
    BY <2>1, <2>2, Extremes
<1>6. Min({usd, most}) \in Nat
  BY <1>2, <1>3, <1>5
<1>7. LimDollars(m, book) \in Book /\ LimDollars(m, book).price = book.price
  BY <1>4, <1>6 DEF Book
<1>8. LimDollars(m, book).cost = Min({usd, most})
  BY <1>4 DEF Book
<1>9. QED
  BY <1>1, <1>2, <1>5, <1>6, <1>7, <1>8

\* What the Polymarket evaluator sees of a market, with the stream.
LEMMA PolySeen ==
  ASSUME NEW m \in Market, NEW w \in [Sides -> 0..(One - 1)]
  PROVE  PolyYes(m, w) \in Sight /\ PolyNo(m, w) \in Sight
<1>1. /\ m.yes \in Book /\ m.no \in Book /\ m.bid \in Book
      /\ m.implied \in 0..(One - 1) /\ One - m.implied \in 0..(One - 1)
  BY Units DEF Market
<1>2. w["yes"] \in 0..(One - 1) /\ w["no"] \in 0..(One - 1)
  BY DEF Sides
<1>3. {"ws", "clob_ask", "clob_synthetic", "implied"} \subseteq Sources
  BY DEF Sources, RealSources
<1>4. PolyYes(m, w) \in Sight
  BY <1>1, <1>2, <1>3, SeenOf, AskSeen DEF PolyYes
<1>5. PolyNo(m, w) \in Sight
  BY <1>1, <1>2, <1>3, SeenOf, AskSeen DEF PolyNo
<1>6. QED
  BY <1>4, <1>5

\* What the other evaluators see of a market.
LEMMA OtherSeen ==
  ASSUME NEW p \in {"lim", "kalshi", "sx"}, NEW m \in Market, NEW w
  PROVE  OtherYes(p, m, w) \in Sight /\ OtherNo(p, m, w) \in Sight
<1>1. m.yes \in Book /\ m.no \in Book /\ m.bid \in Book
  BY DEF Market
<1>2. {"lim_clob", "kalshi_ob", "sx_ob"} \subseteq Sources /\ None \in Sight
  BY SeenOf, Units DEF Sources, RealSources
<1>3. LimDollars(m, m.yes) \in Book /\ LimDollars(m, m.bid) \in Book
  BY <1>1, GuessedUnit
<1>4. QED
  BY <1>1, <1>2, <1>3, AskSeen DEF OtherYes, OtherNo

\* What any evaluator sees of a market.
LEMMA PriceSeen ==
  ASSUME NEW e \in Event, NEW w \in Books(e), NEW i \in All(e), NEW side \in Sides
  PROVE  Price(e, w, i, side) \in Sight
<1>1. e.markets[i] \in Market /\ w[i] \in [Sides -> 0..(One - 1)]
  BY Fields DEF Books
<1>2. e.platform # "poly" => e.platform \in {"lim", "kalshi", "sx"}
  BY Fields
<1>3. QED
  BY <1>1, <1>2, PolySeen, OtherSeen DEF Price, Sides

-----------------------------------------------------------------------------
\* Legs

\* A leg carries its market, its side and what was seen of it.
LEMMA LegFields ==
  ASSUME NEW e \in Event, NEW w \in Books(e), NEW i \in All(e), NEW side \in Sides
  PROVE  LET l == Leg(e, w, i, side)
         IN /\ l.m = i /\ l.side = side
            /\ l.price = Price(e, w, i, side).price /\ l.price \in 0..(One - 1)
            /\ l.liq = Price(e, w, i, side).liq /\ l.liq \in Nat
            /\ l.src = Price(e, w, i, side).src
BY PriceSeen DEF Leg, Sight

\* As many legs as markets.
LEMMA LegsCounted ==
  ASSUME NEW e, NEW w, NEW S, IsFiniteSet(S), NEW side
  PROVE  /\ IsFiniteSet(LegsOn(e, w, S, side))
         /\ Cardinality(LegsOn(e, w, S, side)) = Cardinality(S)
<1> DEFINE f == [i \in S |-> Leg(e, w, i, side)]
<1>1. f \in Bijection(S, LegsOn(e, w, S, side))
  BY DEF Bijection, Injection, Surjection, IsInjective, LegsOn, Leg
<1>2. QED
  BY <1>1, FS_Bijection DEF ExistsBijection

-----------------------------------------------------------------------------
\* The three structures a deal can have, and what its evaluator has asked for

Assumed(e) == IF e.platform = "poly" THEN WorstFee(e) ELSE Theta[e.platform]
Level(e, theta) == IF e.platform = "poly" THEN PolyThreshold(theta) ELSE Threshold[e.platform]

\* All outcomes of a group are there; only Kalshi's evaluator asks for no more.
WholeGroup(e) ==
  /\ ~Single(e)
  /\ Cardinality(All(e)) >= 2
  /\ e.platform # "sx"
  /\ e.platform # "kalshi" => ~Series(e) /\ ~e.other
  /\ e.platform = "poly" => Rough(e) = All(e)

YesGroup(e, w, d) ==
  /\ WholeGroup(e)
  /\ e.platform # "poly" => Priced(e, w) = All(e)
  /\ d.legs = LegsOn(e, w, All(e), "yes")
  /\ d.payout = 1
  /\ d.theta = Assumed(e)
  /\ Total(d.legs) < Level(e, d.theta)
  /\ e.platform = "kalshi" => Total(d.legs) >= KalshiMinSum

NoGroup(e, w, d) ==
  /\ WholeGroup(e)
  /\ e.platform # "poly" => BothPriced(e, w) = All(e)
  /\ Cardinality(All(e)) >= 3
  /\ d.legs = LegsOn(e, w, All(e), "no")
  /\ d.payout = Cardinality(All(e)) - 1
  /\ d.theta = Assumed(e)
  /\ Total(d.legs) < d.payout * Level(e, d.theta)

PairOn(e, w, d, i) ==
  /\ i \in All(e)
  /\ e.platform = "poly" => i \in Rough(e) /\ (Single(e) \/ Cardinality(Rough(e)) >= 2)
  /\ e.platform # "poly" => i \in BothPriced(e, w) /\ (Single(e) \/ Cardinality(Priced(e, w)) >= 2)
  /\ e.platform = "lim" => e.markets[i].traded
  /\ d.legs = {Leg(e, w, i, "yes"), Leg(e, w, i, "no")}
  /\ d.payout = 1
  /\ d.theta = IF e.platform = "poly" THEN LegFee(e, i) ELSE Theta[e.platform]
  /\ Total(d.legs) < Level(e, d.theta)

Shaped(e, w, d) ==
  /\ Stands(e.platform, d.theta, d.payout, d.legs)
  /\ YesGroup(e, w, d) \/ NoGroup(e, w, d) \/ \E i \in All(e) : PairOn(e, w, d, i)

\* eval_poly deals nothing but the three structures.
LEMMA PolyShaped ==
  ASSUME NEW e \in Event, e.platform = "poly", NEW w \in Books(e), NEW d \in EvalPoly(e, w)
  PROVE  Shaped(e, w, d)
<1> DEFINE R == Rough(e)
<1>0. R \subseteq All(e) /\ (Single(e) \/ Cardinality(R) >= 2)
  BY DEF EvalPoly, Rough, Open
<1>1. CASE d \in PolyAllYes(e, w)
  <2>1. /\ ~Single(e) /\ Rough(e) = All(e) /\ ~Series(e) /\ ~e.other
        /\ Total(LegsOn(e, w, Rough(e), "yes")) < PolyThreshold(WorstFee(e))
        /\ Stands("poly", WorstFee(e), 1, LegsOn(e, w, Rough(e), "yes"))
        /\ d = Deal(e, "all_yes", LegsOn(e, w, Rough(e), "yes"), WorstFee(e), 1)
    BY <1>1 DEF PolyAllYes, If
  <2>2. QED
    BY <1>0, <2>1 DEF Deal, Shaped, YesGroup, WholeGroup, Assumed, Level
<1>2. CASE d \in PolyAllNo(e, w)
  <2> DEFINE n == Cardinality(Rough(e))
  <2>1. /\ n >= 3 /\ Rough(e) = All(e) /\ ~Series(e) /\ ~e.other
        /\ Total(LegsOn(e, w, Rough(e), "no")) < (n - 1) * PolyThreshold(WorstFee(e))
        /\ Stands("poly", WorstFee(e), n - 1, LegsOn(e, w, Rough(e), "no"))
        /\ d = Deal(e, "all_no", LegsOn(e, w, Rough(e), "no"), WorstFee(e), n - 1)
    BY <1>2 DEF PolyAllNo, If
  <2>2. Cardinality(All(e)) >= 3 /\ Cardinality(All(e)) = Len(e.markets) /\ Len(e.markets) \in Nat
    BY <2>1, FewMarkets, Fields
  <2>3. ~(Len(e.markets) = 1) /\ Cardinality(All(e)) >= 2
    <3>1. \A k \in Nat : k >= 3 => ~(k = 1) /\ k >= 2
      OBVIOUS
    <3>2. QED
      BY <2>2, <3>1
  <2>4. WholeGroup(e)
    BY <2>1, <2>3 DEF WholeGroup, Single
  <2>5. QED
    BY <2>1, <2>4 DEF Deal, Shaped, NoGroup, Assumed, Level
<1>3. ASSUME NEW i \in Rough(e), d \in PolyPair(e, w, i)
      PROVE  Shaped(e, w, d)
  <2> DEFINE legs == {Leg(e, w, i, "yes"), Leg(e, w, i, "no")}
  <2>1. /\ Total(legs) < PolyThreshold(LegFee(e, i))
        /\ Stands("poly", LegFee(e, i), 1, legs)
        /\ d = Deal(e, "yes_no_pair", legs, LegFee(e, i), 1)
    BY <1>3 DEF PolyPair, If
  <2>2. PairOn(e, w, d, i)
    BY <1>0, <2>1 DEF Deal, PairOn, Level
  <2>3. QED
    BY <1>0, <2>1, <2>2 DEF Shaped, Deal
<1>4. QED
  BY <1>1, <1>2, <1>3 DEF EvalPoly

\* Nor do the evaluators of the other platforms.
LEMMA OtherShaped ==
  ASSUME NEW e \in Event, e.platform # "poly", NEW w \in Books(e), NEW d \in EvalOther(e, w)
  PROVE  Shaped(e, w, d)
<1>0. /\ Priced(e, w) \subseteq All(e) /\ BothPriced(e, w) \subseteq All(e)
      /\ e.platform \in {"lim", "kalshi", "sx"}
      /\ Single(e) \/ Cardinality(Priced(e, w)) >= 2
      /\ e.platform = "lim" => ~e.other
  <2>1. Cardinality(Priced(e, w)) \in Nat
    BY FewMarkets DEF Priced, Rough, Open
  <2>2. QED
    BY <2>1, Fields DEF EvalOther, Priced, BothPriced, Rough, Open
<1>1. CASE ~Single(e) /\ d \in AllYes(e, w)
  <2> DEFINE legs == LegsOn(e, w, Priced(e, w), "yes")
             theta == Theta[e.platform]
  <2>1. /\ Priced(e, w) = All(e) /\ MayGroup(e, Priced(e, w)) /\ LikelySum(e, legs)
        /\ Total(legs) < Threshold[e.platform]
        /\ Stands(e.platform, theta, 1, legs)
        /\ d = Deal(e, "all_yes", legs, theta, 1)
    BY <1>1 DEF AllYes, If
  <2>2. e.platform # "sx" /\ (e.platform = "lim" => ~Series(e))
    BY <1>0, <2>1 DEF MayGroup
  <2>3. WholeGroup(e)
    BY <1>0, <1>1, <2>1, <2>2 DEF WholeGroup
  <2>4. QED
    BY <1>0, <2>1, <2>3 DEF Deal, Shaped, YesGroup, Assumed, Level, LikelySum
<1>2. CASE ~Single(e) /\ d \in AllNo(e, w)
  <2> DEFINE n == Cardinality(BothPriced(e, w))
             legs == LegsOn(e, w, BothPriced(e, w), "no")
             theta == Theta[e.platform]
  <2>1. /\ n >= 3 /\ BothPriced(e, w) = All(e) /\ MayGroup(e, BothPriced(e, w))
        /\ Total(legs) < (n - 1) * Threshold[e.platform]
        /\ Stands(e.platform, theta, n - 1, legs)
        /\ d = Deal(e, "all_no", legs, theta, n - 1)
    BY <1>2 DEF AllNo, If
  <2>2. e.platform # "sx" /\ (e.platform = "lim" => ~Series(e))
    BY <1>0, <2>1 DEF MayGroup
  <2>3. n \in Nat
    BY <1>0, FewMarkets
  <2>4. WholeGroup(e)
    BY <1>0, <1>2, <2>1, <2>2, <2>3 DEF WholeGroup
  <2>5. QED
    BY <1>0, <2>1, <2>4 DEF Deal, Shaped, NoGroup, Assumed, Level
<1>3. ASSUME NEW i \in BothPriced(e, w), d \in Pair(e, w, i)
      PROVE  Shaped(e, w, d)
  <2> DEFINE legs == {Leg(e, w, i, "yes"), Leg(e, w, i, "no")}
             theta == Theta[e.platform]
  <2>1. /\ MayPair(e, i)
        /\ Total(legs) < Threshold[e.platform]
        /\ Stands(e.platform, theta, 1, legs)
        /\ d = Deal(e, "yes_no_pair", legs, theta, 1)
    BY <1>3 DEF Pair, If
  <2>2. PairOn(e, w, d, i)
    BY <1>0, <2>1 DEF Deal, PairOn, Level, MayPair
  <2>3. QED
    BY <1>0, <2>1, <2>2 DEF Shaped, Deal
<1>4. QED
  BY <1>1, <1>2, <1>3 DEF EvalOther

\* So every deal has one of the three shapes.
LEMMA DealsShaped ==
  ASSUME NEW e \in Event, NEW w \in Books(e), NEW d \in Evaluated(e, w)
  PROVE  Shaped(e, w, d)
BY PolyShaped, OtherShaped DEF Evaluated

-----------------------------------------------------------------------------
\* What a structure pays

\* Legs of which one wins pay at least one contract.
LEMMA OneWinnerPays ==
  ASSUME NEW legs, IsFiniteSet(legs), NEW world, NEW l \in legs, Wins(l, world)
  PROVE  Pays(legs, world) >= One /\ Pays(legs, world) \in Int
<1> DEFINE W == {x \in legs : Wins(x, world)}
<1>1. IsFiniteSet(W) /\ Cardinality(W) \in Nat
  BY FS_Subset, FS_CardinalityType
<1>2. Cardinality(W) # 0
  BY <1>1, FS_EmptySet
<1>3. \A n \in Nat : n # 0 => One * n >= One /\ One * n \in Int
  <2>1. ASSUME NEW n \in Nat, n # 0 PROVE One * n >= One /\ One * n \in Int
    <3>1. One * (n - 1) \in Nat
      BY <2>1, Units, Products
    <3>2. One * n = One * (n - 1) + One
      BY <2>1, Units
    <3>3. QED
      BY <3>1, <3>2, Units
  <2>2. QED
    BY <2>1
<1>4. QED
  <2> HIDE DEF W
  <2>1. One * Cardinality(W) >= One /\ One * Cardinality(W) \in Int
    BY <1>1, <1>2, <1>3
  <2>2. QED
    BY <2>1 DEF Pays, W

\* Where no series and no "Other" spoils it, one market of a group resolves YES.
LEMMA OneOutcome ==
  ASSUME ~Series(ev), Len(ev.markets) # 1, ~ev.other, NEW world \in Worlds
  PROVE  \E i \in All(ev) : world = {i}
BY DEF Worlds

\* Of all YES one leg wins, of all NO all but one.
LEMMA GroupPays ==
  ASSUME ev \in Event, NEW w \in Books(ev), ~Series(ev), Len(ev.markets) # 1, ~ev.other,
         NEW world \in Worlds
  PROVE  /\ Pays(LegsOn(ev, w, All(ev), "yes"), world) >= One
         /\ Pays(LegsOn(ev, w, All(ev), "yes"), world) \in Int
         /\ Pays(LegsOn(ev, w, All(ev), "no"), world) = One * (Cardinality(All(ev)) - 1)
<1>1. PICK i \in All(ev) : world = {i}
  BY OneOutcome
<1>2. IsFiniteSet(All(ev)) /\ All(ev) \ {i} \in SUBSET All(ev)
  BY FewMarkets
<1> DEFINE yes == LegsOn(ev, w, All(ev), "yes")
           no == LegsOn(ev, w, All(ev), "no")
<1>3. Pays(yes, world) >= One /\ Pays(yes, world) \in Int
  <2>1. IsFiniteSet(yes) /\ Leg(ev, w, i, "yes") \in yes
    BY <1>2, LegsCounted DEF LegsOn
  <2>2. Wins(Leg(ev, w, i, "yes"), world)
    BY <1>1, LegFields DEF Wins, Sides
  <2>3. QED
    BY <2>1, <2>2, OneWinnerPays
<1>4. {l \in no : Wins(l, world)} = LegsOn(ev, w, All(ev) \ {i}, "no")
  <2>1. ASSUME NEW j \in All(ev)
        PROVE  Wins(Leg(ev, w, j, "no"), world) <=> j # i
    BY <1>1, LegFields DEF Wins, Sides
  <2>2. no = {Leg(ev, w, j, "no") : j \in All(ev)}
    BY DEF LegsOn
  <2>3. LegsOn(ev, w, All(ev) \ {i}, "no") = {Leg(ev, w, j, "no") : j \in All(ev) \ {i}}
    BY DEF LegsOn
  <2> DEFINE others == LegsOn(ev, w, All(ev) \ {i}, "no")
  <2>4. ASSUME NEW l \in others PROVE l \in no /\ Wins(l, world)
    <3>1. PICK j \in All(ev) \ {i} : l = Leg(ev, w, j, "no")
      BY <2>3
    <3>2. QED
      BY <2>1, <2>2, <3>1
  <2>5. ASSUME NEW l \in no, Wins(l, world) PROVE l \in others
    <3>1. PICK j \in All(ev) : l = Leg(ev, w, j, "no")
      BY <2>2
    <3>2. j # i
      BY <2>1, <2>5, <3>1
    <3>3. QED
      BY <2>3, <3>1, <3>2
  <2> HIDE DEF no, others
  <2>6. {l \in no : Wins(l, world)} = others
    BY <2>4, <2>5
  <2>7. QED
    BY <2>6 DEF others
<1>5. Cardinality(LegsOn(ev, w, All(ev) \ {i}, "no")) = Cardinality(All(ev)) - 1
  <2> DEFINE rest == All(ev) \ {i}
  <2>1. IsFiniteSet(rest) /\ Cardinality(rest) = Cardinality(All(ev)) - 1
    BY <1>2, FS_RemoveElement
  <2> HIDE DEF rest
  <2>2. Cardinality(LegsOn(ev, w, rest, "no")) = Cardinality(All(ev)) - 1
    BY <2>1, LegsCounted
  <2>3. QED
    BY <2>2 DEF rest
<1>6. QED
  BY <1>3, <1>4, <1>5 DEF Pays

\* Of YES and NO of one market one wins, whatever happens.
LEMMA PairPays ==
  ASSUME ev \in Event, NEW w \in Books(ev), NEW i \in All(ev), NEW world
  PROVE  /\ Pays({Leg(ev, w, i, "yes"), Leg(ev, w, i, "no")}, world) >= One
         /\ Pays({Leg(ev, w, i, "yes"), Leg(ev, w, i, "no")}, world) \in Int
<1> DEFINE yes == Leg(ev, w, i, "yes")
           no == Leg(ev, w, i, "no")
<1>1. yes.m = i /\ yes.side = "yes" /\ no.m = i /\ no.side = "no"
  BY LegFields DEF Sides
<1>2. IsFiniteSet({yes, no})
  BY FewElements
<1>3. Wins(yes, world) \/ Wins(no, world)
  BY <1>1 DEF Wins
<1>4. QED
  <2> HIDE DEF yes, no
  <2>1. Pays({yes, no}, world) >= One /\ Pays({yes, no}, world) \in Int
    BY <1>2, <1>3, OneWinnerPays
  <2>2. QED
    BY <2>1 DEF yes, no

\* Every structure an evaluator finds pays what it assumes, in every outcome.
LEMMA StructurePays ==
  ASSUME ev \in Event, NEW w \in Books(ev), NEW d, Shaped(ev, w, d), GuardedGroups,
         NEW world \in Worlds
  PROVE  Pays(d.legs, world) >= d.payout * One /\ Pays(d.legs, world) \in Int /\ d.payout \in Nat
<1>1. WholeGroup(ev) => ~Series(ev) /\ Len(ev.markets) # 1 /\ ~ev.other
  <2>1. WholeGroup(ev) => ~Series(ev) /\ ~ev.other
    BY DEF WholeGroup, GuardedGroups
  <2>2. WholeGroup(ev) => Len(ev.markets) >= 2
    BY FewMarkets DEF WholeGroup
  <2>3. Len(ev.markets) \in Nat /\ \A k \in Nat : k >= 2 => k # 1
    BY Fields
  <2>4. QED
    BY <2>1, <2>2, <2>3
<1>2. CASE YesGroup(ev, w, d)
  <2>1. d.payout * One = One
    BY <1>2, Units DEF YesGroup
  <2>2. QED
    BY <1>1, <1>2, <2>1, GroupPays DEF YesGroup
<1>3. CASE NoGroup(ev, w, d)
  <2> DEFINE n == Cardinality(All(ev))
  <2>1. n \in Nat /\ n >= 3 /\ d.payout = n - 1
    BY <1>3, FewMarkets DEF NoGroup
  <2>2. Pays(d.legs, world) = One * (n - 1)
    BY <1>1, <1>3, GroupPays DEF NoGroup
  <2> HIDE DEF n
  <2>3. One * (n - 1) = (n - 1) * One /\ One * (n - 1) \in Int
    BY <2>1, Units
  <2>4. n - 1 \in Nat
    BY <2>1
  <2>5. QED
    BY <2>1, <2>2, <2>3, <2>4
<1>4. ASSUME NEW i \in All(ev), PairOn(ev, w, d, i)
      PROVE  /\ Pays(d.legs, world) >= d.payout * One
             /\ Pays(d.legs, world) \in Int /\ d.payout \in Nat
  <2>1. d.payout * One = One
    BY <1>4, Units DEF PairOn
  <2>2. QED
    BY <1>4, <2>1, PairPays DEF PairOn
<1>5. QED
  BY <1>2, <1>3, <1>4 DEF Shaped

-----------------------------------------------------------------------------
\* What a structure is charged

\* A structure's legs are finitely many, at least one, each on a market and a
\* side of the event, each with a price and dollars.
LEMMA ShapedLegs ==
  ASSUME NEW e \in Event, NEW w \in Books(e), NEW d, Shaped(e, w, d)
  PROVE  /\ IsFiniteSet(d.legs) /\ d.legs # {}
         /\ \A l \in d.legs : \E i \in All(e), s \in Sides : l = Leg(e, w, i, s)
         /\ \A l \in d.legs : l.m \in All(e) /\ l.side \in Sides
         /\ \A l \in d.legs : l.price \in Nat /\ l.price < One /\ l.liq \in Nat
<1>1. CASE YesGroup(e, w, d)
  <2>1. d.legs = LegsOn(e, w, All(e), "yes") /\ All(e) # {}
    BY <1>1, FS_EmptySet DEF YesGroup, WholeGroup
  <2>2. IsFiniteSet(d.legs) /\ d.legs # {}
    BY <2>1, FewMarkets, LegsCounted DEF LegsOn
  <2>3. \A l \in d.legs : \E i \in All(e), s \in Sides : l = Leg(e, w, i, s)
    BY <2>1 DEF LegsOn, Sides
  <2>4. QED
    BY <2>2, <2>3, LegFields, Units
<1>2. CASE NoGroup(e, w, d)
  <2>1. d.legs = LegsOn(e, w, All(e), "no") /\ All(e) # {}
    BY <1>2, FS_EmptySet DEF NoGroup, WholeGroup
  <2>2. IsFiniteSet(d.legs) /\ d.legs # {}
    BY <2>1, FewMarkets, LegsCounted DEF LegsOn
  <2>3. \A l \in d.legs : \E i \in All(e), s \in Sides : l = Leg(e, w, i, s)
    BY <2>1 DEF LegsOn, Sides
  <2>4. QED
    BY <2>2, <2>3, LegFields, Units
<1>3. ASSUME NEW i \in All(e), PairOn(e, w, d, i)
      PROVE  /\ IsFiniteSet(d.legs) /\ d.legs # {}
             /\ \A l \in d.legs : \E j \in All(e), s \in Sides : l = Leg(e, w, j, s)
  <2>1. d.legs = {Leg(e, w, i, "yes"), Leg(e, w, i, "no")}
    BY <1>3 DEF PairOn
  <2>2. IsFiniteSet(d.legs)
    BY <2>1, FewElements
  <2>3. QED
    BY <2>1, <2>2 DEF Sides
<1>4. QED
  <2>1. CASE \E i \in All(e) : PairOn(e, w, d, i)
    BY <1>3, <2>1, LegFields, Units
  <2>2. QED
    BY <1>1, <1>2, <2>1 DEF Shaped

\* A market's fee is at most the worst one, and exactly the one a pair assumes
\* if every market has answered.
LEMMA FeesAssumed ==
  ASSUME NEW e \in Event, KnownFees(e) = Rough(e), NEW i \in Rough(e)
  PROVE  /\ WorstFee(e) \in Nat /\ e.markets[i].fee <= WorstFee(e)
         /\ LegFee(e, i) = e.markets[i].fee
<1>1. /\ Rough(e) \subseteq All(e) /\ IsFiniteSet(Rough(e)) /\ i \in All(e)
      /\ \A j \in Rough(e) : e.markets[j].fee \in Nat /\ j \in Int
  <2>1. Rough(e) \subseteq All(e)
    BY DEF Rough, Open
  <2>2. \A j \in Rough(e) : e.markets[j].fee \in Nat
    BY <2>1, Fields, MarketFields
  <2>3. \A j \in Rough(e) : j \in Int
    BY <2>1, Fields
  <2>4. QED
    BY <2>1, <2>2, <2>3, FewMarkets
<1> DEFINE fees == {e.markets[j].fee : j \in Rough(e)}
<1>2. WorstFee(e) = Max(fees)
  BY DEF WorstFee
<1>3. IsFiniteSet(fees)
  <2> DEFINE f == [j \in Rough(e) |-> e.markets[j].fee]
  <2>1. f \in Surjection(Rough(e), fees)
    BY DEF Surjection
  <2>2. QED
    BY <1>1, <2>1, FS_Surjection
<1>4. WorstFee(e) \in Nat /\ e.markets[i].fee <= WorstFee(e)
  <2>1. fees \subseteq Nat /\ fees \subseteq Int /\ fees # {} /\ e.markets[i].fee \in fees
    BY <1>1
  <2>2. Max(fees) \in fees /\ \A x \in fees : x <= Max(fees)
    BY <1>3, <2>1, Extremes
  <2>3. QED
    BY <1>2, <2>1, <2>2
<1>5. LegFee(e, i) = e.markets[i].fee
  <2> DEFINE upto(j) == {x \in Rough(e) : x <= j}
             has == {j \in Rough(e) : Cardinality(upto(j)) = Cardinality(upto(i))}
  <2>1. i \in has
    OBVIOUS
  <2>2. ASSUME NEW j \in has PROVE j = i
    <3>1. CASE j < i
      <4>1. upto(j) \in SUBSET upto(i) /\ i \in upto(i) /\ i \notin upto(j)
        BY <1>1, <3>1
      <4>2. IsFiniteSet(upto(i)) /\ IsFiniteSet(upto(j))
        BY <1>1, FS_Subset
      <4>3. QED
        BY <4>1, <4>2, FS_Subset
    <3>2. CASE i < j
      <4>1. upto(i) \in SUBSET upto(j) /\ j \in upto(j) /\ j \notin upto(i)
        BY <1>1, <3>2
      <4>2. IsFiniteSet(upto(i)) /\ IsFiniteSet(upto(j))
        BY <1>1, FS_Subset
      <4>3. QED
        BY <4>1, <4>2, FS_Subset
    <3>3. QED
      BY <1>1, <3>1, <3>2
  <2>3. has = {i}
    BY <2>1, <2>2
  <2>4. LegFee(e, i) = IF has = {} THEN WorstFee(e) ELSE e.markets[CHOOSE j \in has : TRUE].fee
    BY DEF LegFee
  <2>5. (CHOOSE j \in has : TRUE) = i
    BY <2>1, <2>2
  <2>6. QED
    BY <2>1, <2>4, <2>5
<1>6. QED
  BY <1>4, <1>5

\* What legs cost is a number.
LEMMA TotalType ==
  ASSUME NEW legs, IsFiniteSet(legs), \A l \in legs : l.price \in Nat
  PROVE  Total(legs) \in Nat
<1> DEFINE f == [l \in legs |-> l.price]
<1>1. DOMAIN f = legs /\ \A l \in legs : f[l] \in Nat
  OBVIOUS
<1>2. Total(legs) = SumFunctionOnSet(f, legs)
  BY <1>1 DEF Total, SumFunction
<1> HIDE DEF f
<1>3. QED
  BY <1>1, <1>2, SumOfNaturals

\* Charges that are a rate of the price, whatever rate below the assumed one.
LEMMA FlatCharges ==
  ASSUME NEW legs, IsFiniteSet(legs), NEW theta \in Nat,
         NEW charge, DOMAIN charge = legs,
         \A l \in legs : \E r \in Nat : l.price \in Nat /\ r <= theta /\ charge[l] = r * l.price
  PROVE  /\ SumFunction(charge) <= theta * Total(legs)
         /\ SumFunction(charge) \in Int
         /\ theta * Total(legs) \in Int
<1> DEFINE f == [l \in legs |-> l.price]
           g == [l \in legs |-> theta * l.price]
<1>1. \A l \in legs : charge[l] \in Int /\ g[l] \in Int /\ charge[l] <= g[l]
  <2>1. ASSUME NEW l \in legs PROVE charge[l] \in Int /\ g[l] \in Int /\ charge[l] <= g[l]
    <3>1. PICK r \in Nat : l.price \in Nat /\ r <= theta /\ charge[l] = r * l.price
      OBVIOUS
    <3>2. (theta - r) * l.price \in Nat /\ r * l.price \in Nat /\ theta * l.price \in Nat
      BY <3>1, Products
    <3>3. theta * l.price = r * l.price + (theta - r) * l.price
      BY <3>1
    <3>4. QED
      BY <3>1, <3>2, <3>3
  <2>2. QED
    BY <2>1
<1>2. \A l \in legs : f[l] \in Int /\ g[l] = theta * f[l]
  OBVIOUS
<1>3. DOMAIN f = legs
  OBVIOUS
<1>4. Total(legs) = SumFunctionOnSet(f, legs)
  BY <1>3 DEF Total, SumFunction
<1> HIDE DEF f, g
<1>5. SumFunctionOnSet(charge, legs) <= SumFunctionOnSet(g, legs)
  BY <1>1, SumsCompare
<1>6. SumFunctionOnSet(g, legs) = theta * SumFunctionOnSet(f, legs)
  BY <1>2, SumScales
<1>7. SumFunctionOnSet(charge, legs) \in Int /\ SumFunctionOnSet(f, legs) \in Int
  BY <1>1, <1>2, SumType
<1>8. theta * SumFunctionOnSet(f, legs) \in Int
  BY <1>7
<1>9. QED
  BY <1>4, <1>5, <1>6, <1>7, <1>8 DEF SumFunction

\* Kalshi rounds each leg's charge down; the rounded sum is no less than the
\* sum of the rounded.
LEMMA KalshiCharges ==
  ASSUME NEW legs, IsFiniteSet(legs), NEW theta \in Nat,
         \A l \in legs : l.price \in Nat,
         NEW charge, DOMAIN charge = legs,
         \A l \in legs : charge[l] = (theta * l.price * (One - l.price)) \div One
  PROVE  /\ SumFunction(charge)
              <= (theta * SumFunction([l \in legs |-> l.price * (One - l.price)])) \div One
         /\ SumFunction(charge) \in Int
         /\ (theta * SumFunction([l \in legs |-> l.price * (One - l.price)])) \div One \in Int
<1> DEFINE f == [l \in legs |-> l.price * (One - l.price)]
           g == [l \in legs |-> theta * (l.price * (One - l.price))]
<1>0. One \in Nat \ {0}
  BY Units
<1>1. \A l \in legs : /\ f[l] \in Int /\ g[l] = theta * f[l]
                      /\ g[l] \in Int /\ charge[l] = g[l] \div One
  <2>1. ASSUME NEW l \in legs
        PROVE  f[l] \in Int /\ g[l] = theta * f[l] /\ g[l] \in Int /\ charge[l] = g[l] \div One
    <3>1. \A a, b, c \in Int : a * b * c = a * (b * c) /\ b * c \in Int /\ a * (b * c) \in Int
      OBVIOUS
    <3>2. theta \in Int /\ l.price \in Int /\ One - l.price \in Int
      BY <1>0
    <3>3. QED
      BY <3>1, <3>2
  <2>2. QED
    BY <2>1
<1>2. DOMAIN f = legs
  OBVIOUS
<1> HIDE DEF f, g
<1>3. SumFunctionOnSet(charge, legs) <= SumFunctionOnSet(g, legs) \div One
  BY <1>0, <1>1, SumOfQuotients
<1>4. SumFunctionOnSet(g, legs) = theta * SumFunctionOnSet(f, legs)
  BY <1>1, SumScales
<1>5. SumFunctionOnSet(charge, legs) \in Int
  <2>1. \A l \in legs : charge[l] \in Int
    BY <1>0, <1>1, DivisionOfSum
  <2>2. QED
    BY <2>1, SumType
<1>6. SumFunction(f) = SumFunctionOnSet(f, legs)
  BY <1>2 DEF SumFunction
<1>7. SumFunction(charge) <= (theta * SumFunction(f)) \div One
  BY <1>3, <1>4, <1>6 DEF SumFunction
<1>8. (theta * SumFunction(f)) \div One \in Int
  <2>1. SumFunctionOnSet(f, legs) \in Int
    BY <1>1, SumType
  <2>2. theta * SumFunctionOnSet(f, legs) \in Int
    BY <2>1
  <2>3. QED
    BY <1>0, <1>6, <2>2, DivisionOfSum
<1>9. QED
  BY <1>5, <1>7, <1>8 DEF SumFunction, f

\* Where every fee is known the evaluators assume no less than is charged.
LEMMA ChargesCovered ==
  ASSUME ev \in Event, NEW w \in Books(ev), NEW d, Shaped(ev, w, d), FeesKnown
  PROVE  LET charge == [l \in d.legs |-> ChargeTimesOne(l)]
         IN /\ SumFunction(charge) <= FeeTimesOne(ev.platform, d.theta, d.legs)
            /\ SumFunction(charge) \in Int
            /\ FeeTimesOne(ev.platform, d.theta, d.legs) \in Int
<1> DEFINE charge == [l \in d.legs |-> ChargeTimesOne(l)]
           flat == d.theta * Total(d.legs)
           kalshi == (d.theta * SumFunction([l \in d.legs |-> l.price * (One - l.price)])) \div One
<1>1. /\ IsFiniteSet(d.legs) /\ d.legs # {}
      /\ \A l \in d.legs : l.m \in All(ev) /\ l.price \in Nat
      /\ DOMAIN charge = d.legs
  BY ShapedLegs
<1>2. ev.platform # "poly" => d.theta = Theta[ev.platform] /\ d.theta \in Nat
  <2>1. Theta[ev.platform] \in Nat
    BY Fields, EvaluateAssumption
  <2>2. QED
    BY <2>1 DEF Shaped, YesGroup, NoGroup, PairOn, Assumed
<1>3. CASE ev.platform = "poly"
  <2>1. KnownFees(ev) = Rough(ev)
    BY <1>3 DEF FeesKnown
  <2>2. \A l \in d.legs : charge[l] = ev.markets[l.m].fee * l.price
    BY <1>3 DEF ChargeTimesOne
  <2>3. /\ d.theta \in Nat
        /\ \A l \in d.legs : ev.markets[l.m].fee \in Nat /\ ev.markets[l.m].fee <= d.theta
    <3>1. CASE YesGroup(ev, w, d) \/ NoGroup(ev, w, d)
      <4>1. Rough(ev) = All(ev) /\ d.theta = WorstFee(ev)
        BY <1>3, <3>1 DEF YesGroup, NoGroup, WholeGroup, Assumed
      <4>2. QED
        BY <1>1, <2>1, <4>1, FeesAssumed, Fields, MarketFields
    <3>2. ASSUME NEW i \in All(ev), PairOn(ev, w, d, i)
          PROVE  /\ d.theta \in Nat
                 /\ \A l \in d.legs : ev.markets[l.m].fee \in Nat /\ ev.markets[l.m].fee <= d.theta
      <4>1. i \in Rough(ev) /\ d.theta = LegFee(ev, i)
        BY <1>3, <3>2 DEF PairOn
      <4>2. d.theta = ev.markets[i].fee /\ d.theta \in Nat
        BY <2>1, <4>1, FeesAssumed, Fields, MarketFields
      <4>3. \A l \in d.legs : l.m = i
        BY <3>2, LegFields DEF PairOn, Sides
      <4>4. QED
        BY <4>2, <4>3
    <3>3. QED
      BY <3>1, <3>2 DEF Shaped
  <2>4. \A l \in d.legs : \E r \in Nat : l.price \in Nat /\ r <= d.theta /\ charge[l] = r * l.price
    <3> HIDE DEF charge
    <3>1. QED
      BY <1>1, <2>2, <2>3
  <2>5. SumFunction(charge) <= flat /\ SumFunction(charge) \in Int /\ flat \in Int
    <3> HIDE DEF charge
    <3>1. QED
      BY <1>1, <2>3, <2>4, FlatCharges
  <2>6. QED
    BY <1>3, <2>5 DEF FeeTimesOne
<1>4. CASE ev.platform = "kalshi"
  <2>1. \A l \in d.legs : charge[l] = (d.theta * l.price * (One - l.price)) \div One
    BY <1>2, <1>4 DEF ChargeTimesOne
  <2>2. SumFunction(charge) <= kalshi /\ SumFunction(charge) \in Int /\ kalshi \in Int
    <3> HIDE DEF charge
    <3>1. QED
      BY <1>1, <1>2, <1>4, <2>1, KalshiCharges
  <2>3. QED
    BY <1>4, <2>2 DEF FeeTimesOne
<1>5. CASE ev.platform \notin {"poly", "kalshi"}
  <2>1. \A l \in d.legs : charge[l] = d.theta * l.price
    BY <1>2, <1>5 DEF ChargeTimesOne
  <2>2. \A l \in d.legs : \E r \in Nat : l.price \in Nat /\ r <= d.theta /\ charge[l] = r * l.price
    <3> HIDE DEF charge
    <3>1. QED
      BY <1>1, <1>2, <1>5, <2>1
  <2>3. SumFunction(charge) <= flat /\ SumFunction(charge) \in Int /\ flat \in Int
    <3> HIDE DEF charge
    <3>1. QED
      BY <1>1, <1>2, <1>5, <2>2, FlatCharges
  <2>4. QED
    BY <1>5, <2>3 DEF FeeTimesOne
<1>6. QED
  BY <1>3, <1>4, <1>5

\* A structure that passed build_deal's gates earns, whatever happens.
LEMMA StructureProfits ==
  ASSUME ev \in Event, NEW w \in Books(ev), NEW d, Shaped(ev, w, d),
         GuardedGroups, FeesKnown, NEW world \in Worlds
  PROVE  (Pays(d.legs, world) - Total(d.legs)) * One
            > SumFunction([l \in d.legs |-> ChargeTimesOne(l)])
<1> DEFINE charges == SumFunction([l \in d.legs |-> ChargeTimesOne(l)])
           fee == FeeTimesOne(ev.platform, d.theta, d.legs)
           pays == Pays(d.legs, world)
           total == Total(d.legs)
           due == d.payout * One
<1>1. pays >= due /\ pays \in Int /\ due \in Int
  <2>1. pays >= due /\ pays \in Int /\ d.payout \in Nat
    BY StructurePays
  <2>2. QED
    BY <2>1, Units, Products
<1>2. charges <= fee /\ charges \in Int /\ fee \in Int
  BY ChargesCovered
<1>3. total \in Nat
  BY ShapedLegs, TotalType
<1>4. (due - total) * One > fee
  BY DEF Shaped, Stands, Nets
<1>5. /\ (due - total) * One <= (pays - total) * One
      /\ (due - total) * One \in Int /\ (pays - total) * One \in Int
  BY <1>1, <1>3, Units, ProductsCompare
<1> HIDE DEF charges, fee, pays, total, due
<1>6. (pays - total) * One > charges
  BY <1>1, <1>2, <1>3, <1>4, <1>5
<1>7. QED
  BY <1>6 DEF charges, pays, total

-----------------------------------------------------------------------------
\* What a structure buys

\* The thinnest and the dearest leg of a deal.
LEMMA ThinnestAndDearest ==
  ASSUME NEW legs, IsFiniteSet(legs), legs # {},
         \A l \in legs : l.price \in Nat /\ l.liq \in Nat
  PROVE  /\ MinLiq(legs) \in Nat /\ \A l \in legs : MinLiq(legs) <= l.liq
         /\ Dearest(legs) \in Nat /\ \A l \in legs : l.price <= Dearest(legs)
<1> DEFINE liqs == {l.liq : l \in legs}
           prices == {l.price : l \in legs}
<1>1. IsFiniteSet(liqs) /\ IsFiniteSet(prices)
  <2> DEFINE f == [l \in legs |-> l.liq]
             g == [l \in legs |-> l.price]
  <2>1. f \in Surjection(legs, liqs) /\ g \in Surjection(legs, prices)
    BY DEF Surjection
  <2> HIDE DEF f, g
  <2>2. QED
    BY <2>1, FS_Surjection
<1>2. /\ liqs \subseteq Nat /\ liqs \subseteq Int /\ liqs # {}
      /\ prices \subseteq Nat /\ prices \subseteq Int /\ prices # {}
      /\ \A l \in legs : l.liq \in liqs /\ l.price \in prices
  OBVIOUS
<1>3. MinLiq(legs) = Min(liqs) /\ Dearest(legs) = Max(prices)
  BY DEF MinLiq, Dearest
<1> HIDE DEF liqs, prices
<1>4. Min(liqs) \in liqs /\ \A x \in liqs : Min(liqs) <= x
  BY <1>1, <1>2, Extremes
<1>5. Max(prices) \in prices /\ \A x \in prices : x <= Max(prices)
  BY <1>1, <1>2, Extremes
<1>6. QED
  BY <1>2, <1>3, <1>4, <1>5

\* What the stake is least of.
LEMMA StakeBounded ==
  ASSUME NEW legs, IsFiniteSet(legs), legs # {},
         \A l \in legs : l.price \in Nat /\ l.liq \in Nat
  PROVE  /\ StakeTimesTotal(legs) <= MinLiq(legs) * Total(legs)
         /\ StakeTimesTotal(legs) \in Int
<1> DEFINE a == Balance * Dearest(legs)
           b == MinLiq(legs) * Total(legs)
           c == LegCap * Total(legs)
<1>1. a \in Int /\ b \in Int /\ c \in Int
  <2>1. Dearest(legs) \in Nat /\ MinLiq(legs) \in Nat /\ Total(legs) \in Nat
    BY ThinnestAndDearest, TotalType
  <2>2. QED
    BY <2>1, Units, Products
<1>2. StakeTimesTotal(legs) = Min({a, b, c})
  BY DEF StakeTimesTotal
<1> HIDE DEF a, b, c
<1>3. IsFiniteSet({a, b, c})
  BY FewElements
<1>4. {a, b, c} \in SUBSET Int /\ b \in {a, b, c}
  BY <1>1
<1>5. Min({a, b, c}) \in {a, b, c} /\ Min({a, b, c}) <= b
  BY <1>3, <1>4, Extremes
<1>6. QED
  BY <1>1, <1>2, <1>5 DEF b

\* A leg of a deal, its depth not misread, has no more dollars than the orders
\* of its book near the best price.
LEMMA DollarsOfTheBook ==
  ASSUME ev \in Event, NEW w \in Books(ev), NEW i \in All(ev), NEW side \in Sides,
         Leg(ev, w, i, side).src \in RealSources, Leg(ev, w, i, side).liq > 0,
         ~Misread(Leg(ev, w, i, side))
  PROVE  LET l == Leg(ev, w, i, side)
         IN l.liq <= BookOf(l).cost /\ BookOf(l).cost \in Nat
<1> DEFINE l == Leg(ev, w, i, side)
           m == ev.markets[i]
<1>1. /\ l.m = i /\ l.side = side
      /\ l.liq = Price(ev, w, i, side).liq /\ l.src = Price(ev, w, i, side).src
  BY LegFields
<1>2. m \in Market /\ m.yes \in Book /\ m.no \in Book /\ m.bid \in Book
  BY Fields DEF Market
<1>3. BookOf(l) = IF side = "yes" THEN m.yes
                  ELSE IF ev.platform = "lim" \/ ~Quoted(m.no) THEN m.bid ELSE m.no
  BY <1>1 DEF BookOf
<1>4. l.src \notin {"ws", "implied", "none", "clob_synthetic"} /\ l.liq > 0
  BY DEF Misread, RealSources
<1>5. BookOf(l).cost \in Nat
  BY <1>2, <1>3 DEF Book
<1>6. ev.platform = "lim" => ~(m.raw /\ BookOf(l).cost < Dollar)
  BY <1>1 DEF Misread
<1>7. CASE ev.platform = "poly" /\ side = "yes"
  <2>1. Price(ev, w, i, side) = PolyYes(m, w[i])
    BY <1>7 DEF Price
  <2>2. Price(ev, w, i, side) = Seen(m.yes.price, m.yes.cost, "clob_ask")
    BY <1>1, <1>4, <2>1 DEF PolyYes, Ask, Seen, None
  <2>3. QED
    BY <1>1, <1>3, <1>5, <1>7, <2>2 DEF Seen
<1>8. CASE ev.platform = "poly" /\ side = "no"
  <2>1. Price(ev, w, i, side) = PolyNo(m, w[i])
    BY <1>8 DEF Price
  <2>2. Quoted(m.no) /\ Price(ev, w, i, side) = Seen(m.no.price, m.no.cost, "clob_ask")
    BY <1>1, <1>4, <2>1 DEF PolyNo, Ask, FromBidPaid, Seen, None
  <2>3. QED
    BY <1>1, <1>3, <1>5, <1>8, <2>2 DEF Seen
<1>9. CASE ev.platform = "lim" /\ side = "yes"
  <2>1. Price(ev, w, i, side) = OtherYes(ev.platform, m, w[i])
    BY <1>9 DEF Price
  <2>2. l.liq = LimDollars(m, m.yes).cost
    BY <1>1, <1>4, <1>9, <2>1 DEF OtherYes, Ask, Seen, None
  <2>3. QED
    BY <1>2, <1>3, <1>5, <1>6, <1>9, <2>2, GuessedUnit
<1>10. CASE ev.platform = "lim" /\ side = "no"
  <2>1. Price(ev, w, i, side) = OtherNo(ev.platform, m, w[i])
    BY <1>10 DEF Price
  <2>2. l.liq = LimDollars(m, m.bid).cost
    BY <1>1, <1>4, <1>10, <2>1 DEF OtherNo, FromBid, Seen, None
  <2>3. QED
    BY <1>2, <1>3, <1>5, <1>6, <1>10, <2>2, GuessedUnit
<1>11. CASE ev.platform \in {"kalshi", "sx"} /\ side = "yes"
  <2>1. Price(ev, w, i, side) = OtherYes(ev.platform, m, w[i])
    BY <1>11 DEF Price
  <2>2. l.liq = m.yes.cost
    BY <1>1, <1>4, <1>11, <2>1 DEF OtherYes, Ask, Seen, None
  <2>3. QED
    BY <1>3, <1>5, <1>11, <2>2
<1>12. CASE ev.platform \in {"kalshi", "sx"} /\ side = "no"
  <2>1. Price(ev, w, i, side) = OtherNo(ev.platform, m, w[i])
    BY <1>12 DEF Price
  <2>2. Quoted(m.no) /\ l.liq = m.no.cost
    BY <1>1, <1>4, <1>12, <2>1 DEF OtherNo, Ask, Seen, None
  <2>3. QED
    BY <1>3, <1>5, <1>12, <2>2
<1>13. QED
  BY <1>7, <1>8, <1>9, <1>10, <1>11, <1>12, Fields DEF Sides

\* The thinnest leg bounds the stake, and its dollars are in every leg's book.
LEMMA StakeFits ==
  ASSUME ev \in Event, NEW w \in Books(ev), NEW d, Shaped(ev, w, d),
         \A l \in d.legs : ~Misread(l), NEW l \in d.legs
  PROVE  StakeTimesTotal(d.legs) <= BookOf(l).cost * Total(d.legs)
<1> DEFINE stake == StakeTimesTotal(d.legs)
           total == Total(d.legs)
           thin == MinLiq(d.legs)
           cost == BookOf(l).cost
<1>1. /\ IsFiniteSet(d.legs) /\ d.legs # {}
      /\ \A x \in d.legs : x.price \in Nat /\ x.liq \in Nat
  BY ShapedLegs
<1>2. l.src \in RealSources /\ l.liq > 0
  BY DEF Shaped, Stands
<1>3. l.liq <= cost /\ cost \in Nat
  <2>1. PICK i \in All(ev), s \in Sides : l = Leg(ev, w, i, s)
    BY ShapedLegs
  <2>2. QED
    BY <1>2, <2>1, DollarsOfTheBook
<1>4. /\ thin \in Nat /\ thin <= l.liq /\ l.liq \in Nat
      /\ total \in Nat /\ stake <= thin * total /\ stake \in Int
  BY <1>1, ThinnestAndDearest, StakeBounded, TotalType
<1> HIDE DEF stake, total, thin, cost
<1>5. thin * total <= cost * total /\ thin * total \in Int /\ cost * total \in Int
  BY <1>3, <1>4, ProductsCompare
<1>6. stake <= cost * total
  BY <1>4, <1>5
<1>7. QED
  BY <1>6 DEF stake, total, cost

-----------------------------------------------------------------------------
\* The NEAR table

\* A row is one of a group's two structures over some of its markets, or a pair.
GroupRow(w, S, row) ==
  /\ ~ev.series /\ S \in SUBSET All(ev)
  /\ \/ /\ row.structure = "all_yes" /\ row.legs = LegsOn(ev, w, S, "yes")
        /\ Cardinality(S) >= 2
     \/ /\ row.structure = "all_no" /\ row.legs = LegsOn(ev, w, S, "no")
        /\ Cardinality(S) >= 3

PairRow(w, i, row) ==
  /\ row.structure = "yes_no_pair" /\ i \in All(ev)
  /\ row.legs = {Leg(ev, w, i, "yes"), Leg(ev, w, i, "no")}

\* Every row of /api/near is such a group or such a pair.
LEMMA RowsShaped ==
  ASSUME ev \in Event, NEW w \in Books(ev), NEW row \in NearRows(ev, w)
  PROVE  \/ \E S \in SUBSET All(ev) : GroupRow(w, S, row)
         \/ \E i \in All(ev) : PairRow(w, i, row)
<1> DEFINE S == NearMarkets(ev, w)
<1>1. S \in SUBSET All(ev)
  BY Fields DEF NearMarkets, Rough, Open, Priced, BothPriced
<1>2. row \in NearGroups(ev, w, S) \/ row \in NearPairs(ev, w, S)
  BY DEF NearRows
<1> HIDE DEF S
<1>3. CASE row \in NearGroups(ev, w, S)
  <2> DEFINE B == S \cap BothPriced(ev, w)
  <2>1. B \in SUBSET All(ev)
    BY <1>1
  <2>2. CASE row \in If(/\ ev.platform # "sx" /\ ~ev.series /\ Alive(ev, S)
                        /\ Cardinality(S) >= 2
                        /\ 2 * Total(LegsOn(ev, w, S, "yes")) <= 3 * One,
                        Option("all_yes", LegsOn(ev, w, S, "yes"), NearThreshold(ev)))
    <3>1. GroupRow(w, S, row)
      BY <1>1, <2>2 DEF If, Option, GroupRow
    <3>2. QED
      BY <1>1, <3>1
  <2>3. CASE row \in If(/\ ev.platform # "sx" /\ ~ev.series /\ Alive(ev, S)
                        /\ Cardinality(B) >= 3
                        /\ 2 * Total(LegsOn(ev, w, B, "no")) <= (2 * Cardinality(B) - 1) * One,
                        Option("all_no", LegsOn(ev, w, B, "no"),
                               (Cardinality(B) - 1) * NearThreshold(ev)))
    <3>1. GroupRow(w, B, row)
      BY <2>1, <2>3 DEF If, Option, GroupRow
    <3>2. QED
      BY <2>1, <3>1
  <2>4. QED
    BY <1>3, <2>2, <2>3 DEF NearGroups, If
<1>4. CASE row \in NearPairs(ev, w, S)
  <2>1. PICK i \in S :
          row = Option("yes_no_pair", LegsOn(ev, w, {i}, "yes") \cup LegsOn(ev, w, {i}, "no"),
                       NearThreshold(ev))
    BY <1>4 DEF NearPairs
  <2>2. LegsOn(ev, w, {i}, "yes") \cup LegsOn(ev, w, {i}, "no")
           = {Leg(ev, w, i, "yes"), Leg(ev, w, i, "no")}
    BY DEF LegsOn
  <2>3. PairRow(w, i, row)
    BY <1>1, <2>1, <2>2 DEF Option, PairRow
  <2>4. QED
    BY <1>1, <2>3
<1>5. QED
  BY <1>2, <1>3, <1>4

\* A row's legs are on markets of the event.
LEMMA RowTypes ==
  ASSUME ev \in Event, NEW w \in Books(ev), NEW row \in NearRows(ev, w)
  PROVE  \A l \in row.legs : l.m \in All(ev)
<1>1. ASSUME NEW S \in SUBSET All(ev), GroupRow(w, S, row)
      PROVE  \A l \in row.legs : l.m \in All(ev)
  BY <1>1, LegFields DEF GroupRow, LegsOn, Sides
<1>2. ASSUME NEW i \in All(ev), PairRow(w, i, row)
      PROVE  \A l \in row.legs : l.m \in All(ev)
  BY <1>2, LegFields DEF PairRow, Sides
<1>3. QED
  BY <1>1, <1>2, RowsShaped

\* A row over all markets, or a pair, pays what its structure promises.
LEMMA RowPaysOut ==
  ASSUME ev \in Event, NEW w \in Books(ev), NEW row \in NearRows(ev, w),
         ~ev.other, ev.slugSeries => ev.series, NEW world \in Worlds,
         row.structure = "yes_no_pair" \/ {l.m : l \in row.legs} = All(ev)
  PROVE  Pays(row.legs, world) >= RowPays(row)
<1>1. ASSUME NEW S \in SUBSET All(ev), GroupRow(w, S, row)
      PROVE  Pays(row.legs, world) >= RowPays(row)
  <2>1. {l.m : l \in row.legs} = S
    BY <1>1, LegFields DEF GroupRow, LegsOn, Sides
  <2>2. S = All(ev) /\ IsFiniteSet(All(ev)) /\ Cardinality(S) \in Nat
    BY <1>1, <2>1, FewMarkets DEF GroupRow
  <2>3. ~Series(ev) /\ Len(ev.markets) # 1
    <3>1. Cardinality(S) >= 2
      BY <1>1, <2>2 DEF GroupRow
    <3>2. Len(ev.markets) >= 2
      BY <2>2, <3>1, FewMarkets
    <3>3. Len(ev.markets) \in Nat
      BY Fields
    <3>4. \A k \in Nat : k >= 2 => ~(k = 1)
      OBVIOUS
    <3>5. QED
      BY <1>1, <3>2, <3>3, <3>4 DEF GroupRow, Series
  <2>4. CASE row.structure = "all_yes"
    <3>1. row.legs = LegsOn(ev, w, All(ev), "yes") /\ RowPays(row) = One
      BY <1>1, <2>2, <2>4 DEF GroupRow, RowPays
    <3>2. QED
      BY <1>1, <2>3, <3>1, GroupPays DEF GroupRow
  <2>5. CASE row.structure = "all_no"
    <3>1. row.legs = LegsOn(ev, w, All(ev), "no")
      BY <1>1, <2>2, <2>5 DEF GroupRow
    <3>2. RowPays(row) = (Cardinality(All(ev)) - 1) * One
      BY <2>2, <2>5, <3>1, LegsCounted DEF RowPays
    <3>3. Pays(row.legs, world) = One * (Cardinality(All(ev)) - 1)
      BY <1>1, <2>3, <3>1, GroupPays DEF GroupRow
    <3>4. \A k \in Int : One * k = k * One /\ One * k \in Int
      BY Units
    <3>5. Cardinality(All(ev)) - 1 \in Int
      BY <2>2
    <3>6. QED
      BY <3>2, <3>3, <3>4, <3>5
  <2>6. QED
    BY <1>1, <2>4, <2>5 DEF GroupRow
<1>2. ASSUME NEW i \in All(ev), PairRow(w, i, row)
      PROVE  Pays(row.legs, world) >= RowPays(row)
  <2>1. RowPays(row) = One
    BY <1>2 DEF PairRow, RowPays
  <2>2. QED
    BY <1>2, <2>1, PairPays DEF PairRow
<1>3. QED
  BY <1>1, <1>2, RowsShaped

-----------------------------------------------------------------------------
\* The pools

\* A stream that has sent nothing.
LEMMA NoBooksIsBooks ==
  ASSUME ev \in Event
  PROVE  NoBooks \in Books(ev)
BY Units DEF NoBooks, Books

\* In a plain event every market is open and known, and all have one fee.
LEMMA PlainMarkets ==
  ASSUME ev \in Event, Plain
  PROVE  /\ Rough(ev) = All(ev) /\ KnownFees(ev) = Rough(ev) /\ Rough(ev) # {}
         /\ \A i \in All(ev) : ev.markets[i].traded
         /\ HasReal(ev, NoBooks)
         /\ \A i \in All(ev) : LegFee(ev, i) = WorstFee(ev)
         /\ WorstFee(ev) \in Nat
         /\ ev.platform = "kalshi" => ~Single(ev)
<1>1. Rough(ev) = All(ev) /\ KnownFees(ev) = Rough(ev) /\ \A i \in All(ev) : ev.markets[i].traded
  BY DEF Plain, Rough, Open, KnownFees
<1>2. HasReal(ev, NoBooks) /\ Rough(ev) # {}
  BY DEF Plain, HasReal
<1>3. WorstFee(ev) = ev.markets[1].fee
  <2> DEFINE fees == {ev.markets[j].fee : j \in Rough(ev)}
  <2>1. WorstFee(ev) = Max(fees)
    BY <1>1, <1>2 DEF WorstFee
  <2>2. \A i \in All(ev) : ev.markets[i].fee = ev.markets[1].fee
    BY DEF Plain
  <2>3. fees = {ev.markets[1].fee}
    BY <1>1, <1>2, <2>2
  <2>4. ev.markets[1].fee \in Nat
    BY <1>1, <1>2, <2>2, Fields, MarketFields
  <2>5. Max({ev.markets[1].fee}) \in {ev.markets[1].fee}
    <3>1. {ev.markets[1].fee} \in SUBSET Int /\ {ev.markets[1].fee} # {}
      BY <2>4
    <3>2. IsFiniteSet({ev.markets[1].fee})
      BY FS_Singleton
    <3>3. QED
      BY <3>1, <3>2, Extremes
  <2>6. QED
    BY <2>1, <2>3, <2>5
<1>4. \A i \in All(ev) : LegFee(ev, i) = WorstFee(ev) /\ WorstFee(ev) \in Nat
  <2>1. \A i \in All(ev) : ev.markets[i].fee = ev.markets[1].fee
    BY DEF Plain
  <2>2. QED
    BY <1>1, <1>3, <2>1, FeesAssumed
<1>5. ev.platform = "kalshi" => ~Single(ev)
  <2>1. ev.platform = "kalshi" => Len(ev.markets) >= 2
    BY DEF Plain, Passes, FilterKalshi
  <2>2. Len(ev.markets) \in Nat /\ \A k \in Nat : k >= 2 => ~(k = 1)
    BY Fields
  <2>3. QED
    BY <2>1, <2>2 DEF Single
<1>6. QED
  BY <1>1, <1>2, <1>4, <1>5

\* A set of contracts that nets something costs less than it pays.
LEMMA CostsLess ==
  ASSUME ev \in Event, ev.platform = "lim", NEW w \in Books(ev), NEW d, Shaped(ev, w, d),
         d.payout \in Nat
  PROVE  Total(d.legs) \in Nat /\ Total(d.legs) < d.payout * One
<1>1. Total(d.legs) \in Nat
  BY ShapedLegs, TotalType
<1>2. d.theta \in Nat
  <2>1. Theta[ev.platform] \in Nat
    BY Fields, EvaluateAssumption
  <2>2. QED
    BY <2>1 DEF Shaped, YesGroup, NoGroup, PairOn, Assumed
<1>3. d.theta * Total(d.legs) \in Nat /\ d.payout * One \in Nat
  BY <1>1, <1>2, Units, Products
<1>4. (d.payout * One - Total(d.legs)) * One > d.theta * Total(d.legs)
  BY DEF Shaped, Stands, Nets, FeeTimesOne
<1>5. ASSUME d.payout * One <= Total(d.legs) PROVE FALSE
  <2>1. d.payout * One - Total(d.legs) \in Int /\ d.payout * One - Total(d.legs) <= 0
    BY <1>1, <1>3, <1>5
  <2>2. (d.payout * One - Total(d.legs)) * One <= 0 * One
    BY <2>1, Units, ProductsCompare
  <2>3. (d.payout * One - Total(d.legs)) * One \in Int
    BY <2>1, Units
  <2>4. 0 * One = 0
    BY Units
  <2>5. QED
    BY <1>3, <1>4, <2>2, <2>3, <2>4
<1>6. QED
  BY <1>1, <1>3, <1>5

\* The pools add up a pair's prices as the evaluators do.
LEMMA PairTotal ==
  ASSUME ev \in Event, NEW w \in Books(ev), NEW i \in All(ev)
  PROVE  PairSum(ev, w, i) = <<Total({Leg(ev, w, i, "yes"), Leg(ev, w, i, "no")}), 1>>
<1> DEFINE yes == Leg(ev, w, i, "yes")
           no == Leg(ev, w, i, "no")
           f == [l \in {yes, no} |-> l.price]
<1>1. /\ yes.side = "yes" /\ no.side = "no" 
      /\ yes.price \in Int /\ yes.price = Price(ev, w, i, "yes").price
      /\ no.price \in Int /\ no.price = Price(ev, w, i, "no").price
  BY LegFields DEF Sides
<1> HIDE DEF yes, no
<1>2. yes # no
  BY <1>1
<1>3. f[yes] = yes.price /\ f[no] = no.price /\ DOMAIN f = {yes, no}
  OBVIOUS
<1>4. Total({yes, no}) = SumFunctionOnSet(f, {yes, no})
  BY <1>3 DEF Total, SumFunction
<1> HIDE DEF f
<1>5. SumFunctionOnSet(f, {yes, no}) = yes.price + no.price
  BY <1>1, <1>2, <1>3, SumOfTwo
<1>6. QED
  BY <1>1, <1>4, <1>5 DEF PairSum, yes, no

\* The level a sum is compared with is a number.
LEMMA LevelType ==
  ASSUME ev \in Event, NEW theta \in Nat
  PROVE  Level(ev, theta) \in Int
<1>1. PolyThreshold(theta) \in Int
  BY Units DEF PolyThreshold
<1>2. Threshold[ev.platform] \in Int
  BY Fields, EvaluateAssumption
<1>3. QED
  BY <1>1, <1>2 DEF Level

\* Whatever is dealt as all YES has its sum among those the pools look at.
LEMMA YesGroupIsHot ==
  ASSUME ev \in Event, Plain, NEW d, Shaped(ev, NoBooks, d), YesGroup(ev, NoBooks, d)
  PROVE  Below(Sums(ev, NoBooks), Level(ev, d.theta))
<1> DEFINE s == YesSum(ev, NoBooks, All(ev))
<1>1. s[1] = Total(d.legs) /\ s[2] = 1
  BY DEF YesGroup, YesSum
<1>2. s[1] < Level(ev, d.theta) * s[2]
  <2>1. Level(ev, d.theta) \in Int
    <3>1. Theta[ev.platform] \in Nat
      BY Fields, EvaluateAssumption
    <3>2. d.theta \in Nat
      BY <3>1, PlainMarkets DEF YesGroup, Assumed
    <3>3. QED
      BY <3>2, LevelType
  <2>2. Level(ev, d.theta) * 1 = Level(ev, d.theta)
    BY <2>1
  <2>3. QED
    BY <1>1, <2>2 DEF YesGroup
<1>3. s \in Sums(ev, NoBooks)
  <2>1. /\ ~Single(ev) /\ Cardinality(All(ev)) >= 2 /\ Cardinality(All(ev)) \in Nat
        /\ ev.platform # "sx" /\ (ev.platform # "kalshi" => ~ev.series)
        /\ Rough(ev) = All(ev) /\ \A i \in All(ev) : ev.markets[i].traded
    BY FewMarkets, PlainMarkets DEF YesGroup, WholeGroup, Series
  <2>2. ~(Cardinality(All(ev)) < 2)
    BY <2>1
  <2>3. CASE ev.platform = "poly"
    BY <2>1, <2>2, <2>3 DEF Sums, SumPoly, If
  <2>4. CASE ev.platform = "lim"
    <3>1. Priced(ev, NoBooks) = All(ev)
      BY <2>4 DEF YesGroup
    <3>2. 2 * s[1] <= 3 * One
      <4>1. Total(d.legs) \in Nat /\ Total(d.legs) < 1 * One
        BY <2>4, NoBooksIsBooks, CostsLess DEF YesGroup
      <4>2. QED
        BY <1>1, <4>1, Units
    <3>3. QED
      BY <2>1, <2>4, <3>1, <3>2 DEF Sums, SumLim, If
  <2>5. CASE ev.platform = "kalshi"
    <3>1. Priced(ev, NoBooks) = All(ev) /\ s[1] >= KalshiMinSum
      BY <1>1, <2>5 DEF YesGroup
    <3>2. QED
      BY <2>1, <2>2, <2>5, <3>1 DEF Sums, SumKalshi, If
  <2>6. QED
    BY <2>1, <2>3, <2>4, <2>5, Fields
<1>4. QED
  BY <1>2, <1>3 DEF Below

\* Likewise all NO.
LEMMA NoGroupIsHot ==
  ASSUME ev \in Event, Plain, NEW d, Shaped(ev, NoBooks, d), NoGroup(ev, NoBooks, d)
  PROVE  Below(Sums(ev, NoBooks), Level(ev, d.theta))
<1> DEFINE n == Cardinality(All(ev))
           s == NoSum(ev, NoBooks, All(ev))
<1>0. n \in Nat /\ n >= 3 /\ d.payout = n - 1 /\ d.payout \in Nat
  BY FewMarkets DEF NoGroup
<1>1. s[1] = Total(d.legs) /\ s[2] = n - 1
  BY DEF NoGroup, NoSum
<1>2. s[1] < Level(ev, d.theta) * s[2]
  <2>1. Level(ev, d.theta) \in Int
    <3>1. Theta[ev.platform] \in Nat
      BY Fields, EvaluateAssumption
    <3>2. d.theta \in Nat
      BY <3>1, PlainMarkets DEF NoGroup, Assumed
    <3>3. QED
      BY <3>2, LevelType
  <2>2. Level(ev, d.theta) * d.payout = d.payout * Level(ev, d.theta)
    BY <1>0, <2>1
  <2>3. QED
    BY <1>0, <1>1, <2>2 DEF NoGroup
<1>3. s \in Sums(ev, NoBooks)
  <2>1. /\ ~Single(ev)
        /\ ev.platform # "sx" /\ (ev.platform # "kalshi" => ~ev.series)
        /\ Rough(ev) = All(ev) /\ \A i \in All(ev) : ev.markets[i].traded
    BY PlainMarkets DEF NoGroup, WholeGroup, Series
  <2>2. ~(Cardinality(All(ev)) < 2) /\ Cardinality(All(ev)) >= 3
    BY <1>0
  <2>3. CASE ev.platform = "poly"
    BY <2>1, <2>2, <2>3 DEF Sums, SumPoly, If
  <2>4. ev.platform # "poly" => /\ BothPriced(ev, NoBooks) = All(ev)
                                /\ Priced(ev, NoBooks) = All(ev)
    <3>1. ev.platform # "poly" => Priced(ev, NoBooks) \subseteq All(ev)
      BY DEF Priced
    <3>2. BothPriced(ev, NoBooks) \subseteq Priced(ev, NoBooks)
      BY DEF BothPriced
    <3>3. QED
      BY <3>1, <3>2 DEF NoGroup
  <2>5. CASE ev.platform = "lim"
    <3>1. 2 * s[1] <= (2 * Cardinality(All(ev)) - 1) * One
      <4>1. Total(d.legs) \in Nat /\ Total(d.legs) < (n - 1) * One
        BY <1>0, <2>5, NoBooksIsBooks, CostsLess DEF NoGroup
      <4>2. (2 * n - 1) * One = 2 * ((n - 1) * One) + One /\ (n - 1) * One \in Int
        BY <1>0, Units
      <4>3. 2 * Total(d.legs) <= 2 * ((n - 1) * One) + One
        BY <4>1, <4>2, Units
      <4>4. QED
        BY <1>1, <4>2, <4>3
    <3>2. QED
      BY <2>1, <2>2, <2>4, <2>5, <3>1 DEF Sums, SumLim, If
  <2>6. CASE ev.platform = "kalshi"
    BY <2>1, <2>2, <2>4, <2>6 DEF Sums, SumKalshi, If
  <2>7. QED
    BY <2>1, <2>3, <2>5, <2>6, Fields
<1>4. QED
  BY <1>2, <1>3 DEF Below

\* Likewise a pair.
LEMMA PairIsHot ==
  ASSUME ev \in Event, Plain, NEW d, NEW i \in All(ev), PairOn(ev, NoBooks, d, i)
  PROVE  /\ Below(Sums(ev, NoBooks), Level(ev, d.theta))
         /\ d.theta = Assumed(ev)
<1> DEFINE s == PairSum(ev, NoBooks, i)
<1>0. d.theta = Assumed(ev)
  BY PlainMarkets DEF PairOn, Assumed
<1>1. s[1] = Total(d.legs) /\ s[2] = 1
  BY NoBooksIsBooks, PairTotal DEF PairOn
<1>2. s[1] < Level(ev, d.theta) * s[2]
  <2>1. Level(ev, d.theta) \in Int
    <3>1. Theta[ev.platform] \in Nat
      BY Fields, EvaluateAssumption
    <3>2. d.theta \in Nat
      BY <1>0, <3>1, PlainMarkets DEF Assumed
    <3>3. QED
      BY <3>2, LevelType
  <2>2. Level(ev, d.theta) * 1 = Level(ev, d.theta)
    BY <2>1
  <2>3. QED
    BY <1>1, <2>2 DEF PairOn
<1>3. s \in Sums(ev, NoBooks)
  <2>1. \A j \in All(ev) : ev.markets[j].traded
    BY PlainMarkets
  <2>2. CASE ev.platform = "poly"
    <3>1. i \in Rough(ev) /\ (Single(ev) \/ ~(Cardinality(Rough(ev)) < 2))
      <4>1. Cardinality(Rough(ev)) \in Nat
        BY FewMarkets DEF Rough, Open
      <4>2. QED
        BY <2>2, <4>1 DEF PairOn
    <3>2. QED
      BY <2>2, <3>1 DEF Sums, SumPoly
  <2>3. CASE ev.platform = "lim"
    BY <2>1, <2>3 DEF Sums, SumLim, PairOn
  <2>4. CASE ev.platform = "kalshi"
    <3>1. i \in BothPriced(ev, NoBooks) /\ ~(Cardinality(Priced(ev, NoBooks)) < 2)
      <4>1. Cardinality(Priced(ev, NoBooks)) \in Nat
        BY FewMarkets DEF Priced, Rough, Open
      <4>2. QED
        BY <2>4, <4>1, PlainMarkets DEF PairOn
    <3>2. QED
      BY <2>4, <3>1 DEF Sums, SumKalshi
  <2>5. CASE ev.platform = "sx"
    BY <2>5 DEF Sums, SumSx, PairOn
  <2>6. QED
    BY <2>2, <2>3, <2>4, <2>5, Fields
<1>4. QED
  BY <1>0, <1>2, <1>3 DEF Below

\* What the evaluators deal without the stream, the pools rank as HOT.
LEMMA DealtRanksHot ==
  ASSUME ev \in Event, Plain, NEW d \in Evaluated(ev, NoBooks)
  PROVE  Classify(ev, NoBooks) = "hot"
<1>1. Shaped(ev, NoBooks, d)
  BY NoBooksIsBooks, DealsShaped
<1>2. Below(Sums(ev, NoBooks), Level(ev, d.theta)) /\ d.theta = Assumed(ev)
  BY <1>1, YesGroupIsHot, NoGroupIsHot, PairIsHot DEF Shaped, YesGroup, NoGroup
<1>3. PoolThreshold(ev) = Level(ev, Assumed(ev))
  BY PlainMarkets DEF PoolThreshold, Level, Assumed
<1>4. HasReal(ev, NoBooks)
  BY PlainMarkets
<1>5. QED
  BY <1>2, <1>3, <1>4 DEF Classify

-----------------------------------------------------------------------------
\* The inductive invariant

\* What the state is made of; a book of the stream holds nothing or the ask
\* that was pushed.
StateTypes ==
  /\ ev \in RawEvents
  /\ at \in {"filter", "evaluate", "classify", "subscribe"}
  /\ pool \in {"none", "hot", "near"}
  /\ watched \in BOOLEAN /\ closing \in BOOLEAN /\ late \in BOOLEAN
  /\ ws \in Books(ev)
  /\ \A i \in All(ev), s \in Sides : ws[i][s] \in {0, AskOf(i, s).price}

\* Every deal on the board is one the evaluators make of the event, and every
\* row one the NEAR table makes, for some state of the stream's books.
Origins ==
  /\ \A d \in deals : \E w \in Books(ev) : d \in Evaluated(ev, w)
  /\ \A row \in rows : \E w \in Books(ev) : row \in NearRows(ev, w)

\* Between the scan's evaluation and the next filter, as long as no push has
\* come, the board has what the scan made of the books, and then the pool too.
Fresh ==
  Plain /\ ws = NoBooks =>
    /\ at \in {"classify", "subscribe"} => deals = Evaluated(ev, NoBooks)
    /\ at = "subscribe" => pool = Classify(ev, NoBooks)

IInv == StateTypes /\ Origins /\ Fresh

\* The events the run may be given are events.
LEMMA Rawness == ev \in RawEvents => ev \in Event
BY EventFlowAssumption

\* What the scan reads of the stream is something the stream may hold.
LEMMA OwnBooksIsBooks ==
  ASSUME StateTypes
  PROVE  OwnBooks \in Books(ev) /\ (ws = NoBooks => OwnBooks = NoBooks)
BY Rawness, NoBooksIsBooks DEF StateTypes, OwnBooks

\* At the start there is nothing but the event.
LEMMA InitIInv == Init => IInv
<1> SUFFICES ASSUME Init PROVE IInv
  OBVIOUS
<1>1. ev \in Event /\ NoBooks \in Books(ev)
  BY Rawness, NoBooksIsBooks DEF Init
<1>2. StateTypes
  BY <1>1 DEF Init, StateTypes, NoBooks
<1>3. Origins /\ Fresh
  BY DEF Init, Origins, Fresh
<1>4. QED
  BY <1>2, <1>3 DEF IInv

\* What speaks of the event and the books alone stays as they do.
LEMMA SameEvent ==
  ASSUME ev' = ev
  PROVE  /\ NoBooks' = NoBooks /\ (Plain' <=> Plain) /\ Books(ev)' = Books(ev)
         /\ \A w : Evaluated(ev, w)' = Evaluated(ev, w) /\ NearRows(ev, w)' = NearRows(ev, w)
         /\ Classify(ev, NoBooks)' = Classify(ev, NoBooks)
         /\ Evaluated(ev, NoBooks)' = Evaluated(ev, NoBooks)
         /\ \A i, s : AskOf(i, s)' = AskOf(i, s)
BY DEF NoBooks, Plain, AskOf

\* A push leaves the books typed and different from none.
LEMMA PushedBooks ==
  ASSUME StateTypes, NEW i \in All(ev), NEW s \in Sides, TakePush(i, s)
  PROVE  /\ ws' \in Books(ev) /\ ws' # NoBooks
         /\ \A j \in All(ev), t \in Sides : ws'[j][t] \in {0, AskOf(j, t).price}
<1>1. AskOf(i, s).price \in 0..(One - 1) /\ AskOf(i, s).price > 0
  <2>1. ev.markets[i] \in Market
    BY Rawness, Fields DEF StateTypes
  <2>2. QED
    BY <2>1, MarketFields DEF AskOf, TakePush, Quoted
<1>2. ws \in [All(ev) -> [Sides -> 0..(One - 1)]] /\ ws' = [ws EXCEPT ![i][s] = AskOf(i, s).price]
  BY DEF StateTypes, Books, TakePush
<1>3. ws' \in Books(ev)
  BY <1>1, <1>2 DEF Books
<1>4. ws'[i][s] = AskOf(i, s).price /\ NoBooks[i][s] = 0
  BY <1>2 DEF NoBooks
<1>5. ws' # NoBooks
  BY <1>1, <1>4
<1>6. \A j \in All(ev), t \in Sides : ws'[j][t] \in {0, AskOf(j, t).price}
  <2>1. \A j \in All(ev), t \in Sides : ws[j][t] \in {0, AskOf(j, t).price}
    BY DEF StateTypes
  <2>2. \A j \in All(ev), t \in Sides :
          ws'[j][t] = IF j = i /\ t = s THEN AskOf(i, s).price ELSE ws[j][t]
    BY <1>2
  <2>3. QED
    BY <2>1, <2>2
<1>7. QED
  BY <1>3, <1>5, <1>6

\* A push replaces the deals by what it evaluates, and makes the books its own.
LEMMA PushKeepsIInv ==
  ASSUME IInv, NEW i \in All(ev), NEW s \in Sides, TakePush(i, s), late' \in BOOLEAN
  PROVE  IInv'
<1>1. /\ ws' \in Books(ev) /\ ws' # NoBooks
      /\ \A j \in All(ev), t \in Sides : ws'[j][t] \in {0, AskOf(j, t).price}
  BY PushedBooks DEF IInv
<1>2. ev' = ev /\ UNCHANGED <<at, pool, watched, closing, rows>>
  BY DEF TakePush
<1>3. /\ ev' \in RawEvents /\ at' \in {"filter", "evaluate", "classify", "subscribe"}
      /\ pool' \in {"none", "hot", "near"}
  BY <1>2 DEF IInv, StateTypes
<1>4. watched' \in BOOLEAN /\ closing' \in BOOLEAN
  BY <1>2 DEF IInv, StateTypes
<1>5. StateTypes'
  BY <1>1, <1>2, <1>3, <1>4, SameEvent DEF StateTypes, AskOf, All
<1>6. Origins'
  <2>1. deals' = deals \/ deals' = Evaluated(ev, ws')
    BY DEF TakePush
  <2>2. \A d \in deals' : \E w \in Books(ev) : d \in Evaluated(ev, w)
    BY <1>1, <2>1 DEF IInv, Origins
  <2>3. \A row \in rows' : \E w \in Books(ev) : row \in NearRows(ev, w)
    BY <1>2 DEF IInv, Origins
  <2>4. QED
    BY <1>2, <2>2, <2>3 DEF Origins
<1>7. Fresh'
  BY <1>1, <1>2, SameEvent DEF Fresh
<1>8. QED
  BY <1>5, <1>6, <1>7 DEF IInv

\* Steps that leave the books and the event: what is left to show of them.
LEMMA QuietStep ==
  ASSUME IInv, ev' = ev, ws' \in {ws, NoBooks},
         at' \in {"filter", "evaluate", "classify", "subscribe"},
         pool' \in {"none", "hot", "near"},
         watched' \in BOOLEAN, closing' \in BOOLEAN, late' \in BOOLEAN
  PROVE  StateTypes'
<1>1. ev \in Event /\ NoBooks \in Books(ev)
  BY Rawness, NoBooksIsBooks DEF IInv, StateTypes
<1>2. ws' \in Books(ev)
  BY <1>1 DEF IInv, StateTypes
<1>3. \A i \in All(ev), s \in Sides : ws'[i][s] \in {0, AskOf(i, s).price}
  BY DEF IInv, StateTypes, NoBooks
<1>4. ev' \in RawEvents
  BY DEF IInv, StateTypes
<1>5. QED
  BY <1>2, <1>3, <1>4, SameEvent DEF StateTypes, AskOf, All

\* Every step keeps the invariant.
LEMMA NextKeepsIInv ==
  ASSUME IInv, [Next]_vars
  PROVE  IInv'
<1>1. /\ at \in {"filter", "evaluate", "classify", "subscribe"} /\ pool \in {"none", "hot", "near"}
      /\ ev \in Event /\ NoBooks \in Books(ev) /\ OwnBooks \in Books(ev)
      /\ ws = NoBooks => OwnBooks = NoBooks
  BY Rawness, NoBooksIsBooks, OwnBooksIsBooks DEF IInv, StateTypes
<1>2. watched \in BOOLEAN /\ closing \in BOOLEAN /\ late \in BOOLEAN
  BY DEF IInv, StateTypes
<1>3. CASE Filter
  <2>1. /\ ev' = ev /\ ws' = ws /\ rows' = rows
        /\ at' \in {"evaluate", "subscribe", "classify"} /\ pool' \in {pool, "none"}
        /\ deals' = deals \/ deals' = {}
        /\ at' = "evaluate" \/ ~Passes(ev)
    BY <1>3 DEF Filter
  <2>2. watched' = watched /\ closing' = closing /\ late' = late
    BY <1>3 DEF Filter
  <2>3. StateTypes'
    BY <1>1, <1>2, <2>1, <2>2, QuietStep
  <2>4. Origins'
    BY <2>1 DEF IInv, Origins
  <2>5. Fresh'
    <3>1. Plain => at' = "evaluate"
      BY <2>1 DEF Plain
    <3>2. QED
      BY <2>1, <3>1, SameEvent DEF Fresh
  <2>6. QED
    BY <2>3, <2>4, <2>5 DEF IInv
<1>4. CASE EvaluateBooks
  <2>1. /\ ev' = ev /\ ws' = ws /\ rows' = rows /\ pool' = pool
        /\ at' = "classify" /\ deals' = Evaluated(ev, NoBooks)
    BY <1>4 DEF EvaluateBooks
  <2>2. watched' = watched /\ closing' = closing /\ late' = late
    BY <1>4 DEF EvaluateBooks
  <2>3. StateTypes'
    BY <1>1, <1>2, <2>1, <2>2, QuietStep
  <2>4. Origins'
    <3>1. \A d \in deals' : \E w \in Books(ev) : d \in Evaluated(ev, w)
      BY <1>1, <2>1
    <3>2. \A row \in rows' : \E w \in Books(ev) : row \in NearRows(ev, w)
      BY <2>1 DEF IInv, Origins
    <3>3. QED
      BY <2>1, <3>1, <3>2 DEF Origins
  <2>5. Fresh'
    BY <2>1, SameEvent DEF Fresh
  <2>6. QED
    BY <2>3, <2>4, <2>5 DEF IInv
<1>5. CASE ClassifyEvent
  <2>1. /\ ev' = ev /\ ws' = ws /\ rows' = rows /\ deals' = deals
        /\ at = "classify" /\ at' = "subscribe" /\ pool' = Classify(ev, OwnBooks)
    BY <1>5 DEF ClassifyEvent
  <2>2. watched' = watched /\ closing' = closing /\ late' = late
    BY <1>5 DEF ClassifyEvent
  <2>3. pool' \in {"none", "hot", "near"}
    BY <2>1 DEF Classify
  <2>4. StateTypes'
    BY <1>1, <1>2, <2>1, <2>2, <2>3, QuietStep
  <2>5. Origins'
    BY <2>1 DEF IInv, Origins
  <2>6. Fresh'
    BY <1>1, <2>1, SameEvent DEF IInv, Fresh
  <2>7. QED
    BY <2>4, <2>5, <2>6 DEF IInv
<1>6. CASE Subscribe
  <2>1. /\ ev' = ev /\ ws' \in {ws, NoBooks} /\ rows' = rows /\ deals' = deals
        /\ at' = "filter" /\ pool' = pool
    BY <1>6 DEF Subscribe
  <2>2. watched' \in BOOLEAN /\ closing' \in BOOLEAN
    BY <1>6, <1>2 DEF Subscribe
  <2>3. late' = late
    BY <1>6 DEF Subscribe
  <2>4. StateTypes'
    BY <1>1, <1>2, <2>1, <2>2, <2>3, QuietStep
  <2>5. Origins'
    BY <2>1 DEF IInv, Origins
  <2>6. Fresh'
    BY <2>1 DEF Fresh
  <2>7. QED
    BY <2>4, <2>5, <2>6 DEF IInv
<1>7. CASE Reconnected
  <2>1. UNCHANGED <<ev, at, deals, pool, watched, ws, late, rows>>
    BY <1>7 DEF Reconnected
  <2>2. closing' \in BOOLEAN
    BY <1>7 DEF Reconnected
  <2>3. StateTypes'
    BY <1>1, <1>2, <2>1, <2>2, QuietStep
  <2>4. Origins' /\ Fresh'
    BY <2>1, SameEvent DEF IInv, Origins, Fresh
  <2>5. QED
    BY <2>3, <2>4 DEF IInv
<1>8. ASSUME NEW i \in All(ev), NEW s \in PushSides, Push(i, s) \/ LatePush(i, s)
      PROVE  IInv'
  <2>1. TakePush(i, s) /\ s \in Sides
    BY <1>8, EventFlowAssumption DEF Push, LatePush
  <2>2. late' \in BOOLEAN
    BY <1>8, <1>2 DEF Push, LatePush
  <2>3. QED
    BY <2>1, <2>2, PushKeepsIInv
<1>9. CASE Near
  <2>1. /\ UNCHANGED <<ev, at, deals, pool, ws>>
        /\ rows' = {} \/ rows' = NearRows(ev, OwnBooks)
    BY <1>9 DEF Near
  <2>2. watched' = watched /\ closing' = closing /\ late' = late
    BY <1>9 DEF Near
  <2>3. StateTypes'
    BY <1>1, <1>2, <2>1, <2>2, QuietStep
  <2>4. Origins'
    <3>1. \A d \in deals' : \E w \in Books(ev) : d \in Evaluated(ev, w)
      BY <2>1 DEF IInv, Origins
    <3>2. \A row \in rows' : \E w \in Books(ev) : row \in NearRows(ev, w)
      BY <1>1, <2>1
    <3>3. QED
      BY <2>1, <3>1, <3>2 DEF Origins
  <2>5. Fresh'
    BY <2>1, SameEvent DEF IInv, Fresh
  <2>6. QED
    BY <2>3, <2>4, <2>5 DEF IInv
<1>10. CASE UNCHANGED vars
  <2>1. UNCHANGED <<ev, at, deals, pool, ws, rows>>
    BY <1>10 DEF vars
  <2>2. watched' = watched /\ closing' = closing /\ late' = late
    BY <1>10 DEF vars
  <2>3. StateTypes'
    BY <1>1, <1>2, <2>1, <2>2, QuietStep
  <2>4. Origins' /\ Fresh'
    BY <2>1, SameEvent DEF IInv, Origins, Fresh
  <2>5. QED
    BY <2>3, <2>4 DEF IInv
<1>11. QED
  BY <1>3, <1>4, <1>5, <1>6, <1>7, <1>8, <1>9, <1>10 DEF Next, Scan

-----------------------------------------------------------------------------
\* Theorems

\* So it holds for ever.
LEMMA Invariance == Spec => []IInv
<1>1. IInv /\ [Next]_vars => IInv'
  BY NextKeepsIInv
<1>2. QED
  BY <1>1, InitIInv, PTL DEF Spec

\* Every deal of the board has the shape its evaluator looks for.
LEMMA BoardShaped ==
  ASSUME IInv, NEW d \in deals
  PROVE  /\ ev \in Event
         /\ \E w \in Books(ev) : Shaped(ev, w, d)
BY Rawness, DealsShaped DEF IInv, StateTypes, Origins

\* The scan's state and the rows have their types.
THEOREM Types == Spec => []TypeOK
<1>1. ASSUME IInv PROVE TypeOK
  <2>1. ev \in RawEvents /\ at \in {"filter", "evaluate", "classify", "subscribe"}
    BY <1>1 DEF IInv, StateTypes
  <2>2. \A d \in deals : d.legs # {} /\ \A l \in d.legs : l.m \in All(ev) /\ l.side \in Sides
    BY <1>1, BoardShaped, ShapedLegs
  <2>3. pool \in {"none", "hot", "near"}
    BY <1>1 DEF IInv, StateTypes
  <2>4. watched \in BOOLEAN /\ closing \in BOOLEAN /\ late \in BOOLEAN
    BY <1>1 DEF IInv, StateTypes
  <2>5. DOMAIN ws = All(ev) /\ \A i \in All(ev), s \in Sides : ws[i][s] \in {0, AskOf(i, s).price}
    BY <1>1 DEF IInv, StateTypes, Books
  <2>6. \A o \in rows : \A l \in o.legs : l.m \in All(ev)
    BY <1>1, Rawness, RowTypes DEF IInv, StateTypes, Origins
  <2>7. QED
    BY <2>1, <2>2, <2>3, <2>4, <2>5, <2>6 DEF TypeOK
<1>2. QED
  BY <1>1, Invariance, PTL

\* run_scan and the callbacks put nothing on the board that loses in some
\* outcome of the event, whatever the books, the stream and the thresholds.
THEOREM Profit == Spec => []ProfitInEveryOutcome
<1>1. ASSUME IInv PROVE ProfitInEveryOutcome
  BY <1>1, BoardShaped, StructureProfits DEF ProfitInEveryOutcome
<1>2. QED
  BY <1>1, Invariance, PTL

\* build_deal's stake is no more than the orders near the best price of any leg
\* cost, unless the depth of a leg is misread.
THEOREM Fits == Spec => []FitsTheBooks
<1>1. ASSUME IInv PROVE FitsTheBooks
  BY <1>1, BoardShaped, StakeFits DEF FitsTheBooks
<1>2. QED
  BY <1>1, Invariance, PTL

\* An event the scan has dealt and no push has touched is in the HOT pool.
THEOREM Hot == Spec => []DealtIsHot
<1>1. ASSUME IInv PROVE DealtIsHot
  <2>1. SUFFICES ASSUME at = "subscribe", Plain, ws = NoBooks, deals # {}
                 PROVE  pool = "hot"
    BY DEF DealtIsHot
  <2>2. deals = Evaluated(ev, NoBooks) /\ pool = Classify(ev, NoBooks)
    BY <1>1, <2>1 DEF IInv, Fresh
  <2>3. ev \in Event
    BY <1>1, Rawness DEF IInv, StateTypes
  <2>4. QED
    BY <2>1, <2>2, <2>3, DealtRanksHot
<1>2. QED
  BY <1>1, Invariance, PTL

\* A NEAR row over all markets of an event pays what its structure promises.
THEOREM Hedged == Spec => []RowsHedged
<1>1. ASSUME IInv PROVE RowsHedged
  <2>1. ev \in Event /\ \A row \in rows : \E w \in Books(ev) : row \in NearRows(ev, w)
    BY <1>1, Rawness DEF IInv, StateTypes, Origins
  <2>2. QED
    BY <2>1, RowPaysOut DEF RowsHedged
<1>2. QED
  BY <1>1, Invariance, PTL
=============================================================================
