--------------------------- MODULE CrossPlatform ----------------------------
(****************************************************************************)
(* The cross-platform layer of run_scan: the pools of outcomes built from   *)
(* the books of three exchanges, find_pairs' greedy matching of titles and  *)
(* dates, the guards of a pair, the two-legged structures X1 and X2, the    *)
(* complement cover of many legs, and the sizes and the net the board shows.*)
(*                                                                          *)
(* Titles and names are what event_matching reads off them: a canonical     *)
(* title, a league, the marks of a market's scope, a name's tokens. What a  *)
(* market is really about is its game, the question asked of it - line,     *)
(* period and method included - and the sides its two tokens pay for.       *)
(*                                                                          *)
(* Prices are cents of a contract that pays One, depths dollars, faces      *)
(* tenths of a contract, fees per mille.                                    *)
(****************************************************************************)
EXTENDS Integers, Sequences, FiniteSets, FiniteSetsExt, SequencesExt

CONSTANTS
  One,         \* what a winning contract pays, in cents
  RawPools,    \* the markets the exchanges may list, by exchange
  Canon,       \* the canonical title of a title; "" if nothing is left of it
  Sport,       \* what its teams or its league tell of the sport, or "none"
  League,      \* the competition a title names, or "none"
  Ends,        \* how each question <<game, question>> can end
  Likeness,    \* title_similarity of two canonical titles, in per cent
  Alike,       \* pairs of names that are alike letter by letter
  Noise,       \* the tokens canonicalize_outcome_name drops
  DrawTokens,  \* _DRAW_TOKENS
  Theta,       \* PLATFORM_THETA, per mille
  Threshold,   \* CROSS_PLATFORM_THRESHOLD
  CoverThreshold, \* CROSS_PLATFORM_COMPLEMENT_THRESHOLD
  CoverLegs,   \* CROSS_PLATFORM_COMPLEMENT_MIN_LEGS
  RealisticSum,\* _CP_MIN_REALISTIC_SUM
  MinDepth,    \* _CP_MIN_LEG_DEPTH
  MinConfidence, \* CP_MIN_CONFIDENCE, in per cent
  Tolerance,   \* SETTLEMENT_TIMING_TOLERANCE_HOURS
  LegCap       \* MAX_PER_TRADE_USD

Exchanges == {"poly", "lim", "sx"}
Nobody == [price |-> 0, depth |-> 0]
Quoted(book) == book.price > 0

\* One side of a market's book: its best price, none being 0, and the dollars
\* there. NoEnd is the date of a market that has none.
NoEnd == -1
Book == [price : 0..(One - 1), depth : Nat]

\* A market. What it is really about is a question of a game, the side its YES
\* pays for and the ends at which its second token pays.
Side == UNION {Ends[q] : q \in DOMAIN Ends}
Market == [exchange : Exchanges, title : DOMAIN Canon, about : DOMAIN Ends,
           end : Nat \cup {NoEnd}, told : Nat \cup {NoEnd},
           side : Side, second : SUBSET Side,
           name : SUBSET STRING, marks : SUBSET STRING,
           yes : Book, no : Book, bid : Book]

ASSUME NumbersAssumption ==
  /\ One \in Nat \ {0}
  /\ {MinDepth, CoverLegs, LegCap} \subseteq Nat
  /\ Theta \in [Exchanges -> Nat]
  /\ LET canonical == {Canon[t] : t \in DOMAIN Canon}
     IN Likeness \in [canonical \X canonical -> Nat]

ASSUME PoolsAssumption ==
  \A ps \in RawPools, q \in Exchanges :
    ps[q] \in Seq(Market) /\ \A o \in ToSet(ps[q]) : o.exchange = q

VARIABLES
  pools,  \* the markets listed on each exchange, with their books
  todo,   \* the pairs of exchanges run_scan has still to compare
  deals   \* the rows the layer has added to the board

vars == <<pools, todo, deals>>

-----------------------------------------------------------------------------
\* The pools. An exchange's market has the books of its two tokens and the
\* YES token's bids; an outcome has a price for YES and one for NO.

\* Polymarket: without a NO book, the YES bid stands in for it.
PolyOutcome(m) ==
  [m EXCEPT !.no = IF Quoted(m.no) THEN m.no
                   ELSE IF Quoted(m.bid) THEN [price |-> One - m.bid.price, depth |-> m.bid.depth]
                   ELSE Nobody]

\* Limitless has a price for each side. An SX market enters with both only;
\* its second outcome is taken for the NO of its first, whatever it pays for.
LimOutcome(m) == m
SxListed(m) == Quoted(m.yes) /\ Quoted(m.no)
Listed(markets) ==
  LET upto[n \in 0..Len(markets)] ==
        IF n = 0 THEN <<>>
        ELSE IF SxListed(markets[n]) THEN Append(upto[n - 1], markets[n]) ELSE upto[n - 1]
  IN upto[Len(markets)]

Pool(q) ==
  CASE q = "poly" -> [i \in DOMAIN pools[q] |-> PolyOutcome(pools[q][i])]
    [] q = "lim" -> [i \in DOMAIN pools[q] |-> LimOutcome(pools[q][i])]
    [] q = "sx" -> Listed(pools[q])

-----------------------------------------------------------------------------
\* What event_matching makes of titles and names

\* detect_market_scope: the first pattern that fits, in this order; a signed
\* number beside a word of time is no handicap.
ScopeOrder == <<"halftime", "period", "regulation", "method_of_victory", "exact_score",
                "btts", "corners", "cards", "goalscorer", "handicap", "totals">>

Scope(o) ==
  LET read == IF "clock" \in o.marks THEN o.marks \ {"handicap"} ELSE o.marks
      hits == {k \in DOMAIN ScopeOrder : ScopeOrder[k] \in read}
  IN IF hits = {} THEN "moneyline" ELSE ScopeOrder[Min(hits)]

ScopesCompatible(a, b) == Scope(a) = Scope(b)

LeaguesCompatible(a, b) ==
  "none" \in {League[a.title], League[b.title]} \/ League[a.title] = League[b.title]

\* canonicalize_outcome_name
Name(o) == o.name \ Noise
HasDraw(name) == name \cap DrawTokens # {}
Normal(name) == IF HasDraw(name) THEN (name \ DrawTokens) \cup {"draw"} ELSE name

\* One name within the other, two words in common, or alike to the letter.
NamesAgree(m, n) ==
  \/ m \subseteq n \/ n \subseteq m
  \/ Cardinality(m \cap n) >= 2
  \/ {m, n} \in Alike

\* Fault: the third result is treated like a team.
OutcomesAgreeOnDraws(a, b) ==
  LET m == Name(a)
      n == Name(b)
  IN m # {} /\ n # {} /\ (m = n \/ NamesAgree(Normal(m), Normal(n)))

OutcomesCompatible(a, b) ==
  LET m == Name(a)
      n == Name(b)
  IN /\ m # {} /\ n # {}
     /\ \/ m = n
        \/ HasDraw(m) = HasDraw(n) /\ NamesAgree(Normal(m), Normal(n))

\* A market's date is its end, in hours, or else what its title tells.
When(o) == IF o.end # NoEnd THEN o.end ELSE o.told
Dated(o) == When(o) # NoEnd
Distance(x, y) == IF x < y THEN y - x ELSE x - y
NextDay(a, b) == Distance(When(a) \div 24, When(b) \div 24) <= 1

\* _match_from_canon
DateScore(a, b) ==
  CASE Dated(a) /\ Dated(b) -> IF NextDay(a, b) THEN 30 ELSE 0
    [] OTHER -> 15
SportScore(a, b) == IF Sport[a.title] = Sport[b.title] /\ Sport[a.title] # "none" THEN 10 ELSE 0

Confidence(a, b) ==
  (6 * Likeness[<<Canon[a.title], Canon[b.title]>>]) \div 10 + DateScore(a, b) + SportScore(a, b)

\* The buckets find_pairs looks into for a, in this order: a's sport before
\* none, and under each a's day, with the days beside it, before no day.
Buckets(a) == <<<<Sport[a.title], TRUE>>, <<Sport[a.title], FALSE>>, <<"none", TRUE>>, <<"none", FALSE>>>>
InBucket(a, b, bucket) ==
  /\ Sport[b.title] = bucket[1]
  /\ IF bucket[2] /\ Dated(a) THEN Dated(b) /\ NextDay(a, b) ELSE ~Dated(b)
Place(a, b) == {k \in 1..4 : InBucket(a, b, Buckets(a)[k])}

Candidates(a, poolB) ==
  {j \in DOMAIN poolB : Place(a, poolB[j]) # {} /\ Confidence(a, poolB[j]) >= MinConfidence}

\* The most confident match, the first found among equals.
Best(a, poolB, free) ==
  LET top == {j \in free : \A k \in free : Confidence(a, poolB[k]) <= Confidence(a, poolB[j])}
      Rank(j) == Min(Place(a, poolB[j])) * (Len(poolB) + 1) + j
  IN CHOOSE j \in top : \A k \in top : Rank(j) <= Rank(k)

\* find_pairs: each of A in turn, each of B at most once.
FindPairs(poolA, poolB) ==
  LET Match(found, i) ==
        LET a == poolA[i]
            free == Candidates(a, poolB) \ {p[2] : p \in found}
        IN IF free = {} THEN found ELSE found \cup {<<i, Best(a, poolB, free)>>}
      upto[n \in 0..Len(poolA)] == IF n = 0 THEN {} ELSE Match(upto[n - 1], n)
  IN upto[Len(poolA)]

-----------------------------------------------------------------------------
\* Structures

\* _check_settlement_timing: of the ends alone.
Timely(a, b) == NoEnd \notin {a.end, b.end} => Distance(a.end, b.end) <= Tolerance

\* The leg that buys a side of the i-th outcome of a pool.
Leg(pool, i, side) ==
  [of |-> pool[i], at |-> i, buys |-> side, price |-> pool[i][side].price,
   depth |-> pool[i][side].depth]
Total(legs) == SumFunction([l \in legs |-> l.price])
Real(o, side) == Quoted(o[side]) /\ o[side].depth >= MinDepth

\* build_cross_platform_deal: YES of one and NO of the other, both ways.
Guarded(a, b) ==
  ScopesCompatible(a, b) /\ LeaguesCompatible(a, b) /\ OutcomesCompatible(a, b)

TwoLegs(poolA, poolB, p) ==
  LET ways == {<<"X1", "yes", "no">>, <<"X2", "no", "yes">>}
      Legs(w) == {Leg(poolA, p[1], w[2]), Leg(poolB, p[2], w[3])}
  IN {[kind |-> w[1], legs |-> Legs(w)] :
        w \in {x \in ways : /\ Guarded(poolA[p[1]], poolB[p[2]])
                            /\ Real(poolA[p[1]], x[2]) /\ Real(poolB[p[2]], x[3])
                            /\ Total(Legs(x)) >= RealisticSum
                            /\ Total(Legs(x)) < Threshold}}

PairDeals(poolA, poolB) ==
  UNION {TwoLegs(poolA, poolB, p) :
           p \in {x \in FindPairs(poolA, poolB) :
                    /\ poolA[x[1]].exchange # poolB[x[2]].exchange
                    /\ Timely(poolA[x[1]], poolB[x[2]])}}

\* build_complement_cover_deal: the anchor's YES and that of every entry of the
\* other exchange's fixture but those that name the anchor's side.
Fixture(anchor, poolB) ==
  {j \in DOMAIN poolB : Canon[anchor.title] # "" /\ Canon[poolB[j].title] = Canon[anchor.title]}
Complement(anchor, poolB) == {j \in Fixture(anchor, poolB) : ~OutcomesCompatible(anchor, poolB[j])}

CoverDeals(poolA, poolB) ==
  LET Legs(i) == {Leg(poolA, i, "yes")} \cup
                 {Leg(poolB, j, "yes") : j \in Complement(poolA[i], poolB)}
      Covers(i) ==
        LET others == Fixture(poolA[i], poolB)
            rest == Complement(poolA[i], poolB)
        IN /\ rest # others
           /\ \E j \in others : poolB[j].exchange # poolA[i].exchange
           /\ Cardinality(rest) >= Max({2, CoverLegs - 1})
           /\ \A j \in rest : ScopesCompatible(poolA[i], poolB[j])
           /\ Real(poolA[i], "yes") /\ \A j \in rest : Real(poolB[j], "yes")
           /\ Total(Legs(i)) < CoverThreshold
  IN {[kind |-> "cover", legs |-> Legs(i)] : i \in {n \in DOMAIN poolA : Covers(n)}}

\* find_cross_platform_arbs
FindArbs(poolA, poolB) ==
  PairDeals(poolA, poolB) \cup CoverDeals(poolA, poolB) \cup CoverDeals(poolB, poolA)

-----------------------------------------------------------------------------
\* to_radar_deal_format: eight tenths of the thinnest leg, within the cap.
Fee(legs) == SumFunction([l \in legs |-> l.price * Theta[l.of.exchange]])
Face(legs) ==
  Min({8 * Min({l.depth : l \in legs}), (10 * LegCap * Cardinality(legs) * One) \div Total(legs)})

\* The net, times One, times 10000.
Radar(d) ==
  [kind |-> d.kind, legs |-> d.legs, face |-> Face(d.legs),
   net |-> Face(d.legs) * ((One - Total(d.legs)) * 1000 - Fee(d.legs))]

-----------------------------------------------------------------------------
Layer == <<<<"poly", "lim">>, <<"poly", "sx">>, <<"lim", "sx">>>>

Init ==
  /\ pools \in RawPools
  /\ todo = Layer
  /\ deals = {}

\* run_scan's cross-platform layer, one pair of exchanges after the other.
Compare ==
  /\ todo # <<>>
  /\ LET found == FindArbs(Pool(todo[1][1]), Pool(todo[1][2]))
     IN deals' = deals \cup {Radar(d) : d \in found}
  /\ todo' = Tail(todo)
  /\ UNCHANGED pools

\* The next scan finds the same markets.
NextScan ==
  /\ todo = <<>>
  /\ todo' = Layer
  /\ deals' = {}
  /\ UNCHANGED pools

Next == Compare \/ NextScan

Spec == Init /\ [][Next]_vars

-----------------------------------------------------------------------------
\* Properties

\* Four things may mislead the layer: titles, leagues and dates that match though
\* the games differ; a scope that two questions of a game share, like two lines
\* of a handicap or two quarters; names of different sides that look alike, or
\* a side's that looks like a draw's; and a second token that pays at less than
\* all ends but the first one's.
TitlesTell(o, p) ==
  LeaguesCompatible(o, p) /\ Timely(o, p) /\ Confidence(o, p) >= MinConfidence =>
    o.about[1] = p.about[1]
ScopesTell(o, p) == o.about[1] = p.about[1] /\ Scope(o) = Scope(p) => o.about = p.about
NamesTell(o, p) ==
  /\ HasDraw(Name(o)) <=> o.side = "draw"
  /\ HasDraw(Name(p)) <=> p.side = "draw"
  /\ o.side # p.side /\ "draw" \notin {o.side, p.side} => ~NamesAgree(Name(o), Name(p))
SecondIsNo(o) == Ends[o.about] \ {o.side} \subseteq o.second

\* How the questions of a deal's legs may be answered.
Worlds(d) ==
  LET asked == {l.of.about : l \in d.legs}
  IN {w \in [asked -> Side] : \A q \in asked : w[q] \in Ends[q]}
Wins(l, world) ==
  IF l.buys = "yes" THEN world[l.of.about] = l.of.side ELSE world[l.of.about] \in l.of.second

Earned(d, world) ==
  d.face * ((One * Cardinality({l \in d.legs : Wins(l, world)}) - Total(d.legs)) * 1000 - Fee(d.legs))

\* Nothing misled the layer about the two markets of a pair.
PairTold(d) ==
  /\ \A l, k \in d.legs : l.of.exchange # k.of.exchange =>
       TitlesTell(l.of, k.of) /\ ScopesTell(l.of, k.of) /\ NamesTell(l.of, k.of)
  /\ \A l \in d.legs : l.buys = "no" => SecondIsNo(l.of)

\* Of a cover: every end of the anchor's question is the side of an outcome of
\* that game which the other exchange lists, and which does not mislead.
CoverTold(d) ==
  \E a \in d.legs : \E q \in Exchanges \ {a.of.exchange} :
    /\ \A l \in d.legs \ {a} : l.of.exchange = q
    /\ \A e \in Ends[a.of.about] : \E j \in Fixture(a.of, Pool(q)) :
         LET o == Pool(q)[j]
         IN o.side = e /\ o.about[1] = a.of.about[1] /\ ScopesTell(a.of, o) /\ NamesTell(a.of, o)

Told(d) == IF d.kind = "cover" THEN CoverTold(d) ELSE PairTold(d)

\* Whatever the layer puts on the board earns the net it shows, however the
\* games end, unless one of the four things misled it about that very row, or a
\* cover's other exchange does not list every end: the matching of titles and
\* dates, the guards of scopes, leagues and names, the sides bought, the sizes
\* and the fees have to work together.
NetIsEarned ==
  \A d \in deals : Told(d) => \A w \in Worlds(d) : Earned(d, w) >= d.net

\* build_complement_cover_deal says of its check for the anchor's sibling that
\* the other exchange then "exposes exactly the same set of outcomes", so some
\* leg of a cover wins.
CoverPays ==
  \A d \in deals : d.kind = "cover" => \A w \in Worlds(d) : \E l \in d.legs : Wins(l, w)

=============================================================================
