------------------------- MODULE CrossPlatformProofs --------------------------
(****************************************************************************)
(* That every row of the cross-platform layer earns the net it shows unless *)
(* its own texts mislead (NetIsEarned), for every set of listings, matching *)
(* thresholds and fees. A row is what find_cross_platform_arbs makes of two *)
(* pools; a matched pair that passes the guards and does not mislead is one *)
(* side of one question, so that one of its two legs wins, and some leg of  *)
(* a cover of every end wins; and a row with a leg that wins earns its net. *)
(****************************************************************************)
EXTENDS CrossPlatform, DataTheorems

-----------------------------------------------------------------------------
\* Outcomes and the markets they stem from

\* The numbers the code is configured with.
LEMMA Numbers ==
  /\ One \in Nat /\ One > 0
  /\ MinDepth \in Nat /\ CoverLegs \in Nat /\ LegCap \in Nat
BY NumbersAssumption

\* An outcome is its market, with another NO book at most.
Stems(o, m) == m \in Market /\ \E book \in Book : o = [m EXCEPT !.no = book]

\* It is a market of the same exchange.
LEMMA StemsAlike ==
  ASSUME NEW o, NEW m, Stems(o, m)
  PROVE  o \in Market /\ o.exchange = m.exchange
BY DEF Stems, Market

\* A market is an outcome of itself, and so is what Polymarket's pool has of it.
LEMMA SameMarket ==
  ASSUME NEW m \in Market
  PROVE  Stems(m, m) /\ Stems(PolyOutcome(m), m)
<1>1. m.no \in Book /\ m = [m EXCEPT !.no = m.no]
  BY DEF Market
<1>2. Stems(m, m)
  BY <1>1 DEF Stems
<1>3. m.bid.price \in 0..(One - 1) /\ m.bid.depth \in Nat
  BY DEF Market, Book
<1> DEFINE book == IF Quoted(m.no) THEN m.no
                   ELSE IF Quoted(m.bid) THEN [price |-> One - m.bid.price, depth |-> m.bid.depth]
                   ELSE Nobody
<1>4. book \in Book
  <2>1. Nobody \in Book
    BY Numbers DEF Nobody, Book
  <2>2. ASSUME m.bid.price > 0
        PROVE  [price |-> One - m.bid.price, depth |-> m.bid.depth] \in Book
    <3>1. One - m.bid.price \in 0..(One - 1)
      BY <1>3, <2>2, Numbers
    <3>2. QED
      BY <1>3, <3>1 DEF Book
  <2>3. QED
    BY <1>1, <2>1, <2>2 DEF Quoted
<1>5. PolyOutcome(m) = [m EXCEPT !.no = book]
  BY DEF PolyOutcome
<1>6. Stems(PolyOutcome(m), m)
  <2> HIDE DEF book
  <2>1. QED
    BY <1>4, <1>5 DEF Stems
<1>7. QED
  BY <1>2, <1>6

\* The markets an SX pool is made of are among those listed.
LEMMA ListedMarkets ==
  ASSUME NEW markets \in Seq(Market)
  PROVE  Listed(markets) \in Seq(ToSet(markets))
<1> DEFINE N == Len(markets)
           V == Seq(ToSet(markets))
           Next1(v, n) == IF SxListed(markets[n]) THEN Append(v, markets[n]) ELSE v
           step == [x \in (1..N) \X V |-> Next1(x[2], x[1])]
           Obeys(u) == u = [n \in 0..N |-> IF n = 0 THEN <<>> ELSE Next1(u[n - 1], n)]
           upto == CHOOSE u : Obeys(u)
<1>1. N \in Nat /\ <<>> \in V
  OBVIOUS
<1>2. \A n \in 1..N : markets[n] \in ToSet(markets)
  BY DEF ToSet
<1>3. ASSUME NEW v \in V, NEW n \in 1..N PROVE Next1(v, n) \in V
  BY <1>2
<1>4. step \in [(1..N) \X V -> V]
  <2> HIDE DEF V, Next1
  <2>1. QED
    BY <1>3
<1>5. \E u : Obeys(u)
  <2> HIDE DEF N, V, step, Next1
  <2> DEFINE base == <<>>
  <2>1. base \in V
    BY <1>1
  <2> HIDE DEF base
  <2>2. PICK g : Follows(g, N, V, base, step)
    BY <1>1, <1>4, <2>1, RecursiveFunction
  <2>3. g = [n \in 0..N |-> g[n]] /\ g[0] = base /\ \A n \in 0..N : g[n] \in V
    BY <2>2 DEF Follows
  <2>4. \A n \in 1..N : g[n] = step[<<n, g[n - 1]>>]
    BY <2>2 DEF Follows
  <2>5. \A n \in 1..N : g[n - 1] \in V => g[n] = Next1(g[n - 1], n)
    BY <2>4 DEF step
  <2>6. \A n \in 0..N : g[n] = IF n = 0 THEN <<>> ELSE Next1(g[n - 1], n)
    <3>1. \A n \in 0..N : n # 0 => n \in 1..N /\ n - 1 \in 0..N
      BY <1>1
    <3>2. QED
      BY <2>3, <2>5, <3>1 DEF base
  <2>7. Obeys(g)
    BY <2>3, <2>6
  <2>8. QED
    BY <2>7
<1>6. Obeys(upto)
  <2> HIDE DEF Obeys
  <2>1. QED
    BY <1>5
<1>7. upto[0] = <<>> /\ \A n \in 1..N : upto[n] = Next1(upto[n - 1], n)
  <2> HIDE DEF upto, Next1, N
  <2>1. QED
    BY <1>1, <1>6
<1>8. upto[N] \in V
  <2> HIDE DEF upto, N, V, Next1
  <2>1. \A n \in 0..N : upto[n] \in V
    BY <1>1, <1>3, <1>7, EveryValue
  <2>2. QED
    BY <1>1, <2>1
<1>9. Listed(markets) = upto[N]
  BY DEF Listed
<1>10. QED
  BY <1>8, <1>9

\* An exchange's pool holds outcomes of its own.
LEMMA PoolStems ==
  ASSUME pools \in RawPools, NEW q \in Exchanges
  PROVE  /\ Pool(q) \in Seq(Market)
         /\ \A o \in ToSet(Pool(q)) : o \in Market /\ o.exchange = q
<1> DEFINE markets == pools[q]
<1>1. markets \in Seq(Market) /\ \A m \in ToSet(markets) : m.exchange = q
  BY PoolsAssumption
<1>2. \A m \in ToSet(markets) : m \in Market
  BY <1>1 DEF ToSet
<1>3. \A m \in ToSet(markets) : Stems(m, m) /\ Stems(PolyOutcome(m), m)
  BY <1>2, SameMarket
<1>4. \A i \in DOMAIN markets : markets[i] \in ToSet(markets)
  BY DEF ToSet
<1>5. DOMAIN markets = 1..Len(markets) /\ Len(markets) \in Nat
  BY <1>1
<1> HIDE DEF markets
<1>6. CASE q = "poly"
  <2>1. Pool(q) = [i \in 1..Len(markets) |-> PolyOutcome(markets[i])]
    BY <1>5, <1>6 DEF Pool, markets
  <2>2. \A i \in 1..Len(markets) : PolyOutcome(markets[i]) \in Market
    BY <1>3, <1>4, <1>5, StemsAlike
  <2>3. Pool(q) \in Seq(Market)
    BY <1>5, <2>1, <2>2
  <2>4. \A o \in ToSet(Pool(q)) : \E i \in 1..Len(markets) : o = PolyOutcome(markets[i])
    BY <2>1 DEF ToSet
  <2>5. \A o \in ToSet(Pool(q)) : \E m \in ToSet(markets) : Stems(o, m)
    BY <1>3, <1>4, <1>5, <2>4
  <2>6. QED
    BY <1>1, <1>2, <2>3, <2>5, StemsAlike
<1>7. CASE q = "lim"
  <2>1. Pool(q) = [i \in 1..Len(markets) |-> markets[i]]
    BY <1>5, <1>7 DEF Pool, LimOutcome, markets
  <2>2. Pool(q) = markets
    BY <1>1, <2>1
  <2>3. QED
    BY <1>1, <1>2, <1>3, <2>2
<1>8. CASE q = "sx"
  <2>1. Pool(q) = Listed(markets)
    BY <1>8 DEF Pool, markets
  <2>2. Pool(q) \in Seq(ToSet(markets))
    BY <1>1, <2>1, ListedMarkets
  <2>3. \A o \in ToSet(Pool(q)) : o \in ToSet(markets)
    BY <2>2 DEF ToSet
  <2>4. Pool(q) \in Seq(Market)
    BY <1>2, <2>2
  <2>5. QED
    BY <1>1, <1>2, <1>3, <2>3, <2>4
<1>9. QED
  BY <1>6, <1>7, <1>8 DEF Exchanges

\* Names that are compatible name one side.
LEMMA SidesAgree ==
  ASSUME NEW o, NEW p, NamesTell(o, p), OutcomesCompatible(o, p)
  PROVE  o.side = p.side
<1> DEFINE m == Name(o)
           n == Name(p)
<1>1. HasDraw(m) <=> o.side = "draw"
  BY DEF NamesTell
<1>2. HasDraw(n) <=> p.side = "draw"
  BY DEF NamesTell
<1>3. m = n \/ (HasDraw(m) = HasDraw(n) /\ NamesAgree(Normal(m), Normal(n)))
  BY DEF OutcomesCompatible
<1>4. HasDraw(m) <=> HasDraw(n)
  BY <1>3
<1>5. CASE HasDraw(m)
  BY <1>1, <1>2, <1>4, <1>5
<1>6. CASE ~HasDraw(m)
  <2>1. Normal(m) = m /\ Normal(n) = n
    BY <1>4, <1>6 DEF Normal
  <2>2. NamesAgree(m, n)
    BY <1>3, <2>1 DEF NamesAgree
  <2>3. "draw" \notin {o.side, p.side}
    BY <1>1, <1>2, <1>4, <1>6
  <2>4. QED
    BY <2>2, <2>3 DEF NamesTell
<1>7. QED
  BY <1>5, <1>6

-----------------------------------------------------------------------------
\* The pairs find_pairs matches

\* A confidence is a number.
LEMMA ConfidenceType ==
  ASSUME NEW a \in Market, NEW b \in Market
  PROVE  Confidence(a, b) \in Int
<1> DEFINE canonical == {Canon[t] : t \in DOMAIN Canon}
           like == Likeness[<<Canon[a.title], Canon[b.title]>>]
<1>1. a.title \in DOMAIN Canon /\ b.title \in DOMAIN Canon
  BY DEF Market
<1>2. <<Canon[a.title], Canon[b.title]>> \in canonical \X canonical
  BY <1>1
<1>3. Likeness \in [canonical \X canonical -> Nat]
  BY NumbersAssumption
<1>4. like \in Nat
  <2> HIDE DEF canonical
  <2>1. QED
    BY <1>2, <1>3
<1>5. (6 * like) \div 10 \in Int
  <2> HIDE DEF like
  <2>1. QED
    BY <1>4
<1>6. DateScore(a, b) \in Int /\ SportScore(a, b) \in Int
  BY DEF DateScore, SportScore
<1> HIDE DEF like
<1>7. (6 * like) \div 10 + DateScore(a, b) + SportScore(a, b) \in Int
  BY <1>5, <1>6
<1>8. QED
  BY <1>7 DEF Confidence, like

\* The match find_pairs takes is one of those left, and no other of them is more
\* confident.
LEMMA BestIsFree ==
  ASSUME NEW a \in Market, NEW poolB \in Seq(Market),
         NEW free \in SUBSET Candidates(a, poolB), free # {}
  PROVE  /\ Best(a, poolB, free) \in free
         /\ \A k \in free : Confidence(a, poolB[k])
                           <= Confidence(a, poolB[Best(a, poolB, free)])
<1> DEFINE Sure(j) == Confidence(a, poolB[j])
           top == {j \in free : \A k \in free : Sure(k) <= Sure(j)}
           Rank(j) == Min(Place(a, poolB[j])) * (Len(poolB) + 1) + j
           sure == {Sure(j) : j \in free}
           ranks == {Rank(j) : j \in top}
<1>1. free \subseteq 1..Len(poolB) /\ Len(poolB) \in Nat
  BY DEF Candidates
<1>2. \A j \in free : poolB[j] \in Market
  BY <1>1
<1>3. \A j \in free : Sure(j) \in Int
  BY <1>2, ConfidenceType
<1>4. IsFiniteSet(free) /\ IsFiniteSet(top)
  <2>1. IsFiniteSet(1..Len(poolB))
    BY <1>1, FS_Interval
  <2>2. top \subseteq free
    OBVIOUS
  <2> HIDE DEF top
  <2>3. QED
    BY <1>1, <2>1, <2>2, FS_Subset
<1>5. top # {}
  <2> HIDE DEF Sure
  <2> DEFINE f == [j \in free |-> Sure(j)]
  <2>1. f \in Surjection(free, sure)
    BY DEF Surjection
  <2>2. IsFiniteSet(sure)
    <3> HIDE DEF f, sure
    <3>1. QED
      BY <1>4, <2>1, FS_Surjection
  <2>3. sure \in SUBSET Int /\ sure # {}
    BY <1>3
  <2>4. Max(sure) \in sure /\ \A x \in sure : x <= Max(sure)
    BY <2>2, <2>3, Extremes
  <2>5. PICK j \in free : Sure(j) = Max(sure)
    BY <2>4
  <2>6. \A k \in free : Sure(k) <= Sure(j)
    BY <2>4, <2>5
  <2>7. QED
    BY <2>6
<1>6. \A j \in top : Rank(j) \in Int
  <2> SUFFICES ASSUME NEW j \in top PROVE Rank(j) \in Int
    OBVIOUS
  <2>1. j \in free /\ j \in Nat
    BY <1>1
  <2>2. Place(a, poolB[j]) # {} /\ Place(a, poolB[j]) \subseteq 1..4
    BY <2>1 DEF Candidates, Place
  <2>3. IsFiniteSet(Place(a, poolB[j])) /\ Place(a, poolB[j]) \in SUBSET Int
    <3> DEFINE last == 4
    <3>1. last \in Nat /\ Place(a, poolB[j]) \subseteq 1..last
      BY <2>2
    <3>2. IsFiniteSet(Place(a, poolB[j]))
      <4> HIDE DEF last
      <4>1. IsFiniteSet(1..last)
        BY <3>1, FS_Interval
      <4>2. QED
        BY <3>1, <4>1, FS_Subset
    <3>3. QED
      BY <2>2, <3>2
  <2>4. Min(Place(a, poolB[j])) \in Int
    BY <2>2, <2>3, Extremes
  <2>5. QED
    BY <1>1, <2>1, <2>4
<1>7. \E j \in top : \A k \in top : Rank(j) <= Rank(k)
  <2> HIDE DEF top, Rank
  <2> DEFINE f == [j \in top |-> Rank(j)]
  <2>1. f \in Surjection(top, ranks)
    BY DEF Surjection
  <2>2. IsFiniteSet(ranks)
    <3> HIDE DEF f, ranks
    <3>1. QED
      BY <1>4, <2>1, FS_Surjection
  <2>3. ranks \in SUBSET Int /\ ranks # {}
    BY <1>5, <1>6
  <2>4. Min(ranks) \in ranks /\ \A x \in ranks : Min(ranks) <= x
    BY <2>2, <2>3, Extremes
  <2>5. PICK j \in top : Rank(j) = Min(ranks)
    BY <2>4
  <2>6. \A k \in top : Rank(j) <= Rank(k)
    BY <2>4, <2>5
  <2>7. QED
    BY <2>6
<1>8. Best(a, poolB, free) = CHOOSE j \in top : \A k \in top : Rank(j) <= Rank(k)
  BY DEF Best
<1>9. Best(a, poolB, free) \in top
  <2> HIDE DEF top, Rank
  <2>1. QED
    BY <1>7, <1>8
<1>10. QED
  BY <1>9

\* Every pair find_pairs returns is an outcome and a candidate for it.
Matches(poolA, poolB) ==
  {x \in (DOMAIN poolA) \X (DOMAIN poolB) : x[2] \in Candidates(poolA[x[1]], poolB)}

\* What is left of an outcome's candidates, and the pairs after its turn.
Left(poolA, poolB, found, i) == Candidates(poolA[i], poolB) \ {p[2] : p \in found}
Turn(poolA, poolB, found, i) ==
  IF Left(poolA, poolB, found, i) = {} THEN found
  ELSE found \cup {<<i, Best(poolA[i], poolB, Left(poolA, poolB, found, i))>>}

\* The pairs after each turn.
Turns(u, poolA, poolB) ==
  /\ u[0] = {}
  /\ \A n \in 1..Len(poolA) : u[n] = Turn(poolA, poolB, u[n - 1], n)
  /\ \A n \in 0..Len(poolA) : u[n] \in SUBSET Matches(poolA, poolB)

\* A turn adds nothing, or an outcome with the best of what is left for it.
LEMMA TurnTakesBest ==
  ASSUME NEW poolA \in Seq(Market), NEW poolB \in Seq(Market),
         NEW i \in 1..Len(poolA), NEW found,
         Left(poolA, poolB, found, i) # {}
  PROVE  \E b \in Left(poolA, poolB, found, i) :
           /\ Turn(poolA, poolB, found, i) = found \cup {<<i, b>>}
           /\ <<i, b>> \in Matches(poolA, poolB)
           /\ \A k \in Left(poolA, poolB, found, i) :
                Confidence(poolA[i], poolB[k]) <= Confidence(poolA[i], poolB[b])
<1> DEFINE left == Left(poolA, poolB, found, i)
           b == Best(poolA[i], poolB, left)
<1>1. poolA[i] \in Market /\ i \in DOMAIN poolA
  OBVIOUS
<1>2. left \in SUBSET Candidates(poolA[i], poolB)
  BY DEF Left
<1>3. /\ b \in left
      /\ \A k \in left : Confidence(poolA[i], poolB[k]) <= Confidence(poolA[i], poolB[b])
  <2> HIDE DEF left
  <2>1. left # {}
    BY DEF left
  <2>2. QED
    BY <1>1, <1>2, <2>1, BestIsFree
<1>4. Turn(poolA, poolB, found, i) = found \cup {<<i, b>>}
  BY DEF Turn
<1> HIDE DEF b, left
<1>5. <<i, b>> \in Matches(poolA, poolB)
  <2>1. b \in Candidates(poolA[i], poolB) /\ b \in DOMAIN poolB
    BY <1>2, <1>3 DEF Candidates
  <2>2. <<i, b>> \in (DOMAIN poolA) \X (DOMAIN poolB) /\ <<i, b>>[1] = i /\ <<i, b>>[2] = b
    BY <1>1, <2>1
  <2>3. QED
    BY <2>1, <2>2 DEF Matches
<1>6. QED
  BY <1>3, <1>4, <1>5 DEF left

\* find_pairs takes one turn for each of A.
LEMMA PairsByTurns ==
  ASSUME NEW poolA \in Seq(Market), NEW poolB \in Seq(Market)
  PROVE  \E u : Turns(u, poolA, poolB) /\ FindPairs(poolA, poolB) = u[Len(poolA)]
<1> DEFINE N == Len(poolA)
           V == SUBSET Matches(poolA, poolB)
           Match(found, i) == Turn(poolA, poolB, found, i)
           step == [x \in (1..N) \X V |-> Match(x[2], x[1])]
           Obeys(u) == u = [n \in 0..N |-> IF n = 0 THEN {} ELSE Match(u[n - 1], n)]
           upto == CHOOSE u : Obeys(u)
<1>1. N \in Nat /\ {} \in V
  OBVIOUS
<1>2. ASSUME NEW found \in V, NEW i \in 1..N PROVE Match(found, i) \in V
  <2>1. CASE Left(poolA, poolB, found, i) = {}
    BY <2>1 DEF Turn
  <2>2. CASE Left(poolA, poolB, found, i) # {}
    <3>1. PICK b : /\ Match(found, i) = found \cup {<<i, b>>}
                   /\ <<i, b>> \in Matches(poolA, poolB)
      BY <2>2, TurnTakesBest
    <3> HIDE DEF Match
    <3>2. QED
      BY <3>1
  <2>3. QED
    BY <2>1, <2>2
<1> HIDE DEF Match, V, N
<1>3. step \in [(1..N) \X V -> V]
  BY <1>2
<1>4. \E u : Obeys(u)
  <2> DEFINE base == {}
  <2>1. base \in V
    BY <1>1
  <2> HIDE DEF base, step
  <2>2. PICK g : Follows(g, N, V, base, step)
    BY <1>1, <1>3, <2>1, RecursiveFunction
  <2>3. g = [n \in 0..N |-> g[n]] /\ g[0] = base /\ \A n \in 0..N : g[n] \in V
    BY <2>2 DEF Follows
  <2>4. \A n \in 1..N : g[n] = step[<<n, g[n - 1]>>]
    BY <2>2 DEF Follows
  <2>5. \A n \in 1..N : g[n - 1] \in V => g[n] = Match(g[n - 1], n)
    BY <2>4 DEF step
  <2>6. \A n \in 0..N : g[n] = IF n = 0 THEN {} ELSE Match(g[n - 1], n)
    <3>1. \A n \in 0..N : n # 0 => n \in 1..N /\ n - 1 \in 0..N
      BY <1>1
    <3>2. g[0] = {}
      BY <2>3 DEF base
    <3> SUFFICES ASSUME NEW n \in 0..N, n # 0 PROVE g[n] = Match(g[n - 1], n)
      BY <3>2
    <3>3. QED
      BY <2>3, <2>5, <3>1
  <2>7. Obeys(g)
    BY <2>3, <2>6
  <2>8. QED
    BY <2>7
<1>5. Obeys(upto)
  <2> HIDE DEF Obeys
  <2>1. QED
    BY <1>4
<1>6. upto[0] = {} /\ \A n \in 1..N : upto[n] = Match(upto[n - 1], n)
  <2> HIDE DEF upto
  <2>1. \A n \in 0..N : upto[n] = IF n = 0 THEN {} ELSE Match(upto[n - 1], n)
    BY <1>5
  <2>2. 0 \in 0..N /\ \A n \in 1..N : n \in 0..N /\ n # 0
    BY <1>1
  <2>3. QED
    BY <2>1, <2>2
<1>7. \A n \in 0..N : upto[n] \in V
  <2> HIDE DEF upto
  <2>1. upto[0] \in V
    BY <1>1, <1>6
  <2>2. \A n \in 1..N : upto[n - 1] \in V => upto[n] \in V
    BY <1>2, <1>6
  <2>3. QED
    BY <1>1, <2>1, <2>2, EveryValue
<1>8. FindPairs(poolA, poolB) = upto[N]
  BY DEF FindPairs, Match, Turn, Left, N
<1>9. Turns(upto, poolA, poolB)
  <2> HIDE DEF upto
  <2>1. QED
    BY <1>6, <1>7 DEF Turns, N, V, Match
<1>10. QED
  <2> HIDE DEF upto
  <2>1. QED
    BY <1>8, <1>9 DEF N

\* So find_pairs pairs candidates only.
LEMMA PairsMatch ==
  ASSUME NEW poolA \in Seq(Market), NEW poolB \in Seq(Market)
  PROVE  FindPairs(poolA, poolB) \subseteq Matches(poolA, poolB)
<1>1. PICK u : Turns(u, poolA, poolB) /\ FindPairs(poolA, poolB) = u[Len(poolA)]
  BY PairsByTurns
<1>2. Len(poolA) \in 0..Len(poolA)
  OBVIOUS
<1>3. QED
  BY <1>1, <1>2 DEF Turns

-----------------------------------------------------------------------------
\* What the greedy matching promises

\* No outcome of either pool is in two pairs.
PairedOnce(pairs) ==
  \A p, q \in pairs : p[1] = q[1] \/ p[2] = q[2] => p = q

\* A candidate an outcome did not get went to one before it, or was not more
\* confident than what the outcome got.
ServedInTurn(pairs, poolA, poolB, n) ==
  \A i \in 1..n : \A k \in Candidates(poolA[i], poolB) :
    \/ \E q \in pairs : q[1] < i /\ q[2] = k
    \/ \E q \in pairs : /\ q[1] = i
                       /\ Confidence(poolA[i], poolB[k]) <= Confidence(poolA[i], poolB[q[2]])

\* The two, after n turns.
Greedy(pairs, poolA, poolB, n) ==
  /\ \A p \in pairs : p = <<p[1], p[2]>> /\ p[1] \in 1..n
  /\ PairedOnce(pairs)
  /\ ServedInTurn(pairs, poolA, poolB, n)

\* A turn keeps them.
LEMMA TurnKeepsGreedy ==
  ASSUME NEW poolA \in Seq(Market), NEW poolB \in Seq(Market),
         NEW n \in Nat, n + 1 <= Len(poolA), NEW found, Greedy(found, poolA, poolB, n)
  PROVE  Greedy(Turn(poolA, poolB, found, n + 1), poolA, poolB, n + 1)
<1> DEFINE m == n + 1
           now == Turn(poolA, poolB, found, m)
           left == Left(poolA, poolB, found, m)
<1>1. m \in 1..Len(poolA) /\ \A i \in 1..m : i \in 1..n \/ i = m
  OBVIOUS
<1>2. \A p \in found : p = <<p[1], p[2]>> /\ p[1] \in 1..n /\ p[1] \in 1..m /\ p[1] < m
  BY DEF Greedy
<1>3. \A k \in Candidates(poolA[m], poolB) : k \in left \/ \E q \in found : q[1] < m /\ q[2] = k
  BY <1>2 DEF Left
<1> HIDE DEF m
<1>4. CASE left = {}
  <2>1. now = found
    BY <1>4 DEF Turn
  <2>2. ServedInTurn(found, poolA, poolB, m)
    BY <1>1, <1>3, <1>4 DEF Greedy, ServedInTurn
  <2>3. QED
    BY <1>2, <2>1, <2>2 DEF Greedy, m
<1>5. CASE left # {}
  <2>1. PICK b \in left : /\ now = found \cup {<<m, b>>}
                         /\ \A k \in left : Confidence(poolA[m], poolB[k])
                                            <= Confidence(poolA[m], poolB[b])
    BY <1>1, <1>5, TurnTakesBest
  <2>2. \A p \in found : p[2] # b
    BY <2>1 DEF Left
  <2> DEFINE new == <<m, b>>
  <2>3. new[1] = m /\ new[2] = b /\ m \in 1..m /\ now = found \cup {new}
    BY <1>1, <2>1
  <2> HIDE DEF now, left
  <2>4. \A p \in now : p = <<p[1], p[2]>> /\ p[1] \in 1..m
    BY <1>2, <2>3
  <2>5. PairedOnce(now)
    <3> SUFFICES ASSUME NEW p \in now, NEW q \in now, p[1] = q[1] \/ p[2] = q[2]
                 PROVE  p = q
      BY DEF PairedOnce
    <3>1. CASE p \in found /\ q \in found
      BY <3>1 DEF Greedy, PairedOnce
    <3>2. \A x \in found : x[1] # m /\ x[2] # b
      BY <1>2, <2>2
    <3> HIDE DEF new
    <3>3. QED
      BY <2>3, <3>1, <3>2
  <2>6. ServedInTurn(now, poolA, poolB, m)
    <3>1. ASSUME NEW i \in 1..m, NEW k \in Candidates(poolA[i], poolB)
          PROVE  \/ \E q \in now : q[1] < i /\ q[2] = k
                 \/ \E q \in now : /\ q[1] = i
                                  /\ Confidence(poolA[i], poolB[k])
                                       <= Confidence(poolA[i], poolB[q[2]])
      <4>1. CASE i \in 1..n
        <5>1. \/ \E q \in found : q[1] < i /\ q[2] = k
              \/ \E q \in found : /\ q[1] = i
                                 /\ Confidence(poolA[i], poolB[k])
                                      <= Confidence(poolA[i], poolB[q[2]])
          BY <4>1 DEF Greedy, ServedInTurn
        <5>2. QED
          BY <2>3, <5>1
      <4>2. CASE i = m
        <5>1. CASE k \in left
          <6>1. Confidence(poolA[m], poolB[k]) <= Confidence(poolA[m], poolB[b])
            BY <2>1, <5>1
          <6>2. new \in now
            BY <2>3
          <6>3. QED
            BY <2>3, <4>2, <6>1, <6>2
        <5>2. CASE \E q \in found : q[1] < m /\ q[2] = k
          BY <2>3, <4>2, <5>2
        <5>3. QED
          BY <1>3, <4>2, <5>1, <5>2
      <4>3. QED
        BY <1>1, <4>1, <4>2
    <3>2. QED
      BY <3>1 DEF ServedInTurn
  <2>7. QED
    BY <2>4, <2>5, <2>6 DEF Greedy, now, m
<1>6. QED
  BY <1>4, <1>5

\* find_pairs matches no outcome twice, and whoever misses a candidate lost it
\* to one before it or has a match no less confident: for any two listings,
\* likenesses and thresholds of confidence.
THEOREM PairsAreGreedy ==
  ASSUME NEW poolA \in Seq(Market), NEW poolB \in Seq(Market)
  PROVE  /\ PairedOnce(FindPairs(poolA, poolB))
         /\ ServedInTurn(FindPairs(poolA, poolB), poolA, poolB, Len(poolA))
<1>1. PICK u : Turns(u, poolA, poolB) /\ FindPairs(poolA, poolB) = u[Len(poolA)]
  BY PairsByTurns
<1> DEFINE N == Len(poolA)
           A == {n \in Nat : n <= N => Greedy(u[n], poolA, poolB, n)}
<1>2. N \in Nat
  OBVIOUS
<1>3. 0 \in A
  <2>1. u[0] = {} /\ 1..0 = {}
    BY <1>1 DEF Turns
  <2>2. QED
    BY <2>1 DEF Greedy, PairedOnce, ServedInTurn
<1>4. ASSUME NEW n \in A PROVE n + 1 \in A
  <2>1. CASE n + 1 <= N
    <3>1. n \in Nat /\ n <= N /\ n + 1 \in 1..N /\ (n + 1) - 1 = n
      BY <1>2, <2>1
    <3>2. u[n + 1] = Turn(poolA, poolB, u[n], n + 1)
      BY <1>1, <3>1 DEF Turns
    <3>3. Greedy(u[n], poolA, poolB, n)
      BY <3>1
    <3>4. QED
      BY <2>1, <3>1, <3>2, <3>3, TurnKeepsGreedy
  <2>2. QED
    BY <2>1
<1> HIDE DEF A
<1>5. A = Nat
  <2>1. A \in SUBSET Nat
    BY DEF A
  <2>2. QED
    BY <1>3, <1>4, <2>1, SetOfNaturals
<1>6. Greedy(u[N], poolA, poolB, N)
  BY <1>2, <1>5 DEF A
<1>7. QED
  BY <1>1, <1>6 DEF Greedy

-----------------------------------------------------------------------------
\* What a row with a leg that wins earns

Priced(legs) ==
  /\ IsFiniteSet(legs) /\ legs # {}
  /\ \A l \in legs : l.price \in Nat \ {0} /\ l.depth \in Nat /\ l.of.exchange \in Exchanges

\* A leg bought where the side is real is priced.
LEMMA RealLeg ==
  ASSUME NEW pool, NEW i, pool[i] \in Market, NEW side \in {"yes", "no"},
         Real(pool[i], side)
  PROVE  /\ Leg(pool, i, side).price \in Nat \ {0} /\ Leg(pool, i, side).depth \in Nat
         /\ Leg(pool, i, side).of = pool[i] /\ Leg(pool, i, side).buys = side
         /\ Leg(pool, i, side).of.exchange \in Exchanges
<1> DEFINE o == pool[i]
<1>1. o.yes \in Book /\ o.no \in Book /\ o.exchange \in Exchanges
  BY DEF Market
<1>2. o[side] \in Book
  BY <1>1
<1>3. o[side].price \in 0..(One - 1) /\ o[side].depth \in Nat
  BY <1>2 DEF Book
<1>4. o[side].price > 0
  BY DEF Real, Quoted
<1>5. o[side].price \in Nat \ {0}
  BY <1>3, <1>4, Numbers
<1>6. QED
  BY <1>1, <1>3, <1>5 DEF Leg

\* The legs cost something, and their fees no less than nothing.
LEMMA TotalAndFee ==
  ASSUME NEW legs, Priced(legs)
  PROVE  Total(legs) \in Nat \ {0} /\ Fee(legs) \in Nat
<1> DEFINE f == [l \in legs |-> l.price]
           g == [l \in legs |-> l.price * Theta[l.of.exchange]]
<1>1. /\ IsFiniteSet(legs) /\ legs # {}
      /\ \A l \in legs : l.price \in Nat \ {0} /\ l.of.exchange \in Exchanges
  BY DEF Priced
<1>2. \A l \in legs : f[l] \in Nat /\ f[l] > 0
  BY <1>1
<1>3. \A l \in legs : g[l] \in Nat
  <2>1. \A l \in legs : l.price \in Nat /\ Theta[l.of.exchange] \in Nat
    BY <1>1, NumbersAssumption
  <2>2. \A l \in legs : l.price * Theta[l.of.exchange] \in Nat
    BY <2>1, Products
  <2>3. QED
    BY <2>2
<1>4. Total(legs) = SumFunctionOnSet(f, legs) /\ Fee(legs) = SumFunctionOnSet(g, legs)
  BY DEF Total, Fee, SumFunction
<1> HIDE DEF f, g
<1>5. SumFunctionOnSet(f, legs) \in Nat /\ \A l \in legs : f[l] <= SumFunctionOnSet(f, legs)
  BY <1>1, <1>2, SumOfNaturals
<1>6. SumFunctionOnSet(g, legs) \in Nat
  BY <1>1, <1>3, SumOfNaturals
<1>7. SumFunctionOnSet(f, legs) > 0
  BY <1>1, <1>2, <1>5
<1>8. QED
  BY <1>4, <1>5, <1>6, <1>7

\* The size of a row is a number of contracts.
LEMMA FaceType ==
  ASSUME NEW legs, Priced(legs)
  PROVE  Face(legs) \in Nat
<1> DEFINE depths == {l.depth : l \in legs}
           thin == 8 * Min(depths)
           budget == 10 * LegCap * Cardinality(legs) * One
           cap == budget \div Total(legs)
<1>1. IsFiniteSet(legs) /\ legs # {} /\ \A l \in legs : l.depth \in Nat
  BY DEF Priced
<1>2. IsFiniteSet(depths)
  <2> DEFINE f == [l \in legs |-> l.depth]
  <2>1. f \in Surjection(legs, depths)
    BY DEF Surjection
  <2> HIDE DEF f, depths
  <2>2. QED
    BY <1>1, <2>1, FS_Surjection
<1>3. depths \in SUBSET Int /\ depths # {} /\ depths \subseteq Nat
  BY <1>1
<1>4. Min(depths) \in Nat
  <2> HIDE DEF depths
  <2>1. QED
    BY <1>2, <1>3, Extremes
<1>5. thin \in Nat
  <2> HIDE DEF depths
  <2>1. QED
    BY <1>4
<1>6. budget \in Nat
  <2>1. Cardinality(legs) \in Nat
    BY <1>1, FS_CardinalityType
  <2>2. 10 * LegCap \in Nat
    BY Numbers
  <2>3. 10 * LegCap * Cardinality(legs) \in Nat
    BY <2>1, <2>2, Products
  <2>4. QED
    BY <2>3, Numbers, Products
<1>7. cap \in Nat
  <2> HIDE DEF budget
  <2>1. Total(legs) \in Nat \ {0}
    BY TotalAndFee
  <2>2. \A b \in Nat, t \in Nat \ {0} : b \div t \in Nat
    OBVIOUS
  <2>3. QED
    BY <1>6, <2>1, <2>2
<1>8. Min({thin, cap}) \in {thin, cap}
  <2> HIDE DEF thin, cap
  <2>1. IsFiniteSet({thin, cap})
    BY FewElements
  <2>2. {thin, cap} \in SUBSET Int /\ {thin, cap} # {}
    BY <1>5, <1>7
  <2>3. QED
    BY <2>1, <2>2, Extremes
<1>9. Face(legs) = Min({thin, cap})
  BY DEF Face
<1> HIDE DEF thin, cap
<1>10. QED
  BY <1>5, <1>7, <1>8, <1>9

\* A row with a leg that wins earns at least the net it shows.
LEMMA WinnerEarns ==
  ASSUME NEW x, Priced(x.legs), NEW world, \E l \in x.legs : Wins(l, world)
  PROVE  Earned(Radar(x), world) >= Radar(x).net
<1> DEFINE legs == x.legs
           won == {l \in legs : Wins(l, world)}
           n == Cardinality(won)
           face == Face(legs)
           total == Total(legs)
           fee == Fee(legs)
<1>1. n \in Nat /\ n >= 1
  <2>1. won \subseteq legs /\ won # {}
    OBVIOUS
  <2>2. IsFiniteSet(won)
    <3> HIDE DEF won
    <3>1. QED
      BY <2>1, FS_Subset DEF Priced
  <2> HIDE DEF won
  <2>3. n \in Nat /\ n # 0
    BY <2>1, <2>2, FS_CardinalityType, FS_EmptySet
  <2> HIDE DEF n
  <2>4. QED
    BY <2>3
<1>2. face \in Nat /\ total \in Nat /\ fee \in Nat
  BY FaceType, TotalAndFee
<1>3. Radar(x).net = face * ((One - total) * 1000 - fee)
  BY DEF Radar
<1>4. Earned(Radar(x), world) = face * ((One * n - total) * 1000 - fee)
  BY DEF Earned, Radar
<1> HIDE DEF n, face, total, fee
<1> DEFINE low == (One - total) * 1000 - fee
           high == (One * n - total) * 1000 - fee
<1>5. One * n \in Int /\ One <= One * n
  <2>1. 1 * One <= n * One
    BY <1>1, Numbers, ProductsCompare
  <2>2. n * One = One * n /\ One * n \in Int
    BY <1>1, Numbers
  <2>3. QED
    BY <2>1, <2>2, Numbers
<1>6. low \in Int /\ high \in Int /\ low <= high
  <2> DEFINE pay == One * n
  <2>1. pay \in Int /\ One <= pay
    BY <1>5
  <2> HIDE DEF pay
  <2>2. (One - total) * 1000 - fee <= (pay - total) * 1000 - fee
    BY <1>2, <2>1, Numbers
  <2>3. (One - total) * 1000 - fee \in Int /\ (pay - total) * 1000 - fee \in Int
    BY <1>2, <2>1, Numbers
  <2>4. QED
    BY <2>2, <2>3 DEF pay
<1>7. Radar(x).net = face * low /\ Earned(Radar(x), world) = face * high
  BY <1>3, <1>4
<1> HIDE DEF low, high
<1>8. low * face <= high * face
  BY <1>2, <1>6, ProductsCompare
<1>9. face * low = low * face /\ face * high = high * face
  BY <1>2, <1>6
<1>10. face * low \in Int /\ face * high \in Int
  BY <1>2, <1>6
<1>11. QED
  BY <1>7, <1>8, <1>9, <1>10

-----------------------------------------------------------------------------
\* One leg of a matched pair wins, and some leg of a cover of every end

\* What find_pairs matches and the guards pass is one side of one question,
\* unless the two mislead.
LEMMA MatchedPair ==
  ASSUME NEW a, NEW b, TitlesTell(a, b), ScopesTell(a, b), NamesTell(a, b),
         Confidence(a, b) >= MinConfidence, Timely(a, b), Guarded(a, b)
  PROVE  a.about = b.about /\ a.side = b.side
<1>1. Scope(a) = Scope(b) /\ LeaguesCompatible(a, b) /\ OutcomesCompatible(a, b)
  BY DEF Guarded, ScopesCompatible
<1>2. a.about[1] = b.about[1]
  BY <1>1 DEF TitlesTell
<1>3. a.about = b.about
  BY <1>1, <1>2 DEF ScopesTell
<1>4. a.side = b.side
  BY <1>1, SidesAgree
<1>5. QED
  BY <1>3, <1>4

\* What X1 and X2 are: YES of one and NO of the other of a pair that find_pairs
\* matched and the guards passed.
Paired(x, p, q) ==
  \E i \in DOMAIN Pool(p), j \in DOMAIN Pool(q) :
    /\ Confidence(Pool(p)[i], Pool(q)[j]) >= MinConfidence
    /\ Timely(Pool(p)[i], Pool(q)[j]) /\ Guarded(Pool(p)[i], Pool(q)[j])
    /\ x.kind # "cover"
    /\ \E s, t \in {"yes", "no"} :
         /\ s # t
         /\ Real(Pool(p)[i], s) /\ Real(Pool(q)[j], t)
         /\ x.legs = {Leg(Pool(p), i, s), Leg(Pool(q), j, t)}

\* They are such a pair.
LEMMA PairShape ==
  ASSUME pools \in RawPools, NEW p \in Exchanges, NEW q \in Exchanges,
         NEW x \in PairDeals(Pool(p), Pool(q))
  PROVE  Paired(x, p, q)
<1> DEFINE poolA == Pool(p)
           poolB == Pool(q)
<1>1. poolA \in Seq(Market) /\ poolB \in Seq(Market)
  BY PoolStems
<1>2. PICK pair \in FindPairs(poolA, poolB) :
        Timely(poolA[pair[1]], poolB[pair[2]]) /\ x \in TwoLegs(poolA, poolB, pair)
  BY DEF PairDeals
<1> DEFINE i == pair[1]
           j == pair[2]
           a == poolA[i]
           b == poolB[j]
<1>3. pair \in Matches(poolA, poolB)
  <2> HIDE DEF poolA, poolB
  <2>1. QED
    BY <1>1, <1>2, PairsMatch
<1>4. i \in DOMAIN poolA /\ j \in Candidates(a, poolB)
  <2> HIDE DEF poolA, poolB
  <2>1. QED
    BY <1>3 DEF Matches
<1>5. j \in DOMAIN poolB /\ Confidence(a, b) >= MinConfidence
  <2> HIDE DEF poolA, poolB
  <2>1. QED
    BY <1>4 DEF Candidates
<1> DEFINE ways == {<<"X1", "yes", "no">>, <<"X2", "no", "yes">>}
           Legs(w) == {Leg(poolA, i, w[2]), Leg(poolB, j, w[3])}
           sound == {w \in ways : /\ Guarded(a, b)
                                  /\ Real(a, w[2]) /\ Real(b, w[3])
                                  /\ Total(Legs(w)) >= RealisticSum
                                  /\ Total(Legs(w)) < Threshold}
<1>6. PICK w \in sound : x = [kind |-> w[1], legs |-> Legs(w)]
  <2>1. TwoLegs(poolA, poolB, pair) = {[kind |-> w[1], legs |-> Legs(w)] : w \in sound}
    BY DEF TwoLegs
  <2> HIDE DEF sound, Legs, poolA, poolB
  <2>2. QED
    BY <1>2, <2>1
<1>7. x.kind = w[1] /\ x.legs = Legs(w)
  BY <1>6
<1>8. w \in ways /\ Guarded(a, b) /\ Real(a, w[2]) /\ Real(b, w[3])
  BY <1>6
<1>9. w[1] # "cover" /\ w[2] \in {"yes", "no"} /\ w[3] \in {"yes", "no"} /\ w[2] # w[3]
  BY <1>8
<1> HIDE DEF sound, ways
<1>10. QED
  BY <1>2, <1>4, <1>5, <1>7, <1>8, <1>9 DEF Paired

\* The legs of a pair are priced, and one of them wins unless something misled
\* the layer about it.
LEMMA PairWins ==
  ASSUME pools \in RawPools, NEW p \in Exchanges, NEW q \in Exchanges, p # q,
         NEW x, Paired(x, p, q), Told(Radar(x)), NEW world \in Worlds(Radar(x))
  PROVE  Priced(x.legs) /\ \E l \in x.legs : Wins(l, world)
<1>1. PICK i \in DOMAIN Pool(p), j \in DOMAIN Pool(q), s \in {"yes", "no"}, t \in {"yes", "no"} :
        /\ Confidence(Pool(p)[i], Pool(q)[j]) >= MinConfidence
        /\ Timely(Pool(p)[i], Pool(q)[j]) /\ Guarded(Pool(p)[i], Pool(q)[j])
        /\ x.kind # "cover"
        /\ s # t
        /\ Real(Pool(p)[i], s) /\ Real(Pool(q)[j], t)
        /\ x.legs = {Leg(Pool(p), i, s), Leg(Pool(q), j, t)}
  BY DEF Paired
<1> DEFINE a == Pool(p)[i]
           b == Pool(q)[j]
           first == Leg(Pool(p), i, s)
           second == Leg(Pool(q), j, t)
<1>2. a \in Market /\ b \in Market /\ a.exchange = p /\ b.exchange = q
  BY PoolStems DEF ToSet
<1>3. /\ first.price \in Nat \ {0} /\ first.depth \in Nat /\ first.of = a /\ first.buys = s
      /\ first.of.exchange \in Exchanges
      /\ second.price \in Nat \ {0} /\ second.depth \in Nat /\ second.of = b /\ second.buys = t
      /\ second.of.exchange \in Exchanges
  BY <1>1, <1>2, RealLeg
<1>4. x.legs = {first, second} /\ Radar(x).legs = x.legs /\ Radar(x).kind # "cover"
  BY <1>1 DEF Radar
<1> HIDE DEF first, second
<1>5. PairTold(Radar(x))
  BY <1>4 DEF Told
<1>6. TitlesTell(a, b) /\ ScopesTell(a, b) /\ NamesTell(a, b)
  BY <1>2, <1>3, <1>4, <1>5 DEF PairTold
<1>7. a.about = b.about /\ a.side = b.side
  BY <1>1, <1>6, MatchedPair
<1>8. \A l \in x.legs : l.buys = "no" => Ends[l.of.about] \ {l.of.side} \subseteq l.of.second
  BY <1>4, <1>5 DEF PairTold, SecondIsNo
<1>9. world[a.about] \in Ends[a.about]
  BY <1>3, <1>4 DEF Worlds
<1>10. Priced(x.legs)
  <2>1. IsFiniteSet(x.legs)
    <3>1. IsFiniteSet({first, second})
      BY FewElements
    <3>2. QED
      BY <1>4, <3>1
  <2>2. x.legs # {}
    BY <1>4
  <2>3. \A l \in x.legs : l.price \in Nat \ {0} /\ l.depth \in Nat /\ l.of.exchange \in Exchanges
    BY <1>3, <1>4
  <2>4. QED
    BY <2>1, <2>2, <2>3 DEF Priced
<1>11. \E l \in x.legs : Wins(l, world)
  <2>1. PICK y \in x.legs, n \in x.legs :
          y.buys = "yes" /\ n.buys = "no" /\ y.of.about = n.of.about
            /\ y.of.side = n.of.side /\ y.of.about = a.about
    <3>1. CASE s = "yes"
      BY <1>1, <1>3, <1>4, <1>7, <3>1
    <3>2. CASE s = "no"
      BY <1>1, <1>3, <1>4, <1>7, <3>2
    <3>3. QED
      BY <3>1, <3>2
  <2>2. CASE world[a.about] = y.of.side
    BY <2>1, <2>2 DEF Wins
  <2>3. CASE world[a.about] # y.of.side
    BY <1>8, <1>9, <2>1, <2>3 DEF Wins
  <2>4. QED
    BY <2>2, <2>3
<1>12. QED
  BY <1>10, <1>11

\* What a cover is: the YES of an anchor and of two entries or more of the other
\* exchange's fixture, those that do not name the anchor's side, of its scope.
Rest(anchor, q) == Complement(anchor, Pool(q))
Covered(x, i, p, q) ==
  /\ x.kind = "cover"
  /\ x.legs = {Leg(Pool(p), i, "yes")}
                \cup {Leg(Pool(q), j, "yes") : j \in Rest(Pool(p)[i], q)}
  /\ Cardinality(Rest(Pool(p)[i], q)) >= 2
  /\ \A j \in Rest(Pool(p)[i], q) : ScopesCompatible(Pool(p)[i], Pool(q)[j])
  /\ Real(Pool(p)[i], "yes") /\ \A j \in Rest(Pool(p)[i], q) : Real(Pool(q)[j], "yes")

\* The rest is a finite set of entries.
LEMMA RestOfPool ==
  ASSUME pools \in RawPools, NEW q \in Exchanges, NEW anchor
  PROVE  Rest(anchor, q) \subseteq DOMAIN Pool(q) /\ IsFiniteSet(Rest(anchor, q))
<1>1. Rest(anchor, q) \subseteq DOMAIN Pool(q)
  BY DEF Rest, Complement, Fixture
<1>2. DOMAIN Pool(q) = 1..Len(Pool(q)) /\ Len(Pool(q)) \in Nat
  BY PoolStems
<1>3. IsFiniteSet(1..Len(Pool(q)))
  BY <1>2, FS_Interval
<1>4. QED
  BY <1>1, <1>2, <1>3, FS_Subset

\* A cover is an anchor and the rest of the other exchange's fixture.
LEMMA CoverShape ==
  ASSUME pools \in RawPools, NEW p \in Exchanges, NEW q \in Exchanges,
         NEW x \in CoverDeals(Pool(p), Pool(q))
  PROVE  \E i \in DOMAIN Pool(p) : Covered(x, i, p, q)
<1> DEFINE poolA == Pool(p)
           poolB == Pool(q)
           Legs(i) == {Leg(poolA, i, "yes")} \cup
                        {Leg(poolB, j, "yes") : j \in Complement(poolA[i], poolB)}
           Covers(i) ==
             LET others == Fixture(poolA[i], poolB)
                 rest == Complement(poolA[i], poolB)
             IN /\ rest # others
                /\ \E j \in others : poolB[j].exchange # poolA[i].exchange
                /\ Cardinality(rest) >= Max({2, CoverLegs - 1})
                /\ \A j \in rest : ScopesCompatible(poolA[i], poolB[j])
                /\ Real(poolA[i], "yes") /\ \A j \in rest : Real(poolB[j], "yes")
                /\ Total(Legs(i)) < CoverThreshold
<1>1. CoverDeals(poolA, poolB) =
        {[kind |-> "cover", legs |-> Legs(i)] : i \in {n \in DOMAIN poolA : Covers(n)}}
  BY DEF CoverDeals
<1>2. PICK i \in DOMAIN poolA : Covers(i) /\ x = [kind |-> "cover", legs |-> Legs(i)]
  <2> HIDE DEF Covers, Legs, poolA, poolB
  <2>1. x \in CoverDeals(poolA, poolB)
    BY DEF poolA, poolB
  <2>2. QED
    BY <1>1, <2>1
<1>3. x.kind = "cover" /\ x.legs = Legs(i)
  BY <1>2
<1> DEFINE rest == Rest(poolA[i], q)
<1>4. /\ Cardinality(rest) >= Max({2, CoverLegs - 1})
      /\ \A j \in rest : ScopesCompatible(poolA[i], poolB[j])
      /\ Real(poolA[i], "yes") /\ \A j \in rest : Real(poolB[j], "yes")
  BY <1>2 DEF Rest
<1>5. Max({2, CoverLegs - 1}) \in Int /\ Max({2, CoverLegs - 1}) >= 2
  <2> DEFINE two == 2
             least == CoverLegs - 1
             both == {two, least}
  <2>1. two \in Int /\ least \in Int
    BY Numbers
  <2> HIDE DEF two, least
  <2>2. IsFiniteSet(both)
    BY FewElements
  <2>3. both \in SUBSET Int /\ both # {} /\ two \in both
    BY <2>1
  <2> HIDE DEF both
  <2>4. Max(both) \in Int /\ two <= Max(both)
    BY <2>2, <2>3, Extremes
  <2>5. QED
    BY <2>4 DEF both, two, least
<1>6. Cardinality(rest) \in Nat
  <2> HIDE DEF rest, poolA
  <2>1. IsFiniteSet(rest)
    BY RestOfPool DEF rest
  <2>2. QED
    BY <2>1, FS_CardinalityType
<1>7. Cardinality(rest) >= 2
  <2> HIDE DEF rest
  <2>1. QED
    BY <1>4, <1>5, <1>6
<1>8. x.legs = {Leg(poolA, i, "yes")} \cup {Leg(poolB, j, "yes") : j \in rest}
  BY <1>3 DEF Rest
<1> HIDE DEF Legs, Covers
<1>9. Covered(x, i, p, q)
  BY <1>3, <1>4, <1>7, <1>8 DEF Covered
<1>10. QED
  BY <1>9

\* The legs of a cover are priced.
LEMMA CoverPriced ==
  ASSUME pools \in RawPools, NEW p \in Exchanges, NEW q \in Exchanges,
         NEW i \in DOMAIN Pool(p), NEW x, Covered(x, i, p, q)
  PROVE  Priced(x.legs)
<1> DEFINE rest == Rest(Pool(p)[i], q)
           First == Leg(Pool(p), i, "yes")
           Yes(j) == Leg(Pool(q), j, "yes")
           others == {Yes(j) : j \in rest}
<1>1. rest \subseteq DOMAIN Pool(q) /\ IsFiniteSet(rest)
  BY RestOfPool
<1>2. Pool(p)[i] \in Market /\ \A j \in rest : Pool(q)[j] \in Market
  BY <1>1, PoolStems DEF ToSet
<1>3. x.legs = {First} \cup others /\ Real(Pool(p)[i], "yes")
      /\ \A j \in rest : Real(Pool(q)[j], "yes")
  BY DEF Covered
<1>4. /\ First.price \in Nat \ {0} /\ First.depth \in Nat /\ First.of.exchange \in Exchanges
      /\ \A j \in rest : /\ Yes(j).price \in Nat \ {0} /\ Yes(j).depth \in Nat
                         /\ Yes(j).of.exchange \in Exchanges
  BY <1>2, <1>3, RealLeg
<1> HIDE DEF rest, First, Yes
<1>5. IsFiniteSet(others)
  <2> DEFINE f == [j \in rest |-> Yes(j)]
  <2>1. f \in Surjection(rest, others)
    BY DEF Surjection
  <2> HIDE DEF f, others
  <2>2. QED
    BY <1>1, <2>1, FS_Surjection
<1>6. \A l \in x.legs : l.price \in Nat \ {0} /\ l.depth \in Nat /\ l.of.exchange \in Exchanges
  BY <1>3, <1>4
<1> HIDE DEF others
<1>7. IsFiniteSet(x.legs) /\ x.legs # {}
  <2>1. IsFiniteSet(others \cup {First})
    BY <1>5, FS_AddElement
  <2>2. others \cup {First} = x.legs
    BY <1>3
  <2>3. QED
    BY <2>1, <2>2
<1>8. QED
  BY <1>6, <1>7 DEF Priced

\* If the other exchange's fixture lists every end of the anchor's question and
\* does not mislead, some leg wins.
LEMMA CoverWins ==
  ASSUME pools \in RawPools, NEW p \in Exchanges, NEW q \in Exchanges, p # q,
         NEW i \in DOMAIN Pool(p), NEW x, Covered(x, i, p, q),
         Told(Radar(x)), NEW world \in Worlds(Radar(x))
  PROVE  \E l \in x.legs : Wins(l, world)
<1> DEFINE anchor == Pool(p)[i]
           rest == Rest(anchor, q)
           first == Leg(Pool(p), i, "yes")
           Yes(j) == Leg(Pool(q), j, "yes")
<1>1. /\ x.kind = "cover" /\ x.legs = {first} \cup {Yes(j) : j \in rest}
      /\ Cardinality(rest) >= 2
      /\ \A j \in rest : ScopesCompatible(anchor, Pool(q)[j])
  BY DEF Covered
<1>2. Radar(x).kind = "cover" /\ Radar(x).legs = x.legs
  BY <1>1 DEF Radar
<1>3. first.of = anchor /\ first.buys = "yes"
  BY DEF Leg
<1>4. \A j : Yes(j).of = Pool(q)[j] /\ Yes(j).buys = "yes" /\ Yes(j).at = j
  BY DEF Leg
<1>5. rest = {j \in Fixture(anchor, Pool(q)) : ~OutcomesCompatible(anchor, Pool(q)[j])}
  BY DEF Rest, Complement
<1>6. anchor.exchange = p /\ \A j \in rest : Pool(q)[j].exchange = q
  <2>1. rest \subseteq DOMAIN Pool(q)
    BY RestOfPool
  <2>2. QED
    BY <2>1, PoolStems DEF ToSet
<1>7. CoverTold(Radar(x))
  BY <1>2 DEF Told
<1> HIDE DEF rest, Yes, first, anchor
<1>8. PICK a \in x.legs, r \in Exchanges :
        /\ \A l \in x.legs \ {a} : l.of.exchange = r
        /\ \A e \in Ends[a.of.about] : \E j \in Fixture(a.of, Pool(r)) :
             /\ Pool(r)[j].side = e /\ Pool(r)[j].about[1] = a.of.about[1]
             /\ ScopesTell(a.of, Pool(r)[j]) /\ NamesTell(a.of, Pool(r)[j])
  BY <1>2, <1>7 DEF CoverTold
<1>9. \A j \in rest : \E k \in rest : k # j
  <2> SUFFICES ASSUME NEW j \in rest, \A k \in rest : k = j PROVE FALSE
    OBVIOUS
  <2>1. rest = {j}
    OBVIOUS
  <2>2. Cardinality(rest) = 1
    BY <2>1, FS_Singleton
  <2>3. QED
    BY <1>1, <2>2
<1>10. a = first
  <2> SUFFICES ASSUME a # first PROVE FALSE
    OBVIOUS
  <2>1. PICK j \in rest : a = Yes(j)
    BY <1>1, <1>8
  <2>2. PICK k \in rest : k # j
    BY <1>9
  <2>3. Yes(k) \in x.legs \ {a} /\ first \in x.legs \ {a}
    BY <1>1, <1>4, <2>1, <2>2
  <2>4. q = r /\ p = r
    BY <1>3, <1>4, <1>6, <1>8, <2>2, <2>3
  <2>5. QED
    BY <2>4
<1>11. r = q
  <2>1. rest # {}
    BY <1>1, FS_EmptySet
  <2>2. PICK j \in rest : TRUE
    BY <2>1
  <2>3. Yes(j).of.exchange = q /\ first.of.exchange = p
    BY <1>3, <1>4, <1>6, <2>2
  <2>4. Yes(j) \in x.legs \ {a}
    BY <1>1, <1>10, <2>2, <2>3
  <2>5. QED
    BY <1>8, <2>3, <2>4
<1> DEFINE end == world[anchor.about]
<1>12. end \in Ends[anchor.about]
  BY <1>2, <1>3, <1>8, <1>10 DEF Worlds
<1>13. CASE end = anchor.side
  <2>1. Wins(first, world)
    BY <1>3, <1>13 DEF Wins
  <2>2. QED
    BY <1>8, <1>10, <2>1
<1>14. CASE end # anchor.side
  <2>1. PICK j \in Fixture(anchor, Pool(q)) :
          /\ Pool(q)[j].side = end /\ Pool(q)[j].about[1] = anchor.about[1]
          /\ ScopesTell(anchor, Pool(q)[j]) /\ NamesTell(anchor, Pool(q)[j])
    BY <1>3, <1>8, <1>10, <1>11, <1>12
  <2>2. ~OutcomesCompatible(anchor, Pool(q)[j])
    BY <1>14, <2>1, SidesAgree
  <2>3. j \in rest
    BY <1>5, <2>1, <2>2
  <2>4. Pool(q)[j].about = anchor.about
    BY <1>1, <2>1, <2>3 DEF ScopesTell, ScopesCompatible
  <2>5. Wins(Yes(j), world)
    BY <1>4, <2>1, <2>4 DEF Wins
  <2>6. QED
    BY <1>1, <2>3, <2>5
<1>15. QED
  BY <1>13, <1>14

-----------------------------------------------------------------------------
\* The invariant: every row is what some pair of exchanges' pools gives.

Couples == {<<"poly", "lim">>, <<"poly", "sx">>, <<"lim", "sx">>}

Found(d) == \E c \in Couples : \E x \in FindArbs(Pool(c[1]), Pool(c[2])) : d = Radar(x)

IInv ==
  /\ pools \in RawPools
  /\ todo \in Seq(Couples)
  /\ \A d \in deals : Found(d)

\* The layer compares different exchanges.
LEMMA LayerCouples == Layer \in Seq(Couples)
BY DEF Layer, Couples

\* At the start nothing is found.
LEMMA InitIInv == Init => IInv
BY LayerCouples DEF Init, IInv

\* A step adds what FindArbs finds between two exchanges, or drops all.
LEMMA NextKeepsIInv == IInv /\ [Next]_vars => IInv'
<1> SUFFICES ASSUME IInv, [Next]_vars PROVE IInv'
  OBVIOUS
<1>1. pools \in RawPools /\ todo \in Seq(Couples) /\ \A d \in deals : Found(d)
  BY DEF IInv
<1>2. pools' = pools
  BY DEF Next, Compare, NextScan, vars
<1>3. \A d : Found(d) => Found(d)'
  BY <1>2 DEF Found, Pool
<1>4. CASE Compare
  <2>1. todo # <<>> /\ todo' = Tail(todo)
    BY <1>4 DEF Compare
  <2>2. todo[1] \in Couples /\ todo' \in Seq(Couples)
    BY <1>1, <2>1
  <2> DEFINE found == FindArbs(Pool(todo[1][1]), Pool(todo[1][2]))
  <2>3. deals' = deals \cup {Radar(x) : x \in found}
    BY <1>4 DEF Compare
  <2>4. \A x \in found : Found(Radar(x))
    BY <2>2 DEF Found
  <2> HIDE DEF found
  <2>5. \A d \in deals' : Found(d)'
    BY <1>1, <1>3, <2>3, <2>4
  <2>6. QED
    BY <1>1, <1>2, <2>2, <2>5 DEF IInv
<1>5. CASE NextScan
  BY <1>1, <1>2, <1>5, LayerCouples DEF NextScan, IInv
<1>6. CASE UNCHANGED vars
  <2>1. todo' = todo /\ deals' = deals
    BY <1>6 DEF vars
  <2>2. QED
    BY <1>1, <1>2, <1>3, <2>1 DEF IInv
<1>7. QED
  BY <1>4, <1>5, <1>6 DEF Next

\* So every row on the board was found in the listings the scan has.
LEMMA Invariance == Spec => []IInv
<1>1. IInv /\ [Next]_vars => IInv'
  BY NextKeepsIInv
<1>2. QED
  BY <1>1, InitIInv, PTL DEF Spec

-----------------------------------------------------------------------------
\* The theorem

\* What the layer finds between two exchanges earns its net, however the games
\* end, unless something misled it about that very row.
LEMMA FoundEarns ==
  ASSUME pools \in RawPools, NEW d, Found(d), Told(d), NEW world \in Worlds(d)
  PROVE  Earned(d, world) >= d.net
<1>1. PICK c \in Couples : \E x \in FindArbs(Pool(c[1]), Pool(c[2])) : d = Radar(x)
  BY DEF Found
<1> DEFINE p == c[1]
           q == c[2]
<1>2. p \in Exchanges /\ q \in Exchanges /\ p # q
  BY DEF Couples, Exchanges
<1> HIDE DEF p, q
<1>3. PICK x \in FindArbs(Pool(p), Pool(q)) : d = Radar(x)
  BY <1>1 DEF p, q
<1>4. CASE x \in PairDeals(Pool(p), Pool(q))
  <2>1. Paired(x, p, q)
    BY <1>2, <1>4, PairShape
  <2>2. Priced(x.legs) /\ \E l \in x.legs : Wins(l, world)
    BY <1>2, <1>3, <2>1, PairWins
  <2>3. QED
    BY <1>3, <2>2, WinnerEarns
<1>5. CASE x \in CoverDeals(Pool(p), Pool(q))
  <2>1. PICK i \in DOMAIN Pool(p) : Covered(x, i, p, q)
    BY <1>2, <1>5, CoverShape
  <2>2. Priced(x.legs)
    BY <1>2, <2>1, CoverPriced
  <2>3. \E l \in x.legs : Wins(l, world)
    BY <1>2, <1>3, <2>1, CoverWins
  <2>4. QED
    BY <1>3, <2>2, <2>3, WinnerEarns
<1>6. CASE x \in CoverDeals(Pool(q), Pool(p))
  <2>1. PICK i \in DOMAIN Pool(q) : Covered(x, i, q, p)
    BY <1>2, <1>6, CoverShape
  <2>2. Priced(x.legs)
    BY <1>2, <2>1, CoverPriced
  <2>3. \E l \in x.legs : Wins(l, world)
    BY <1>2, <1>3, <2>1, CoverWins
  <2>4. QED
    BY <1>3, <2>2, <2>3, WinnerEarns
<1>7. QED
  BY <1>3, <1>4, <1>5, <1>6 DEF FindArbs

\* Whatever the layer puts on the board earns the net it shows, however the
\* games end, unless the texts or the second token of that very row mislead, or
\* its cover lacks an end: NetIsEarned, for all listings, likenesses, thresholds
\* and fees.
THEOREM Earns == Spec => []NetIsEarned
<1>1. ASSUME IInv PROVE NetIsEarned
  BY <1>1, FoundEarns DEF NetIsEarned, IInv
<1>2. QED
  BY <1>1, Invariance, PTL

=============================================================================
