----------------------------- MODULE DataTheorems -----------------------------
(****************************************************************************)
(* Facts about data the other proofs rest on: induction, functions defined  *)
(* by recursion on a number, sums over a finite set, and the greatest and   *)
(* the least of a finite set. An induction is stated of a set - the numbers *)
(* or the subsets a formula holds of - which a proof defines and names.     *)
(****************************************************************************)
EXTENDS FiniteSetsExt, FiniteSetTheorems, WellFoundedInduction, TLAPS

\* Induction: a set of numbers with 0, and n + 1 with each n, has them all.
LEMMA SetOfNaturals ==
  ASSUME NEW A \in SUBSET Nat, 0 \in A, \A n \in A : n + 1 \in A
  PROVE  A = Nat
<1> DEFINE R == {ss \in Nat \X Nat : ss[1] < ss[2]}
<1>1. IsWellFoundedOn(R, Nat)
  BY NatLessThanWellFounded DEF OpToRel
<1>2. SUFFICES ASSUME Nat \ A # {} PROVE FALSE
  OBVIOUS
<1>3. PICK n \in Nat \ A : \A m \in Nat \ A : ~(<<m, n>> \in R)
  <2> HIDE DEF R
  <2>1. QED
    BY <1>1, <1>2, WFMin
<1>4. n # 0 /\ n - 1 \in Nat
  BY <1>3
<1>5. n - 1 \in A
  <2>1. <<n - 1, n>> \in Nat \X Nat /\ <<n - 1, n>>[1] = n - 1 /\ <<n - 1, n>>[2] = n
    BY <1>4
  <2>2. <<n - 1, n>> \in R
    BY <2>1, n - 1 < n
  <2> HIDE DEF R
  <2>3. QED
    BY <1>3, <1>4, <2>2
<1>6. (n - 1) + 1 \in A
  BY <1>5
<1>7. QED
  BY <1>3, <1>4, <1>6

\* Induction: a family of subsets of a finite set with the empty one, and each
\* with one element more, has the whole set.
LEMMA SetOfSubsets ==
  ASSUME NEW S, IsFiniteSet(S), NEW A \in SUBSET SUBSET S, {} \in A,
         \A T \in A, x \in S : T \cup {x} \in A
  PROVE  S \in A
<1> DEFINE B == {n \in Nat : \A T \in SUBSET S : Cardinality(T) = n => T \in A}
<1>1. 0 \in B
  BY FS_EmptySet, FS_Subset
<1>2. ASSUME NEW n \in B PROVE n + 1 \in B
  <2> SUFFICES ASSUME NEW T \in SUBSET S, Cardinality(T) = n + 1
               PROVE  T \in A
    BY <1>2
  <2>1. IsFiniteSet(T) /\ T # {}
    BY <1>2, FS_Subset, FS_EmptySet
  <2>2. PICK x \in T : TRUE
    BY <2>1
  <2>3. Cardinality(T \ {x}) = n
    <3>1. Cardinality(T \ {x}) = Cardinality(T) - 1
      BY <2>1, <2>2, FS_RemoveElement
    <3>2. QED
      BY <1>2, <3>1
  <2>4. T \ {x} \in A
    BY <1>2, <2>3
  <2>5. (T \ {x}) \cup {x} \in A
    BY <2>4
  <2>6. QED
    BY <2>2, <2>5
<1>3. B = Nat
  <2> HIDE DEF B
  <2>1. B \in SUBSET Nat
    BY DEF B
  <2>2. QED
    BY <1>1, <1>2, <2>1, SetOfNaturals
<1>4. Cardinality(S) \in B
  BY <1>3, FS_CardinalityType
<1>5. QED
  BY <1>4
\* A product of two natural numbers is one, and keeps an order.
LEMMA Products ==
  ASSUME NEW a \in Nat, NEW b \in Nat
  PROVE  a * b \in Nat
OBVIOUS

\* Products with a natural number keep the order.
LEMMA ProductsCompare ==
  ASSUME NEW a \in Int, NEW b \in Int, NEW c \in Nat, a <= b
  PROVE  a * c <= b * c /\ a * c \in Int /\ b * c \in Int
<1>1. (b - a) * c \in Nat
  BY Products
<1>2. b * c = a * c + (b - a) * c
  OBVIOUS
<1>3. a * c \in Int /\ b * c \in Int
  OBVIOUS
<1>4. QED
  BY <1>1, <1>2, <1>3

-----------------------------------------------------------------------------
\* A set the first value is in, and with each value the next, has every value.
LEMMA EveryValue ==
  ASSUME NEW N \in Nat, NEW V, NEW g, g[0] \in V,
         \A n \in 1..N : g[n - 1] \in V => g[n] \in V
  PROVE  \A n \in 0..N : g[n] \in V
<1> DEFINE A == {n \in Nat : n <= N => g[n] \in V}
<1>1. 0 \in A
  OBVIOUS
<1>2. ASSUME NEW n \in A PROVE n + 1 \in A
  <2>1. CASE n + 1 <= N
    <3>1. n + 1 \in 1..N /\ (n + 1) - 1 = n /\ n <= N
      BY <2>1
    <3>2. QED
      BY <3>1
  <2>2. QED
    BY <2>1
<1>3. A = Nat
  <2> HIDE DEF A
  <2>1. A \in SUBSET Nat
    BY DEF A
  <2>2. QED
    BY <1>1, <1>2, <2>1, SetOfNaturals
<1>4. QED
  BY <1>3

\* A recursion from a first value by a step that stays in a set has a solution.
Follows(g, N, V, base, step) ==
  /\ g = [n \in 0..N |-> g[n]] /\ g[0] = base
  /\ \A n \in 0..N : g[n] \in V
  /\ \A n \in 1..N : g[n] = step[<<n, g[n - 1]>>]

\* A recursion on a number has a solution.
LEMMA RecursiveFunction ==
  ASSUME NEW N \in Nat, NEW V, NEW base \in V, NEW step \in [(1..N) \X V -> V]
  PROVE  \E g : Follows(g, N, V, base, step)
<1> DEFINE Obeys(g, n) == g[n] = IF n = 0 THEN base ELSE step[<<n, g[n - 1]>>]
           A == {k \in Nat : k <= N => \E g : \A n \in 0..k : Obeys(g, n) /\ g[n] \in V}
<1>1. 0 \in A
  <2> DEFINE g == [n \in 0..0 |-> base]
  <2>1. \A n \in 0..0 : Obeys(g, n) /\ g[n] \in V
    OBVIOUS
  <2>2. QED
    BY <2>1
<1>2. ASSUME NEW k \in A PROVE k + 1 \in A
  <2> SUFFICES ASSUME k + 1 <= N
               PROVE  \E h : \A n \in 0..(k + 1) : Obeys(h, n) /\ h[n] \in V
    OBVIOUS
  <2>1. k \in Nat /\ k <= N /\ k + 1 \in 1..N
    OBVIOUS
  <2>2. PICK g : \A n \in 0..k : Obeys(g, n) /\ g[n] \in V
    BY <2>1
  <2> DEFINE h == [n \in 0..(k + 1) |-> IF n <= k THEN g[n] ELSE step[<<k + 1, g[k]>>]]
  <2>3. \A n \in 0..k : h[n] = g[n]
    BY <2>1
  <2>4. h[k + 1] = step[<<k + 1, g[k]>>]
    BY <2>1
  <2> HIDE DEF h
  <2>5. ASSUME NEW n \in 0..(k + 1) PROVE Obeys(h, n) /\ h[n] \in V
    <3>1. CASE n <= k
      <4>1. n \in 0..k /\ (n # 0 => n - 1 \in 0..k)
        BY <2>1, <3>1
      <4>2. QED
        BY <4>1, <2>2, <2>3
    <3>2. CASE ~(n <= k)
      <4>1. n = k + 1 /\ n # 0 /\ n - 1 = k /\ k \in 0..k
        BY <2>1, <3>2
      <4>2. g[k] \in V /\ h[k] = g[k]
        BY <4>1, <2>2, <2>3
      <4>3. <<k + 1, g[k]>> \in (1..N) \X V
        BY <4>2, <2>1
      <4>4. step[<<k + 1, g[k]>>] \in V
        BY <4>3
      <4>5. QED
        BY <4>1, <4>2, <4>4, <2>4
    <3>3. QED
      BY <3>1, <3>2
  <2>6. QED
    BY <2>5
<1>3. A = Nat
  <2> HIDE DEF A
  <2>1. A \in SUBSET Nat
    BY DEF A
  <2>2. QED
    BY <1>1, <1>2, <2>1, SetOfNaturals
<1>4. N \in A
  BY <1>3
<1>5. PICK g : \A n \in 0..N : Obeys(g, n) /\ g[n] \in V
  BY <1>4
<1> DEFINE h == [n \in 0..N |-> g[n]]
<1>6. \A n \in 0..N : h[n] = g[n]
  OBVIOUS
<1>7. \A n \in 0..N : Obeys(h, n) /\ h[n] \in V
  <2> SUFFICES ASSUME NEW n \in 0..N PROVE Obeys(h, n) /\ h[n] \in V
    OBVIOUS
  <2>1. n # 0 => n - 1 \in 0..N
    OBVIOUS
  <2> HIDE DEF h
  <2>2. QED
    BY <2>1, <1>5, <1>6
<1>8. h = [n \in 0..N |-> h[n]]
  OBVIOUS
<1>9. h[0] = base
  <2> HIDE DEF h
  <2>1. 0 \in 0..N
    OBVIOUS
  <2>2. QED
    BY <1>7, <2>1
<1>10. \A n \in 1..N : h[n] = step[<<n, h[n - 1]>>]
  <2> HIDE DEF h
  <2>1. \A n \in 1..N : n \in 0..N /\ n # 0
    OBVIOUS
  <2>2. QED
    BY <1>7, <2>1
<1>11. QED
  <2> HIDE DEF h
  <2>1. QED
    BY <1>7, <1>8, <1>9, <1>10 DEF Follows

-----------------------------------------------------------------------------
\* Sets given by their elements are finite.
LEMMA FewElements ==
  ASSUME NEW x, NEW y, NEW z
  PROVE  IsFiniteSet({x, y}) /\ IsFiniteSet({x, y, z})
<1>1. IsFiniteSet({x})
  BY FS_Singleton
<1>2. IsFiniteSet({x} \cup {y})
  BY <1>1, FS_AddElement
<1>3. IsFiniteSet(({x} \cup {y}) \cup {z})
  BY <1>2, FS_AddElement
<1>4. {x} \cup {y} = {x, y} /\ ({x} \cup {y}) \cup {z} = {x, y, z}
  OBVIOUS
<1>5. QED
  BY <1>2, <1>3, <1>4

-----------------------------------------------------------------------------
\* SumFunctionOnSet adds a function's values one by one, each time that of the
\* element CHOOSE gives.
Pick(s) == CHOOSE x \in s : TRUE
Body(f, g, s) == IF s = {} THEN 0 ELSE f[Pick(s)] + g[s \ {Pick(s)}]

\* The recursion of the sum has a solution: one number per subset.
LEMMA PartialSums ==
  ASSUME NEW f, NEW S, IsFiniteSet(S)
  PROVE  \E g : g = [s \in SUBSET S |-> Body(f, g, s)]
<1> DEFINE Up(g, n) == \A s \in SUBSET S : Cardinality(s) <= n => g[s] = Body(f, g, s)
           A == {n \in Nat : \E g : Up(g, n)}
<1>0. \A s \in SUBSET S : /\ IsFiniteSet(s) /\ Cardinality(s) \in Nat
                          /\ s # {} => /\ s \ {Pick(s)} \in SUBSET S
                                       /\ Cardinality(s \ {Pick(s)}) = Cardinality(s) - 1
  BY FS_Subset, FS_CardinalityType, FS_RemoveElement DEF Pick
<1>1. 0 \in A
  <2>1. \A s \in SUBSET S : Cardinality(s) <= 0 => s = {}
    <3> SUFFICES ASSUME NEW s \in SUBSET S, Cardinality(s) <= 0 PROVE s = {}
      OBVIOUS
    <3>1. IsFiniteSet(s) /\ Cardinality(s) \in Nat
      BY <1>0
    <3>2. QED
      BY <3>1, FS_EmptySet
  <2> DEFINE g == [s \in SUBSET S |-> 0]
  <2>3. Up(g, 0)
    BY <2>1 DEF Body
  <2>4. QED
    BY <2>3
<1>2. ASSUME NEW n \in A PROVE n + 1 \in A
  <2>1. PICK g : Up(g, n)
    OBVIOUS
  <2> DEFINE h == [s \in SUBSET S |-> IF Cardinality(s) <= n THEN g[s] ELSE Body(f, g, s)]
  <2>2. ASSUME NEW s \in SUBSET S, Cardinality(s) <= n + 1 PROVE h[s] = Body(f, h, s)
    <3>1. CASE s = {}
      BY <3>1, <2>1, FS_EmptySet DEF Body
    <3>2. CASE s # {}
      <4>1. h[s \ {Pick(s)}] = g[s \ {Pick(s)}]
        BY <1>0, <2>2, <3>2
      <4>2. h[s] = Body(f, g, s)
        BY <2>1, <2>2
      <4>3. QED
        BY <3>2, <4>1, <4>2 DEF Body
    <3>3. QED
      BY <3>1, <3>2
  <2> HIDE DEF h
  <2>3. Up(h, n + 1)
    BY <2>2
  <2>4. QED
    BY <2>3
<1>3. A = Nat
  <2> HIDE DEF A
  <2>1. A \in SUBSET Nat
    BY DEF A
  <2>2. QED
    BY <1>1, <1>2, <2>1, SetOfNaturals
<1>4. PICK g : Up(g, Cardinality(S))
  BY <1>3, FS_CardinalityType
<1>5. \A s \in SUBSET S : g[s] = Body(f, g, s)
  BY <1>4, <1>0, FS_Subset
<1> DEFINE h == [s \in SUBSET S |-> g[s]]
<1>6. \A s \in SUBSET S : h[s] = Body(f, h, s)
  BY <1>5, <1>0 DEF Body
<1>7. h = [s \in SUBSET S |-> Body(f, h, s)]
  BY <1>6
<1>8. QED
  BY <1>7

PartialSum(f, S) == CHOOSE g : g = [s \in SUBSET S |-> Body(f, g, s)]

\* What the community modules' sum is.
LEMMA SumIsPartialSum ==
  ASSUME NEW f, NEW S
  PROVE  SumFunctionOnSet(f, S) = PartialSum(f, S)[S]
BY DEF SumFunctionOnSet, FoldFunctionOnSet, MapThenFoldSet, PartialSum, Body, Pick

\* A solution obeys the recursion.
LEMMA PartialSumStep ==
  ASSUME NEW f, NEW S, IsFiniteSet(S), NEW s \in SUBSET S
  PROVE  PartialSum(f, S)[s] = Body(f, PartialSum(f, S), s)
<1>1. PartialSum(f, S) = [t \in SUBSET S |-> Body(f, PartialSum(f, S), t)]
  BY PartialSums DEF PartialSum
<1>2. QED
  BY <1>1

\* The sums of a set's subsets do not depend on the set.
LEMMA PartialSumsAgree ==
  ASSUME NEW f, NEW S, IsFiniteSet(S), NEW T \in SUBSET S, NEW s \in SUBSET T
  PROVE  PartialSum(f, S)[s] = PartialSum(f, T)[s]
<1> DEFINE A == {n \in Nat : \A t \in SUBSET T :
                              Cardinality(t) = n => PartialSum(f, S)[t] = PartialSum(f, T)[t]}
<1>0. IsFiniteSet(T) /\ \A t \in SUBSET T : IsFiniteSet(t) /\ Cardinality(t) \in Nat
  BY FS_Subset, FS_CardinalityType
<1>1. 0 \in A
  <2>1. ASSUME NEW t \in SUBSET T, Cardinality(t) = 0
        PROVE  PartialSum(f, S)[t] = PartialSum(f, T)[t]
    BY <1>0, <2>1, FS_EmptySet, PartialSumStep DEF Body
  <2>2. QED
    BY <2>1
<1>2. ASSUME NEW n \in A PROVE n + 1 \in A
  <2> SUFFICES ASSUME NEW t \in SUBSET T, Cardinality(t) = n + 1
               PROVE  PartialSum(f, S)[t] = PartialSum(f, T)[t]
    BY <1>2
  <2>1. t # {}
    <3>1. n \in Nat
      BY <1>2
    <3>2. QED
      BY <3>1, FS_EmptySet
  <2>2. Pick(t) \in t
    BY <2>1 DEF Pick
  <2>3. Cardinality(t \ {Pick(t)}) = Cardinality(t) - 1
    BY <1>0, <2>2, FS_RemoveElement
  <2>4. PartialSum(f, S)[t \ {Pick(t)}] = PartialSum(f, T)[t \ {Pick(t)}]
    BY <1>2, <2>3
  <2>5. PartialSum(f, S)[t] = Body(f, PartialSum(f, S), t)
    BY PartialSumStep
  <2>6. PartialSum(f, T)[t] = Body(f, PartialSum(f, T), t)
    BY <1>0, PartialSumStep
  <2>7. QED
    BY <2>1, <2>4, <2>5, <2>6 DEF Body
<1>3. A = Nat
  <2> HIDE DEF A
  <2>1. A \in SUBSET Nat
    BY DEF A
  <2>2. QED
    BY <1>1, <1>2, <2>1, SetOfNaturals
<1>4. QED
  BY <1>0, <1>3

\* No addends: nothing.
LEMMA SumEmpty ==
  ASSUME NEW f
  PROVE  SumFunctionOnSet(f, {}) = 0
BY SumIsPartialSum, PartialSumStep, FS_EmptySet DEF Body

\* A sum is the value picked plus the sum of the others.
LEMMA SumPicks ==
  ASSUME NEW f, NEW S, IsFiniteSet(S), S # {}
  PROVE  /\ Pick(S) \in S
         /\ SumFunctionOnSet(f, S) = f[Pick(S)] + SumFunctionOnSet(f, S \ {Pick(S)})
<1>1. Pick(S) \in S
  BY DEF Pick
<1>2. SumFunctionOnSet(f, S) = f[Pick(S)] + PartialSum(f, S)[S \ {Pick(S)}]
  BY SumIsPartialSum, PartialSumStep DEF Body
<1>3. PartialSum(f, S)[S \ {Pick(S)}] = PartialSum(f, S \ {Pick(S)})[S \ {Pick(S)}]
  BY PartialSumsAgree
<1>4. QED
  BY <1>1, <1>2, <1>3, SumIsPartialSum

\* A sum of integers is one, and any element may be taken out first.
LEMMA SumType ==
  ASSUME NEW f, NEW S, IsFiniteSet(S), \A x \in S : f[x] \in Int
  PROVE  /\ SumFunctionOnSet(f, S) \in Int
         /\ \A x \in S : SumFunctionOnSet(f, S) = f[x] + SumFunctionOnSet(f, S \ {x})
<1> DEFINE Sum(T) == SumFunctionOnSet(f, T)
           Good(T) == /\ Sum(T) \in Int
                      /\ \A x \in T : Sum(T) = f[x] + Sum(T \ {x})
           A == {n \in Nat : \A T \in SUBSET S : Cardinality(T) <= n => Good(T)}
<1>0. \A T \in SUBSET S : IsFiniteSet(T) /\ Cardinality(T) \in Nat
  BY FS_Subset, FS_CardinalityType
<1>1. 0 \in A
  <2>1. ASSUME NEW T \in SUBSET S, Cardinality(T) <= 0 PROVE Good(T)
    <3>0. IsFiniteSet(T) /\ Cardinality(T) = 0
      BY <1>0, <2>1
    <3>1. T = {}
      BY <3>0, FS_EmptySet
    <3>2. QED
      BY <3>1, SumEmpty
  <2>2. QED
    BY <2>1
<1>2. ASSUME NEW n \in A PROVE n + 1 \in A
  <2> SUFFICES ASSUME NEW T \in SUBSET S, Cardinality(T) = n + 1
               PROVE  Good(T)
    <3>1. \A T \in SUBSET S : Cardinality(T) <= n + 1 <=> Cardinality(T) <= n \/ Cardinality(T) = n + 1
      BY <1>0, <1>2
    <3>2. QED
      BY <1>2, <3>1
  <2> HIDE DEF Sum
  <2> DEFINE c == Pick(T)
  <2>0. n \in Nat /\ \A U \in SUBSET S : Cardinality(U) <= n => Good(U)
    BY <1>2
  <2>1. T # {}
    BY <2>0, FS_EmptySet
  <2>2. c \in T /\ Sum(T) = f[c] + Sum(T \ {c})
    BY <1>0, <2>1, SumPicks DEF Sum
  <2> HIDE DEF c
  <2>3. \A x \in T : Cardinality(T \ {x}) = n
    <3>1. ASSUME NEW x \in T PROVE Cardinality(T \ {x}) = n
      <4>1. Cardinality(T \ {x}) = Cardinality(T) - 1
        BY <1>0, FS_RemoveElement
      <4>2. QED
        BY <2>0, <4>1
    <3>2. QED
      BY <3>1
  <2>4. \A x \in T : Good(T \ {x})
    BY <2>0, <2>3
  <2>5. Sum(T) \in Int
    BY <2>2, <2>4
  <2>6. ASSUME NEW x \in T PROVE Sum(T) = f[x] + Sum(T \ {x})
    <3>1. CASE x = c
      BY <2>2, <3>1
    <3>2. CASE x # c
      <4>1. Sum(T \ {c}) = f[x] + Sum((T \ {c}) \ {x})
        BY <2>2, <2>4, <3>2
      <4>2. Sum(T \ {x}) = f[c] + Sum((T \ {x}) \ {c})
        BY <2>2, <2>4, <3>2
      <4>3. (T \ {c}) \ {x} = (T \ {x}) \ {c}
        OBVIOUS
      <4> DEFINE U == (T \ {c}) \ {x}
      <4>4. Sum(U) \in Int
        <5>1. Cardinality(U) <= Cardinality(T \ {c})
          BY <1>0, FS_Subset
        <5>2. Cardinality(U) <= n
          BY <1>0, <2>2, <2>3, <5>1
        <5>3. QED
          BY <2>0, <5>2
      <4>5. QED
        BY <2>2, <4>1, <4>2, <4>3, <4>4
    <3>3. QED
      BY <3>1, <3>2
  <2>7. QED
    BY <2>5, <2>6
<1>3. A = Nat
  <2> HIDE DEF A
  <2>1. A \in SUBSET Nat
    BY DEF A
  <2>2. QED
    BY <1>1, <1>2, <2>1, SetOfNaturals
<1>4. Good(S)
  BY <1>0, <1>3
<1>5. QED
  BY <1>4

\* A new element adds its value.
LEMMA SumAdds ==
  ASSUME NEW f, NEW T, IsFiniteSet(T), NEW x, x \notin T,
         \A y \in T \cup {x} : f[y] \in Int
  PROVE  /\ SumFunctionOnSet(f, T) \in Int
         /\ SumFunctionOnSet(f, T \cup {x}) = f[x] + SumFunctionOnSet(f, T)
<1>1. IsFiniteSet(T \cup {x})
  BY FS_AddElement
<1>2. (T \cup {x}) \ {x} = T
  OBVIOUS
<1>3. QED
  BY <1>1, <1>2, SumType

\* The sums of one and of two elements.
LEMMA SumOfOne ==
  ASSUME NEW f, NEW x, f[x] \in Int
  PROVE  SumFunctionOnSet(f, {x}) = f[x]
<1>1. IsFiniteSet({}) /\ {} \cup {x} = {x}
  BY FS_EmptySet
<1>2. SumFunctionOnSet(f, {} \cup {x}) = f[x] + SumFunctionOnSet(f, {})
  BY <1>1, SumAdds
<1>3. QED
  BY <1>1, <1>2, SumEmpty

\* The sum over a pair.
LEMMA SumOfTwo ==
  ASSUME NEW f, NEW x, NEW y, x # y, f[x] \in Int, f[y] \in Int
  PROVE  SumFunctionOnSet(f, {x, y}) = f[x] + f[y]
<1>1. IsFiniteSet({x}) /\ {x} \cup {y} = {x, y} /\ y \notin {x}
  BY FS_Singleton
<1>2. SumFunctionOnSet(f, {x} \cup {y}) = f[y] + SumFunctionOnSet(f, {x})
  BY <1>1, SumAdds
<1>3. SumFunctionOnSet(f, {x}) = f[x]
  BY SumOfOne
<1>4. SumFunctionOnSet(f, {x, y}) = f[y] + f[x]
  BY <1>1, <1>2, <1>3
<1>5. QED
  BY <1>4

\* A sum of natural numbers is one, and no addend is above it.
LEMMA SumOfNaturals ==
  ASSUME NEW f, NEW S, IsFiniteSet(S), \A x \in S : f[x] \in Nat
  PROVE  /\ SumFunctionOnSet(f, S) \in Nat
         /\ \A x \in S : f[x] <= SumFunctionOnSet(f, S)
<1> DEFINE A == {T \in SUBSET S : SumFunctionOnSet(f, T) \in Nat}
<1>1. {} \in A
  BY SumEmpty
<1>2. ASSUME NEW T \in A, NEW x \in S PROVE T \cup {x} \in A
  <2>1. CASE x \in T
    <3>1. T \cup {x} = T
      BY <2>1
    <3>2. QED
      BY <3>1
  <2>2. CASE x \notin T
    <3>1. IsFiniteSet(T)
      BY FS_Subset
    <3>2. SumFunctionOnSet(f, T \cup {x}) = f[x] + SumFunctionOnSet(f, T)
      BY <2>2, <3>1, SumAdds
    <3>3. SumFunctionOnSet(f, T) \in Nat /\ f[x] \in Nat
      OBVIOUS
    <3>4. QED
      BY <3>2, <3>3
  <2>3. QED
    BY <2>1, <2>2
<1>3. \A T \in SUBSET S : T \in A
  <2> SUFFICES ASSUME NEW T \in SUBSET S PROVE T \in A
    OBVIOUS
  <2> DEFINE B == {U \in SUBSET T : U \in A}
  <2>1. {} \in B /\ \A U \in B, x \in T : U \cup {x} \in B
    <3> HIDE DEF A
    <3>1. QED
      BY <1>1, <1>2
  <2>2. T \in B
    <3>1. IsFiniteSet(T)
      BY FS_Subset
    <3> HIDE DEF A
    <3>2. B \in SUBSET SUBSET T
      OBVIOUS
    <3> HIDE DEF B
    <3>3. QED
      BY <2>1, <3>1, <3>2, SetOfSubsets
  <2>3. QED
    BY <2>2
<1>4. ASSUME NEW x \in S PROVE f[x] <= SumFunctionOnSet(f, S)
  <2>1. SumFunctionOnSet(f, S) = f[x] + SumFunctionOnSet(f, S \ {x})
    BY SumType
  <2>2. SumFunctionOnSet(f, S \ {x}) \in Nat /\ f[x] \in Nat
    BY <1>3
  <2>3. QED
    BY <2>1, <2>2
<1>5. SumFunctionOnSet(f, S) \in Nat
  BY <1>3
<1>6. QED
  BY <1>4, <1>5

\* Greater values, a greater sum.
LEMMA SumsCompare ==
  ASSUME NEW f, NEW g, NEW S, IsFiniteSet(S),
         \A x \in S : f[x] \in Int /\ g[x] \in Int /\ f[x] <= g[x]
  PROVE  SumFunctionOnSet(f, S) <= SumFunctionOnSet(g, S)
<1> DEFINE A == {T \in SUBSET S : SumFunctionOnSet(f, T) <= SumFunctionOnSet(g, T)}
<1>1. {} \in A
  BY SumEmpty
<1>2. ASSUME NEW T \in A, NEW x \in S PROVE T \cup {x} \in A
  <2>1. CASE x \in T
    <3>1. T \cup {x} = T
      BY <2>1
    <3>2. QED
      BY <3>1
  <2>2. CASE x \notin T
    <3>1. IsFiniteSet(T)
      BY FS_Subset
    <3>2. /\ SumFunctionOnSet(f, T) \in Int
          /\ SumFunctionOnSet(f, T \cup {x}) = f[x] + SumFunctionOnSet(f, T)
      BY <2>2, <3>1, SumAdds
    <3>3. /\ SumFunctionOnSet(g, T) \in Int
          /\ SumFunctionOnSet(g, T \cup {x}) = g[x] + SumFunctionOnSet(g, T)
      BY <2>2, <3>1, SumAdds
    <3>4. SumFunctionOnSet(f, T) <= SumFunctionOnSet(g, T) /\ f[x] <= g[x]
      OBVIOUS
    <3>5. QED
      BY <3>2, <3>3, <3>4
  <2>3. QED
    BY <2>1, <2>2
<1>3. S \in A
  <2> HIDE DEF A
  <2>1. A \in SUBSET SUBSET S
    BY DEF A
  <2>2. QED
    BY <1>1, <1>2, <2>1, SetOfSubsets
<1>4. QED
  BY <1>3

\* A common factor may be taken out.
LEMMA SumScales ==
  ASSUME NEW f, NEW g, NEW k \in Int, NEW S, IsFiniteSet(S),
         \A x \in S : f[x] \in Int /\ g[x] = k * f[x]
  PROVE  SumFunctionOnSet(g, S) = k * SumFunctionOnSet(f, S)
<1> DEFINE A == {T \in SUBSET S : SumFunctionOnSet(g, T) = k * SumFunctionOnSet(f, T)}
<1>1. {} \in A
  BY SumEmpty
<1>2. ASSUME NEW T \in A, NEW x \in S PROVE T \cup {x} \in A
  <2>1. CASE x \in T
    <3>1. T \cup {x} = T
      BY <2>1
    <3>2. QED
      BY <3>1
  <2>2. CASE x \notin T
    <3>1. IsFiniteSet(T) /\ \A y \in S : g[y] \in Int
      BY FS_Subset
    <3>2. /\ SumFunctionOnSet(f, T) \in Int
          /\ SumFunctionOnSet(f, T \cup {x}) = f[x] + SumFunctionOnSet(f, T)
      BY <2>2, <3>1, SumAdds
    <3>3. SumFunctionOnSet(g, T \cup {x}) = g[x] + SumFunctionOnSet(g, T)
      BY <2>2, <3>1, SumAdds
    <3>4. /\ SumFunctionOnSet(g, T) = k * SumFunctionOnSet(f, T)
          /\ g[x] = k * f[x] /\ f[x] \in Int
      OBVIOUS
    <3>5. \A a, b \in Int : k * (a + b) = k * a + k * b
      OBVIOUS
    <3>6. QED
      BY <3>2, <3>3, <3>4, <3>5
  <2>3. QED
    BY <2>1, <2>2
<1>3. S \in A
  <2> HIDE DEF A
  <2>1. A \in SUBSET SUBSET S
    BY DEF A
  <2>2. QED
    BY <1>1, <1>2, <2>1, SetOfSubsets
<1>4. QED
  BY <1>3

\* Rounding each addend down loses no less than rounding the sum.
LEMMA DivisionOfSum ==
  ASSUME NEW d \in Nat \ {0}, NEW a \in Int, NEW b \in Int
  PROVE  /\ a \div d \in Int /\ (a + b) \div d \in Int
         /\ (a \div d) + (b \div d) <= (a + b) \div d
OBVIOUS

\* The same of the sum over a set.
LEMMA SumOfQuotients ==
  ASSUME NEW f, NEW g, NEW d \in Nat \ {0}, NEW S, IsFiniteSet(S),
         \A x \in S : f[x] \in Int /\ g[x] = f[x] \div d
  PROVE  SumFunctionOnSet(g, S) <= SumFunctionOnSet(f, S) \div d
<1> DEFINE A == {T \in SUBSET S : SumFunctionOnSet(g, T) <= SumFunctionOnSet(f, T) \div d}
<1>1. {} \in A
  <2>1. 0 <= 0 \div d
    OBVIOUS
  <2>2. QED
    BY <2>1, SumEmpty
<1>2. ASSUME NEW T \in A, NEW x \in S PROVE T \cup {x} \in A
  <2>1. CASE x \in T
    <3>1. T \cup {x} = T
      BY <2>1
    <3>2. QED
      BY <3>1
  <2>2. CASE x \notin T
    <3>1. IsFiniteSet(T) /\ \A y \in S : g[y] \in Int
      BY FS_Subset, DivisionOfSum
    <3>2. /\ SumFunctionOnSet(f, T) \in Int
          /\ SumFunctionOnSet(f, T \cup {x}) = f[x] + SumFunctionOnSet(f, T)
      BY <2>2, <3>1, SumAdds
    <3>3. /\ SumFunctionOnSet(g, T) \in Int
          /\ SumFunctionOnSet(g, T \cup {x}) = g[x] + SumFunctionOnSet(g, T)
      BY <2>2, <3>1, SumAdds
    <3>4. SumFunctionOnSet(g, T) <= SumFunctionOnSet(f, T) \div d /\ g[x] = f[x] \div d
      OBVIOUS
    <3>5. /\ SumFunctionOnSet(f, T) \div d \in Int
          /\ (f[x] + SumFunctionOnSet(f, T)) \div d \in Int
          /\ (f[x] \div d) + (SumFunctionOnSet(f, T) \div d)
               <= (f[x] + SumFunctionOnSet(f, T)) \div d
      BY <3>2, DivisionOfSum
    <3>6. g[x] + SumFunctionOnSet(g, T) <= (f[x] + SumFunctionOnSet(f, T)) \div d
      <4> DEFINE p == SumFunctionOnSet(f, T) \div d
                 q == (f[x] + SumFunctionOnSet(f, T)) \div d
      <4>1. SumFunctionOnSet(g, T) <= p /\ g[x] + p <= q /\ p \in Int /\ q \in Int /\ g[x] \in Int
        BY <3>1, <3>4, <3>5
      <4> HIDE DEF p, q
      <4>2. g[x] + SumFunctionOnSet(g, T) <= q
        BY <3>3, <4>1
      <4>3. QED
        BY <4>2 DEF q
    <3>7. QED
      BY <3>2, <3>3, <3>6
  <2>3. QED
    BY <2>1, <2>2
<1>3. S \in A
  <2> HIDE DEF A
  <2>1. A \in SUBSET SUBSET S
    BY DEF A
  <2>2. QED
    BY <1>1, <1>2, <2>1, SetOfSubsets
<1>4. QED
  BY <1>3

\* A finite set of integers that is not empty has a greatest and a least.
LEMMA Extremes ==
  ASSUME NEW S \in SUBSET Int, IsFiniteSet(S), S # {}
  PROVE  /\ Max(S) \in S /\ \A x \in S : x <= Max(S)
         /\ Min(S) \in S /\ \A x \in S : Min(S) <= x
<1> DEFINE Has(T) == /\ \E m \in T : \A x \in T : m >= x
                     /\ \E m \in T : \A x \in T : m <= x
           A == {T \in SUBSET S : T = {} \/ Has(T)}
<1>1. {} \in A
  OBVIOUS
<1>2. ASSUME NEW T \in A, NEW y \in S PROVE T \cup {y} \in A
  <2>1. CASE T = {}
    BY <2>1
  <2>2. CASE T # {}
    <3>1. PICK m \in T : \A x \in T : m >= x
      BY <2>2
    <3>2. PICK k \in T : \A x \in T : k <= x
      BY <2>2
    <3>3. \E n \in T \cup {y} : \A x \in T \cup {y} : n >= x
      <4>1. CASE m >= y
        BY <3>1, <4>1
      <4>2. CASE ~(m >= y)
        BY <3>1, <4>2
      <4>3. QED
        BY <4>1, <4>2
    <3>4. \E n \in T \cup {y} : \A x \in T \cup {y} : n <= x
      <4>1. CASE k <= y
        BY <3>2, <4>1
      <4>2. CASE ~(k <= y)
        BY <3>2, <4>2
      <4>3. QED
        BY <4>1, <4>2
    <3>5. QED
      BY <3>3, <3>4
  <2>3. QED
    BY <2>1, <2>2
<1>3. S \in A
  <2> HIDE DEF A
  <2>1. A \in SUBSET SUBSET S
    BY DEF A
  <2>2. QED
    BY <1>1, <1>2, <2>1, SetOfSubsets
<1>4. Has(S)
  BY <1>3
<1>5. QED
  BY <1>4 DEF Max, Min
=============================================================================
