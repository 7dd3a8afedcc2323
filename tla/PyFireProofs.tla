----------------------------- MODULE PyFireProofs -----------------------------
(***************************************************************************)
(* PyFire for any arbs, legs and markets: its types, the two indexes of    *)
(* the fill registry, where a reported fill comes from, and that a broken  *)
(* arb which returns has had its sells attempted.                          *)
(***************************************************************************)
EXTENDS PyFire, SequenceTheorems, TLAPS

------------------------------------------------------------------------------
\* The market index is a list; list.remove takes an entry out of it.

Distinct(q) == \A i, j \in 1..Len(q) : q[i] = q[j] => i = j

\* The first place of an entry of such a list is its only one.
LEMMA FirstPlace ==
  ASSUME NEW S, NEW q \in Seq(S), Distinct(q), NEW e, Contains(q, e)
  PROVE  LET i == SelectInSeq(q, LAMBDA v : v = e)
         IN i \in 1..Len(q) /\ q[i] = e
<1> DEFINE I == {i \in 1..Len(q) : q[i] = e}
<1>1. I \in SUBSET Nat /\ I # {}
  BY DEF Contains
<1>2. \E n \in I : \A m \in I : n <= m
  BY <1>1 DEF Distinct
<1>3. Min(I) \in I
  BY <1>2 DEF Min
<1>4. SelectInSeq(q, LAMBDA v : v = e) = Min(I)
  BY <1>1 DEF SelectInSeq
<1>5. QED
  BY <1>3, <1>4

\* Without one of its entries a list keeps the others, once each.
LEMMA RemoveOne ==
  ASSUME NEW S, NEW q \in Seq(S), Distinct(q), NEW e
  PROVE  /\ RemoveFirst(q, e) \in Seq(S)
         /\ Distinct(RemoveFirst(q, e))
         /\ \A x : Contains(RemoveFirst(q, e), x) <=> Contains(q, x) /\ x # e
<1>1. CASE ~Contains(q, e)
  BY <1>1 DEF RemoveFirst, Contains
<1>2. CASE Contains(q, e)
  <2> DEFINE k == SelectInSeq(q, LAMBDA v : v = e)
             a == SubSeq(q, 1, k - 1)
             b == SubSeq(q, k + 1, Len(q))
             r == RemoveFirst(q, e)
  <2>1. k \in 1..Len(q) /\ q[k] = e
    BY <1>2, FirstPlace
  <2>2. r = a \o b
    BY <1>2 DEF RemoveFirst, RemoveAt, Contains
  <2> HIDE DEF k, r
  <2>3. Len(q) \in Nat /\ \A i \in 1..Len(q) : q[i] \in S
    BY LenProperties, ElementOfSeq
  <2>4. /\ a \in Seq(S) /\ Len(a) = k - 1
        /\ \A i \in 1..(k - 1) : a[i] = q[i]
    <3>1. \A i \in 1..(k - 1) : q[i] \in S
      BY <2>1, <2>3
    <3>2. /\ a \in Seq(S) /\ Len(a) = IF 1 <= k - 1 THEN k - 1 - 1 + 1 ELSE 0
          /\ \A i \in 1..(k - 1 - 1 + 1) : a[i] = q[1 + i - 1]
      BY <2>1, <2>3, <3>1, SubSeqProperties
    <3>3. QED
      BY <2>1, <2>3, <3>2
  <2>5. /\ b \in Seq(S) /\ Len(b) = Len(q) - k
        /\ \A i \in 1..(Len(q) - k) : b[i] = q[k + i]
    <3>1. \A i \in (k + 1)..Len(q) : q[i] \in S
      BY <2>1, <2>3
    <3>2. /\ b \in Seq(S)
          /\ Len(b) = IF k + 1 <= Len(q) THEN Len(q) - (k + 1) + 1 ELSE 0
          /\ \A i \in 1..(Len(q) - (k + 1) + 1) : b[i] = q[k + 1 + i - 1]
      BY <2>1, <2>3, <3>1, SubSeqProperties
    <3>3. QED
      BY <2>1, <2>3, <3>2
  <2> HIDE DEF a, b
  <2>6. /\ r \in Seq(S) /\ Len(r) = Len(q) - 1
        /\ \A i \in 1..(Len(q) - 1) : r[i] = IF i < k THEN q[i] ELSE q[i + 1]
    <3>1. /\ a \o b \in Seq(S) /\ Len(a \o b) = Len(a) + Len(b)
          /\ \A i \in 1..(Len(a) + Len(b)) :
               (a \o b)[i] = IF i <= Len(a) THEN a[i] ELSE b[i - Len(a)]
      BY <2>4, <2>5, ConcatProperties
    <3>2. Len(a) + Len(b) = Len(q) - 1
      BY <2>1, <2>3, <2>4, <2>5
    <3>3. ASSUME NEW i \in 1..(Len(q) - 1)
          PROVE  (a \o b)[i] = IF i < k THEN q[i] ELSE q[i + 1]
      <4>1. CASE i < k
        BY <2>1, <2>3, <2>4, <3>1, <3>2, <4>1
      <4>2. CASE ~(i < k)
        <5>1. i - (k - 1) \in 1..(Len(q) - k) /\ k + (i - (k - 1)) = i + 1
          BY <2>1, <2>3, <4>2
        <5>2. (a \o b)[i] = b[i - (k - 1)]
          BY <2>1, <2>3, <2>4, <3>1, <3>2, <4>2
        <5>3. QED
          BY <2>5, <4>2, <5>1, <5>2
      <4>3. QED
        BY <4>1, <4>2
    <3>4. QED
      BY <2>2, <3>1, <3>2, <3>3
  <2>7. Distinct(r)
    BY <2>1, <2>3, <2>6 DEF Distinct
  <2>8. ASSUME NEW x
        PROVE  Contains(r, x) <=> Contains(q, x) /\ x # e
    <3>1. ASSUME Contains(r, x)
          PROVE  Contains(q, x) /\ x # e
      <4>1. PICK i \in 1..(Len(q) - 1) : r[i] = x
        BY <2>6, <3>1 DEF Contains
      <4>2. PICK j \in 1..Len(q) : q[j] = x /\ j # k
        BY <2>1, <2>3, <2>6, <4>1
      <4>3. QED
        BY <2>1, <4>2 DEF Contains, Distinct
    <3>2. ASSUME Contains(q, x), x # e
          PROVE  Contains(r, x)
      <4>1. PICK j \in 1..Len(q) : q[j] = x
        BY <3>2 DEF Contains
      <4>2. j # k
        BY <2>1, <3>2, <4>1
      <4>3. CASE j < k
        <5>1. j \in 1..(Len(q) - 1) /\ r[j] = x
          BY <2>1, <2>3, <2>6, <4>1, <4>3
        <5>2. QED
          BY <2>6, <5>1 DEF Contains
      <4>4. CASE j > k
        <5>1. j - 1 \in 1..(Len(q) - 1) /\ r[j - 1] = x
          BY <2>1, <2>3, <2>6, <4>1, <4>4
        <5>2. QED
          BY <2>6, <5>1 DEF Contains
      <4>5. QED
        BY <2>1, <2>3, <4>2, <4>3, <4>4
    <3>3. QED
      BY <3>1, <3>2
  <2>9. QED
    BY <2>6, <2>7, <2>8 DEF r
<1>3. QED
  BY <1>1, <1>2

------------------------------------------------------------------------------
\* The inductive invariant

Listed(s, c) == Contains(bySlug[s], c)

\* A market's list has the legs of that market, each once.
QueuesInOrder ==
  \A s \in Slugs : /\ Distinct(bySlug[s])
                   /\ \A c \in Calls : Listed(s, c) => slug[c] = s

\* What a leg has not come to yet is not there: its order before the POST, its
\* order id before the answer, its registration before register.
NothingEarly ==
  \A c \in Calls :
    /\ phase[ArbOf(c)] = "gate" => call[c] = "idle"
    /\ call[c] \in {"idle", "jitter"} => order[c] = "none"
    /\ call[c] \in {"idle", "jitter", "posting"} => c \notin hasId
    /\ call[c] \in {"idle", "jitter", "posting", "answered"} =>
         c \notin byOrderId /\ \A s \in Slugs : ~Listed(s, c)

NoticesFollowFills == \A c \in Calls, n \in Notices : <<c, n>> \in wire => order[c] \in Bought

\* A dry run posts nothing, and only a dry run says so.
DryRunIsDry ==
  \A c \in Calls :
    /\ call[c] = "dry-fired" => dryRun
    /\ call[c] \in {"posting", "answered", "waiting"} \cup Live => ~dryRun

\* The revert has every leg that filled on its list.
RevertTakesAll ==
  \A c \in Calls :
    phase[ArbOf(c)] = "revert" /\ call[c] \in Live => sell[c] # "none"

IInv ==
  /\ TypeOK
  /\ QueuesInOrder
  /\ NothingEarly
  /\ NoticesFollowFills
  /\ DryRunIsDry
  /\ RevertTakesAll
  /\ IndexesAgree
  /\ FillOnItsMarket
  /\ BrokenArbIsReverted

\* The index by market through the calls it lists.
LEMMA AgreeByLists ==
  IndexesAgree <=>
    \A c \in Calls :
      /\ c \in hasId /\ slug[c] # NoSlug => (c \in byOrderId <=> Listed(slug[c], c))
      /\ c \in hasId /\ call[c] = "waiting" => c \in byOrderId
BY DEF IndexesAgree, Listed

\* At the start no leg is registered and nothing is on the wire.
LEMMA InitGivesIInv ==
  ASSUME Init
  PROVE  IInv
<1>1. \A s \in Slugs, c \in Calls : ~Listed(s, c)
  BY DEF Init, Listed, Contains
<1>2. TypeOK
  BY EmptySeq DEF Init, TypeOK, Progress, Calls, ArbOf
<1>3. QueuesInOrder
  BY <1>1 DEF Init, QueuesInOrder, Distinct
<1>4. NothingEarly /\ NoticesFollowFills /\ DryRunIsDry
  BY <1>1 DEF Init, NothingEarly, NoticesFollowFills, DryRunIsDry, Live, Bought
<1>5. RevertTakesAll /\ FillOnItsMarket /\ BrokenArbIsReverted
  BY DEF Init, RevertTakesAll, FillOnItsMarket, BrokenArbIsReverted, Live, LegsOf, ArbOf, Calls
<1>6. IndexesAgree
  BY AgreeByLists DEF Init
<1>7. QED
  BY <1>2, <1>3, <1>4, <1>5, <1>6 DEF IInv

------------------------------------------------------------------------------
\* Steps of a leg's thread

\* Steps that leave the registry alone leave its lists alone.
LEMMA SameLists ==
  ASSUME UNCHANGED <<slug, registry>>
  PROVE  /\ \A s, c : Listed(s, c)' <=> Listed(s, c)
         /\ QueuesInOrder => QueuesInOrder'
BY DEF registry, Listed, QueuesInOrder

\* A leg that gives up, before its POST or after it, changes its status alone.
LEMMA GivingUpKeepsIInv ==
  ASSUME IInv, NEW c \in Calls, call[c] \in {"jitter", "posting", "waiting"},
         NEW s \in {"rejected", "disabled", "timeout", "dry-fired", "partial"},
         s = "dry-fired" => dryRun,
         Becomes(c, s),
         UNCHANGED <<deal, phase, order, hasId, wire, strange, registry, sell>>
  PROVE  IInv'
<1>1. call \in [Calls -> Progress \cup Results] /\ call' = [call EXCEPT ![c] = s]
  BY DEF IInv, TypeOK, Becomes
<1>2. UNCHANGED <<slug, registry>>
  BY DEF deal
<1>3. (\A m, d : Listed(m, d)' <=> Listed(m, d)) /\ QueuesInOrder'
  BY <1>2, SameLists DEF IInv
<1>4. TypeOK'
  BY <1>1 DEF IInv, TypeOK, Progress, Results, Failed, Live, deal, registry
<1>5. NothingEarly'
  BY <1>1, <1>3 DEF IInv, NothingEarly, registry
<1>6. NoticesFollowFills' /\ DryRunIsDry' /\ RevertTakesAll'
  BY <1>1 DEF IInv, NoticesFollowFills, DryRunIsDry, RevertTakesAll, Live, Bought, deal
<1>7. IndexesAgree'
  BY <1>1 DEF IInv, IndexesAgree, deal, registry
<1>8. FillOnItsMarket'
  BY <1>1 DEF IInv, FillOnItsMarket, Live, Bought, deal
<1>9. BrokenArbIsReverted'
  <2>1. phase[ArbOf(c)] # "done"
    BY DEF IInv, TypeOK, Results, Live, Failed
  <2>2. \A d \in Calls : ArbOf(d) # ArbOf(c) => call'[d] = call[d]
    BY <1>1
  <2>3. QED
    BY <2>1, <2>2 DEF IInv, BrokenArbIsReverted, With, LegsOf, Live
<1>10. QED
  BY <1>3, <1>4, <1>5, <1>6, <1>7, <1>8, <1>9 DEF IInv

\* The steps before the registration: the POST leaves, and its answer comes.
LEMMA PostingKeepsIInv ==
  ASSUME IInv, NEW c \in Calls, BuildLeg(c) \/ PostAnswers(c) \/ PostFails(c)
  PROVE  IInv'
<1>1. CASE PostFails(c)
  BY <1>1, GivingUpKeepsIInv DEF PostFails, world
<1>2. CASE BuildLeg(c) /\ ~Becomes(c, "posting")
  BY <1>2, GivingUpKeepsIInv DEF BuildLeg
<1>3. ASSUME NEW s \in {"posting", "answered"},
             Becomes(c, s),
             call[c] \in {"jitter", "posting"},
             UNCHANGED <<deal, phase, wire, strange, registry, sell>>,
             s = "posting" => /\ call[c] = "jitter" /\ ~dryRun /\ UNCHANGED hasId
                              /\ order' = [order EXCEPT ![c] = "sent"],
             s = "answered" => /\ call[c] = "posting" /\ UNCHANGED order
                               /\ hasId' = hasId \/ hasId' = hasId \cup {c}
      PROVE  IInv'
  <2>1. /\ call \in [Calls -> Progress \cup Results] /\ call' = [call EXCEPT ![c] = s]
        /\ order \in [Calls -> {"none", "sent", "refused", "open", "gone"} \cup Bought]
        /\ order' = order \/ (order[c] = "none" /\ order' = [order EXCEPT ![c] = "sent"])
        /\ hasId \subseteq hasId' /\ hasId' \subseteq hasId \cup {c}
    BY <1>3 DEF IInv, TypeOK, NothingEarly, Becomes
  <2>2. UNCHANGED <<slug, registry>>
    BY <1>3 DEF deal
  <2>3. (\A m, d : Listed(m, d)' <=> Listed(m, d)) /\ QueuesInOrder'
    BY <2>2, SameLists DEF IInv
  <2>4. TypeOK'
    BY <1>3, <2>1 DEF IInv, TypeOK, Progress, Results, Failed, Live, deal, registry
  <2>5. NothingEarly'
    BY <1>3, <2>1, <2>3 DEF IInv, NothingEarly, registry
  <2>6. NoticesFollowFills' /\ DryRunIsDry' /\ RevertTakesAll'
    BY <1>3, <2>1 DEF IInv, NoticesFollowFills, DryRunIsDry, RevertTakesAll, Live, Bought, deal
  <2>7. IndexesAgree'
    <3>1. c \notin byOrderId /\ \A m \in Slugs : ~Listed(m, c)
      BY <1>3 DEF IInv, NothingEarly
    <3>2. slug[c] \in Slugs \cup {NoSlug}
      BY DEF IInv, TypeOK
    <3>3. QED
      BY <1>3, <2>1, <3>1, <3>2 DEF IInv, IndexesAgree, Listed, deal, registry
  <2>8. FillOnItsMarket'
    BY <1>3, <2>1 DEF IInv, FillOnItsMarket, Live, Bought, deal
  <2>9. BrokenArbIsReverted'
    <3>1. phase[ArbOf(c)] # "done"
      BY <1>3 DEF IInv, TypeOK, Results, Live, Failed
    <3>2. \A d \in Calls : ArbOf(d) # ArbOf(c) => call'[d] = call[d]
      BY <2>1
    <3>3. QED
      BY <1>3, <3>1, <3>2 DEF IInv, BrokenArbIsReverted, With, LegsOf, Live
  <2>10. QED
    BY <2>3, <2>4, <2>5, <2>6, <2>7, <2>8, <2>9 DEF IInv
<1>4. CASE BuildLeg(c) /\ Becomes(c, "posting")
  BY <1>3, <1>4 DEF BuildLeg, Becomes, IInv, TypeOK
<1>5. CASE PostAnswers(c)
  BY <1>3, <1>5 DEF PostAnswers, world
<1>6. QED
  BY <1>1, <1>2, <1>4, <1>5

\* A wait enters both indexes under the lock.
LEMMA RegisterKeepsIInv ==
  ASSUME IInv, NEW c \in Calls, Register(c)
  PROVE  IInv'
<1>1. /\ UNCHANGED <<deal, phase, hasId, world, sell>>
      /\ call[c] = "answered" /\ call' = [call EXCEPT ![c] = "waiting"]
      /\ call \in [Calls -> Progress \cup Results]
      /\ byOrderId' = IF c \in hasId THEN byOrderId \cup {c} ELSE byOrderId
      /\ slug[c] \in Slugs \cup {NoSlug}
      /\ c \notin byOrderId /\ \A m \in Slugs : ~Listed(m, c)
  BY DEF Register, Becomes, IInv, TypeOK, NothingEarly
<1>2. ASSUME NEW m \in Slugs
      PROVE  /\ bySlug'[m] \in Seq(Calls)
             /\ Distinct(bySlug'[m])
             /\ \A d : Listed(m, d)' <=> Listed(m, d) \/ (m = slug[c] /\ d = c)
  <2>1. bySlug'[m] = IF m = slug[c] THEN Append(bySlug[m], c) ELSE bySlug[m]
    BY DEF Register
  <2>2. bySlug[m] \in Seq(Calls) /\ Distinct(bySlug[m]) /\ ~Contains(bySlug[m], c)
    BY <1>1 DEF IInv, TypeOK, QueuesInOrder, Listed
  <2> DEFINE q == bySlug[m]
             r == Append(q, c)
  <2>3. /\ Len(q) \in Nat /\ r \in Seq(Calls) /\ Len(r) = Len(q) + 1
        /\ \A i \in 1..Len(q) : r[i] = q[i]
        /\ r[Len(q) + 1] = c
    BY <2>2, AppendProperties, LenProperties
  <2>4. Distinct(r) /\ \A d : Contains(r, d) <=> Contains(q, d) \/ d = c
    <3> HIDE DEF q, r
    <3>1. Distinct(q) /\ ~Contains(q, c)
      BY <2>2 DEF q
    <3>2. Distinct(r)
      BY <2>3, <3>1 DEF Distinct, Contains
    <3>3. ASSUME NEW d
          PROVE  Contains(r, d) <=> Contains(q, d) \/ d = c
      BY <2>3 DEF Contains
    <3>4. QED
      BY <3>2, <3>3
  <2>5. QED
    BY <2>1, <2>2, <2>3, <2>4 DEF Listed
<1>3. TypeOK'
  <2>1. bySlug' \in [Slugs -> Seq(Calls)]
    BY <1>2 DEF Register
  <2>2. QED
    BY <1>1, <2>1 DEF IInv, TypeOK, Progress, Results, Failed, Live, deal, world
<1>4. QueuesInOrder'
  BY <1>1, <1>2 DEF IInv, QueuesInOrder, deal
<1>5. NothingEarly'
  BY <1>1, <1>2 DEF IInv, NothingEarly, world
<1>6. NoticesFollowFills' /\ DryRunIsDry' /\ RevertTakesAll'
  BY <1>1 DEF IInv, NoticesFollowFills, DryRunIsDry, RevertTakesAll, Live, Bought, deal, world
<1>7. IndexesAgree'
  <2>1. \A d \in Calls : slug[d] # NoSlug => slug[d] \in Slugs
    BY DEF IInv, TypeOK
  <2>2. QED
    BY <1>1, <1>2, <2>1 DEF IInv, IndexesAgree, Listed, deal
<1>8. FillOnItsMarket'
  BY <1>1 DEF IInv, FillOnItsMarket, Live, Bought, deal, world
<1>9. BrokenArbIsReverted'
  <2>1. phase[ArbOf(c)] # "done"
    BY <1>1 DEF IInv, TypeOK, Results, Live, Failed
  <2>2. \A d \in Calls : ArbOf(d) # ArbOf(c) => call'[d] = call[d]
    BY <1>1
  <2>3. QED
    BY <1>1, <2>1, <2>2 DEF IInv, BrokenArbIsReverted, With, LegsOf, Live
<1>10. QED
  BY <1>3, <1>4, <1>5, <1>6, <1>7, <1>8, <1>9 DEF IInv

------------------------------------------------------------------------------
\* Notices

\* The oldest registration on a market is one of that market.
LEMMA OldestIsListed ==
  ASSUME IInv, NEW m, NEW c \in OldestOn(m), m \in Slugs \cup {NoSlug}
  PROVE  /\ c \in Calls /\ slug[c] = m /\ m # NoSlug
         /\ call[c] \notin {"idle", "jitter", "posting", "answered"}
<1> DEFINE q == bySlug[m]
<1>1. m # NoSlug /\ q # <<>> /\ c = Head(q)
  BY DEF OldestOn
<1>2. m \in Slugs /\ q \in Seq(Calls)
  BY <1>1 DEF IInv, TypeOK
<1>3. c \in Calls /\ Contains(q, c)
  BY <1>1, <1>2, HeadTailProperties, EmptySeq DEF Contains
<1>4. slug[c] = m
  BY <1>2, <1>3 DEF IInv, QueuesInOrder, Listed
<1>5. call[c] \notin {"idle", "jitter", "posting", "answered"}
  BY <1>2, <1>3 DEF IInv, NothingEarly, Listed
<1>6. QED
  BY <1>1, <1>3, <1>4, <1>5

\* A notice goes to the leg of its order or to one registered on its market.
LEMMA AddresseeOnMarket ==
  ASSUME IInv, NEW d \in Calls, NEW c \in Addressee(d)
  PROVE  /\ c \in Calls
         /\ c = d \/ (slug[c] = slug[d] /\ slug[c] # NoSlug)
         /\ call[c] \notin {"idle", "jitter", "posting", "answered"}
<1>1. CASE d \in byOrderId
  BY <1>1 DEF Addressee, IInv, NothingEarly
<1>2. CASE d \notin byOrderId
  <2>1. slug[d] \in Slugs \cup {NoSlug}
    BY DEF IInv, TypeOK
  <2>2. c \in OldestOn(slug[d])
    BY <1>2 DEF Addressee
  <2>3. QED
    BY <2>1, <2>2, OldestIsListed
<1>3. QED
  BY <1>1, <1>2

\* A push that wakes leg c takes its wait off both indexes.  What makes the fill
\* that c reports one of its market is shown by the caller.
LEMMA WakingKeepsIInv ==
  ASSUME IInv, NEW c \in Calls, NEW s \in Live,
         call[c] \notin {"idle", "jitter", "posting", "answered"},
         Consume(c), Wake(c, s),
         UNCHANGED <<deal, phase, order, hasId, sell>>,
         wire' \subseteq wire,
         strange \subseteq strange', strange' \subseteq Slugs,
         \/ order[c] \in Bought
         \/ /\ slug[c] # NoSlug
            /\ \/ slug[c] \in strange'
               \/ \E d \in Calls : order[d] \in Bought /\ slug[d] = slug[c]
  PROVE  IInv'
<1>1. /\ call \in [Calls -> Progress \cup Results]
      /\ call' = [call EXCEPT ![c] = IF call[c] = "waiting" THEN s ELSE call[c]]
      /\ byOrderId' = byOrderId \ {c}
  BY DEF Consume, Wake, IInv, TypeOK
<1>2. ASSUME NEW m \in Slugs
      PROVE  /\ bySlug'[m] \in Seq(Calls)
             /\ Distinct(bySlug'[m])
             /\ \A e : Listed(m, e)' <=> Listed(m, e) /\ e # c
  <2>1. bySlug'[m] = RemoveFirst(bySlug[m], c)
    BY DEF Consume, WithoutCall
  <2>2. bySlug[m] \in Seq(Calls) /\ Distinct(bySlug[m])
    BY DEF IInv, TypeOK, QueuesInOrder
  <2>3. QED
    BY <2>1, <2>2, RemoveOne DEF Listed
<1>3. TypeOK'
  <2>1. bySlug' \in [Slugs -> Seq(Calls)]
    BY <1>2 DEF Consume, WithoutCall
  <2>2. QED
    BY <1>1, <2>1 DEF IInv, TypeOK, Progress, Results, Failed, Live, deal
<1>4. QueuesInOrder'
  BY <1>2 DEF IInv, QueuesInOrder, deal
<1>5. NothingEarly'
  BY <1>1, <1>2 DEF IInv, NothingEarly, Live
<1>6. NoticesFollowFills' /\ DryRunIsDry'
  BY <1>1 DEF IInv, NoticesFollowFills, DryRunIsDry, Live, deal
<1>7. /\ phase[ArbOf(c)] \in {"revert", "done"} => call' = call
      /\ \A e \in Calls : ArbOf(e) # ArbOf(c) => call'[e] = call[e]
  BY <1>1 DEF IInv, TypeOK, Results, Live, Failed
<1>8. RevertTakesAll' /\ BrokenArbIsReverted'
  BY <1>7 DEF IInv, RevertTakesAll, BrokenArbIsReverted, With, LegsOf
<1>9. IndexesAgree'
  <2>1. \A e \in Calls : slug[e] # NoSlug => slug[e] \in Slugs
    BY DEF IInv, TypeOK
  <2>2. QED
    BY <1>1, <1>2, <2>1 DEF IInv, IndexesAgree, Listed, Live, deal
<1>10. FillOnItsMarket'
  BY <1>1 DEF IInv, FillOnItsMarket, deal
<1>11. QED
  BY <1>3, <1>4, <1>5, <1>6, <1>8, <1>9, <1>10 DEF IInv

\* A notice of one of the orders wakes a leg, or finds none.
LEMMA NoticeKeepsIInv ==
  ASSUME IInv, NEW d \in Calls, NEW n \in Notices, OnFill(d, n)
  PROVE  IInv'
<1>1. /\ UNCHANGED <<deal, phase, order, hasId, strange, sell>>
      /\ wire' \subseteq wire /\ order[d] \in Bought
      /\ strange' \subseteq Slugs
  BY DEF OnFill, IInv, TypeOK, NoticesFollowFills
<1>2. CASE UNCHANGED <<call, registry>>
  <2>1. (\A m, c : Listed(m, c)' <=> Listed(m, c)) /\ QueuesInOrder'
    BY <1>1, <1>2, SameLists DEF IInv, deal
  <2>2. TypeOK' /\ NothingEarly' /\ NoticesFollowFills' /\ DryRunIsDry' /\ RevertTakesAll'
    BY <1>1, <1>2, <2>1
       DEF IInv, TypeOK, NothingEarly, NoticesFollowFills, DryRunIsDry, RevertTakesAll,
           deal, registry
  <2>3. IndexesAgree' /\ FillOnItsMarket' /\ BrokenArbIsReverted'
    BY <1>1, <1>2
       DEF IInv, IndexesAgree, FillOnItsMarket, BrokenArbIsReverted, With, LegsOf,
           deal, registry
  <2>4. QED
    BY <2>1, <2>2, <2>3 DEF IInv
<1>3. CASE \E c \in Addressee(d) : Consume(c) /\ \E s \in Statuses(c, d) : Wake(c, s)
  <2>1. PICK c \in Addressee(d), s \in Live : Consume(c) /\ Wake(c, s)
    BY <1>3 DEF Statuses, Live
  <2>2. /\ c \in Calls
        /\ c = d \/ (slug[c] = slug[d] /\ slug[c] # NoSlug)
        /\ call[c] \notin {"idle", "jitter", "posting", "answered"}
    BY AddresseeOnMarket
  <2>3. QED
    BY <1>1, <2>1, <2>2, WakingKeepsIInv
<1>4. QED
  BY <1>2, <1>3 DEF OnFill

\* A push that tells no fill of ours wakes a leg of its market.
LEMMA StrangePushKeepsIInv ==
  ASSUME IInv, NEW m \in Slugs, OnStrangePush(m)
  PROVE  IInv'
<1>1. PICK c \in OldestOn(m) \cup {d \in byOrderId : slug[d] = m}, s \in Live :
        Consume(c) /\ Wake(c, s)
  BY DEF OnStrangePush
<1>2. /\ UNCHANGED <<deal, phase, order, hasId, wire, sell>>
      /\ strange' = strange \cup {m}
      /\ strange' \subseteq Slugs
  BY DEF OnStrangePush, IInv, TypeOK
<1>3. /\ c \in Calls /\ slug[c] = m /\ m # NoSlug
      /\ call[c] \notin {"idle", "jitter", "posting", "answered"}
  <2>1. CASE c \in OldestOn(m)
    BY <2>1, OldestIsListed
  <2>2. CASE c \in byOrderId /\ slug[c] = m
    BY <2>2, NoSlugAssumption DEF IInv, TypeOK, NothingEarly
  <2>3. QED
    BY <1>1, <2>1, <2>2
<1>4. QED
  BY <1>1, <1>2, <1>3, WakingKeepsIInv

------------------------------------------------------------------------------
\* Exchanges and sockets

\* What the exchanges and the sockets do.
LEMMA WorldKeepsIInv ==
  ASSUME IInv, NEW c \in Calls,
         Receive(c) \/ Fill(c) \/ FillPart(c) \/ Expire(c) \/ \E n \in Notices : WsLost(c, n)
  PROVE  IInv'
<1>1. /\ UNCHANGED <<deal, phase, call, hasId, strange, registry, sell>>
      /\ order' \in [Calls -> {"none", "sent", "refused", "open", "gone"} \cup Bought]
      /\ \A d \in Calls : order[d] = "none" => order'[d] = "none"
      /\ \A d \in Calls : order[d] \in Bought => order'[d] \in Bought
      /\ wire' \subseteq Calls \X Notices
      /\ \A d \in Calls, n \in Notices : <<d, n>> \in wire' => order'[d] \in Bought
  <2>1. CASE Receive(c)
    BY <2>1 DEF Receive, IInv, TypeOK, NoticesFollowFills, Live, Bought
  <2>2. CASE Fill(c)
    BY <2>2 DEF Fill, IInv, TypeOK, NoticesFollowFills, Live, Bought
  <2>3. CASE Expire(c)
    BY <2>3 DEF Expire, IInv, TypeOK, NoticesFollowFills, Live, Bought
  <2>4. CASE \E n \in Notices : WsLost(c, n)
    BY <2>4 DEF WsLost, IInv, TypeOK, NoticesFollowFills, Live, Bought
  <2>5. CASE FillPart(c)
    <3>1. <<c, "match">> \in Calls \X Notices
      BY DEF Notices
    <3>2. QED
      BY <2>5, <3>1 DEF FillPart, IInv, TypeOK, NoticesFollowFills, Live, Bought
  <2>6. QED
    BY <2>1, <2>2, <2>3, <2>4, <2>5
<1>2. (\A m, d : Listed(m, d)' <=> Listed(m, d)) /\ QueuesInOrder'
  BY <1>1, SameLists DEF IInv, deal
<1>3. TypeOK'
  BY <1>1 DEF IInv, TypeOK, deal, registry
<1>4. NothingEarly'
  BY <1>1, <1>2 DEF IInv, NothingEarly, registry
<1>5. NoticesFollowFills' /\ DryRunIsDry' /\ RevertTakesAll'
  BY <1>1 DEF IInv, NoticesFollowFills, DryRunIsDry, RevertTakesAll, deal
<1>6. IndexesAgree' /\ FillOnItsMarket' /\ BrokenArbIsReverted'
  BY <1>1
     DEF IInv, IndexesAgree, FillOnItsMarket, BrokenArbIsReverted, With, LegsOf,
         deal, registry
<1>7. QED
  BY <1>2, <1>3, <1>4, <1>5, <1>6 DEF IInv

------------------------------------------------------------------------------
\* Steps of fire_arb

LEMMA ArbOfCall == \A c \in Calls : ArbOf(c) \in Arbs
BY DEF ArbOf, Calls

\* Steps that move an arb on and touch its sells change no leg.
LEMMA MovingOnKeepsIInv ==
  ASSUME IInv, NEW a \in Arbs,
         UNCHANGED <<deal, call, hasId, world, registry>>,
         sell' \in [Calls -> {"none", "due", "posting", "sold", "unsold"}],
         phase' \in [Arbs -> {"gate", "fire", "late", "revert", "done", "aborted", "raised"}],
         \A b \in Arbs : b # a => phase'[b] = phase[b],
         \A c \in Calls : ArbOf(c) # a => sell'[c] = sell[c],
         phase'[a] = "gate" => phase[a] = "gate",
         phase'[a] \in {"revert", "done", "raised"} => AllReturned(a),
         phase'[a] = "revert" =>
           \A c \in LegsOf(a) : call[c] \in Live => sell'[c] # "none",
         phase'[a] = "done" =>
           \/ With(a, {"filled"}) = LegsOf(a)
           \/ \A c \in LegsOf(a) : call[c] \in Live => sell'[c] \in {"sold", "unsold"}
  PROVE  IInv'
<1>1. (\A m, d : Listed(m, d)' <=> Listed(m, d)) /\ QueuesInOrder'
  BY SameLists DEF IInv, deal
<1>2. TypeOK'
  <2>1. \A c \in Calls : phase'[ArbOf(c)] \in {"revert", "done", "raised"} => call'[c] \in Results
    BY ArbOfCall DEF IInv, TypeOK, AllReturned, LegsOf
  <2>2. QED
    BY <2>1 DEF IInv, TypeOK, deal, world, registry
<1>3. NothingEarly'
  BY <1>1, ArbOfCall DEF IInv, NothingEarly, world, registry
<1>4. NoticesFollowFills' /\ DryRunIsDry'
  BY DEF IInv, NoticesFollowFills, DryRunIsDry, deal, world
<1>5. RevertTakesAll'
  BY ArbOfCall DEF IInv, RevertTakesAll, LegsOf
<1>6. IndexesAgree' /\ FillOnItsMarket'
  BY DEF IInv, IndexesAgree, FillOnItsMarket, deal, world, registry
<1>7. BrokenArbIsReverted'
  BY DEF IInv, BrokenArbIsReverted, With, LegsOf
<1>8. QED
  BY <1>1, <1>2, <1>3, <1>4, <1>5, <1>6, <1>7 DEF IInv

\* fire_arb starts a thread for each leg.
LEMMA FireLegsKeepsIInv ==
  ASSUME IInv, NEW a \in Arbs, FireLegs(a)
  PROVE  IInv'
<1>1. /\ UNCHANGED <<deal, hasId, world, registry, sell>>
      /\ phase[a] = "gate" /\ phase' = [phase EXCEPT ![a] = "fire"]
      /\ call' = [c \in Calls |-> IF ArbOf(c) = a THEN "jitter" ELSE call[c]]
      /\ \A c \in Calls : ArbOf(c) = a => call[c] = "idle"
  BY DEF FireLegs, IInv, NothingEarly
<1>2. (\A m, d : Listed(m, d)' <=> Listed(m, d)) /\ QueuesInOrder'
  BY <1>1, SameLists DEF IInv, deal
<1>3. TypeOK'
  BY <1>1, ArbOfCall DEF IInv, TypeOK, Progress, deal, world, registry
<1>4. NothingEarly'
  BY <1>1, <1>2, ArbOfCall DEF IInv, TypeOK, NothingEarly, world, registry
<1>5. NoticesFollowFills' /\ DryRunIsDry'
  BY <1>1 DEF IInv, NoticesFollowFills, DryRunIsDry, Live, deal, world
<1>6. RevertTakesAll'
  BY <1>1, ArbOfCall DEF IInv, TypeOK, RevertTakesAll, Live
<1>7. IndexesAgree' /\ FillOnItsMarket'
  BY <1>1 DEF IInv, IndexesAgree, FillOnItsMarket, Live, deal, world, registry
<1>8. BrokenArbIsReverted'
  BY <1>1 DEF IInv, TypeOK, BrokenArbIsReverted, With, LegsOf, Live
<1>9. QED
  BY <1>2, <1>3, <1>4, <1>5, <1>6, <1>7, <1>8 DEF IInv

\* Legs that all returned, whole or with none filled, need no revert.
LEMMA UnbrokenIsWhole ==
  ASSUME IInv, NEW a \in Arbs, AllReturned(a), ~(ArbBroken(a) /\ FilledLegs(a) # {})
  PROVE  \/ With(a, {"filled"}) = LegsOf(a)
         \/ \A c \in LegsOf(a) : call[c] \notin Live
<1>1. CASE FilledLegs(a) = {}
  BY <1>1 DEF FilledLegs, With
<1>2. CASE FilledLegs(a) # {}
  <2>1. PICK c \in LegsOf(a) : call[c] \in Live
    BY <1>2 DEF FilledLegs, With
  <2>2. ~dryRun
    BY <2>1 DEF IInv, DryRunIsDry, LegsOf
  <2>3. \A d \in LegsOf(a) : call[d] \notin Failed /\ call[d] # "partial"
    BY <1>2 DEF ArbBroken, FilledLegs, With
  <2>4. \A d \in LegsOf(a) : call[d] = "filled"
    BY <2>2, <2>3 DEF AllReturned, Results, Live, Failed, IInv, DryRunIsDry, LegsOf
  <2>5. QED
    BY <2>4 DEF With
<1>3. QED
  BY <1>1, <1>2

\* What fire_arb itself does, to the revert and beyond.
LEMMA ArbKeepsIInv ==
  ASSUME IInv, NEW a \in Arbs, ArbStep(a)
  PROVE  IInv'
<1> DEFINE Sells == {"none", "due", "posting", "sold", "unsold"}
           Phases == {"gate", "fire", "late", "revert", "done", "aborted", "raised"}
<1>1. sell \in [Calls -> Sells] /\ phase \in [Arbs -> Phases]
  BY DEF IInv, TypeOK
<1>2. CASE Abort(a)
  BY <1>1, <1>2, MovingOnKeepsIInv DEF Abort
<1>3. CASE FireLegs(a)
  BY <1>3, FireLegsKeepsIInv
<1>4. CASE Join(a) /\ ArbBroken(a) /\ FilledLegs(a) # {}
  <2>1. /\ UNCHANGED <<deal, call, hasId, world, registry>>
        /\ AllReturned(a)
        /\ phase' = [phase EXCEPT ![a] = "revert"]
        /\ sell' = [c \in Calls |-> IF c \in FilledLegs(a) THEN "due" ELSE sell[c]]
    BY <1>4 DEF Join
  <2>2. sell' \in [Calls -> Sells] /\ \A c \in Calls : ArbOf(c) # a => sell'[c] = sell[c]
    BY <1>1, <2>1 DEF FilledLegs, With, LegsOf
  <2>3. \A c \in LegsOf(a) : call[c] \in Live => sell'[c] # "none"
    BY <2>1 DEF FilledLegs, With, LegsOf
  <2>4. QED
    BY <1>1, <2>1, <2>2, <2>3, MovingOnKeepsIInv
<1>5. CASE Join(a) /\ ~(ArbBroken(a) /\ FilledLegs(a) # {})
  <2>1. /\ UNCHANGED <<deal, call, hasId, world, registry, sell>>
        /\ AllReturned(a)
        /\ phase' = [phase EXCEPT ![a] = "done"]
    BY <1>5 DEF Join
  <2>2. \/ With(a, {"filled"}) = LegsOf(a)
        \/ \A c \in LegsOf(a) : call[c] \notin Live
    BY <1>5, <2>1, UnbrokenIsWhole
  <2>3. QED
    BY <1>1, <2>1, <2>2, MovingOnKeepsIInv
<1>6. CASE JoinTimesOut(a)
  BY <1>1, <1>6, MovingOnKeepsIInv DEF JoinTimesOut
<1>7. CASE Raise(a)
  BY <1>1, <1>7, MovingOnKeepsIInv DEF Raise
<1>8. CASE Reverted(a)
  <2>1. /\ UNCHANGED <<deal, call, hasId, world, registry, sell>>
        /\ phase[a] = "revert" /\ phase' = [phase EXCEPT ![a] = "done"]
        /\ \A c \in LegsOf(a) : sell[c] \notin {"due", "posting"}
    BY <1>8 DEF Reverted
  <2>2. AllReturned(a)
    BY <2>1 DEF IInv, TypeOK, AllReturned, LegsOf
  <2>3. \A c \in LegsOf(a) : call[c] \in Live => sell[c] \in {"sold", "unsold"}
    BY <1>1, <2>1 DEF IInv, RevertTakesAll, LegsOf
  <2>4. QED
    BY <1>1, <2>1, <2>2, <2>3, MovingOnKeepsIInv
<1>9. QED
  BY <1>2, <1>3, <1>4, <1>5, <1>6, <1>7, <1>8 DEF ArbStep

\* The sells of a revert, one after the other.
LEMMA SellKeepsIInv ==
  ASSUME IInv, NEW c \in Calls, RevertLeg(c) \/ SellAnswers(c)
  PROVE  IInv'
<1>1. /\ UNCHANGED <<deal, phase, call, hasId, world, registry>>
      /\ \E s \in {"posting", "sold", "unsold"} :
           /\ sell' = [sell EXCEPT ![c] = s]
           /\ s = "posting" => phase[ArbOf(c)] = "revert"
  BY DEF RevertLeg, SellAnswers
<1>2. ArbOf(c) \in Arbs /\ sell \in [Calls -> {"none", "due", "posting", "sold", "unsold"}]
      /\ phase \in [Arbs -> {"gate", "fire", "late", "revert", "done", "aborted", "raised"}]
  BY ArbOfCall DEF IInv, TypeOK
<1>3. /\ sell' \in [Calls -> {"none", "due", "posting", "sold", "unsold"}]
      /\ \A d \in Calls : d # c => sell'[d] = sell[d]
      /\ sell'[c] \in {"posting", "sold", "unsold"}
      /\ phase[ArbOf(c)] # "revert" => sell'[c] \in {"sold", "unsold"}
  BY <1>1, <1>2
<1>4. phase[ArbOf(c)] \in {"revert", "done", "raised"} => AllReturned(ArbOf(c))
  BY DEF IInv, TypeOK, AllReturned, LegsOf
<1>5. phase[ArbOf(c)] = "done" =>
        \/ With(ArbOf(c), {"filled"}) = LegsOf(ArbOf(c))
        \/ \A d \in LegsOf(ArbOf(c)) : call[d] \in Live => sell'[d] \in {"sold", "unsold"}
  BY <1>2, <1>3 DEF IInv, BrokenArbIsReverted, LegsOf
<1>6. phase[ArbOf(c)] = "revert" =>
        \A d \in LegsOf(ArbOf(c)) : call[d] \in Live => sell'[d] # "none"
  BY <1>2, <1>3 DEF IInv, RevertTakesAll, LegsOf
<1>7. QED
  BY <1>1, <1>2, <1>3, <1>4, <1>5, <1>6, MovingOnKeepsIInv

------------------------------------------------------------------------------
\* Theorems

\* Every step keeps the invariant.
LEMMA StepKeepsIInv ==
  ASSUME IInv, [Next]_vars
  PROVE  IInv'
<1>1. CASE \E a \in Arbs : ArbStep(a)
  BY <1>1, ArbKeepsIInv
<1>2. ASSUME NEW c \in Calls, LegStep(c)
      PROVE  IInv'
  <2>1. CASE BuildLeg(c) \/ PostAnswers(c) \/ PostFails(c)
    BY <2>1, PostingKeepsIInv
  <2>2. CASE Register(c)
    BY <2>2, RegisterKeepsIInv
  <2>3. CASE Deadman(c)
    BY <2>3, GivingUpKeepsIInv DEF Deadman, world
  <2>4. CASE RevertLeg(c) \/ SellAnswers(c)
    BY <2>4, SellKeepsIInv
  <2>5. QED
    BY <1>2, <2>1, <2>2, <2>3, <2>4 DEF LegStep
<1>3. ASSUME NEW c \in Calls, WorldStep(c)
      PROVE  IInv'
  BY <1>3, WorldKeepsIInv, NoticeKeepsIInv DEF WorldStep
<1>4. ASSUME NEW m \in Slugs, OnStrangePush(m)
      PROVE  IInv'
  BY <1>4, StrangePushKeepsIInv
<1>5. CASE UNCHANGED vars
  <2>1. (\A m, d : Listed(m, d)' <=> Listed(m, d)) /\ QueuesInOrder'
    BY <1>5, SameLists DEF IInv, vars, registry
  <2>2. TypeOK' /\ NothingEarly' /\ NoticesFollowFills' /\ DryRunIsDry' /\ RevertTakesAll'
    BY <1>5, <2>1
       DEF vars, IInv, TypeOK, NothingEarly, NoticesFollowFills, DryRunIsDry, RevertTakesAll
  <2>3. IndexesAgree' /\ FillOnItsMarket' /\ BrokenArbIsReverted'
    BY <1>5 DEF vars, IInv, IndexesAgree, FillOnItsMarket, BrokenArbIsReverted, With, LegsOf
  <2>4. QED
    BY <2>1, <2>2, <2>3 DEF IInv
<1>6. QED
  BY <1>1, <1>2, <1>3, <1>4, <1>5 DEF Next, Terminated

\* The invariant holds of every arb, leg and market, whatever the exchanges do.
THEOREM Inductive == Spec => []IInv
<1>1. Init => IInv
  BY InitGivesIInv
<1>2. IInv /\ [Next]_vars => IInv'
  BY StepKeepsIInv
<1>3. QED
  BY <1>1, <1>2, PTL DEF Spec

\* The registry, the threads and the arbs keep their types, and an arb that
\* has its results has one of every leg.
THEOREM TypeCorrect == Spec => []TypeOK
BY Inductive, PTL DEF IInv

\* Whichever of the two indexes a notice is looked up in, and however threads
\* register and notices come, an entry leaves both or neither.
THEOREM IndexesStayInStep == Spec => []IndexesAgree
BY Inductive, PTL DEF IInv

\* For any legs on any markets and any pushes of other orders: behind a reported
\* fill is an order of the leg or a push on the market it registered.
THEOREM FillsComeFromTheMarket == Spec => []FillOnItsMarket
BY Inductive, PTL DEF IInv

\* For any number of legs and arbs in flight: what fire_arb returns is whole,
\* empty, or has had a sell attempted for every leg that filled.
THEOREM BrokenArbsAreReverted == Spec => []BrokenArbIsReverted
BY Inductive, PTL DEF IInv

==============================================================================
