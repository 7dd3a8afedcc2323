------------------------------ MODULE FeedProofs ------------------------------
(***************************************************************************)
(* What the radar is fed and what it shows, each on its own specification: *)
(* the asks PolySocket keeps and the rows of the Board.                    *)
(***************************************************************************)
EXTENDS PolySocket, Board, WellFoundedInduction, TLAPS

------------------------------------------------------------------------------
(***************************************************************************)
(* PolySocket, for any tokens, prices, back-offs and faults: its types, and *)
(* that the radar evaluates no ask that was cancelled.                     *)
(***************************************************************************)

------------------------------------------------------------------------------
\* Least prices

\* Some asks have a best one.
LEMMA LeastOne ==
  ASSUME NEW L \in SUBSET Nat, L # {}
  PROVE  Min(L) \in L /\ \A x \in L : Min(L) <= x
<1> DEFINE R == {ss \in Nat \X Nat : ss[1] < ss[2]}
<1>1. IsWellFoundedOn(R, Nat)
  BY NatLessThanWellFounded DEF OpToRel
<1>2. PICK n \in L : \A m \in L : ~(<<m, n>> \in R)
  <2> HIDE DEF R
  <2>1. QED
    BY <1>1, WFMin
<1>3. ASSUME NEW m \in L, m < n PROVE FALSE
  <2>1. <<m, n>> \in Nat \X Nat /\ <<m, n>>[1] = m /\ <<m, n>>[2] = n
    OBVIOUS
  <2>2. <<m, n>> \in R
    BY <1>3, <2>1
  <2> HIDE DEF R
  <2>3. QED
    BY <1>2, <2>2
<1>4. \A m \in L : n <= m
  <2> HIDE DEF R
  <2>1. QED
    BY <1>3
<1>5. QED
  <2> HIDE DEF R
  <2>1. QED
    BY <1>4 DEF Min

\* What the proofs need of the constants.
LEMMA Limits ==
  /\ Kinds \subseteq {"market", "user", "service"}
  /\ None \notin Tokens /\ Traded \subseteq Tokens
  /\ Prices \subseteq Nat /\ \A p \in Prices : p > 0
  /\ MaxFaults \in Nat /\ MaxUpdates \in Nat /\ MaxMoves \in Nat
BY PolySocketAssumption

\* The best of some asks is one of them and no worse than any, and of none it
\* is no ask.
LEMMA BestOne ==
  ASSUME NEW L \in SUBSET Prices
  PROVE  /\ Best(L) \in Prices \cup {NoAsk}
         /\ Best(L) \in Nat
         /\ L # {} => Best(L) \in L /\ Best(L) = Min(L) /\ \A x \in L : Best(L) <= x
<1>1. CASE L = {}
  BY <1>1 DEF Best, NoAsk
<1>2. CASE L # {}
  <2>1. L \in SUBSET Nat
    BY Limits
  <2>2. Min(L) \in L /\ \A x \in L : Min(L) <= x
    BY <1>2, <2>1, LeastOne
  <2>3. QED
    BY <1>2, <2>1, <2>2 DEF Best
<1>3. QED
  BY <1>1, <1>2

\* A change of the asks leaves a book that was no better than the exchange no
\* better than it.
LEMMA DeltaIsReal ==
  ASSUME NEW old \in SUBSET Prices, NEW new \in SUBSET Prices,
         NEW cur \in Prices \cup {Gone, NoAsk}
  PROVE  LET ask == AfterDelta(cur, new \ old, old \ new)
         IN /\ ask \in Prices \cup {Gone, NoAsk}
            /\ cur \in {Gone, NoAsk} \/ (old # {} /\ cur >= Best(old))
                 => ask \in {Gone, NoAsk} \/ (new # {} /\ ask >= Best(new))
<1> DEFINE adds == new \ old
           cancels == old \ new
           ask == AfterDelta(cur, adds, cancels)
<1>1. Prices \subseteq Nat /\ \A p \in Prices : p > 0
  BY Limits
<1>2. adds # {} => Min(adds) \in adds
  BY BestOne
<1>3. new # {} => Best(new) \in new /\ \A x \in new : Best(new) <= x
  BY BestOne
<1>4. old # {} => Best(old) \in old /\ \A x \in old : Best(old) <= x
  BY BestOne
<1>5. CASE cur > NoAsk /\ \E p \in cancels : p <= cur
  BY <1>5 DEF AfterDelta
<1>6. CASE /\ ~(cur > NoAsk /\ \E p \in cancels : p <= cur)
           /\ adds # {} /\ (cur <= NoAsk \/ Min(adds) <= cur)
  <2>1. ask = Min(adds)
    BY <1>6 DEF AfterDelta
  <2>2. ask \in new /\ ask \in Prices
    BY <1>2, <1>6, <2>1
  <2>3. QED
    BY <1>1, <1>3, <2>2
<1>7. CASE /\ ~(cur > NoAsk /\ \E p \in cancels : p <= cur)
           /\ ~(adds # {} /\ (cur <= NoAsk \/ Min(adds) <= cur))
  <2>1. ask = cur
    BY <1>7 DEF AfterDelta
  <2>2. ASSUME cur \notin {Gone, NoAsk}, old # {}, cur >= Best(old)
        PROVE  new # {} /\ cur >= Best(new)
    <3>1. cur \in Prices /\ cur > NoAsk
      BY <1>1, <2>2 DEF NoAsk
    <3>2. Best(old) \in new
      BY <1>4, <1>7, <2>2, <3>1
    <3>3. Best(new) \in Nat /\ Best(old) \in Nat /\ Best(new) <= Best(old)
      BY <1>1, <1>3, <3>2
    <3>4. QED
      BY <1>1, <2>2, <3>1, <3>2, <3>3
  <2>3. QED
    BY <2>1, <2>2
<1>8. QED
  BY <1>5, <1>6, <1>7

\* A delay is an entry of the schedule.
LEMMA DelayIsListed == ASSUME attempts \in Nat PROVE Delay \in Nat
<1>1. Backoff \in Seq(Nat) /\ Backoff # <<>> /\ Len(Backoff) \in Nat \ {0}
  BY PolySocketAssumption
<1>2. \A i \in 1..Len(Backoff) : Backoff[i] \in Nat
  BY <1>1
<1> DEFINE low == Min({attempts, Len(Backoff)})
<1>3. low \in {attempts, Len(Backoff)} /\ low <= Len(Backoff)
  <2>1. {attempts, Len(Backoff)} \in SUBSET Nat /\ {attempts, Len(Backoff)} # {}
    BY <1>1
  <2>2. QED
    BY <2>1, LeastOne
<1> HIDE DEF low
<1>4. Max({1, low}) \in 1..Len(Backoff)
  <2>1. \E x \in {1, low} : \A y \in {1, low} : x >= y
    BY <1>1, <1>3
  <2>2. Max({1, low}) \in {1, low} /\ \A y \in {1, low} : Max({1, low}) >= y
    BY <2>1 DEF Max
  <2>3. QED
    BY <1>1, <1>3, <2>2
<1>5. QED
  BY <1>1, <1>2, <1>4 DEF Delay, low
------------------------------------------------------------------------------
\* The inductive invariant

\* A book that has been told everything is no better than the exchange, and a
\* book for which nothing is pending is the one that was evaluated last.
BookIsReal ==
  \A t \in fresh : book[t] \in {Gone, NoAsk} \/ (levels[t] # {} /\ book[t] >= Best(levels[t]))
SeenIsBook == \A t \in Traded : Quiet(t) => book[t] = Gone \/ seen[t] = book[t]

PolyInv == PolyTypeOK /\ BookIsReal /\ SeenIsBook

\* A client that has just been made keeps no book and asks for nothing.
LEMMA InitPolyInv == ASSUME PolyInit PROVE PolyInv
<1> USE Limits DEF PolyInit
<1>1. levels \in [Traded -> SUBSET Prices]
  OBVIOUS
<1>2. PolyTypeOK
  <2>1. kind \in Kinds /\ desired = {} /\ sup = "top" /\ asked = {} /\ server = {}
    OBVIOUS
  <2>2. /\ book \in [Traded -> {Gone}] /\ seen \in [Traded -> {Gone}] /\ fresh = {}
        /\ marking = None /\ dirty = {} /\ batch = {}
    OBVIOUS
  <2>3. attempts = 0 /\ wait = 0 /\ faults = 0 /\ updates = 0 /\ moves = 0
    OBVIOUS
  <2>4. retired \in BOOLEAN /\ silent \in BOOLEAN /\ barred \in BOOLEAN /\ ~silent /\ ~barred
    OBVIOUS
  <2> HIDE DEF PolyInit
  <2>5. QED
    BY <1>1, <2>1, <2>2, <2>3, <2>4 DEF PolyTypeOK
<1>3. BookIsReal /\ SeenIsBook
  BY DEF BookIsReal, SeenIsBook
<1>4. QED
  BY <1>2, <1>3 DEF PolyInv

\* A supervisor's step, and the faults, leave the books as they are; a
\* connection that is lost has told nothing.
LEMMA LinkStep ==
  ASSUME PolyInv,
         Supervise \/ CloseRetired \/ Watchdog \/ Drop \/ Hush \/ AuthError
  PROVE  PolyInv'
<1> USE Limits
    DEF data, bounds, link, Lose, Keep, Stay, Rest, Mishap, Supervise
<1>1. UNCHANGED <<levels, book, marking, dirty, batch, seen>> /\ fresh' \in {fresh, {}}
  BY DEF Connect, ReadDesired, Send, Pause, Wake, Admit, CloseRetired, Watchdog, Drop, Hush,
         AuthError
<1>2. BookIsReal' /\ SeenIsBook'
  BY <1>1 DEF PolyInv, BookIsReal, SeenIsBook, Quiet
<1>3. PolyTypeOK'
  <2> USE DEF PolyInv, PolyTypeOK
  <2>1. CASE Connect
    BY <2>1 DEF Connect
  <2>2. CASE ReadDesired
    BY <2>2 DEF ReadDesired
  <2>3. CASE Send
    BY <2>3 DEF Send, Opened
  <2>4. CASE Pause
    BY <2>4, DelayIsListed DEF Pause
  <2>5. CASE Wake
    BY <2>5 DEF Wake
  <2>6. CASE Admit
    BY <2>6 DEF Admit
  <2>7. CASE CloseRetired \/ Drop \/ AuthError
    <3>1. retired' \in BOOLEAN
      BY <2>7 DEF CloseRetired, Drop, AuthError
    <3>2. silent' \in BOOLEAN
      BY <2>7 DEF CloseRetired, Drop, AuthError
    <3>3. barred' \in BOOLEAN /\ (barred' => kind = "service")
      <4>1. CASE CloseRetired \/ Drop
        BY <4>1 DEF CloseRetired, Drop
      <4>2. CASE AuthError
        BY <4>2 DEF AuthError
      <4>3. QED
        BY <2>7, <4>1, <4>2
    <3>4. /\ sup' \in {"top", "connecting", "reading", "open", "down", "backoff", "stopped"}
          /\ sup' # "open" => server' = {} /\ ~silent'
          /\ sup' = "open" => sup = "open"
          /\ server' \subseteq Tokens /\ fresh' \subseteq server'
      BY <2>7 DEF CloseRetired, Drop, AuthError
    <3>5. faults' \in 0..MaxFaults
      BY <2>7 DEF CloseRetired, Drop, AuthError
    <3>6. UNCHANGED <<kind, desired, asked, attempts, wait, levels, book, marking, dirty, batch,
                      seen, updates, moves>>
      BY <2>7 DEF CloseRetired, Drop, AuthError
    <3>7. /\ sup' # "open" => server' = {} /\ ~silent'
          /\ sup' = "open" => attempts' = 0
      BY <3>4, <3>6
    <3>8. barred' => kind' = "service"
      BY <3>3, <3>6
    <3>9. /\ levels' \in [Traded -> SUBSET Prices]
          /\ book' \in [Traded -> Prices \cup {Gone, NoAsk}]
          /\ seen' \in [Traded -> Prices \cup {Gone, NoAsk}]
          /\ fresh' \subseteq Traded /\ dirty' \subseteq Traded /\ batch' \subseteq Traded
          /\ marking' \in Traded \cup {None}
      BY <1>1, <3>6
    <3>10. /\ kind' \in Kinds /\ desired' \subseteq Tokens /\ asked' \subseteq Tokens
           /\ attempts' \in Nat /\ wait' \in Nat
           /\ updates' \in 0..MaxUpdates /\ moves' \in 0..MaxMoves
      BY <3>6
    <3>11. QED
      BY <3>1, <3>2, <3>3, <3>4, <3>5, <3>7, <3>8, <3>9, <3>10
  <2>8. CASE Watchdog
    BY <2>8 DEF Watchdog
  <2>9. CASE Hush
    BY <2>9 DEF Hush
  <2>10. QED
    BY <2>1, <2>2, <2>3, <2>4, <2>5, <2>6, <2>7, <2>8, <2>9
<1>4. QED
  BY <1>2, <1>3 DEF PolyInv

\* A change of the set takes books off.
LEMMA UpdateStep ==
  ASSUME PolyInv, NEW new \in SUBSET Tokens, Update(new)
  PROVE  PolyInv'
<1> USE Limits DEF PolyInv, Update, Lose, Keep
<1>1. PolyTypeOK'
  <2> USE DEF PolyTypeOK
  <2>1. retired' \in BOOLEAN
    OBVIOUS
  <2>2. silent' \in BOOLEAN
    OBVIOUS
  <2>3. /\ sup' \in {"top", "connecting", "reading", "open", "down", "backoff", "stopped"}
        /\ sup' # "open" => server' = {} /\ ~silent'
        /\ sup' = "open" => sup = "open"
        /\ server' \subseteq Tokens /\ fresh' \subseteq server'
    OBVIOUS
  <2>4. desired' \subseteq Tokens /\ updates' \in 0..MaxUpdates
    OBVIOUS
  <2>5. book' \in [Traded -> Prices \cup {Gone, NoAsk}]
    OBVIOUS
  <2>6. UNCHANGED <<kind, asked, attempts, wait, barred, levels, marking, dirty, batch, seen,
                    faults, moves>>
    OBVIOUS
  <2>7. QED
    BY <2>1, <2>2, <2>3, <2>4, <2>5, <2>6
<1>2. BookIsReal' /\ SeenIsBook'
  BY DEF PolyTypeOK, BookIsReal, SeenIsBook, Quiet
<1>3. QED
  BY <1>1, <1>2

\* A change of the asks, heard or not.
LEMMA MoveStep ==
  ASSUME PolyInv, NEW t \in Traded, NEW new \in SUBSET Prices,
         PriceChange(t, new) \/ BestBidAsk(t, new) \/ MoveUnheard(t, new)
  PROVE  PolyInv'
<1> USE Limits DEF PolyInv, Move, link
<1>1. CASE PriceChange(t, new)
  <2> DEFINE ask == AfterDelta(book[t], new \ levels[t], levels[t] \ new)
  <2>1. book[t] \in Prices \cup {Gone, NoAsk} /\ levels[t] \in SUBSET Prices
    BY DEF PolyTypeOK
  <2>2. /\ ask \in Prices \cup {Gone, NoAsk}
        /\ book[t] \in {Gone, NoAsk} \/ (levels[t] # {} /\ book[t] >= Best(levels[t]))
             => ask \in {Gone, NoAsk} \/ (new # {} /\ ask >= Best(new))
    BY <2>1, DeltaIsReal
  <2> HIDE DEF ask
  <2>3. /\ book' = [book EXCEPT ![t] = ask]
        /\ (ask = book[t] /\ marking' = marking) \/ marking' = t
        /\ levels' = [levels EXCEPT ![t] = new] /\ marking = None
        /\ moves' \in 0..MaxMoves
        /\ UNCHANGED <<kind, link, fresh, dirty, batch, seen, faults, updates>>
    BY <1>1, <2>1 DEF PriceChange, Keeping, PolyTypeOK, ask
  <2>4. PolyTypeOK'
    BY <2>2, <2>3 DEF PolyTypeOK
  <2>5. BookIsReal'
    BY <2>2, <2>3 DEF PolyTypeOK, BookIsReal
  <2>6. SeenIsBook'
    BY <2>3 DEF PolyTypeOK, SeenIsBook, Quiet
  <2>7. QED
    BY <2>4, <2>5, <2>6
<1>2. CASE BestBidAsk(t, new)
  <2>1. Best(new) \in Prices \cup {NoAsk} /\ Best(new) >= Best(new)
        /\ (new # {} => Best(new) \in new)
    BY BestOne
  <2>2. PolyTypeOK'
    BY <1>2, <2>1 DEF BestBidAsk, Keeping, PolyTypeOK
  <2>3. BookIsReal'
    BY <1>2, <2>1 DEF BestBidAsk, Keeping, PolyTypeOK, BookIsReal
  <2>4. SeenIsBook'
    BY <1>2 DEF BestBidAsk, Keeping, PolyTypeOK, SeenIsBook, Quiet
  <2>5. QED
    BY <2>2, <2>3, <2>4
<1>3. CASE MoveUnheard(t, new)
  <2>1. PolyTypeOK'
    BY <1>3 DEF MoveUnheard, PolyTypeOK
  <2>2. BookIsReal' /\ SeenIsBook'
    BY <1>3 DEF MoveUnheard, PolyTypeOK, BookIsReal, SeenIsBook, Quiet
  <2>3. QED
    BY <2>1, <2>2
<1>4. QED
  BY <1>1, <1>2, <1>3

\* A snapshot, and a change's way to the callback.
LEMMA BookStep ==
  ASSUME PolyInv,
         MarkDirty \/ Flush \/ \E t \in Traded : Snapshot(t) \/ CallBack(t)
  PROVE  PolyInv'
<1> USE Limits DEF PolyInv, link, bounds
<1>1. CASE MarkDirty
  BY <1>1 DEF MarkDirty, PolyTypeOK, BookIsReal, SeenIsBook, Quiet
<1>2. CASE Flush
  BY <1>2 DEF Flush, PolyTypeOK, BookIsReal, SeenIsBook, Quiet
<1>3. ASSUME NEW t \in Traded, Snapshot(t) PROVE PolyInv'
  <2>1. levels[t] \in SUBSET Prices
    BY DEF PolyTypeOK
  <2>2. /\ Best(levels[t]) \in Prices \cup {NoAsk}
        /\ Best(levels[t]) >= Best(levels[t])
    BY <2>1, BestOne
  <2>3. PolyTypeOK'
    BY <1>3, <2>2 DEF Snapshot, Keeping, Told, PolyTypeOK
  <2>4. BookIsReal'
    BY <1>3, <2>2 DEF Snapshot, Keeping, PolyTypeOK, BookIsReal
  <2>5. SeenIsBook'
    BY <1>3 DEF Snapshot, Keeping, PolyTypeOK, SeenIsBook, Quiet
  <2>6. QED
    BY <2>3, <2>4, <2>5
<1>4. ASSUME NEW t \in Traded, CallBack(t) PROVE PolyInv'
  BY <1>4 DEF CallBack, PolyTypeOK, BookIsReal, SeenIsBook, Quiet
<1>5. QED
  BY <1>1, <1>2, <1>3, <1>4

\* Every step of a client, of its exchange and of the callback keeps the invariant.
LEMMA NextPolyInv == ASSUME PolyInv, [PolyNext]_polyVars PROVE PolyInv'
<1>1. CASE \E new \in SUBSET Tokens : Update(new)
  BY <1>1, UpdateStep
<1>2. CASE Supervise \/ CloseRetired \/ Watchdog \/ Drop \/ Hush \/ AuthError
  BY <1>2, LinkStep
<1>3. CASE \E t \in Traded, new \in SUBSET Prices :
             PriceChange(t, new) \/ BestBidAsk(t, new) \/ MoveUnheard(t, new)
  BY <1>3, MoveStep
<1>4. CASE MarkDirty \/ Flush \/ \E t \in Traded : Snapshot(t) \/ CallBack(t)
  BY <1>4, BookStep
<1>5. CASE UNCHANGED polyVars
  BY <1>5 DEF polyVars, link, data, bounds, PolyInv, PolyTypeOK, BookIsReal, SeenIsBook, Quiet
<1>6. QED
  BY <1>1, <1>2, <1>3, <1>4, <1>5 DEF PolyNext

\* What was evaluated is the book, and the book is no better than the exchange.
LEMMA RealBooksAreSeen == ASSUME PolyInv PROVE AskIsReal
<1> SUFFICES ASSUME NEW t \in fresh, Quiet(t), book[t] # Gone
             PROVE  seen[t] = NoAsk \/ (levels[t] # {} /\ seen[t] >= Min(levels[t]))
  BY DEF AskIsReal
<1>1. t \in Traded /\ levels[t] \in SUBSET Prices
  BY DEF PolyInv, PolyTypeOK
<1>2. seen[t] = book[t]
  BY <1>1 DEF PolyInv, SeenIsBook
<1>3. book[t] = NoAsk \/ (levels[t] # {} /\ book[t] >= Best(levels[t]))
  BY DEF PolyInv, BookIsReal
<1>4. QED
  BY <1>1, <1>2, <1>3, BestOne

------------------------------------------------------------------------------
\* The results

\* In every state the inductive invariant holds.
THEOREM PolyInductive == PolySpec => []PolyInv
BY InitPolyInv, NextPolyInv, PTL DEF PolySpec

\* The types, and that only an open connection has a set at the exchange and
\* starts the back-off anew.
THEOREM PolyTypeCorrect == PolySpec => []PolyTypeOK
<1>1. PolyInv => PolyTypeOK
  BY DEF PolyInv
<1>2. QED
  BY <1>1, PolyInductive, PTL

\* However deltas, snapshots, the coalescer and lost connections interleave,
\* the radar evaluates no ask better than the exchange's for a token that the
\* connection has told everything of.
THEOREM NoCancelledAsk == PolySpec => []AskIsReal
<1>1. PolyInv => AskIsReal
  BY RealBooksAreSeen
<1>2. QED
  BY <1>1, PolyInductive, PTL

------------------------------------------------------------------------------
(***************************************************************************)
(* Board, for any events, scans, loops and sockets: its types, and that no *)
(* arb has two rows on it.                                                 *)
(***************************************************************************)

Once(deals) == \A d, x \in deals : d.ev = x.ev /\ d.row = x.row => d = x

\* A scan reads disjoint chunks; its list grows beyond them only when the
\* pause scan extends the published list in place.
ScansReadOnce ==
  \A s \in Scans : /\ Once(found[s])
                   /\ scan[s] # "fire" => \A d \in found[s] : d.ev \in gathered[s]

\* The pause scan reads Polymarket first, then the rest.
ExtraOnce ==
  /\ Once(extra)
  /\ pause = "poly" => extra = {}
  /\ pause = "sx" => \A d \in extra : PlatformOf[d.ev] = "poly"

\* A micro loop has deals of its platform.
LoopsKeepToTheirs ==
  \A p \in Micros : /\ pool[p] \subseteq On(p)
                    /\ Once(micro[p].new)
                    /\ \A d \in micro[p].new : PlatformOf[d.ev] = p

\* A callback has deals of the event it was called for.
FeedsKeepToTheirs ==
  \A f \in Feeds : /\ index[f] \subseteq On(f)
                   /\ feed[f].evs \subseteq On(f)
                   /\ Once(feed[f].new)
                   /\ \A d \in feed[f].new : d.ev \in feed[f].evs

BoardInv ==
  /\ BoardTypeOK
  /\ OneRowPerArb
  /\ ScansReadOnce
  /\ ExtraOnce
  /\ LoopsKeepToTheirs
  /\ FeedsKeepToTheirs

------------------------------------------------------------------------------
\* Lemmas

\* Evaluating books finds at most one deal of each structure of an event.
LEMMA EvaluateOnce ==
  ASSUME market \in [Events -> Nat], NEW S \in SUBSET Events, NEW who \in {"radar", "pause"}
  PROVE  /\ Evaluate(S, who) \in DealSets
         /\ Once(Evaluate(S, who))
         /\ \A d \in Evaluate(S, who) : d.ev \in S
BY DEF Evaluate, DealSets, Deals, Once

\* Two lists without an arb in common make one without repetition.
LEMMA OnceTogether ==
  ASSUME NEW A, NEW B, Once(A), Once(B),
         \A d \in A, x \in B : d.ev # x.ev \/ d.row # x.row
  PROVE  Once(A \cup B)
BY DEF Once

\* What the board misses shares no arb with it.
LEMMA MissingIsNew ==
  ASSUME NEW deals
  PROVE  /\ Missing(deals) \subseteq deals
         /\ \A d \in board, x \in Missing(deals) : d.ev # x.ev \/ d.row # x.row
BY DEF Missing, Titles, RowTitle

\* A part of a board has no arb twice either.
LEMMA OnceOfPart ==
  ASSUME NEW A, NEW B \in SUBSET A, Once(A)
  PROVE  Once(B)
BY DEF Once

------------------------------------------------------------------------------
\* run_scan's steps

LEMMA StartScanKeeps ==
  ASSUME BoardInv, NEW s \in Scans, StartScan(s)
  PROVE  BoardInv'
BY NobodyAssumption
   DEF BoardInv, BoardTypeOK, OneRowPerArb, ScansReadOnce, ExtraOnce, LoopsKeepToTheirs,
       FeedsKeepToTheirs, Once, On, StartScan, At, pauseVars, LockFree, Running, Reading, DealSets

\* A chunk has events the scan has not had, each evaluated once.
LEMMA ReadChunkKeeps ==
  ASSUME BoardInv, NEW s \in Scans, NEW chunk \in SUBSET Unread(s), ReadChunk(s, chunk)
  PROVE  BoardInv'
<1> DEFINE new == Evaluate(chunk, "radar")
<1>0. chunk \in SUBSET Events /\ \A e \in chunk : e \notin gathered[s]
  BY DEF Unread, Listed
<1>1. /\ new \in DealSets
      /\ Once(new)
      /\ \A d \in new : d.ev \in chunk
  BY <1>0, EvaluateOnce DEF BoardInv, BoardTypeOK
<1>2. \A d \in found[s], x \in new : d.ev # x.ev
  BY <1>0, <1>1 DEF BoardInv, ScansReadOnce, Read, ReadPoly, ReadLim, ReadRest, ReadChunk
<1>3. Once(found[s] \cup new)
  BY <1>1, <1>2, OnceTogether DEF BoardInv, ScansReadOnce
<1>4. /\ scan[s] # "fire"
      /\ scan' \in [Scans -> {"idle", "fire"} \cup Running]
      /\ scan'[s] \in Running
      /\ \A x \in Scans \ {s} : scan'[x] = scan[x]
  BY DEF BoardInv, BoardTypeOK, ReadChunk, ReadPoly, ReadLim, ReadRest, Read, At, Running,
         Reading, Pushing
<1>5. /\ found' = [found EXCEPT ![s] = found[s] \cup new]
      /\ gathered' = [gathered EXCEPT ![s] = gathered[s] \cup chunk]
      /\ UNCHANGED <<market, board, scanning, pool, index, owner, pauseVars, micro, feed,
                     offered>>
  BY DEF ReadChunk, ReadPoly, ReadLim, ReadRest, Read
<1> HIDE DEF new
<1>6. BoardTypeOK'
  <2>1. /\ gathered' \in [Scans -> SUBSET Events]
        /\ found' \in [Scans -> DealSets]
    BY <1>0, <1>1, <1>5 DEF BoardInv, BoardTypeOK, DealSets
  <2>2. owner' # Nobody => scan'[owner'] = "fire" /\ found'[owner'] = board'
    BY <1>4, <1>5 DEF BoardInv, BoardTypeOK
  <2>3. scanning' => \E x \in Scans : scan'[x] \in Running
    BY <1>4
  <2> QED
    BY <1>4, <1>5, <2>1, <2>2, <2>3 DEF BoardInv, BoardTypeOK, pauseVars
<1>7. ScansReadOnce'
  BY <1>1, <1>3, <1>4, <1>5 DEF BoardInv, BoardTypeOK, ScansReadOnce, Running, Reading, Pushing
<1> QED
  BY <1>5, <1>6, <1>7
     DEF BoardInv, OneRowPerArb, ExtraOnce, LoopsKeepToTheirs, FeedsKeepToTheirs, Once, On,
         pauseVars

LEMMA EndPagesKeeps ==
  ASSUME BoardInv, NEW s \in Scans, EndPages(s)
  PROVE  BoardInv'
BY NobodyAssumption
   DEF BoardInv, BoardTypeOK, OneRowPerArb, ScansReadOnce, ExtraOnce, LoopsKeepToTheirs,
       FeedsKeepToTheirs, Once, On, EndPages, After, At, pauseVars, Running, Reading

\* A partial push replaces the events of the scan's own chunks.
LEMMA PushPartialKeeps ==
  ASSUME BoardInv, NEW s \in Scans, PushPartial(s)
  PROVE  BoardInv'
<1>1. /\ scan' \in [Scans -> {"idle", "fire"} \cup Running]
      /\ scan'[s] \in Running
      /\ scan[s] # "fire"
      /\ \A x \in Scans \ {s} : scan'[x] = scan[x]
  BY DEF BoardInv, BoardTypeOK, PushPartial, At, PlatformPushed, Running, Reading, Pushing
<1>2. /\ pool' \in [Micros -> SUBSET Events]
      /\ \A p \in Micros : pool'[p] \subseteq On(p)
  BY DEF BoardInv, BoardTypeOK, LoopsKeepToTheirs, PushPartial, On
<1>3. BoardTypeOK'
  BY <1>1, <1>2, NobodyAssumption DEF BoardInv, BoardTypeOK, PushPartial, Put, pauseVars, DealSets
<1> QED
  BY <1>1, <1>2, <1>3
     DEF BoardInv, OneRowPerArb, ScansReadOnce, ExtraOnce, LoopsKeepToTheirs,
         FeedsKeepToTheirs, Once, On, PushPartial, Put, pauseVars

LEMMA RebuildIndexKeeps ==
  ASSUME BoardInv, NEW s \in Scans, RebuildIndex(s)
  PROVE  BoardInv'
<1>1. BoardTypeOK'
  BY NobodyAssumption DEF BoardInv, BoardTypeOK, RebuildIndex, At, On, pauseVars, Running
<1> QED
  BY <1>1
     DEF BoardInv, BoardTypeOK, OneRowPerArb, ScansReadOnce, ExtraOnce, LoopsKeepToTheirs,
         FeedsKeepToTheirs, Once, On, RebuildIndex, At, pauseVars

\* The scan's list is put on the board as it is, each event once.
LEMMA PublishKeeps ==
  ASSUME BoardInv, NEW s \in Scans, Publish(s)
  PROVE  BoardInv'
<1>1. BoardTypeOK'
  BY NobodyAssumption DEF BoardInv, BoardTypeOK, Publish, At, LockFree, pauseVars, DealSets
<1> QED
  BY <1>1
     DEF BoardInv, BoardTypeOK, OneRowPerArb, ScansReadOnce, ExtraOnce, LoopsKeepToTheirs,
         FeedsKeepToTheirs, Once, On, Publish, At, pauseVars

\* Returning touches the scan's own variables and starts the pause scan.
LEMMA ReturnKeeps ==
  ASSUME BoardInv, NEW s \in Scans, Return(s)
  PROVE  /\ scan' = [scan EXCEPT ![s] = "idle"]
         /\ gathered' = [gathered EXCEPT ![s] = {}]
         /\ found' = [found EXCEPT ![s] = {}]
         /\ sxEnabled' = sxEnabled
         /\ extra' \in DealSets
         /\ pause' \in {"idle", "poly", "sx", "merge", "sorting"}
         /\ pause' \in {"sx", "sorting"} => (sxEnabled <=> pause' = "sx")
         /\ ExtraOnce'
BY DEF BoardInv, BoardTypeOK, ExtraOnce, Return, At, pauseVars, Once, DealSets

\* The scan lets go of what it carried.
LEMMA FireKeeps ==
  ASSUME BoardInv, NEW s \in Scans, Fire(s)
  PROVE  BoardInv'
<1>1. /\ scan' = [scan EXCEPT ![s] = "idle"]
      /\ gathered' = [gathered EXCEPT ![s] = {}]
      /\ found' = [found EXCEPT ![s] = {}]
      /\ ExtraOnce'
  BY ReturnKeeps DEF Fire
<1>2. offered' \subseteq Events \X Structures
  BY DEF BoardInv, BoardTypeOK, Fire, Offer, ListOf, DealSets, Deals
<1>3. /\ owner' \in Scans \cup {Nobody}
      /\ owner' # Nobody => owner' # s /\ owner' = owner
  BY DEF BoardInv, BoardTypeOK, Fire
<1>4. \A x \in Scans : scan[x] \in Running => x # s /\ scan'[x] = scan[x]
  BY <1>1 DEF BoardInv, BoardTypeOK, Fire, Running, Reading, Pushing
<1>5. BoardTypeOK'
  BY <1>1, <1>2, <1>3, <1>4, ReturnKeeps, NobodyAssumption DEF BoardInv, BoardTypeOK, Fire, DealSets
<1> QED
  BY <1>1, <1>5
     DEF BoardInv, BoardTypeOK, OneRowPerArb, ScansReadOnce, LoopsKeepToTheirs, FeedsKeepToTheirs,
         Once, On, Fire

LEMMA ScanErrorKeeps ==
  ASSUME BoardInv, NEW s \in Scans, ScanError(s)
  PROVE  BoardInv'
<1>1. /\ scan' = [scan EXCEPT ![s] = "idle"]
      /\ gathered' = [gathered EXCEPT ![s] = {}]
      /\ found' = [found EXCEPT ![s] = {}]
      /\ ExtraOnce'
  BY ReturnKeeps DEF ScanError
<1>2. owner # Nobody => owner # s
  BY DEF BoardInv, BoardTypeOK, ScanError, Running, Reading, Pushing
<1>3. BoardTypeOK'
  BY <1>1, <1>2, ReturnKeeps, NobodyAssumption DEF BoardInv, BoardTypeOK, ScanError, DealSets
<1> QED
  BY <1>1, <1>3
     DEF BoardInv, BoardTypeOK, OneRowPerArb, ScansReadOnce, LoopsKeepToTheirs, FeedsKeepToTheirs,
         Once, On, ScanError

------------------------------------------------------------------------------
\* run_pause_scan's steps

LEMMA PauseReadKeeps ==
  ASSUME BoardInv, NEW priced \in SUBSET Listed("pause"),
         \/ PausePoly(priced)
         \/ PauseSx(priced)
  PROVE  BoardInv'
<1> DEFINE new == Evaluate(priced, "pause")
<1>1. /\ new \in DealSets
      /\ Once(new)
      /\ \A d \in new : d.ev \in priced
  BY EvaluateOnce DEF BoardInv, BoardTypeOK, Listed
<1>2. /\ extra' = extra \cup new
      /\ extra' \in DealSets
      /\ sxEnabled' = sxEnabled
      /\ UNCHANGED <<market, board, scanning, pool, index, scanVars, owner, micro, feed, offered>>
  BY <1>1 DEF BoardInv, BoardTypeOK, PausePoly, PauseSx, PauseRead, DealSets
<1>3. /\ pause' \in {"sx", "merge"}
      /\ pause' = "sx" => sxEnabled /\ pause = "poly" /\ priced \subseteq On("poly")
      /\ pause = "poly" \/ (pause = "sx" /\ priced \subseteq On("rest"))
  BY DEF BoardInv, BoardTypeOK, PausePoly, PauseSx, PauseRead
<1>4. \A d \in extra, x \in new : d.ev # x.ev
  BY <1>1, <1>3 DEF BoardInv, ExtraOnce, On
<1>5. Once(extra')
  BY <1>1, <1>2, <1>4, OnceTogether DEF BoardInv, ExtraOnce
<1>6. ExtraOnce'
  BY <1>1, <1>2, <1>3, <1>5 DEF BoardInv, ExtraOnce, On
<1>7. BoardTypeOK'
  BY <1>2, <1>3 DEF BoardInv, BoardTypeOK, scanVars, DealSets
<1> QED
  BY <1>2, <1>6, <1>7
     DEF BoardInv, OneRowPerArb, ScansReadOnce, LoopsKeepToTheirs, FeedsKeepToTheirs, Once, On,
         scanVars

\* What the pause scan adds to the board is not there yet.
LEMMA ExtendedBoardIsOnce ==
  ASSUME BoardInv
  PROVE  /\ board \cup Missing(extra) \in DealSets
         /\ Once(board \cup Missing(extra))
<1>1. /\ Missing(extra) \subseteq extra
      /\ \A d \in board, x \in Missing(extra) : d.ev # x.ev \/ d.row # x.row
  BY MissingIsNew
<1>2. Once(Missing(extra))
  BY <1>1, OnceOfPart DEF BoardInv, ExtraOnce
<1>3. Once(board)
  BY DEF BoardInv, OneRowPerArb, Once
<1> QED
  BY <1>1, <1>2, <1>3, OnceTogether DEF BoardInv, BoardTypeOK, DealSets

\* The pause scan merges what it has read into the board.
LEMMA PauseMergeKeeps ==
  ASSUME BoardInv, PauseMerge
  PROVE  BoardInv'
<1>1. /\ board' \in DealSets
      /\ OneRowPerArb'
      /\ owner' = Nobody \/ (owner' = owner /\ board' = board)
  BY ExtendedBoardIsOnce DEF BoardInv, BoardTypeOK, OneRowPerArb, PauseMerge, Put, Once
<1>2. BoardTypeOK'
  BY <1>1, NobodyAssumption DEF BoardInv, BoardTypeOK, PauseMerge, scanVars, DealSets
<1> QED
  BY <1>1, <1>2
     DEF BoardInv, ScansReadOnce, ExtraOnce, LoopsKeepToTheirs, FeedsKeepToTheirs, Once, On,
         PauseMerge, scanVars

\* It appends only pages that have not been in the list it shares.
LEMMA PauseAppendKeeps ==
  ASSUME BoardInv, PauseAppend
  PROVE  BoardInv'
<1>1. /\ board' \in DealSets
      /\ Once(board')
      /\ found' = [s \in Scans |-> IF s = owner THEN board' ELSE found[s]]
  BY ExtendedBoardIsOnce DEF PauseAppend
<1>2. BoardTypeOK'
  BY <1>1, NobodyAssumption DEF BoardInv, BoardTypeOK, PauseAppend, DealSets
<1>3. ScansReadOnce'
  BY <1>1, NobodyAssumption DEF BoardInv, BoardTypeOK, ScansReadOnce, PauseAppend
<1> QED
  BY <1>1, <1>2, <1>3
     DEF BoardInv, OneRowPerArb, ExtraOnce, LoopsKeepToTheirs, FeedsKeepToTheirs, Once, On,
         PauseAppend

LEMMA PauseSortedKeeps ==
  ASSUME BoardInv, PauseSorted
  PROVE  BoardInv'
BY DEF BoardInv, BoardTypeOK, OneRowPerArb, ScansReadOnce, ExtraOnce, LoopsKeepToTheirs,
       FeedsKeepToTheirs, Once, On, PauseSorted, scanVars

------------------------------------------------------------------------------
\* The loops' and the callbacks' steps

LEMMA MicroReadKeeps ==
  ASSUME BoardInv, NEW p \in Micros, NEW priced \in SUBSET pool[p], MicroRead(p, priced)
  PROVE  BoardInv'
<1> DEFINE new == Evaluate(priced, "radar")
<1>1. /\ new \in DealSets
      /\ Once(new)
      /\ \A d \in new : d.ev \in priced
  BY EvaluateOnce DEF BoardInv, BoardTypeOK
<1>2. micro' = [micro EXCEPT ![p] = [at |-> "merge", new |-> new]]
  BY DEF MicroRead
<1>3. \A d \in new : PlatformOf[d.ev] = p
  BY <1>1 DEF BoardInv, LoopsKeepToTheirs, MicroRead, On
<1>4. BoardTypeOK'
  BY <1>1, <1>2 DEF BoardInv, BoardTypeOK, MicroRead, scanVars, pauseVars
<1>5. LoopsKeepToTheirs'
  BY <1>1, <1>2, <1>3 DEF BoardInv, BoardTypeOK, LoopsKeepToTheirs, MicroRead, On
<1> QED
  BY <1>4, <1>5
     DEF BoardInv, OneRowPerArb, ScansReadOnce, ExtraOnce, FeedsKeepToTheirs, Once, On,
         MicroRead, scanVars, pauseVars

\* A micro loop replaces its platform's rows by what it has read of them.
LEMMA MicroMergeKeeps ==
  ASSUME BoardInv, NEW p \in Micros, MicroMerge(p)
  PROVE  BoardInv'
<1> DEFINE kept == {d \in board : PlatformOf[d.ev] # p}
<1>1. /\ Once(kept)
      /\ Once(micro[p].new)
      /\ \A d \in kept, x \in micro[p].new : d.ev # x.ev
  BY DEF BoardInv, OneRowPerArb, LoopsKeepToTheirs, Once
<1>2. /\ board' = kept \cup micro[p].new
      /\ owner' = Nobody
      /\ micro' = [micro EXCEPT ![p] = IdleLoop]
  BY DEF MicroMerge, Put
<1>3. Once(board')
  BY <1>1, <1>2, OnceTogether
<1>4. board' \in DealSets
  BY <1>2 DEF BoardInv, BoardTypeOK, DealSets
<1>5. BoardTypeOK'
  BY <1>2, <1>4, NobodyAssumption
     DEF BoardInv, BoardTypeOK, MicroMerge, IdleLoop, scanVars, pauseVars, DealSets
<1>6. LoopsKeepToTheirs'
  BY <1>2 DEF BoardInv, BoardTypeOK, LoopsKeepToTheirs, MicroMerge, IdleLoop, Once, On
<1> QED
  BY <1>3, <1>5, <1>6
     DEF BoardInv, OneRowPerArb, ScansReadOnce, ExtraOnce, FeedsKeepToTheirs, Once, On,
         MicroMerge, scanVars, pauseVars

LEMMA FeedReadKeeps ==
  ASSUME BoardInv, NEW f \in Feeds, NEW e \in Events, FeedRead(f, e)
  PROVE  BoardInv'
<1> DEFINE new == Evaluate({e}, "radar")
<1>1. /\ new \in DealSets
      /\ Once(new)
      /\ \A d \in new : d.ev \in {e}
  BY EvaluateOnce DEF BoardInv, BoardTypeOK
<1>2. feed' = [feed EXCEPT ![f] = [at |-> "merge", evs |-> {e}, new |-> new]]
  BY DEF FeedRead
<1>3. BoardTypeOK'
  BY <1>1, <1>2 DEF BoardInv, BoardTypeOK, FeedRead, scanVars, pauseVars
<1>4. FeedsKeepToTheirs'
  <2>1. index' = index /\ e \in index[f] /\ index[f] \subseteq On(f)
    BY DEF BoardInv, FeedsKeepToTheirs, FeedRead
  <2>2. /\ feed'[f].evs = {e}
        /\ feed'[f].new = new
        /\ \A g \in Feeds \ {f} : feed'[g] = feed[g]
    BY <1>2 DEF BoardInv, BoardTypeOK
  <2> HIDE DEF new
  <2>3. SUFFICES ASSUME NEW g \in Feeds
                 PROVE  /\ index'[g] \subseteq On(g)
                        /\ feed'[g].evs \subseteq On(g)
                        /\ Once(feed'[g].new)
                        /\ \A d \in feed'[g].new : d.ev \in feed'[g].evs
    BY DEF FeedsKeepToTheirs, On, Once
  <2>4. CASE g = f
    BY <1>1, <2>1, <2>2, <2>4 DEF BoardInv, FeedsKeepToTheirs
  <2>5. CASE g # f
    BY <2>1, <2>2, <2>5 DEF BoardInv, FeedsKeepToTheirs
  <2> QED
    BY <2>4, <2>5
<1>5. UNCHANGED <<board, pool, scanVars, pauseVars, micro>>
  BY DEF FeedRead
<1>6. OneRowPerArb' /\ ScansReadOnce' /\ ExtraOnce'
  BY <1>5 DEF BoardInv, OneRowPerArb, ScansReadOnce, ExtraOnce, Once, scanVars, pauseVars
<1>7. LoopsKeepToTheirs'
  BY <1>5 DEF BoardInv, LoopsKeepToTheirs, Once, On
<1> QED
  BY <1>3, <1>4, <1>6, <1>7 DEF BoardInv

\* The rows of its title that a callback drops include those of its event.
LEMMA FeedMergeKeeps ==
  ASSUME BoardInv, NEW f \in Feeds, FeedMerge(f)
  PROVE  BoardInv'
<1> DEFINE kept == board \ SameRows(f, feed[f].evs)
<1>1. \A d \in kept, x \in feed[f].new : d.ev # x.ev
  BY DEF BoardInv, FeedsKeepToTheirs, SameRows, On
<1>2. Once(kept) /\ Once(feed[f].new)
  BY DEF BoardInv, OneRowPerArb, FeedsKeepToTheirs, Once
<1>3. /\ board' = kept \cup feed[f].new
      /\ owner' = Nobody
      /\ feed' = [feed EXCEPT ![f] = [feed[f] EXCEPT !.at = "fire"]]
  BY DEF FeedMerge, Put
<1>4. Once(board')
  BY <1>1, <1>2, <1>3, OnceTogether
<1>5. board' \in DealSets
  BY <1>3 DEF BoardInv, BoardTypeOK, DealSets
<1>6. BoardTypeOK'
  BY <1>3, <1>5, NobodyAssumption
     DEF BoardInv, BoardTypeOK, FeedMerge, scanVars, pauseVars
<1>7. FeedsKeepToTheirs'
  BY <1>3 DEF BoardInv, BoardTypeOK, FeedsKeepToTheirs, FeedMerge, Once, On
<1> QED
  BY <1>4, <1>6, <1>7
     DEF BoardInv, OneRowPerArb, ScansReadOnce, ExtraOnce, LoopsKeepToTheirs, Once, On,
         FeedMerge, scanVars, pauseVars

LEMMA FeedFireKeeps ==
  ASSUME BoardInv, NEW f \in Feeds, FeedFire(f)
  PROVE  BoardInv'
<1>1. offered' \subseteq Events \X Structures
  BY DEF BoardInv, BoardTypeOK, FeedFire, Offer, DealSets, Deals
<1>2. feed' = [feed EXCEPT ![f] = IdleFeed]
  BY DEF FeedFire
<1>3. BoardTypeOK'
  BY <1>1, <1>2 DEF BoardInv, BoardTypeOK, FeedFire, IdleFeed, scanVars, pauseVars, DealSets
<1>4. FeedsKeepToTheirs'
  BY <1>2 DEF BoardInv, BoardTypeOK, FeedsKeepToTheirs, FeedFire, IdleFeed, Once, On
<1> QED
  BY <1>3, <1>4
     DEF BoardInv, OneRowPerArb, ScansReadOnce, ExtraOnce, LoopsKeepToTheirs, Once, On,
         FeedFire, scanVars, pauseVars

\* A market that moves changes no row.
LEMMA MoveKeeps ==
  ASSUME BoardInv, NEW e \in Events, MarketMove(e)
  PROVE  BoardInv'
<1>1. market' \in [Events -> Nat]
  BY DEF BoardInv, BoardTypeOK, MarketMove
<1> QED
  BY <1>1
     DEF BoardInv, BoardTypeOK, OneRowPerArb, ScansReadOnce, ExtraOnce, LoopsKeepToTheirs,
         FeedsKeepToTheirs, Once, On, MarketMove, scanVars, pauseVars

------------------------------------------------------------------------------
\* The invariant

\* A board from disk has no arb twice, as some earlier run saved it.
LEMMA InitEstablishes == BoardInit => BoardInv
<1> SUFFICES ASSUME BoardInit
             PROVE  BoardInv
  OBVIOUS
<1>1. BoardTypeOK
  <2>1. IdleLoop \in [at : {"idle", "merge"}, new : DealSets]
    BY DEF IdleLoop, DealSets
  <2>2. IdleFeed \in [at : {"idle", "merge", "fire"}, evs : SUBSET Events, new : DealSets]
    BY DEF IdleFeed, DealSets
  <2>3. {} \in DealSets
    BY DEF DealSets
  <2>4. board \in DealSets
    <3>1. OldRows \subseteq Deals
      BY BoardAssumption DEF OldRows, Deals
    <3>2. QED
      BY <3>1 DEF BoardInit, Restored, DealSets
  <2> QED
    BY <2>1, <2>2, <2>3, <2>4, BoardAssumption DEF BoardInit, BoardTypeOK
<1>2. OneRowPerArb /\ ScansReadOnce /\ ExtraOnce
  BY DEF BoardInit, Restored, OneRowPerArb, ScansReadOnce, ExtraOnce, Once
<1>3. LoopsKeepToTheirs
  BY DEF BoardInit, LoopsKeepToTheirs, Once, IdleLoop
<1>4. FeedsKeepToTheirs
  BY DEF BoardInit, FeedsKeepToTheirs, Once, IdleFeed
<1> QED
  BY <1>1, <1>2, <1>3, <1>4 DEF BoardInv

LEMMA RunScanKeeps ==
  ASSUME BoardInv, NEW s \in Scans, RunScan(s)
  PROVE  BoardInv'
BY StartScanKeeps, ReadChunkKeeps, EndPagesKeeps, PushPartialKeeps, RebuildIndexKeeps,
   PublishKeeps, FireKeeps, ScanErrorKeeps DEF RunScan

LEMMA RunPauseScanKeeps ==
  ASSUME BoardInv, RunPauseScan
  PROVE  BoardInv'
<1>1. CASE \E priced \in SUBSET Listed("pause") : PausePoly(priced) \/ PauseSx(priced)
  BY <1>1, PauseReadKeeps
<1>2. CASE PauseMerge \/ PauseAppend \/ PauseSorted
  BY <1>2, PauseMergeKeeps, PauseAppendKeeps, PauseSortedKeeps
<1> QED
  BY <1>1, <1>2 DEF RunPauseScan

LEMMA StutterKeeps ==
  ASSUME BoardInv, UNCHANGED boardVars
  PROVE  BoardInv'
BY DEF BoardInv, BoardTypeOK, OneRowPerArb, ScansReadOnce, ExtraOnce, LoopsKeepToTheirs,
       FeedsKeepToTheirs, Once, On, boardVars, scanVars, pauseVars

\* Every step of every writer keeps the invariant.
LEMMA StepKeeps == BoardInv /\ [BoardNext]_boardVars => BoardInv'
<1> SUFFICES ASSUME BoardInv, [BoardNext]_boardVars
             PROVE  BoardInv'
  OBVIOUS
<1>1. CASE \E s \in Scans : RunScan(s)
  BY <1>1, RunScanKeeps
<1>2. CASE RunPauseScan
  BY <1>2, RunPauseScanKeeps
<1>3. CASE \E p \in Micros : \/ \E priced \in SUBSET pool[p] : MicroRead(p, priced)
                             \/ MicroMerge(p)
  BY <1>3, MicroReadKeeps, MicroMergeKeeps
<1>4. CASE \E f \in Feeds : \/ \E e \in Events : FeedRead(f, e)
                            \/ FeedMerge(f)
                            \/ FeedFire(f)
  BY <1>4, FeedReadKeeps, FeedMergeKeeps, FeedFireKeeps
<1>5. CASE \E e \in Events : MarketMove(e)
  BY <1>5, MoveKeeps
<1>6. CASE UNCHANGED boardVars
  BY <1>6, StutterKeeps
<1> QED
  BY <1>1, <1>2, <1>3, <1>4, <1>5, <1>6 DEF BoardNext

\* The board's types, and that a scan's list is the board's only between its
\* publishing and its firing.
THEOREM BoardTypeCorrect == BoardSpec => []BoardTypeOK
<1>1. BoardInit => BoardInv
  BY InitEstablishes
<1>2. BoardInv /\ [BoardNext]_boardVars => BoardInv'
  BY StepKeeps
<1>3. BoardInv => BoardTypeOK
  BY DEF BoardInv
<1> QED
  BY <1>1, <1>2, <1>3, PTL DEF BoardSpec

\* Whatever the writers of the board read and in whichever order they get the
\* lock, no arb has two rows on it: for any events, titles and structures.
THEOREM NoArbTwice == BoardSpec => []OneRowPerArb
<1>1. BoardInit => BoardInv
  BY InitEstablishes
<1>2. BoardInv /\ [BoardNext]_boardVars => BoardInv'
  BY StepKeeps
<1>3. BoardInv => OneRowPerArb
  BY DEF BoardInv
<1> QED
  BY <1>1, <1>2, <1>3, PTL DEF BoardSpec

==============================================================================
