--------------------------- MODULE LimSocketProofs ---------------------------
(***************************************************************************)
(* LimSocket for any slugs, limits and faults: its types, and that no      *)
(* change of a book is lost on its way to the callback.                    *)
(***************************************************************************)
EXTENDS LimSocket, TLAPS

------------------------------------------------------------------------------
\* The inductive invariant

\* The exchange counts a slug's versions no faster than its pushes; a
\* connection that is gone has taken the claim of order events with it; and
\* the service, which has no library that reconnects, has one only while it
\* watches it.
Counted == \A s \in Traded : latest[s] <= pushes
GoneIsUntold == link = "down" => ~told
OneWatched == kind = "service" /\ sup # "watching" => link = "down"

IInv == TypeOK /\ Counted /\ GoneIsUntold /\ OneWatched /\ NothingLost

\* What the proofs need of the constants.
LEMMA Limits ==
  /\ Kinds \subseteq {"market", "service"} /\ Traded \subseteq Slugs
  /\ MaxFails \in Nat /\ Attempts \in Nat /\ MaxFaults \in Nat
  /\ MaxUpdates \in Nat /\ MaxPushes \in Nat
BY LimSocketAssumption

\* A client that has just been made has nothing pending.
LEMMA InitIInv == ASSUME Init PROVE IInv
<1> USE Limits DEF Init
<1>1. TypeOK
  <2>1. orders \in BOOLEAN
    OBVIOUS
  <2>2. lib \in 0..Attempts
    OBVIOUS
  <2>3. connected \in BOOLEAN /\ told \in BOOLEAN /\ ~told
    OBVIOUS
  <2>4. /\ kind \in Kinds /\ desired = {} /\ link = "down" /\ server = {} /\ sup = "top"
        /\ fails = 0 /\ lib = 0
    OBVIOUS
  <2>5. /\ pc \in [Threads -> {"off"}] /\ naming \in [Threads -> {{}}]
        /\ latest \in [Traded -> {0}] /\ book \in [Traded -> {Gone}] /\ seen \in [Traded -> {Gone}]
        /\ pushed = {} /\ marking = {} /\ dirty = {} /\ batch = {}
        /\ faults = 0 /\ updates = 0 /\ pushes = 0
    OBVIOUS
  <2> HIDE DEF Init
  <2>6. QED
    BY <2>1, <2>2, <2>3, <2>4, <2>5 DEF TypeOK, Threads
<1>2. Counted /\ GoneIsUntold /\ OneWatched
  BY DEF Counted, GoneIsUntold, OneWatched
<1>3. NothingLost
  BY DEF NothingLost
<1>4. QED
  BY <1>1, <1>2, <1>3 DEF IInv

------------------------------------------------------------------------------
\* The steps, by what they touch

\* The supervisor, the library and the faults move the connection only.
LEMMA ConnectionStep ==
  ASSUME IInv,
         Begin \/ ConnectSucceeds \/ AlreadyConnected \/ Watch \/ Ended \/ Rested
         \/ ConnectFails \/ ConnectThrows \/ LibReconnects \/ LibFails \/ Drop \/ Hush
  PROVE  IInv'
<1> USE DEF data, bounds, link_, super, threads, Mishap, Elsewhere
<1>1. NothingLost' /\ Counted'
  BY DEF IInv, Counted, NothingLost, Quiet, Begin, ConnectSucceeds, AlreadyConnected, Watch, Ended,
         Rested, ConnectFails, ConnectThrows, LibReconnects, LibFails, Drop, Hush
<1>2. GoneIsUntold'
  BY DEF IInv, TypeOK, GoneIsUntold, Begin, ConnectSucceeds, AlreadyConnected, Watch, Ended,
         Rested, ConnectFails, ConnectThrows, LibReconnects, LibFails, Drop, Hush, Open, Close
<1>3. TypeOK'
  <2> USE Limits DEF IInv, TypeOK, GoneIsUntold, OneWatched, Threads
  <2>1. CASE Begin
    <3>1. orders' \in BOOLEAN
      BY <2>1 DEF Begin
    <3>2. lib' \in 0..Attempts
      BY <2>1 DEF Begin
    <3>3. kind = "service" => lib' = 0 /\ fails' = 0
      BY <2>1 DEF Begin
    <3>4. QED
      BY <2>1, <3>1, <3>2, <3>3 DEF Begin
  <2>2. CASE ConnectSucceeds
    BY <2>2 DEF ConnectSucceeds, Open
  <2>3. CASE AlreadyConnected
    <3>1. orders' \in BOOLEAN
      BY <2>3 DEF AlreadyConnected
    <3>2. lib' \in 0..Attempts
      BY <2>3 DEF AlreadyConnected
    <3>3. kind = "service" => lib' = 0 /\ fails' = 0
      BY <2>3 DEF AlreadyConnected
    <3>4. QED
      BY <2>3, <3>1, <3>2, <3>3 DEF AlreadyConnected
  <2>4. CASE Watch
    <3>1. orders' \in BOOLEAN
      BY <2>4 DEF Watch, Close
    <3>2. lib' \in 0..Attempts
      BY <2>4 DEF Watch, Close
    <3>3. kind = "service" => lib' = 0 /\ fails' = 0
      BY <2>4 DEF Watch, Close
    <3>4. connected' \in BOOLEAN /\ told' \in BOOLEAN /\ ~told'
      <4>1. connected' \in BOOLEAN
        BY <2>4 DEF Watch, Close
      <4>2. ~told'
        BY <2>4, Zenon DEF Watch, Close
      <4>3. told' \in BOOLEAN
        BY <2>4 DEF Watch, Close
      <4>4. QED
        BY <4>1, <4>2, <4>3
    <3>5. /\ link' = "down" /\ server' = {} /\ sup' \in {sup, "ended"} /\ fails' = fails
          /\ faults' \in 0..MaxFaults
          /\ UNCHANGED <<kind, desired, threads, data, updates, pushes>>
      BY <2>4 DEF Watch, Close
    <3>6. QED
      BY <3>1, <3>2, <3>3, <3>4, <3>5
  <2>5. CASE Ended
    BY <2>5 DEF Ended
  <2>6. CASE Rested
    <3>1. orders' \in BOOLEAN
      BY <2>6 DEF Rested
    <3>2. lib' \in 0..Attempts
      BY <2>6 DEF Rested
    <3>3. kind = "service" => lib' = 0 /\ fails' = 0
      BY <2>6 DEF Rested
    <3>4. QED
      BY <2>6, <3>1, <3>2, <3>3 DEF Rested
  <2>7. CASE ConnectFails
    BY <2>7 DEF ConnectFails
  <2>8. CASE ConnectThrows
    BY <2>8 DEF ConnectThrows
  <2>9. CASE LibReconnects
    <3>1. orders' \in BOOLEAN
      BY <2>9 DEF LibReconnects, Open
    <3>2. lib' \in 0..Attempts
      BY <2>9 DEF LibReconnects, Open
    <3>3. kind = "service" => lib' = 0 /\ fails' = 0
      BY <2>9 DEF LibReconnects, Open
    <3>4. QED
      BY <2>9, <3>1, <3>2, <3>3 DEF LibReconnects, Open
  <2>10. CASE LibFails
    BY <2>10 DEF LibFails
  <2>11. CASE Drop
    <3>1. orders' \in BOOLEAN
      BY <2>11 DEF Drop, Close
    <3>2. lib' \in 0..Attempts
      BY <2>11 DEF Drop, Close
    <3>3. kind = "service" => lib' = 0 /\ fails' = 0
      BY <2>11 DEF Drop, Close
    <3>4. connected' \in BOOLEAN /\ told' \in BOOLEAN /\ ~told'
      BY <2>11 DEF Drop, Close
    <3>5. /\ link' = "down" /\ server' = {} /\ sup' \in {sup, "ended"} /\ fails' = fails
          /\ faults' \in 0..MaxFaults
          /\ UNCHANGED <<kind, desired, threads, data, updates, pushes>>
      BY <2>11 DEF Drop, Close
    <3>6. QED
      BY <3>1, <3>2, <3>3, <3>4, <3>5
  <2>12. CASE Hush
    BY <2>12 DEF Hush
  <2>13. QED
    BY <2>1, <2>2, <2>3, <2>4, <2>5, <2>6, <2>7, <2>8, <2>9, <2>10, <2>11, <2>12
<1>4. OneWatched'
  <2> USE DEF IInv, TypeOK, OneWatched
  <2>1. CASE Begin
    BY <2>1 DEF Begin
  <2>2. CASE ConnectSucceeds
    BY <2>2 DEF ConnectSucceeds, Open
  <2>3. CASE AlreadyConnected
    BY <2>3 DEF AlreadyConnected
  <2>4. CASE Watch
    BY <2>4 DEF Watch, Close
  <2>5. CASE Ended
    BY <2>5 DEF Ended
  <2>6. CASE Rested
    BY <2>6 DEF Rested
  <2>7. CASE ConnectFails
    BY <2>7 DEF ConnectFails
  <2>8. CASE ConnectThrows
    BY <2>8 DEF ConnectThrows
  <2>9. CASE LibReconnects
    BY <2>9 DEF LibReconnects, Open
  <2>10. CASE LibFails
    BY <2>10 DEF LibFails
  <2>11. CASE Drop
    BY <2>11 DEF Drop, Close
  <2>12. CASE Hush
    BY <2>12 DEF Hush
  <2>13. QED
    BY <2>1, <2>2, <2>3, <2>4, <2>5, <2>6, <2>7, <2>8, <2>9, <2>10, <2>11, <2>12
<1>5. QED
  BY <1>1, <1>2, <1>3, <1>4 DEF IInv

\* A change of the set takes books off; nothing has to be read of those.
LEMMA UpdateStep ==
  ASSUME IInv, NEW new \in SUBSET Slugs, Update(new)
  PROVE  IInv'
<1> USE Limits DEF IInv, Threads, Update, link_, super
<1>1. TypeOK' /\ Counted' /\ GoneIsUntold' /\ OneWatched'
  BY DEF TypeOK, Counted, GoneIsUntold, OneWatched
<1>2. NothingLost'
  BY DEF TypeOK, NothingLost, Quiet
<1>3. QED
  BY <1>1, <1>2

\* The threads that subscribe leave the books alone.
LEMMA SubscribeStep ==
  ASSUME IInv,
         HandlerStarts \/ SubscribeOrders \/ \E th \in Threads : SyncReads(th) \/ SyncEmits(th)
  PROVE  IInv'
<1> USE Limits DEF IInv, Threads, data, bounds, link_, super, Elsewhere
<1>1. NothingLost'
  BY DEF NothingLost, Quiet, HandlerStarts, SubscribeOrders, SyncReads, SyncEmits
<1>2. CASE HandlerStarts
  BY <1>1, <1>2 DEF HandlerStarts, TypeOK, Counted, GoneIsUntold, OneWatched
<1>3. CASE SubscribeOrders
  BY <1>1, <1>3 DEF SubscribeOrders, TypeOK, Counted, GoneIsUntold, OneWatched
<1>4. ASSUME NEW th \in Threads, SyncReads(th) PROVE IInv'
  BY <1>1, <1>4 DEF SyncReads, After, TypeOK, Counted, GoneIsUntold, OneWatched
<1>5. ASSUME NEW th \in Threads, SyncEmits(th) PROVE IInv'
  BY <1>1, <1>5 DEF SyncEmits, After, TypeOK, Counted, GoneIsUntold, OneWatched
<1>6. QED
  BY <1>2, <1>3, <1>4, <1>5

\* A book's change is handed on: stored and marked, dirty, in a batch, read.
LEMMA BookStep ==
  ASSUME IInv,
         \/ \E s \in Traded : Push(s) \/ Mark(s) \/ CallBack(s)
         \/ \E p \in pushed : Store(p)
         \/ Flush
  PROVE  IInv'
<1> USE Limits
    DEF IInv, Threads, link_, super, threads, bounds, Outside, TypeOK, Counted, GoneIsUntold, OneWatched
<1>1. ASSUME NEW s \in Traded, Push(s) PROVE IInv'
  <2>1. latest[s] + 1 \in 1..MaxPushes
    BY <1>1 DEF Push
  <2>2. latest' \in [Traded -> 0..MaxPushes] /\ pushed' \subseteq Traded \X (1..MaxPushes)
    BY <1>1, <2>1 DEF Push
  <2>3. NothingLost'
    BY <1>1 DEF Push, NothingLost, Quiet
  <2>4. QED
    BY <1>1, <2>2, <2>3 DEF Push
<1>2. ASSUME NEW s \in Traded, Mark(s) PROVE IInv'
  BY <1>2 DEF Mark, NothingLost, Quiet
<1>3. ASSUME NEW s \in Traded, CallBack(s) PROVE IInv'
  BY <1>3 DEF CallBack, NothingLost, Quiet
<1>4. ASSUME NEW p \in pushed, Store(p) PROVE IInv'
  <2>1. p[1] \in Traded /\ p[2] \in 1..MaxPushes
    BY <1>4
  <2>2. QED
    BY <1>4, <2>1 DEF Store, NothingLost, Quiet
<1>5. CASE Flush
  BY <1>5 DEF Flush, NothingLost, Quiet
<1>6. QED
  BY <1>1, <1>2, <1>3, <1>4, <1>5

\* Every step of a client, the library, the service and the callback keeps it.
LEMMA NextIInv == ASSUME IInv, [Next]_vars PROVE IInv'
<1>1. CASE Supervise \/ ConnectFails \/ ConnectThrows \/ LibReconnects \/ LibFails \/ Drop \/ Hush
  BY <1>1, ConnectionStep DEF Supervise
<1>2. CASE \E new \in SUBSET Slugs : Update(new)
  BY <1>2, UpdateStep
<1>3. CASE Handle \/ Sync
  BY <1>3, SubscribeStep DEF Handle, Sync, Threads
<1>4. CASE \/ \E s \in Traded : Push(s) \/ Mark(s) \/ CallBack(s)
           \/ \E p \in pushed : Store(p)
           \/ Flush
  BY <1>4, BookStep
<1>5. CASE UNCHANGED vars
  BY <1>5 DEF vars, link_, super, threads, data, bounds, IInv, TypeOK, Counted, GoneIsUntold, OneWatched,
              NothingLost, Quiet
<1>6. QED
  BY <1>1, <1>2, <1>3, <1>4, <1>5 DEF Next

------------------------------------------------------------------------------
\* The results

\* In every state the inductive invariant holds.
THEOREM Inductive == Spec => []IInv
BY InitIInv, NextIInv, PTL DEF Spec

\* The types, and that the client claims order events only on a connection
\* whose exchange sends them.
THEOREM TypeCorrect == Spec => []TypeOK
<1>1. IInv => TypeOK
  BY DEF IInv
<1>2. QED
  BY <1>1, Inductive, PTL

\* However message threads, the coalescer and changes of the set interleave, a
\* book for which nothing is pending is the one the callback has read.
THEOREM NoChangeIsLost == Spec => []NothingLost
<1>1. IInv => NothingLost
  BY DEF IInv
<1>2. QED
  BY <1>1, Inductive, PTL

==============================================================================
