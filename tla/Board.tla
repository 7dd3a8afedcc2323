------------------------------- MODULE Board -------------------------------
(****************************************************************************)
(* The deal board of the radar, scan_data in arb_server.py, and everything  *)
(* that writes it: run_scan and its partial pushes, the pause scan, the     *)
(* micro loops and the sockets' callbacks. Each writer reads books first    *)
(* and takes scan_lock later, so what it writes may be older than what it   *)
(* overwrites.                                                              *)
(*                                                                          *)
(* An event's books go through states, each offering arbs of some           *)
(* structures (ALL_YES, ALL_NO, the pair of one market); a deal is an arb   *)
(* of one structure at such a state, and its row's title is the event's     *)
(* with the structure's suffix.                                             *)
(****************************************************************************)
EXTENDS Naturals, Sequences, FiniteSets, FiniteSetsExt

CONSTANTS
  Events,        \* events the exchanges list
  PlatformOf,    \* the platform of each: "poly", "lim" or "rest" (SX, Kalshi)
  TitleOf,       \* their titles, which platforms may share
  PagesOf,       \* where they are listed: subsets of {"main", "pause"}
  Scans,         \* threads that may run run_scan
  Loop,          \* the one that scan_loop runs; the others are /api/scan
  Micros,        \* platforms with a micro loop
  Feeds,         \* platforms with a market-data socket
  Structures,    \* the ways to buy an event that a row can stand for
  Books,         \* bound: the states of each event's books in turn, each the
                 \* set of structures it offers
  First          \* the state they are in when the radar starts

Platforms == {"poly", "lim", "rest"}

ASSUME BoardAssumption ==
  /\ PlatformOf \in [Events -> Platforms]
  /\ DOMAIN TitleOf = Events
  /\ PagesOf \in [Events -> SUBSET {"main", "pause"}]
  /\ Loop \in Scans
  /\ Micros \subseteq Platforms
  /\ Feeds \subseteq {"poly", "lim"}
  /\ Books \in [Events -> Seq(SUBSET Structures)]
  /\ First \in [Events -> Nat]

Nobody == "nobody"
ASSUME NobodyAssumption == Nobody \notin Scans

\* A row of the board: what, at which state of its books, and whether the
\* pause scan or another writer made it.
Deals == [ev : Events, row : Structures, at : Nat, by : {"radar", "pause"}]

VARIABLES
  market,     \* external: the state each event's books are in
  board,      \* scan_data['deals']
  scanning,   \* scan_data['scanning']
  pool,       \* pools: the candidates each platform's fast paths look at
  index,      \* poly_token_index and lim_slug_index
  scan,       \* where each thread is in run_scan
  gathered,   \* events whose pages and books it has read
  found,      \* its running_deals
  owner,      \* the scan whose own list is the board's list
  sxEnabled,  \* ENABLE_SX, read once
  pause,      \* the pause scan
  extra,      \* its extra_deals
  micro,      \* each micro loop: where it is and what it is about to merge
  feed,       \* each socket's callback: where it is, its event, its deals
  offered     \* arbs handed to _maybe_dry_fire since their books last moved

scanVars == <<scan, gathered, found>>
pauseVars == <<sxEnabled, pause, extra>>
boardVars == <<market, board, scanning, pool, index, scanVars, owner, pauseVars, micro,
              feed, offered>>

Arb(e, row) == row \in Books[e][market[e]]
RowsOf(e) == UNION {Books[e][n] : n \in DOMAIN Books[e]}
On(p) == {e \in Events : PlatformOf[e] = p}
Listed(page) == {e \in Events : page \in PagesOf[e]}
RowTitle(d) == <<TitleOf[d.ev], d.row>>
Titles(deals) == {RowTitle(d) : d \in deals}

\* What evaluating these books now finds.
Evaluate(S, who) ==
  {[ev |-> a[1], row |-> a[2], at |-> market[a[1]], by |-> who] :
     a \in {x \in S \X Structures : Arb(x[1], x[2])}}

\* The pause scan sorts the live list in place while it holds scan_lock; the
\* others hold the lock for one step.
LockFree == pause # "sorting"

\* A new list takes the board's place under scan_lock.
Put(list) == /\ LockFree
             /\ board' = list
             /\ owner' = Nobody

\* Handing a list to _maybe_dry_fire, whose claims FireDispatch models.
Offer(list) ==
  offered' = offered \cup {<<d.ev, d.row>> : d \in {x \in list : x.at = market[x.ev]}}

\* What _restore_scan_state puts on the board of a radar that starts again: a
\* board of the one before it, as old as its last complete scan or later; or
\* nothing, a day later and at the very first start.
OldRows ==
  {d \in [ev : Events, row : Structures, at : UNION {1..First[e] : e \in Events},
           by : {"radar", "pause"}] :
     /\ d.at <= First[d.ev] /\ d.row \in Books[d.ev][d.at]
     /\ (IF d.by = "pause" THEN "pause" ELSE "main") \in PagesOf[d.ev]}
Restored ==
  {list \in SUBSET OldRows : \A d, x \in list : d.ev = x.ev /\ d.row = x.row => d = x}

IdleLoop == [at |-> "idle", new |-> {}]
IdleFeed == [at |-> "idle", evs |-> {}, new |-> {}]

BoardInit ==
  /\ market = First
  /\ board \in Restored
  /\ scanning = FALSE
  /\ pool = [p \in Micros |-> {}]
  /\ index = [f \in Feeds |-> {}]
  /\ scan = [s \in Scans |-> "idle"]
  /\ gathered = [s \in Scans |-> {}]
  /\ found = [s \in Scans |-> {}]
  /\ owner = Nobody
  /\ sxEnabled \in BOOLEAN
  /\ pause = "idle"
  /\ extra = {}
  /\ micro = [p \in Micros |-> IdleLoop]
  /\ feed = [f \in Feeds |-> IdleFeed]
  /\ offered = {}

-----------------------------------------------------------------------------
\* run_scan

\* The pages are read in this order; only the first two push partial results.
After(stage) == IF stage = "poly" THEN "lim" ELSE "rest"
Reading == {"poly", "lim", "rest"}
Pushing == {"poly push", "lim push"}
Running == Reading \cup Pushing \cup {"index", "publish"}
PlatformPushed(stage) == IF stage = "poly push" THEN "poly" ELSE "lim"

At(s, stage) == scan' = [scan EXCEPT ![s] = stage]

StartScan(s) ==
  /\ scan[s] = "idle"
  /\ LockFree
  /\ scanning' = TRUE
  /\ At(s, "poly")
  /\ gathered' = [gathered EXCEPT ![s] = {}]
  /\ found' = [found EXCEPT ![s] = {}]
  /\ UNCHANGED <<market, board, pool, index, owner, pauseVars, micro, feed, offered>>

\* Books are read and evaluated. An event whose books do not come is as one
\* that is not listed. Named assumption: a listing read page after page does
\* not shift meanwhile, so no chunk has an event of an earlier one.
Unread(s) == {e \in Listed("main") \ gathered[s] : PlatformOf[e] = scan[s]}

Read(s, stage, next, chunk) ==
  /\ scan[s] = stage
  /\ gathered' = [gathered EXCEPT ![s] = @ \cup chunk]
  /\ found' = [found EXCEPT ![s] = @ \cup Evaluate(chunk, "radar")]
  /\ At(s, next)
  /\ UNCHANGED <<market, board, scanning, pool, index, owner, pauseVars, micro, feed,
                 offered>>

\* A chunk of the main pages. (Where books are fetched ahead for all chunks,
\* that is one chunk.) SX, Kalshi and the cross-platform pairs come as one.
ReadPoly(s, chunk) == Unread(s) # {} /\ Read(s, "poly", "poly push", chunk)
ReadLim(s, chunk) == Unread(s) # {} /\ Read(s, "lim", "lim push", chunk)
ReadRest(s, chunk) == Read(s, "rest", "index", chunk)
ReadChunk(s, chunk) == ReadPoly(s, chunk) \/ ReadLim(s, chunk) \/ ReadRest(s, chunk)

\* The pages end, or the scan's budget does.
EndPages(s) ==
  /\ scan[s] \in {"poly", "lim"}
  /\ At(s, After(scan[s]))
  /\ UNCHANGED <<market, board, scanning, pool, index, gathered, found, owner, pauseVars,
                 micro, feed, offered>>

\* _push_partial: the running list takes the board's place, whatever was on it.
\* Classifying by distance from the threshold is left out: what was read is near.
PushPartial(s) ==
  /\ scan[s] \in Pushing
  /\ Put(found[s])
  /\ pool' = [p \in Micros |-> IF p = "rest" THEN pool[p] ELSE gathered[s] \cap On(p)]
  /\ At(s, PlatformPushed(scan[s]))
  /\ UNCHANGED <<market, scanning, index, gathered, found, pauseVars, micro, feed,
                 offered>>

\* Pools and reverse indexes of the whole scan.
RebuildIndex(s) ==
  /\ scan[s] = "index"
  /\ pool' = [p \in Micros |-> gathered[s] \cap On(p)]
  /\ index' = [f \in Feeds |-> gathered[s] \cap On(f)]
  /\ At(s, "publish")
  /\ UNCHANGED <<market, board, scanning, gathered, found, owner, pauseVars, micro, feed,
                 offered>>

\* The final list becomes the board's list, without a copy. The board is saved
\* soon after it, for Restored.
Publish(s) ==
  /\ scan[s] = "publish"
  /\ LockFree
  /\ board' = found[s]
  /\ owner' = s
  /\ scanning' = FALSE
  /\ At(s, "fire")
  /\ UNCHANGED <<market, pool, index, gathered, found, pauseVars, micro, feed, offered>>

\* run_scan returns; scan_loop then starts a pause scan.
Return(s) ==
  /\ At(s, "idle")
  /\ gathered' = [gathered EXCEPT ![s] = {}]
  /\ found' = [found EXCEPT ![s] = {}]
  /\ IF s = Loop /\ pause = "idle"      \* bound: one pause scan at a time
     THEN /\ pause' = "poly"
          /\ extra' = {}
          /\ UNCHANGED sxEnabled
     ELSE UNCHANGED pauseVars

\* Fault: what is on the board is fired instead of what the scan found.
ListOnBoard(s) == board

\* The list a scan fires is its own. A list that is being sorted in place
\* looks empty to a thread that does not ask for the lock.
ListOf(s) == IF owner = s /\ ~LockFree THEN {} ELSE found[s]

Fire(s) ==
  /\ scan[s] = "fire"
  /\ Offer(ListOf(s))
  /\ owner' = IF owner = s THEN Nobody ELSE owner
  /\ Return(s)
  /\ UNCHANGED <<market, board, scanning, pool, index, micro, feed>>

\* Fault: the error path leaves the scanning flag up.
ScanErrorKeepsFlag(s) ==
  /\ scan[s] \in Running
  /\ LockFree
  /\ Return(s)
  /\ UNCHANGED <<market, board, scanning, pool, index, owner, micro, feed, offered>>

\* Anything run_scan does may raise: it gives up without publishing or firing.
ScanError(s) ==
  /\ scan[s] \in Running
  /\ LockFree
  /\ scanning' = FALSE
  /\ Return(s)
  /\ UNCHANGED <<market, board, pool, index, owner, micro, feed, offered>>

-----------------------------------------------------------------------------
\* run_pause_scan

PauseRead(stage, p, next, priced) ==
  /\ pause = stage
  /\ priced \subseteq On(p)
  /\ extra' = extra \cup Evaluate(priced, "pause")
  /\ pause' = next
  /\ UNCHANGED <<market, sxEnabled, board, scanning, pool, index, scanVars, owner, micro, feed,
                 offered>>

PausePoly(priced) == PauseRead("poly", "poly", IF sxEnabled THEN "sx" ELSE "merge", priced)
PauseSx(priced) == PauseRead("sx", "rest", "merge", priced)

\* Fault: the titles on the board are not looked at.
AllOf(deals) == deals

\* What the board does not have yet, by the row's title: another structure of
\* an event that is there is missing.
Missing(deals) == {d \in deals : RowTitle(d) \notin Titles(board)}

PauseMerge ==
  /\ pause = "merge"
  /\ IF extra = {}
     THEN UNCHANGED <<board, owner>>
     ELSE sxEnabled /\ Put(board \cup Missing(extra))
  /\ pause' = "idle"
  /\ extra' = {}
  /\ UNCHANGED <<market, sxEnabled, scanning, pool, index, scanVars, micro, feed, offered>>

\* Without SX the live list itself is extended and sorted.
PauseAppend ==
  /\ pause = "merge"
  /\ ~sxEnabled
  /\ extra # {}
  /\ board' = board \cup Missing(extra)
  /\ found' = [s \in Scans |-> IF s = owner THEN board' ELSE found[s]]
  /\ pause' = "sorting"
  /\ extra' = {}
  /\ UNCHANGED <<market, sxEnabled, scanning, pool, index, scan, gathered, owner, micro,
                 feed, offered>>

PauseSorted ==
  /\ pause = "sorting"
  /\ pause' = "idle"
  /\ UNCHANGED <<market, sxEnabled, board, scanning, pool, index, scanVars, owner, extra, micro,
                 feed, offered>>

-----------------------------------------------------------------------------
\* The micro loops

\* A loop sleeps while a scan runs; Polymarket's sleeps while its socket is
\* alive instead, which nothing here depends on.
Awake(p) == p # "poly" => LockFree /\ ~scanning

\* The pool is read and its books are fetched.
MicroRead(p, priced) ==
  /\ micro[p].at = "idle"
  /\ Awake(p)
  /\ pool[p] # {}
  /\ micro' = [micro EXCEPT ![p] = [at |-> "merge", new |-> Evaluate(priced, "radar")]]
  /\ UNCHANGED <<market, board, scanning, pool, index, scanVars, owner, pauseVars,
                 feed, offered>>

\* Fault: a loop merges its last results again.
MicroMergeAgain(p) ==
  /\ micro[p].at = "merge"
  /\ Put({d \in board : PlatformOf[d.ev] # p} \cup micro[p].new)
  /\ UNCHANGED <<market, scanning, pool, index, scanVars, pauseVars, micro, feed, offered>>

\* _merge_platform_deals: the platform's rows are replaced.
MicroMerge(p) ==
  /\ micro[p].at = "merge"
  /\ Put({d \in board : PlatformOf[d.ev] # p} \cup micro[p].new)
  /\ micro' = [micro EXCEPT ![p] = IdleLoop]
  /\ UNCHANGED <<market, scanning, pool, index, scanVars, pauseVars, feed, offered>>

-----------------------------------------------------------------------------
\* on_ws_update and on_lim_ws_update

FeedRead(f, e) ==
  /\ feed[f].at = "idle"
  /\ e \in index[f]
  /\ feed' = [feed EXCEPT ![f] = [at |-> "merge", evs |-> {e}, new |-> Evaluate({e}, "radar")]]
  /\ UNCHANGED <<market, board, scanning, pool, index, scanVars, owner, pauseVars,
                 micro, offered>>

\* Rows of the event's title, of any structure, go; Polymarket's callback does
\* not ask of which platform they are.
SameRows(f, evs) ==
  {d \in board : /\ TitleOf[d.ev] \in {TitleOf[e] : e \in evs}
                 /\ f = "lim" => PlatformOf[d.ev] = "lim"}

FeedMerge(f) ==
  /\ feed[f].at = "merge"
  /\ Put((board \ SameRows(f, feed[f].evs)) \cup feed[f].new)
  /\ feed' = [feed EXCEPT ![f].at = "fire"]
  /\ UNCHANGED <<market, scanning, pool, index, scanVars, pauseVars, micro, offered>>

FeedFire(f) ==
  /\ feed[f].at = "fire"
  /\ Offer(feed[f].new)
  /\ feed' = [feed EXCEPT ![f] = IdleFeed]
  /\ UNCHANGED <<market, board, scanning, pool, index, scanVars, owner, pauseVars,
                 micro>>

-----------------------------------------------------------------------------
\* An event's books move.
MarketMove(e) ==
  /\ market[e] < Len(Books[e])
  /\ market' = [market EXCEPT ![e] = @ + 1]
  /\ offered' = {a \in offered : a[1] # e}
  /\ UNCHANGED <<board, scanning, pool, index, scanVars, owner, pauseVars, micro,
                 feed>>

\* One step of run_scan.
RunScan(s) ==
  \/ StartScan(s)
  \/ \E chunk \in SUBSET Unread(s) : ReadChunk(s, chunk)
  \/ EndPages(s)
  \/ PushPartial(s)
  \/ RebuildIndex(s)
  \/ Publish(s)
  \/ Fire(s)
  \/ ScanError(s)

RunPauseScan ==
  \/ \E priced \in SUBSET Listed("pause") : PausePoly(priced) \/ PauseSx(priced)
  \/ PauseMerge
  \/ PauseAppend
  \/ PauseSorted

BoardNext ==
  \/ \E s \in Scans : RunScan(s)
  \/ RunPauseScan
  \/ \E p \in Micros : \/ \E priced \in SUBSET pool[p] : MicroRead(p, priced)
                       \/ MicroMerge(p)
  \/ \E f \in Feeds : \/ \E e \in Events : FeedRead(f, e)
                      \/ FeedMerge(f)
                      \/ FeedFire(f)
  \/ \E e \in Events : MarketMove(e)

BoardSpec == BoardInit /\ [][BoardNext]_boardVars

\* scan_loop's thread goes on, the pause scan's requests have time-outs, and
\* who has read books gets the lock. A sort of the board takes no time beside
\* a scan, so not every scan fires during one. Nothing is asked of books,
\* sockets, the operator's scans and the starts of the other loops.
BoardFairness ==
  /\ WF_boardVars(RunScan(Loop))
  /\ SF_boardVars(Fire(Loop) /\ LockFree)
  /\ WF_boardVars(RunPauseScan)
  /\ \A p \in Micros : WF_boardVars(MicroMerge(p))
  /\ \A f \in Feeds : WF_boardVars(FeedMerge(f) \/ FeedFire(f))

BoardFairSpec == BoardSpec /\ BoardFairness

-----------------------------------------------------------------------------
\* Properties

DealSets == SUBSET Deals

\* Types, and who can be where: a list shared with the board is that of a scan
\* that has published and not yet fired, only a pause scan without SX sorts in
\* place, and the flag is up only while someone scans.
BoardTypeOK ==
  /\ market \in [Events -> Nat]
  /\ board \in DealSets
  /\ scanning \in BOOLEAN
  /\ pool \in [Micros -> SUBSET Events]
  /\ index \in [Feeds -> SUBSET Events]
  /\ scan \in [Scans -> {"idle", "fire"} \cup Running]
  /\ gathered \in [Scans -> SUBSET Events]
  /\ found \in [Scans -> DealSets]
  /\ owner \in Scans \cup {Nobody}
  /\ owner # Nobody => scan[owner] = "fire" /\ found[owner] = board
  /\ sxEnabled \in BOOLEAN
  /\ pause \in {"idle", "poly", "sx", "merge", "sorting"}
  /\ pause \in {"sx", "sorting"} => (sxEnabled <=> pause = "sx")
  /\ extra \in DealSets
  /\ micro \in [Micros -> [at : {"idle", "merge"}, new : DealSets]]
  /\ feed \in [Feeds -> [at : {"idle", "merge", "fire"}, evs : SUBSET Events, new : DealSets]]
  /\ offered \subseteq Events \X Structures
  /\ scanning => \E s \in Scans : scan[s] \in Running

\* No arb has two rows, each event and structure being on the board at most
\* once, though five writers put deals there, each with its own idea of what to
\* take off first: by list, by the title of the row or of the event, or by
\* platform.
OneRowPerArb == \A d, x \in board : d.ev = x.ev /\ d.row = x.row => d = x

\* scan_loop's scan raises, stops before its pages end, or misses a book.
ScanFails == \/ ScanError(Loop)
             \/ EndPages(Loop) /\ Unread(Loop) # {}
             \/ \E chunk \in (SUBSET Unread(Loop)) \ {Unread(Loop)} : ReadChunk(Loop, chunk)
ScansRecover == <>[][~ScanFails]_boardVars

\* An arb that its books no longer offer, for good, leaves the board for good,
\* whatever older results are still on their way there and whatever other
\* structures of the event stay.
DeadDealLeaves ==
  ScansRecover =>
    \A e \in Events : \A row \in RowsOf(e) :
      <>[](~Arb(e, row)) => <>[](\A d \in board : d.ev = e => d.row # row)

\* An arb that stays is handed to the dispatcher at its books' latest state, if
\* its event is on the main pages; the board alone does not fire.
ArbIsOffered ==
  ScansRecover =>
    \A e \in Listed("main") : \A row \in RowsOf(e) :
      <>[]Arb(e, row) => <>[](<<e, row>> \in offered)

=============================================================================
