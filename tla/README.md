# A TLA+ model of the arbitrage radar and its executors

The radar (Python) watches prediction markets on Polymarket, Limitless and
SX Bet, finds sets of orders that pay more than they cost, and fires them
through one of two executors: one in its own process (Python) and a service
(TypeScript). This directory models the parts where the order of events or the
arithmetic of a deal decides whether money is lost: the sockets that bring the
prices, the evaluators and the matching that make deals of them, the board the
deals are on, dispatching, firing and reverting, the circuit breaker and the
kill switch. TLC checks the models on small instances; TLAPS proves every safety
property those runs check for all instances.

## 1. The system

| Part | State it keeps | Operations | What makes it correct |
|---|---|---|---|
| Firer (`executor-ts/src/executor/atomic.ts`, `fills.ts`, `revert.ts`) | legs' results, fill registry, orders at the exchanges | build, post, wait, cancel, race, retry, aggregate, revert | all legs or none are reported held; what is reported filled was filled; nothing is sold that was not bought; it returns |
| Dispatch (`radar/dedup.py`, `_maybe_dry_fire` and `_fire_arb_via_ts` in `arb_server.py`, `radar/ws/callbacks.py`) | claims with a time, module state of the executor's health | reserve, fire a batch, POST, fall back | a deal is fired once per cooldown; a reserved batch is fired |
| Circuit breaker (`circuit_breaker.py`) | state, counters, clock, alert queue | allow, on_success, on_failure, drain | quiet while open, retried, resolved, no alert stranded |
| Python executor (`executor/atomic.py`, `executor/fills.py`, handlers in `arb_server.py`) | leg threads, registry with two indexes | fire, register, wait, consume, aggregate, revert | what is reported filled filled, or its market moved; a broken arb is sold |
| Kill plane (`risk/killswitch.py`, `risk/reconcile.py`, `watchdog.py`, `radar/api/admin.py`) | the flag file, position rows, the pass, `was_killed` | kill, resume, reconcile, poll, cancel hook | a kill stops fires and sweeps the orders its credentials reach; a lasting difference of rows and positions kills |
| Risk limits (`risk/limits.py`, `risk/state.py`, `risk/*.ts`) | daily result, recent trades, pause, a JSON file | check_can_fire, record_pnl, day roll, save, load | the limit holds across threads, restarts and midnight |
| Scan loop and board (`run_scan`, pause scan, micro loops in `arb_server.py`, `radar/ws/callbacks.py`) | `scan_data` under `scan_lock`, the pools, the sockets' indexes | scan, push, publish, merge | no arb is listed twice, no dead deal stays, an arb that stays is fired |
| Market-data sockets (`poly_ws.py`, `limitless_ws.py`) | subscriptions, books, dirty sets | connect, resubscribe, coalesce, callback | every change reaches the callback, a lost link is rebuilt |
| User sockets (`poly_user_ws.py`, `ws/*.ts`) | connection, heartbeats | connect, authenticate, bridge fills | a lost link is rebuilt with back-off |
| Evaluators (`radar/eval/*`, `radar/build_deal.py`, `radar/filters/*`) | the HOT and NEAR pools, what is streamed | filter, price, ALL_YES, ALL_NO and pair structures, stakes, fees, classify, subscribe | a deal's profit is what its legs pay; pools and evaluators agree |
| Matching (`event_matching.py`, `cross_platform.py`) | the deals of one scan | scope, league, date and name guards, greedy pairing, X1, X2, covers | where the texts do not mislead, paired markets are the same question and the net shown is earned |
| Wallets (`wallets/*`, `wallets/pool.ts`) | reservations | assign, release, rebalance | a wallet serves one leg at a time |
| Builders, signing, HTTP, proxies, notify, analytics, paper trading, API, dashboard, scripts | caches, logs | encode, send, record, render | outside this model's questions |

Interactions. The scan loop and the sockets' callbacks find deals and hand
batches to `_maybe_dry_fire`, which claims each deal in the dedup store and
calls `fire_arb`. That posts to the TypeScript service, or runs the in-process
executor. Both executors wait on registries that the user sockets feed; the
Python one gets every order event on a Limitless market. Every
fire asks for the kill flag first; reconcile compares the position rows the
executor wrote with what the exchanges say and sets the flag; the watchdog, a
process of its own, sees the flag and cancels resting orders.

The hard behaviours are listed, each at its line, under `hazards` in
PROJECT.json: races of a timer with a late answer, two waits under one key,
notices that come early, late, twice or not at all, fallbacks that fire again,
state read before a lock or a request and used after it, restarts that forget,
loops that must not hang, two reconnectors of one connection, and sums over legs
of which some have no price.

## 2. Modules

| Module | Models | Notes |
|---|---|---|
| `AtomicArb` | what a firer promises: it reports all legs held, none held, or an attempted sale of those held | abstract; two actions |
| `FireArb` | the TypeScript firer | implements `AtomicArb` by a refinement mapping (`Reports`) |
| `FireDispatch` | dedup store, batch loop, dispatch and fallback | clock bounded by `Horizon` |
| `CircuitBreaker` | the breaker and the requests that share it | lock-held blocks are one action, the alert queue's unlocked look is its own |
| `PyFire` | the Python executor, its registry and the fill handlers | |
| `KillSwitch` | flag, gate, reconcile pass, watchdog | three processes |
| `Board` | `run_scan`, the pause scan, the micro loops, the sockets' callbacks | a deal is an event's structure at a version of its books; liveness |
| `PolySocket` | Polymarket's three WebSocket clients: prices, our fills, the service's fills | one module, `kind` tells them apart; the market kind has books, dirty set and callback |
| `LimSocket` | Limitless's two Socket.IO clients | the market kind lives with the library's own reconnector and a thread per message |
| `Evaluate` | filters, price snapshots, the three structures, `build_deal`, the pools and NEAR rows of four platforms | operators only |
| `EventFlow` | one event's way through `run_scan`, scan after scan, with the stream's pushes between | uses `Evaluate` |
| `CrossPlatform` | the cross-platform layer: pools of outcomes, matching, X1, X2, covers, fees and sizes | a title is what the patterns find in it |
| `FireArbProofs`, `PyFireProofs`, `LimSocketProofs`, `EventFlowProofs`, `CrossPlatformProofs` | theorems about the module they are named after | |
| `SafeguardProofs` | theorems about `FireDispatch`, `CircuitBreaker` and `KillSwitch` | one section each |
| `FeedProofs` | theorems about `PolySocket` and `Board` | one section each |
| `DataTheorems` | induction, recursion on a number, sums over sets, greatest and least | what the arithmetic proofs rest on |
| `MC_*` | instances for TLC | |

The modules `SafeguardProofs` and `FeedProofs` extend have prefixed
specifications (`DispatchSpec`, `BreakerSpec`, `SwitchSpec`, `PolySpec`,
`BoardSpec`, with `Init`, `Next`, `TypeOK` and the variables likewise); the
others say `Spec`.

How state and actions correspond to the code: the variables are the fields the
code keeps (named after them where TLA+ allows), program counters of the
coroutines and threads, and the world outside: orders at the exchange, notices
on the wire, books, the clock. Code between two awaits (TypeScript) or inside one lock
(Python) is one action; every await, lock release and network call ends one.
The map in PROJECT.json names the lines of every definition. Definitions whose
comment starts with "Fault:" are deliberate mistakes used to show that the
checks notice them; no specification uses them.

Data is abstracted to what the properties tell apart. A fill is at its price
(`filled`) or off it (`filled_with_slippage`, `slipped`), amounts and prices do
not appear in the firers; a position row agrees with a position or does not (`Alike`). An
exchange is nondeterministic: it refuses, accepts, fills, expires, answers or
not, at any time; what an exchange's sockets say of an order is its fill, which
is what the bridges take every order event for. On the board a row is a
structure of an event, as the row's title says (`RowTitle`), one row for each; a
pair's rows, one per market, are one structure here. The pages of one listing
do not overlap and a structure is met once in a scan, as `run_scan` itself
assumes: it does not compare a scan's rows with each other.

A Polymarket book is its set of ask levels at the exchange and its best ask
here; a Limitless book, pushed whole, is a version number. In `PolySocket` the
snapshot of a book and each delta reach the client in the order the exchange
sends them, because one thread reads them; in `LimSocket` each message has a
thread, and they may overtake each other.

Prices and money in `Evaluate` are whole numbers (`One` is what a contract
pays, `Dollar` a dollar), and wherever the code compares quotients both sides
are multiplied out, so nothing is rounded that the code does not round. A side
of a book is its best price and two sums over its orders within half a cent of
that, the tolerance the fetchers use: what they cost who takes them (`cost`)
and what those who made them put up (`paid`). Which of the two an evaluator
gets, and in which unit it takes it, is modelled (`FromBid`, `FromBidPaid`,
`LimDollars`); a Kalshi level is the ask its fetcher makes of it, in dollars. Slugs,
titles and names are not strings: what a filter's pattern finds (an "Other" outcome, a threshold series by its titles, one
by its slugs alone, a deadline) is a field of the event, and what
`event_matching` reads off a text is data of `CrossPlatform`: canonical title,
league and sport of a title, the marks of a scope, a name's tokens. There a
market also says what it is really about - game, question, the side its YES
pays for and the ends at which its second token pays - and nothing says that
the texts agree with it. The code can only be right where they do:
`TitlesTell`, `ScopesTell`, `NamesTell` and `SecondIsNo` say so of two markets,
and `NetIsEarned` asks them of the very markets of a row (`Told`).

## 3. What TLC checks

| Run | Instance | Shows |
|---|---|---|
| `fire_arb` | 2 legs, every platform kind, dry or live, with retry | `ReportedFillIsReal`, `WaitingIsRegistered`, `NoSellWithoutBuy`, `LateResultsIgnored`, `ReportsAtomically` (refinement), `FireReturns` |
| `fire_dispatch` | 2 callers, 3 deals, cooldown 1, cap 2, clock to 2 | `ClaimsExclusive`, `BatchIsFired` |
| `circuit_breaker` | 3 requests, thresholds 2, cool-down 2 | `NoAlertStranded`, `QuietPeriod`, `NeverStuck` |
| `py_fire` | 1 deal of 2 legs, shared, separate or no slugs | `IndexesAgree`, `FillOnItsMarket`, `BrokenArbIsReverted`, `FireReturns` |
| `kill_switch` | two Limitless fires, of the global account and of a wallet with a key of its own, and a Polymarket one; at most two of them leave idle in a run | `SweepIsComplete`, `FlagIsFollowed`, `DivergenceHalts` |
| `board` | 2 events of one title, one of them with two structures that appear and go one after the other, the rows a restart may find on disk, a scan, a pause scan, one micro loop, one socket, with and without SX | `OneRowPerArb`, `DeadDealLeaves`, `ArbIsOffered` |
| `poly_socket` | 2 tokens, the book of one of them with 2 prices; 2 faults, 2 changes of the set, 2 moves of the book | `AskIsReal`, `LinkIsRebuilt` |
| `lim_socket` | 1 slug; 2 faults, 3 changes of the set, 2 pushes, 2 attempts of the library | `NothingLost`, `LinkComesBack` |
| `event_flow` | 389 events of 1 to 3 markets on Polymarket, Limitless, Kalshi and SX, with the code's default thresholds, buffers, fees and limits, prices in mills and money in dimes | `ProfitInEveryOutcome`, `FitsTheBooks`, `DealtIsHot`, `RowsHedged`, `StaysStreamed` |
| `cross_platform` | 22,807 listings on three exchanges: full, partial, reordered, undated, without books, with a return match; and those that mislead: a cup match without its name, two lines of a handicap, two quarters, a half whose second token lacks the draw, two New York teams in one race, a market listed twice, titles of which nothing is left | `NetIsEarned` |
| `lim_served` | the market client, 2 slugs, 1 change of the set | violation of `ServedInTheEnd`: see findings |
| `cover_pays` | a title race of four, three of which the other exchange lists | violation of `CoverPays`: see findings |

Every module but `CrossPlatform` (whose state is the listings it was given and
the deals found in them) also has a type invariant, `TypeOK` or a prefixed
`BoardTypeOK` and so on, which carries the relations between program counters
and data that the type of a single variable cannot say.

Bounds. Two legs suffice to have one leg held beside a missed one, a retry and
a revert. Two callers and three deals with a
cap of two make the store forget a live claim. Three requests let one probe,
one answer late and one fail together. In the kill plane orders do not interact,
so one fire of each kind is enough - the global Limitless account, which is
listed and fetched, another wallet's, which is not, and Polymarket, which has no
fetcher - and two fires in a run (`MaxFires`) let one go on while the other is
swept. The board's two events share a title, which is what the
merges by title are about, and one structure of the first gives way to another
while every kind of writer is somewhere between its reading and its writing;
older rows of it can come from each of them, and from the snapshot of the radar
that ran before: a restart is a run that starts with any board an earlier one
may have saved, and with nothing else. One thread runs `run_scan` there
(the operator's `/api/scan` is another), and one pause scan at a time. The clock
horizons let a claim expire and a cool-down pass, and time beyond them repeats.
Two changes of a socket's set are what a close that meets a new connection
takes, two faults let the second meet the recovery from the first, and two moves
let a book be changed between its mark and its callback; the asks of a token
start anywhere. Three markets are the
fewest on which ALL_NO, a threshold series and an uncovered outcome differ; each
kind of market (cheap on YES, on NO, one-sided, thin, dear, dead, without a
fee, shut, crossed, told in millionths) meets the others on every platform that has
it. Three exchanges and three names let a greedy pairing take the wrong partner
if it can, and each of the misleading listings meets the others: without any one
of the conditions of `Told` the run finds a row that loses.

Fairness is asked only of what the code schedules itself: threads and coroutines
run, its own timers fire (dead-man, POST time-out, leg timer), its loops go
round. Nothing is asked of exchanges and sockets, with these exceptions, stated
where they are used: in `CircuitBreaker` a request that was granted ends (its
client has a time-out) and callers come again; in `KillSwitch` a positions
request ends, with an answer or without one (its time-out), restarts do not cut
short every pass of the reconcile loop, and the watchdog's log can be written
now and then (strong fairness on `Fetch`, `Diff` and `HookEnds`), without which
the hook repeats for ever. No answer of the portfolio is assumed. In `Board`
threads that have read go on to write, and the
scan's thread goes on; since a sort of the board takes no time beside a scan,
not every scan fires during one (strong fairness). Its liveness properties
assume that scans come to succeed (`ScansRecover`): from some time on they raise
nothing, read to the end of their pages and miss no book. Nothing in the code
makes an exchange answer, and a radar that cannot read is not asked to find. In
the sockets the supervisor, the heartbeat, the connect handler and whoever
changes the set go on (weak fairness); drops, silences, failed connects and
`unauthorized` answers are each a fault, and a run has at most `MaxFaults`
of them: `LinkIsRebuilt` and `LinkComesBack` speak of the time after the last.
In `EventFlow` the scan goes round and a retired connection is replaced; pushes
come or do not.

Deadlock is checked in every run but those of the sockets, where a client may
really stop: it stopped or hangs, or has nothing to ask for.

## 4. Findings

Two are runs that end in a violation, with the quoted claim in PROJECT.json.

* `lim_served`: when the library's own reconnector restores Limitless's
  connection before the supervisor looks again, the supervisor marks the live
  connection as not connected; from then on no change of the set is sent.
* `cover_pays`: a cover is built when the other exchange lists the anchor's
  sibling and two other contenders, not all of them; it pays nothing if one that
  is missing wins.

The rest was noted while modelling and has no run of its own; the properties are
stated so as to say what the code does keep.

Firing. A revert waits for its fill under the leg's own key, so a late notice of
a buy is taken for the sale (`revert.ts:231`). A leg reported as timed
out or rejected can hold a position that no revert sees (`atomic.ts:340`). The
dispatcher's time-out fires the deal again in-process while the service is still
at it (`arb_server.py:276`). The service's Limitless bridge takes every
order event for a fill (`limitless_user_ws.ts:371`), and Polymarket's every
trade in which the order's id occurs (`poly_user_ws.ts:429`), whatever its status.

The Python executor's fallback by market hands any push on a slug to the oldest
registration there (`arb_server.py:3371-3426`): the settlement of the other leg
of a binary deal, and the fills and cancels of orders that are nobody's of ours.
The leg is reported filled, and sold by the revert if the arb breaks. A partial
fill counts as a fill (`arb_server.py:3405`). `FillOnItsMarket` says what is left:
behind a reported fill is an order of the leg that filled at least in part, or a
push on the leg's own market that the executor did not cause. Slipped fills
are planned to be reverted by the comments of `slippage.ts` but `planRevert`
acts on a broken arb only; the Python executor's dead-man timer neither cancels
nor reverts; `sold` in the Python revert means an answer of 2xx, not a fill;
the comment on the cancel in `atomic.ts` says it is not awaited, it is.

Halting. A failed positions request is taken for a mismatch and kills at once:
the debounce of reconcile counts errors raised by
the fetchers, and the one in use answers an empty list instead
(`arb_server.py:3639`). It answers for the account of the first wallet, or, while
the socket's cache is younger than a minute, for that of the global key
(`arb_server.py:3605-3621`): a row of any other wallet is a mismatch, and a
position without a row is seen only while pushes keep the cache fresh, so
`DivergenceHalts` speaks of rows that no fresh cache shows and of positions that
a fresh one does. The fetcher is registered where the Limitless socket is
started; with `ENABLE_LIMITLESS_WS` at its default of 0 there is none and
reconcile compares nothing (`arb_server.py:3472`). Polymarket positions are never
fetched, so every Polymarket row is a mismatch once there is a fetcher; fires of
the TypeScript service write no rows at all.

The gate is open while the file system does not answer
(`killswitch.py:79`). A watchdog that starts while the flag is set never sweeps
for that kill (`watchdog.py:215`), and orders of fires already past their gate
survive the sweep. At Limitless the watchdog lists and cancels the orders of one
account, that of the global `LIMITLESS_API_KEY` (`watchdog.py:39`, `102-116`);
orders under a bot's own key (`wallets/stores.py:275`) stay and the hook reports
no error. So `SweepIsComplete` speaks of the orders in reach (`InReach`): the
global account's at Limitless and, as the code visits each wallet there,
Polymarket's, of a watchdog that has the credentials - without them the
hook passes over the exchange and says so only in its log. The breaker's module
text speaks of
one probe while half-open, its code lets every request through.

The board. Without SX the pause scan sorts the list in place that the scan is
about to fire, and a list being sorted looks empty, so a whole batch may go
unfired until the next scan; a scan's list overwrites fresher merges of the
sockets, and Polymarket's callback takes rows of other platforms off when they
share its title, both until the next scan; deals that only the pause scan or a
micro loop finds are shown and never handed to the dispatcher, which is why
`ArbIsOffered` speaks of events on the main pages. The pause scan compares the
titles of rows, which carry the structure (`polymarket.py:362`), so it adds
another structure of an event that is on the board, and `OneRowPerArb` is about
arbs: an event may have one row for each of its structures.

Evaluators and pools. `build_deal` refuses prices whose source is the stream
(`build_deal.py:35`), so Polymarket's push callback can only take deals off;
`classify_pools` does not count that source either, so a streamed Polymarket
event leaves its pool with the next scan and comes back with the one after
(`StaysStreamed` asks for no more than that); a push between the drop of a
book and the close of its connection leaves a book nobody updates.

Depth is the dollars of all orders within half a cent of the best price
(`arb_server.py:1211-1218`), while the contracts of a deal are its stake over the
best price: the last ones may cost half a cent more than the deal says. A NO side
made from the YES bid keeps the bidders' dollars, not what NO would cost
(`fetchers/polymarket.py:138-158`), and Limitless's sums are taken for dollars
below a million and for millionths above (`fetchers/limitless.py:52-57`), so a
book of less than a dollar told in millionths looks up to a million times as
deep. `FitsTheBooks` names the two (`Misread`); otherwise no stake exceeds what
the orders near the best price cost. `slip_pct` is a percentage
(`build_deal.py:163`) and compared with 0.3, so a tight deal may stake three
thousandths of its thinnest leg; `arb_server.py:558-563` calls the same
number 30 per cent, `eval/limitless.py:68` 0.3 per cent.

Kalshi's ALL_YES asks neither for a series nor for an "Other" outcome, which
`ProfitInEveryOutcome` names as `GuardedGroups`. Outcomes are taken to exclude
each other, which only `filter_poly` looks at. An outcome without `info`
shifts the rest of its event against their market infos. NEAR rows of
"all yes" add up the quoted legs only. The evaluators ask for a threshold series
with the markets' slugs (`polymarket.py:346-352`, `limitless.py:208-211`), the pool
sums and the NEAR table by the titles alone (`pools.py:110`, `161`, `635`, `817`): a
series that only its slugs tell is ranked and shown as a set of exclusive
outcomes though it is never dealt, and `RowsHedged` takes such events out by name.

Sockets. After a good connection the user clients wait the longest back-off, as
the attempt counter is back at zero when the delay is looked up (`Delay`); the
fallbacks in `atomic.ts:238` count on one or two seconds. One `unauthorized`
answer stops the Python user client for good, though its comment speaks of an
hour (`poly_user_ws.py:243`). A connect error leaves the service's Limitless
client waiting for ever, which `LinkComesBack` takes out by name. Two threads
may emit their sets in the other order, and books of removed tokens come back
with a push that was already on its way.

Cross-platform. Covers pass neither the settlement-timing nor the league guard
though the comment on them says so, and their legs carry no platform ids, so the
service cannot build them; outcomes listed in another order are paired wrongly
by the greedy matching (and then refused by the guard of names, a lost pair).
Rows that lose are not kept out where the texts mislead: every line of a handicap
has one scope and its number is dropped from the names
(`event_matching.py:329-335`, `433`), and so it is with two quarters (`287`) and two
methods of victory (`293`); names with two words in common are taken for one side,
though the comment on `outcomes_compatible` says that sides of one fixture never
share words (New York Giants, New York Jets); a cup match whose title does not
name the cup is the league's; an SX market's second outcome is taken for the NO
of its first (`arb_server.py:1621-1634`), which it is not where the market may end level
(`SX_BINARY_TYPES` leaves out type 52 for that reason and keeps moneylines of
periods). `NetIsEarned` takes such rows out one
by one (`Told`) and holds for all others, whatever else is listed. The net
of a deal that is shown may be zero or less after the fee, and `NetIsEarned`
speaks of whatever net is shown. `find_pairs` says it pairs each event of the
second list with the most confident of the first (`event_matching.py:866`); it
pairs it with the first that finds nothing better left, which is what
`PairsAreGreedy` states.

State. `record_pnl` and `recordPnl` have no production caller, so the loss limits
never bind; `save_state` writes through one temporary file outside the lock
(`risk/state.py:113`); the service's `loadState` returns its cached state before
the day roll (`risk/state.ts:56`); `last_known_usdc` is never set; aborts before
the wallets are taken never reach `release_reservations`.

## 5. What is proved

| Theorem | Says |
|---|---|
| `FireArbProofs!TypeCorrect`, `FillsAreNotInvented`, `RegistryServesWaiters`, `RevertSellsWhatWasBought` | the invariants of `FireArb` for any set of legs |
| `FireArbProofs!LateResultsChangeNothing` | the action property |
| `FireArbProofs!ReportsImplementAtomicArb`, `NoLegHeldAlone` | the refinement, and what follows through it |
| `SafeguardProofs!DispatchTypeCorrect`, `OneCallerPerDeal` | for any callers, deals, cooldown and cap |
| `SafeguardProofs!BreakerTypeCorrect`, `NoAlertIsLeftBehind`, `OpenMeansQuiet` | for any number of requests and thresholds |
| `SafeguardProofs!SwitchTypeCorrect`, `CleanSweep` | for any fires on any exchanges under any accounts |
| `PyFireProofs!TypeCorrect`, `IndexesStayInStep`, `FillsComeFromTheMarket`, `BrokenArbsAreReverted` | for any arbs, legs and markets |
| `FeedProofs!PolyTypeCorrect`, `NoCancelledAsk` | for any tokens, prices, back-offs and faults |
| `FeedProofs!BoardTypeCorrect`, `NoArbTwice` | for any events, titles, structures, scans, loops and sockets |
| `LimSocketProofs!TypeCorrect`, `NoChangeIsLost` | for any slugs, limits and faults |
| `EventFlowProofs!Types`, `Profit`, `Fits`, `Hot`, `Hedged` | `ProfitInEveryOutcome`, `FitsTheBooks`, `DealtIsHot` and `RowsHedged` for any event of any number of markets, any prices, depths, units, fees and thresholds, and any pushes |
| `CrossPlatformProofs!Earns` | `NetIsEarned` for any listings of any length, misleading ones among them, likenesses, thresholds and fees |
| `CrossPlatformProofs!PairsAreGreedy` | what `find_pairs` promises: no outcome is matched twice, and one that misses a candidate lost it to an outcome before it or has a match no less confident |

With these every invariant and every action property that a run checks is a
theorem.

The argument is the same throughout: an inductive invariant `IInv`, which
`Init` establishes and every action keeps, one lemma or step per action. What
has to be added to the stated invariants is said where it is defined:

* `FireArb`: that an order at the exchange belongs to a call that was posted
  (`OrdersFollowCalls`), that a live leg was bought (`LiveIsBought`), that a dry
  run posts nothing (`DryRunIsDry`) and that the retry starts from a status for
  every leg (`RoundHasStatus`).
* `CircuitBreaker`: `ClockIsTrue`, that the breaker's clock is the time since it
  opened.
* `KillSwitch`: `SweepSoFar`, how much of the sweep each stage of the hook has
  behind it, and that an order which left the book never rests again (`Onwards`).
* `Board`: that what each writer carries has no structure of an event twice and only
  events that the writer replaces: those of its chunks (`ScansReadOnce`), of its platform
  (`LoopsKeepToTheirs`), of its index (`FeedsKeepToTheirs`), and for the pause
  scan pages it has not had (`ExtraOnce`).
* `PyFire`: that a market's list of waits has each leg once and only legs of
  that market (`QueuesInOrder`), since `list.remove` takes the first it finds
  (`RemoveOne`); that what a leg has not come to yet is not there
  (`NothingEarly`); that a notice on the wire follows a fill,
  at least in part (`NoticesFollowFills`); and that a revert has every filled leg on its list
  (`RevertTakesAll`).
* `PolySocket`: `AskIsReal` relates what was evaluated to the exchange, and the
  book stands between them, so the invariant has a half for each: a book that
  was told everything is no better than the exchange (`BookIsReal`), which for
  a delta rests on `DeltaIsReal`, and a book with nothing pending is what was
  evaluated (`SeenIsBook`).
* `LimSocket`: that versions are counted no faster than pushes (`Counted`), that
  a connection that is gone has taken the claim of order events with it
  (`GoneIsUntold`), and that the service has a connection only while it watches
  it (`OneWatched`).
* `EventFlow`: that every deal is one the evaluators make of the event for some
  state of the stream, and every row one the NEAR table makes (`Origins`), and
  that between the scan's evaluation and the next filter, until a push comes,
  board and pool are what the scan made of the books (`Fresh`). The rest is
  about the operators: whatever an evaluator deals has one of three shapes
  (`Shaped`), from which follow what it pays in each outcome, what it is charged
  (Kalshi rounds each leg down, so a sum of quotients meets the quotient of a
  sum), what its stake buys and how the pools rank it.
* `CrossPlatform`: that every row is what `FindArbs` makes of two of the scan's
  pools. What remains is about the operators: the pools hold outcomes of their
  exchange (`PoolStems`), a pair that passes the guards and does not mislead is
  one side of one question (`MatchedPair`), a cover whose fixture lists every end
  has a leg on each (`CoverWins`), and one leg that wins earns the net.

Sums, `find_pairs` and the list of SX outcomes are recursions over data. The
library's induction theorems take an operator, which the provers cannot
instantiate; `DataTheorems` states induction of a set instead
(`SetOfNaturals`, `SetOfSubsets`), which a proof names by a definition, and from
it that a recursion on a number has a solution (`RecursiveFunction`) and what
`SumFunctionOnSet` adds up.

The assumptions are those the modules state on their constants and no others.
They say that prices, fees and limits are natural numbers (`EvaluateAssumption`,
`NumbersAssumption`: the code's configuration and the units of section 2) and
that what is listed are markets, each under its own exchange
(`PoolsAssumption`); none says that a text is true. TLC evaluates each in a run.

Only model-checked: the liveness properties (fairness and ENABLED are beyond the
prover), that is `FireReturns`, `BatchIsFired`, `NeverStuck`, `FlagIsFollowed`,
`DivergenceHalts`, `DeadDealLeaves`, `ArbIsOffered`, `LinkIsRebuilt`,
`LinkComesBack` and `StaysStreamed`, and the two violations of section 4.

## 6. Not modelled, and what is left

PROJECT.json lists every component with its status. Left out, and why:

* Risk state (`risk/state.*`, the limits behind `check_can_fire`): only the
  gate's place in a fire is modelled. `record_pnl` has no caller, so the
  limits compare constants; worth a module once it has one (its two writers of
  `risk_state.json` and the day roll are listed as hazards).
* Wallets: assignment in the coordinator has no production caller, and the
  service's pool is part of `FireArb`'s gates.
* Builders, signing and authentication: byte encodings and cryptography, on
  which no property here depends.
* Paper trading, notifications, analytics: they
  record what happened, and nothing that fires reads it back.
* The manager that starts the sockets, the proxy pool, HTTP details, rendering,
  one-shot scripts, generated and vendored code.

What would add most next: the risk state when it is driven, and more than one
event in `EventFlow`, so that the pools' limits are reached.
