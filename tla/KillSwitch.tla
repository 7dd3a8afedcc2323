------------------------------ MODULE KillSwitch ------------------------------
(***************************************************************************)
(* What stops the trading.  The kill flag is a file that three processes   *)
(* share: the executors ask for it before a fire (Scripts/risk/limits.py,  *)
(* executor-ts/src/risk/limits.ts), the operator and the reconciliation of *)
(* positions set it (Scripts/radar/api/admin.py, Scripts/risk/             *)
(* reconcile.py), and a watchdog polls it and cancels what rests at the    *)
(* exchanges (Scripts/watchdog.py).                                        *)
(*                                                                         *)
(* A fire is one order here: it passes the gate, is posted some time       *)
(* later, rests, fills and may be logged to positions.jsonl.  Position     *)
(* sizes are abstracted to whether the two sides agree.  Fires at          *)
(* Limitless are those of several wallets, which may have keys of their    *)
(* own; its socket is enabled, without which there is no fetcher.          *)
(***************************************************************************)
EXTENDS Naturals, FiniteSets

CONSTANTS
  Arbs,      \* fires
  Platform,  \* the exchange of each
  GlobalKey, \* fires under the account of LIMITLESS_API_KEY
  FirstWallet, \* fires of the first wallet that has an address
  MaxFires,  \* bound: how many of them a run makes
  Alike      \* fires whose row and position agree on outcome name and size

ASSUME PlatformAssumption ==
  Platform \in [Arbs -> {"Limitless", "Polymarket", "SX Bet"}]
ASSUME AccountAssumption == GlobalKey \subseteq Arbs /\ FirstWallet \subseteq Arbs
ASSUME MaxFiresAssumption == MaxFires \in Nat
ASSUME AlikeAssumption == Alike \subseteq Arbs

VARIABLES
  flag,       \* Executions/.killed: absent, or the reason it was written for
  readable,   \* the file system lets the flag be looked up and written
  fire,       \* how far each fire came
  rows,       \* fires logged to positions.jsonl
  fresh,      \* the Limitless socket pushed positions in the last 60 seconds
  cached,     \* the positions it knows
  recon,      \* reconcile_once: idle, rows read, positions fetched
  localView,  \* _read_local_positions of the running pass
  remoteView, \* positions of the running pass
  wd,         \* the watchdog: polling, or where its cancel hook stands
  wasKilled,  \* was_killed
  batch,      \* Limitless orders the hook listed
  errors,     \* the hook met a refused or failed request
  owed        \* history: orders resting when the hook's poll saw the kill

switchVars == <<flag, readable, fire, rows, fresh, cached, recon, localView, remoteView,
               wd, wasKilled, batch, errors, owed>>

trading == <<fire, rows>>
reconcile == <<fresh, cached, recon, localView, remoteView>>
watchdog == <<wd, wasKilled, batch, errors, owed>>

On(p) == {a \in Arbs : Platform[a] = p}
\* What the holder of LIMITLESS_API_KEY is told of.
OnAccount == On("Limitless") \cap GlobalKey

In(s) == {a \in Arbs : fire[a] \in s}

Held == In({"held"})

------------------------------------------------------------------------------

SwitchTypeOK ==
  /\ flag \in {"none", "manual", "reconcile"}
  /\ readable \in BOOLEAN
  /\ fire \in [Arbs -> {"idle", "cleared", "open", "held", "closed", "over"}]
  /\ rows \subseteq In({"held", "closed"})
  /\ fresh \in BOOLEAN
  /\ cached \subseteq On("Limitless")
  /\ recon \in {"idle", "local", "fetched"}
  /\ localView \subseteq rows
  /\ remoteView \subseteq On("Limitless")
  /\ wd \in {"poll", "list", "cancel", "poly", "note"}
  /\ wasKilled \in BOOLEAN
  /\ batch \subseteq On("Limitless")
  /\ errors \in BOOLEAN
  /\ owed \subseteq In({"open", "held", "closed", "over"})
  /\ wd # "poll" => ~wasKilled
  /\ batch # {} => wd = "cancel"

SwitchInit ==
  /\ flag \in {"none", "manual"}
  /\ readable = TRUE
  /\ fire = [a \in Arbs |-> "idle"]
  /\ rows = {}
  /\ fresh = FALSE
  /\ cached = {}
  /\ recon = "idle"
  /\ localView = {}
  /\ remoteView = {}
  /\ wd = "poll"
  /\ wasKilled = (flag # "none")
  /\ batch = {}
  /\ errors = FALSE
  /\ owed = {}

\* is_killed, isKilled.  os.path.exists and existsSync answer "no" when the
\* look-up fails: they do not raise, and the handler around them never runs.
IsKilled == readable /\ flag # "none"

------------------------------------------------------------------------------
\* Fires

Moves(a, s) == fire' = [fire EXCEPT ![a] = s]

\* check_can_fire and the gates around it: past them the fire is on its way.
Gate(a) ==
  /\ fire[a] = "idle"
  /\ Cardinality(Arbs \ In({"idle"})) < MaxFires
  /\ \/ ~IsKilled /\ Moves(a, "cleared")
     \/ Moves(a, "over")
  /\ UNCHANGED <<flag, readable, rows, reconcile, watchdog>>

\* The order reaches the exchange, or a later gate or the exchange refuses it.
Post(a) ==
  /\ fire[a] = "cleared"
  /\ \E s \in {"open", "over"} : Moves(a, s)
  /\ UNCHANGED <<flag, readable, rows, reconcile, watchdog>>

\* The exchange fills the order, or it expires.
Settle(a) ==
  /\ fire[a] = "open"
  /\ \E s \in {"held", "over"} : Moves(a, s)
  /\ UNCHANGED <<flag, readable, rows, reconcile, watchdog>>

\* _write_position_row, once the leg saw its fill.  A fill the leg did not see,
\* or saw off its price, is never logged.
LogPosition(a) ==
  /\ fire[a] \in {"held", "closed"}
  /\ rows' = rows \cup {a}
  /\ UNCHANGED <<flag, readable, fire, reconcile, watchdog>>

\* The position is sold by a revert or its market resolves: no row is written.
Close(a) ==
  /\ fire[a] = "held"
  /\ Moves(a, "closed")
  /\ UNCHANGED <<flag, readable, rows, reconcile, watchdog>>

\* The radar restarts: what was not posted is forgotten.
RadarRestarts ==
  /\ fire' = [a \in Arbs |-> IF fire[a] = "cleared" THEN "over" ELSE fire[a]]
  /\ recon' = "idle"
  /\ fresh' = FALSE
  /\ cached' = {}
  /\ localView' = {}
  /\ remoteView' = {}
  /\ UNCHANGED <<flag, readable, rows, watchdog>>

------------------------------------------------------------------------------
\* The flag

Killed(reason) == IF IsKilled \/ ~readable THEN flag ELSE reason

\* /api/kill, or the operator's touch.
Kill ==
  /\ ~IsKilled
  /\ flag' = Killed("manual")
  /\ UNCHANGED <<readable, trading, reconcile, watchdog>>

\* /api/risk_resume, or the operator's rm.
Resume ==
  /\ IsKilled
  /\ flag' = "none"
  /\ UNCHANGED <<readable, trading, reconcile, watchdog>>

FileSystem ==
  /\ readable' = ~readable
  /\ UNCHANGED <<flag, trading, reconcile, watchdog>>

------------------------------------------------------------------------------
\* reconcile_once

\* A positions event of the account replaces the cached positions of its market
\* and makes the whole cache young.
Push(a) ==
  /\ a \in OnAccount
  /\ fresh' = TRUE
  /\ cached' = IF a \in Held THEN cached \cup {a} ELSE cached \ {a}
  /\ UNCHANGED <<flag, readable, trading, recon, localView, remoteView, watchdog>>

\* A minute without a push.
CacheAges ==
  /\ fresh
  /\ fresh' = FALSE
  /\ UNCHANGED <<flag, readable, trading, cached, recon, localView, remoteView, watchdog>>

ReadLocal ==
  /\ recon = "idle"
  /\ recon' = "local"
  /\ localView' = rows
  /\ UNCHANGED <<flag, readable, trading, fresh, cached, remoteView, watchdog>>

Fetched(view) ==
  /\ recon = "local"
  /\ recon' = "fetched"
  /\ remoteView' = view
  /\ UNCHANGED <<flag, readable, trading, fresh, cached, localView, watchdog>>

\* The Limitless fetcher reads the socket's cache while it is fresh, and asks
\* for the portfolio of the first wallet otherwise.  Polymarket's fetcher is
\* not registered (its HTTP module is missing) and SX Bet has none.
FetchCache == fresh /\ Fetched(cached)
FetchPortfolio == ~fresh /\ Fetched(Held \cap On("Limitless") \cap FirstWallet)

\* No key, no wallet, a status other than 200, an exception or a shape it does
\* not know: the fetcher answers that there are no positions.
FetchFails == ~fresh /\ Fetched({})

\* Fault: only the keys of the local side are compared.
LocalMismatches ==
  {a \in localView : a \notin remoteView \/ a \notin Alike}

\* _diff_positions over the keys of both sides.
Mismatches ==
  {a \in localView \cup remoteView :
     ~ (a \in localView /\ a \in remoteView /\ a \in Alike)}

\* A mismatch sets the flag at once.  Fetchers do not raise, so the count of
\* consecutive fetcher errors stays at zero.
Diff ==
  /\ recon = "fetched"
  /\ flag' = IF Mismatches # {} THEN Killed("reconcile") ELSE flag
  /\ recon' = "idle"
  /\ localView' = {}
  /\ remoteView' = {}
  /\ UNCHANGED <<readable, trading, fresh, cached, watchdog>>

------------------------------------------------------------------------------
\* watchdog.main, _on_kill_detected

\* Fault: the flag's disappearance goes unnoticed.
PollForgetsClear ==
  /\ wd = "poll"
  /\ IF IsKilled /\ ~wasKilled
       THEN wd' = "list" /\ owed' = In({"open"}) /\ errors' = FALSE
       ELSE UNCHANGED <<wd, owed, errors>>
  /\ UNCHANGED <<flag, readable, trading, reconcile, wasKilled, batch>>

\* Fault: the kill is noted before its hook has run.
PollNotesFirst ==
  /\ wd = "poll"
  /\ wasKilled' = IsKilled
  /\ IF IsKilled /\ ~wasKilled
       THEN wd' = "list" /\ owed' = In({"open"}) /\ errors' = FALSE
       ELSE UNCHANGED <<wd, owed, errors>>
  /\ UNCHANGED <<flag, readable, trading, reconcile, batch>>

\* One turn of the loop: a kill that is news starts the cancel hook, and
\* otherwise was_killed follows the flag.
Poll ==
  /\ wd = "poll"
  /\ IF IsKilled /\ ~wasKilled
       THEN /\ wd' = "list"
            /\ owed' = In({"open"})
            /\ errors' = FALSE
            /\ UNCHANGED wasKilled
       ELSE wasKilled' = IsKilled /\ UNCHANGED <<wd, owed, errors>>
  /\ UNCHANGED <<flag, readable, trading, reconcile, batch>>

\* GET /orders/user: the open orders of the account whose key the watchdog has.
Listed == In({"open"}) \cap OnAccount

\* Fault: with nothing open at Limitless the hook is done.
ListOrdersEndsHook ==
  /\ wd = "list"
  /\ \/ /\ batch' = Listed
        /\ wd' = IF batch' = {} THEN "note" ELSE "cancel"
        /\ UNCHANGED errors
     \/ wd' = "poly" /\ errors' = TRUE /\ UNCHANGED batch
  /\ UNCHANGED <<flag, readable, trading, reconcile, wasKilled, owed>>

\* _cancel_limitless_pending: the open orders are listed.  Without the key the
\* step passes with none and no error ...
ListOrders ==
  /\ wd = "list"
  /\ \/ /\ batch' = Listed
        /\ wd' = IF batch' = {} THEN "poly" ELSE "cancel"
        /\ UNCHANGED errors
     \/ wd' = "poly" /\ errors' = TRUE /\ UNCHANGED batch
  /\ UNCHANGED <<flag, readable, trading, reconcile, wasKilled, owed>>

Cancelled(set) ==
  fire' = [a \in Arbs |-> IF a \in set /\ fire[a] = "open" THEN "over" ELSE fire[a]]

\* ... and the listed ones are cancelled in one request.
CancelBatch ==
  /\ wd = "cancel"
  /\ wd' = "poly"
  /\ batch' = {}
  /\ \/ Cancelled(batch) /\ UNCHANGED errors
     \/ errors' = TRUE /\ UNCHANGED fire
  /\ UNCHANGED <<flag, readable, rows, reconcile, wasKilled, owed>>

\* _cancel_polymarket_pending: every wallet's orders are cancelled by a request
\* of its own, and some of the requests fail.
CancelPoly ==
  /\ wd = "poly"
  /\ wd' = "note"
  /\ \/ Cancelled(On("Polymarket")) /\ UNCHANGED errors
     \/ errors' = TRUE /\ \E set \in SUBSET On("Polymarket") : Cancelled(set)
  /\ UNCHANGED <<flag, readable, rows, reconcile, wasKilled, batch, owed>>

\* The hook's row is written, and the turn ends.
HookEnds ==
  /\ wd = "note"
  /\ wd' = "poll"
  /\ wasKilled' = TRUE
  /\ UNCHANGED <<flag, readable, trading, reconcile, batch, errors, owed>>

\* Writing the row raises: was_killed keeps its value and the hook comes again.
HookRaises ==
  /\ wd = "note"
  /\ wd' = "poll"
  /\ UNCHANGED <<flag, readable, trading, reconcile, wasKilled, batch, errors, owed>>

\* The watchdog starts again: a flag that is there already is old news to it.
WatchdogRestarts ==
  /\ wd' = "poll"
  /\ wasKilled' = IsKilled
  /\ batch' = {}
  /\ owed' = {}
  /\ errors' = FALSE
  /\ UNCHANGED <<flag, readable, trading, reconcile>>

------------------------------------------------------------------------------

FireStep(a) == Gate(a) \/ Post(a) \/ Settle(a) \/ LogPosition(a) \/ Close(a)

Fetch == FetchCache \/ FetchPortfolio \/ FetchFails

Reconcile == ReadLocal \/ Fetch \/ Diff

Hook == ListOrders \/ CancelBatch \/ CancelPoly \/ HookEnds \/ HookRaises

SwitchNext ==
  \/ \E a \in Arbs : FireStep(a) \/ Push(a)
  \/ RadarRestarts \/ Kill \/ Resume \/ FileSystem
  \/ CacheAges \/ Reconcile
  \/ Poll \/ Hook \/ WatchdogRestarts

\* The loops run, a request is over when its time-out is, and now and then a
\* pass is not cut short by a restart and the watchdog's log can be written.
SwitchFairness ==
  /\ WF_switchVars(Reconcile)
  /\ SF_switchVars(Fetch)
  /\ SF_switchVars(Diff)
  /\ WF_switchVars(Poll)
  /\ WF_switchVars(Hook)
  /\ SF_switchVars(HookEnds)

SwitchSpec == SwitchInit /\ [][SwitchNext]_switchVars

SwitchFairSpec == SwitchSpec /\ SwitchFairness

------------------------------------------------------------------------------
\* Properties

\* Orders that rest where the watchdog has the credentials: the global
\* account's at Limitless, and every wallet's at Polymarket.
InReach == OnAccount \cup On("Polymarket")

\* A cancel hook that ends without an error has left none of the orders in its
\* reach that rested when it saw the kill, though it lists them, cancels them
\* and visits the wallets in steps of its own, while fires past their gate go
\* on posting.
SweepIsComplete ==
  wd = "note" /\ ~errors => owed \cap In({"open"}) \cap InReach = {}

\* The watchdog comes to know a flag that stays, and forgets one that is gone,
\* through failing hooks and its own restarts: no later kill is taken for an
\* old one.
FlagIsFollowed ==
  \A b \in BOOLEAN :
    <>[](readable /\ (flag # "none") = b) => <>[](wd = "poll" => wasKilled = b)

\* Limitless fires whose row and position differ in a way that the fetcher can
\* tell: a row without a position that no fresh cache still shows, and a
\* position without a row that a fresh cache shows.
Diverged ==
  LET shown == IF fresh THEN cached ELSE {} IN
  {a \in On("Limitless") :
     \/ a \in rows /\ a \notin Held \cup shown
     \/ a \in Held \cap shown /\ a \notin rows}

\* Such a difference that stays sets the kill switch, again and again if the
\* operator resumes, whatever the portfolio endpoint answers, though a pass
\* reads the two sides at different times, restarts cut passes short and the
\* cache lags and ages.
DivergenceHalts ==
  (<>[](Diverged # {}) /\ <>[]readable) => []<>(flag # "none")

==============================================================================
