----------------------------- MODULE PolySocket -----------------------------
(****************************************************************************)
(* Polymarket's WebSocket clients: poly_ws.py ("market": prices of tokens), *)
(* poly_user_ws.py ("user": our fills) and the service's poly_user_ws.ts    *)
(* ("service"). One supervisor, a connection that is closed whenever the    *)
(* desired set changes, a heartbeat; and for the market kind the books and  *)
(* the coalescer that hands changed tokens to the radar's callback.         *)
(****************************************************************************)
EXTENDS Integers, Sequences, FiniteSets, FiniteSetsExt

CONSTANTS
  Kinds,       \* subset of {"market", "user", "service"}
  Tokens,      \* token ids or condition ids
  Traded,      \* the tokens whose books are followed here
  None,        \* no token
  Prices,      \* ask levels of a token
  Backoff,     \* BACKOFF_SCHEDULE
  MaxFaults,   \* drops, failed connects, silences and auth errors in a run
  MaxUpdates,  \* changes of the desired set
  MaxMoves     \* changes of a book at the exchange

ASSUME PolySocketAssumption ==
  /\ Kinds \subseteq {"market", "user", "service"}
  /\ None \notin Tokens
  /\ Traded \subseteq Tokens
  /\ Prices \subseteq Nat \ {0}
  /\ Backoff \in Seq(Nat) /\ Backoff # <<>>
  /\ MaxFaults \in Nat /\ MaxUpdates \in Nat /\ MaxMoves \in Nat

VARIABLES
  kind,
  desired,   \* _desired
  sup,       \* supervisor: "top", "connecting", "reading", "open", "down", "backoff", "stopped"
  asked,     \* what the subscribe message names, from when it is read
  server,    \* what the exchange pushes on this connection
  attempts,  \* _connect_attempts
  wait,      \* the last delay, 0 before the first
  retired,   \* a change of the set is about to close the connection
  silent,    \* the exchange sends nothing more on it
  barred,    \* _auth_failed_at
  levels,    \* asks at the exchange
  book,      \* books[t]: its best ask, NoAsk or Gone
  fresh,     \* tokens this connection has told everything of since a snapshot
             \* with asks
  marking,   \* a token between its book's change and _mark_dirty, or None
  dirty, batch,
  seen,      \* the ask the callback last evaluated, by token
  faults, updates, moves

link == <<desired, sup, asked, server, attempts, wait, retired, silent, barred>>
data == <<levels, book, fresh, marking, dirty, batch, seen>>
bounds == <<faults, updates, moves>>
polyVars == <<kind, link, data, bounds>>

Gone == -1
NoAsk == 0

Best(L) == IF L = {} THEN NoAsk ELSE Min(L)

PolyInit ==
  /\ kind \in Kinds
  /\ desired = {} /\ sup = "top" /\ asked = {} /\ server = {}
  /\ attempts = 0 /\ wait = 0
  /\ retired = FALSE /\ silent = FALSE /\ barred = FALSE
  /\ \E ask \in Prices : levels = [t \in Traded |-> {ask}]
  /\ book = [t \in Traded |-> Gone] /\ fresh = {}
  /\ marking = None /\ dirty = {} /\ batch = {}
  /\ seen = [t \in Traded |-> Gone]
  /\ faults = 0 /\ updates = 0 /\ moves = 0

-----------------------------------------------------------------------------
\* The desired set

\* The connection is over, and what the exchange knew of it.
Lose(next) ==
  /\ sup' = next
  /\ server' = {}
  /\ silent' = FALSE
  /\ fresh' = {}
Keep == UNCHANGED <<sup, server, silent, fresh>>

\* update_subscriptions, update_markets: the new set first, the close after
\* it, outside the lock; the service does both at once.
Update(new) ==
  /\ new # desired
  /\ updates < MaxUpdates
  /\ updates' = updates + 1
  /\ desired' = new
  /\ book' = [t \in Traded |-> IF kind = "market" /\ t \in desired \ new THEN Gone ELSE book[t]]
  /\ retired' = (kind # "service" /\ sup # "stopped")
  /\ IF kind = "service" /\ sup \in {"connecting", "reading", "open"} THEN Lose("down") ELSE Keep
  /\ UNCHANGED <<kind, asked, attempts, wait, barred, levels, marking, dirty, batch, seen,
                 faults, moves>>

\* Fault: the new set waits for the next reconnect.
LeaveOpen ==
  /\ retired
  /\ retired' = FALSE
  /\ Keep
  /\ UNCHANGED <<kind, desired, asked, attempts, wait, barred, levels, book, marking, dirty,
                 batch, seen, bounds>>

\* The close ends an open connection. One that is still being made may survive
\* it: that one reads the new set when it is open.
CloseRetired ==
  /\ retired
  /\ retired' = FALSE
  /\ \/ sup \in {"connecting", "reading", "open"} /\ Lose("down")
     \/ sup \notin {"reading", "open"} /\ Keep
  /\ UNCHANGED <<kind, desired, asked, attempts, wait, barred, levels, book, marking, dirty,
                 batch, seen, bounds>>

-----------------------------------------------------------------------------
\* The supervisor and its connection

Stay == UNCHANGED <<kind, desired, retired, data, bounds>>

\* It idles while there is nothing to ask for, and while barred.
Connect ==
  /\ sup = "top"
  /\ desired # {}
  /\ ~barred
  /\ sup' = "connecting"
  /\ asked' = desired
  /\ attempts' = attempts + 1
  /\ UNCHANGED <<server, wait, silent, barred>> /\ Stay

\* _on_open reads the set; the service keeps the one it set out with.
ReadDesired ==
  /\ sup = "connecting"
  /\ sup' = "reading"
  /\ asked' = IF kind = "service" THEN asked ELSE desired
  /\ UNCHANGED <<server, attempts, wait, silent, barred>> /\ Stay

\* An opened connection resets the backoff; fault: it counts on.
OpenedStillCounts == attempts
Opened == 0

Send ==
  /\ sup = "reading"
  /\ sup' = "open"
  /\ server' = asked
  /\ attempts' = Opened
  /\ UNCHANGED <<asked, wait, silent, barred>> /\ Stay

\* The delay after a connection: one that opened has reset the attempts, and
\* only the market client clamps the index; the others take the last entry.
Delay ==
  IF attempts = 0 /\ kind # "market"
  THEN Backoff[Len(Backoff)]
  ELSE Backoff[Max({1, Min({attempts, Len(Backoff)})})]

Pause ==
  /\ sup = "down"
  /\ sup' = "backoff"
  /\ wait' = Delay
  /\ UNCHANGED <<asked, server, attempts, silent, barred>> /\ Stay

Wake ==
  /\ sup = "backoff"
  /\ sup' = "top"
  /\ UNCHANGED <<asked, server, attempts, wait, silent, barred>> /\ Stay

\* _heartbeat_loop: no message, no PONG within PONG_TIMEOUT.
Watchdog ==
  /\ sup = "open"
  /\ silent
  /\ Lose("down")
  /\ UNCHANGED <<kind, desired, asked, attempts, wait, retired, barred, levels, book, marking,
                 dirty, batch, seen, bounds>>

\* The hour is over.
Admit ==
  /\ barred
  /\ barred' = FALSE
  /\ UNCHANGED <<sup, asked, server, attempts, wait, silent>> /\ Stay

\* Faults: the connection drops or is never made; the exchange falls silent;
\* it says "unauthorized": the user client stops itself for good, the
\* service's stays away for an hour.
Mishap == faults < MaxFaults /\ faults' = faults + 1 /\ UNCHANGED <<updates, moves>>
Rest == UNCHANGED <<kind, desired, asked, attempts, wait, retired, levels, book, marking, dirty,
                    batch, seen>>

Drop ==
  /\ Mishap
  /\ sup \in {"connecting", "reading", "open"}
  /\ Lose("down")
  /\ UNCHANGED barred /\ Rest

Hush ==
  /\ Mishap
  /\ sup = "open" /\ ~silent
  /\ silent' = TRUE
  /\ UNCHANGED <<sup, server, barred, fresh>> /\ Rest

AuthError ==
  /\ Mishap
  /\ kind # "market"
  /\ sup = "open" /\ ~silent
  /\ IF kind = "user" THEN Lose("stopped") ELSE Lose("down")
  /\ barred' = (kind = "service")
  /\ Rest

-----------------------------------------------------------------------------
\* Books of the market client

Told(t) == kind = "market" /\ sup = "open" /\ ~silent /\ t \in server

Keeping(t, ask) ==
  /\ book' = [book EXCEPT ![t] = ask]
  /\ marking' = t

\* Fault: a cancelled level is not looked at.
AfterDeltaAdds(cur, adds, cancels) ==
  IF adds # {} /\ (cur <= NoAsk \/ Min(adds) <= cur) THEN Min(adds) ELSE cur

\* price_change: a level at or below the best that goes empties the book, a
\* level at or below it that comes is the best.
AfterDelta(cur, adds, cancels) ==
  IF cur > NoAsk /\ \E p \in cancels : p <= cur THEN NoAsk
  ELSE IF adds # {} /\ (cur <= NoAsk \/ Min(adds) <= cur) THEN Min(adds)
  ELSE cur

\* The asks of t move and the client is told: what came and went, or the best.
Move(t, new) ==
  /\ moves < MaxMoves
  /\ new # levels[t]
  /\ marking = None
  /\ levels' = [levels EXCEPT ![t] = new]
  /\ moves' = moves + 1

PriceChange(t, new) ==
  /\ Told(t)
  /\ Move(t, new)
  /\ LET ask == AfterDelta(book[t], new \ levels[t], levels[t] \ new)
     IN IF ask = book[t] THEN UNCHANGED <<book, marking>> ELSE Keeping(t, ask)
  /\ UNCHANGED <<kind, link, fresh, dirty, batch, seen, faults, updates>>

BestBidAsk(t, new) ==
  /\ Told(t)
  /\ new # {}
  /\ Move(t, new)
  /\ Keeping(t, Best(new))
  /\ UNCHANGED <<kind, link, fresh, dirty, batch, seen, faults, updates>>

\* Nobody listens.
MoveUnheard(t, new) ==
  /\ kind = "market" /\ ~Told(t)
  /\ Move(t, new)
  /\ fresh' = fresh \ {t}
  /\ UNCHANGED <<kind, link, book, marking, dirty, batch, seen, faults, updates>>

\* A "book" event. An empty one leaves the book as it is.
Snapshot(t) ==
  /\ Told(t)
  /\ marking = None
  /\ IF levels[t] = {}
     THEN fresh' = fresh \ {t} /\ UNCHANGED <<book, marking>>
     ELSE fresh' = fresh \cup {t} /\ Keeping(t, Best(levels[t]))
  /\ UNCHANGED <<kind, link, levels, dirty, batch, seen, bounds>>

MarkDirty ==
  /\ marking # None
  /\ dirty' = dirty \cup {marking}
  /\ marking' = None
  /\ UNCHANGED <<kind, link, levels, book, fresh, batch, seen, bounds>>

\* _coalesce_loop
Flush ==
  /\ dirty # {} /\ batch = {}
  /\ batch' = dirty
  /\ dirty' = {}
  /\ UNCHANGED <<kind, link, levels, book, fresh, marking, seen, bounds>>

\* on_update reads the book.
CallBack(t) ==
  /\ t \in batch
  /\ seen' = [seen EXCEPT ![t] = book[t]]
  /\ batch' = batch \ {t}
  /\ UNCHANGED <<kind, link, levels, book, fresh, marking, dirty, bounds>>

-----------------------------------------------------------------------------
Supervise == Connect \/ ReadDesired \/ Send \/ Pause \/ Wake \/ Admit

PolyNext ==
  \/ \E new \in SUBSET Tokens : Update(new)
  \/ Supervise \/ CloseRetired \/ Watchdog
  \/ Drop \/ Hush \/ AuthError
  \/ \E t \in Traded, new \in SUBSET Prices :
       PriceChange(t, new) \/ BestBidAsk(t, new) \/ MoveUnheard(t, new)
  \/ MarkDirty \/ Flush
  \/ \E t \in Traded : Snapshot(t) \/ CallBack(t)

\* Threads and timers go on; the network and the exchange promise nothing.
PolySpec ==
  /\ PolyInit /\ [][PolyNext]_polyVars
  /\ WF_polyVars(Supervise) /\ WF_polyVars(CloseRetired) /\ WF_polyVars(Watchdog)

-----------------------------------------------------------------------------
\* Properties

\* Types; besides, only an open connection has a set at the exchange, and it
\* has reset the backoff.
PolyTypeOK ==
  /\ kind \in Kinds
  /\ desired \subseteq Tokens /\ asked \subseteq Tokens /\ server \subseteq Tokens
  /\ sup \in {"top", "connecting", "reading", "open", "down", "backoff", "stopped"}
  /\ attempts \in Nat /\ wait \in Nat
  /\ retired \in BOOLEAN /\ silent \in BOOLEAN /\ barred \in BOOLEAN
  /\ levels \in [Traded -> SUBSET Prices]
  /\ book \in [Traded -> Prices \cup {Gone, NoAsk}]
  /\ seen \in [Traded -> Prices \cup {Gone, NoAsk}]
  /\ fresh \subseteq Traded /\ dirty \subseteq Traded /\ batch \subseteq Traded
  /\ marking \in Traded \cup {None}
  /\ faults \in 0..MaxFaults /\ updates \in 0..MaxUpdates /\ moves \in 0..MaxMoves
  /\ sup # "open" => server = {} /\ ~silent
  /\ sup = "open" => attempts = 0
  /\ fresh \subseteq server
  /\ barred => kind = "service"

\* Once nothing is pending for a token that this connection has told
\* everything of since a snapshot with asks, what the radar last evaluated it
\* at is no better than what the exchange asks: no ask that was cancelled, and
\* no change lost between the handler, the dirty set and the callback.
Quiet(t) == marking # t /\ t \notin dirty /\ t \notin batch
AskIsReal ==
  \A t \in fresh : Quiet(t) /\ book[t] # Gone =>
    \/ seen[t] = NoAsk
    \/ levels[t] # {} /\ seen[t] >= Min(levels[t])

\* When the faults end, the exchange comes to push exactly what is desired,
\* however the last change of the set met the connection; the user client
\* alone may have stopped itself.
LinkIsRebuilt == <>[](server = desired \/ sup = "stopped")

=============================================================================
