----------------------------- MODULE LimSocket ------------------------------
(****************************************************************************)
(* Limitless's Socket.IO clients: limitless_ws.py ("market": books of slugs *)
(* and our order events) and the service's limitless_user_ws.ts ("service": *)
(* order events). The market client lives with a second reconnector, the    *)
(* one inside python-socketio; its subscriptions are sent both by the       *)
(* connect handler and by whoever changes the set, and each message has a   *)
(* thread of its own.                                                       *)
(****************************************************************************)
EXTENDS Integers, FiniteSets

CONSTANTS
  Kinds,        \* subset of {"market", "service"}
  Slugs,
  Traded,       \* the slugs whose books are followed here
  MaxFails,     \* DEFAULT_MAX_FAILS_BEFORE_PAUSE
  Attempts,     \* DEFAULT_RECONNECT_ATTEMPTS of the library
  MaxFaults,    \* drops, silences and failed connects in a run
  MaxUpdates,   \* changes of the desired set
  MaxPushes     \* changes of a book at the exchange

ASSUME LimSocketAssumption ==
  /\ Kinds \subseteq {"market", "service"}
  /\ Traded \subseteq Slugs
  /\ MaxFails \in Nat \ {0} /\ Attempts \in Nat \ {0}
  /\ MaxFaults \in Nat /\ MaxUpdates \in Nat /\ MaxPushes \in Nat

VARIABLES
  kind,
  desired,    \* _desired
  link,       \* "down", "open", or "silent": open, and nothing comes any more
  server,     \* the slugs the exchange pushes on this connection
  orders,     \* it pushes our order events
  lib,        \* attempts the library has left to reconnect by itself
  sup,        \* supervisor: "top", "connecting", "watching", "ended", "resting", "hung"
  fails,      \* _consecutive_failures
  connected,  \* _connected
  told,       \* _order_events_subscribed
  pc,         \* of the connect handler and of the thread that changes the set:
              \* "off", "start", "sync", "emit", "orders"
  naming,     \* the set each of them is about to emit
  latest,     \* version of a slug's book at the exchange
  pushed,     \* <<slug, version>> past the check of _desired, not yet stored
  book,       \* books[s]: its version, or Gone
  marking,    \* slugs between a book's change and its mark
  dirty, batch,
  seen,       \* the version the callback last read
  faults, updates, pushes

link_ == <<link, server, orders>>
super == <<lib, sup, fails, connected, told>>
threads == <<pc, naming>>
data == <<latest, pushed, book, marking, dirty, batch, seen>>
bounds == <<faults, updates, pushes>>
vars == <<kind, desired, link_, super, threads, data, bounds>>

Gone == -1
Threads == {"handler", "updater"}

Init ==
  /\ kind \in Kinds
  /\ desired = {} /\ link = "down" /\ server = {} /\ orders = FALSE
  /\ lib = 0 /\ sup = "top" /\ fails = 0 /\ connected = FALSE /\ told = FALSE
  /\ pc = [th \in Threads |-> "off"] /\ naming = [th \in Threads |-> {}]
  /\ latest = [s \in Traded |-> 0] /\ book = [s \in Traded |-> Gone]
  /\ seen = [s \in Traded |-> Gone]
  /\ pushed = {} /\ marking = {} /\ dirty = {} /\ batch = {}
  /\ faults = 0 /\ updates = 0 /\ pushes = 0

-----------------------------------------------------------------------------
\* The connection

\* Opened by the supervisor or by the library: the exchange remembers nothing,
\* and the connect handler starts in a thread of its own.
Open ==
  /\ link = "down" /\ pc["handler"] = "off"
  /\ link' = "open" /\ server' = {} /\ orders' = FALSE
  /\ pc' = [pc EXCEPT !["handler"] = "start"]
  /\ UNCHANGED naming

\* Fault: the disconnect handler leaves the order events' flag.
CloseKeepsFlag(attempts) ==
  /\ link' = "down" /\ server' = {} /\ orders' = FALSE
  /\ connected' = FALSE /\ UNCHANGED told
  /\ lib' = IF kind = "market" THEN attempts ELSE 0

\* Over, by the exchange or by us: the disconnect handler runs at once. The
\* library reconnects when it was not us.
Close(attempts) ==
  /\ link' = "down" /\ server' = {} /\ orders' = FALSE
  /\ connected' = FALSE /\ told' = FALSE
  /\ lib' = IF kind = "market" THEN attempts ELSE 0

Mishap == faults < MaxFaults /\ faults' = faults + 1 /\ UNCHANGED <<updates, pushes>>

Drop ==
  /\ Mishap
  /\ link # "down"
  /\ Close(Attempts)
  /\ sup' = IF kind = "service" THEN "ended" ELSE sup
  /\ UNCHANGED <<kind, desired, fails, threads, data>>

Hush ==
  /\ Mishap
  /\ link = "open"
  /\ link' = "silent"
  /\ UNCHANGED <<kind, desired, server, orders, super, threads, data>>

\* The library's own reconnect; an attempt is in vain when the supervisor was
\* faster, or by a fault.
LibReconnects ==
  /\ lib > 0
  /\ Open
  /\ lib' = 0
  /\ UNCHANGED <<kind, desired, sup, fails, connected, told, data, bounds>>

LibFails ==
  /\ lib > 0
  /\ \/ link # "down" /\ UNCHANGED bounds
     \/ link = "down" /\ Mishap
  /\ lib' = lib - 1
  /\ UNCHANGED <<kind, desired, link_, sup, fails, connected, told, threads, data>>

-----------------------------------------------------------------------------
\* The supervisor

Elsewhere == UNCHANGED <<kind, desired, data>>

\* The market client idles while it has nothing to ask for.
Begin ==
  /\ sup = "top"
  /\ kind = "service" \/ desired # {}
  /\ sup' = "connecting"
  /\ UNCHANGED <<link_, lib, fails, connected, told, threads, bounds>> /\ Elsewhere

ConnectSucceeds ==
  /\ sup = "connecting"
  /\ Open
  /\ sup' = "watching"
  /\ fails' = 0
  /\ UNCHANGED <<lib, connected, told, bounds>> /\ Elsewhere

\* sio.connect raises while the library is connected: a failure like others.
AlreadyConnected ==
  /\ sup = "connecting"
  /\ link # "down"
  /\ sup' = "ended"
  /\ fails' = fails + 1
  /\ UNCHANGED <<link_, lib, connected, told, threads, bounds>> /\ Elsewhere

\* A connect that goes wrong ends the market client's attempt; the service's
\* connect_error is only logged, and its promise is never resolved.
ConnectFails ==
  /\ sup = "connecting"
  /\ link = "down"
  /\ Mishap
  /\ IF kind = "market"
     THEN sup' = "ended" /\ fails' = fails + 1
     ELSE sup' = "hung" /\ UNCHANGED fails
  /\ UNCHANGED <<link_, lib, connected, told, threads>> /\ Elsewhere

\* Its factory or the signer throws: the service's supervisor goes on.
ConnectThrows ==
  /\ sup = "connecting" /\ kind = "service"
  /\ Mishap
  /\ sup' = "ended"
  /\ UNCHANGED <<link_, lib, fails, connected, told, threads>> /\ Elsewhere

\* Fault: the watch only asks whether the client is connected.
WatchTrusting ==
  /\ sup = "watching"
  /\ link = "down" /\ UNCHANGED <<link_, connected, told, lib>>
  /\ sup' = "ended"
  /\ UNCHANGED <<fails, threads, bounds>> /\ Elsewhere

\* Every five seconds: the connection is gone at this moment, or nothing came
\* for the heartbeat's timeout and it is closed.
Watch ==
  /\ sup = "watching"
  /\ \/ link = "down" /\ UNCHANGED <<link_, connected, told, lib>>
     \/ link = "silent" /\ Close(0)
  /\ sup' = "ended"
  /\ UNCHANGED <<fails, threads, bounds>> /\ Elsewhere

\* "_connected = False", whatever the library has done in the meantime.
Ended ==
  /\ sup = "ended"
  /\ sup' = "resting"
  /\ connected' = FALSE
  /\ told' = IF kind = "service" THEN FALSE ELSE told
  /\ UNCHANGED <<link_, lib, fails, threads, bounds>> /\ Elsewhere

\* The backoff, or after MaxFails failures the long pause.
Rested ==
  /\ sup = "resting"
  /\ sup' = "top"
  /\ fails' = IF fails >= MaxFails THEN 0 ELSE fails
  /\ UNCHANGED <<link_, lib, connected, told, threads, bounds>> /\ Elsewhere

-----------------------------------------------------------------------------
\* Subscriptions

\* update_subscriptions: the set under the lock, then _sync_subscriptions.
Update(new) ==
  /\ kind = "market"
  /\ updates < MaxUpdates
  /\ pc["updater"] = "off"
  /\ new # desired
  /\ updates' = updates + 1
  /\ desired' = new
  /\ book' = [s \in Traded |-> IF s \in desired \ new THEN Gone ELSE book[s]]
  /\ pc' = [pc EXCEPT !["updater"] = "sync"]
  /\ UNCHANGED <<kind, link_, super, naming, latest, pushed, marking, dirty, batch, seen,
                 faults, pushes>>

\* The handler: connected, then the sets, then the order events.
HandlerStarts ==
  /\ pc["handler"] = "start"
  /\ connected' = TRUE
  /\ pc' = [pc EXCEPT !["handler"] = IF kind = "market" THEN "sync" ELSE "orders"]
  /\ UNCHANGED <<link_, lib, sup, fails, told, naming, bounds>> /\ Elsewhere

After(th) == IF th = "handler" THEN "orders" ELSE "off"

\* _sync_subscriptions: nothing to do unless _connected; the set is read under
\* the lock and emitted after it.
SyncReads(th) ==
  /\ pc[th] = "sync"
  /\ naming' = [naming EXCEPT ![th] = desired]
  /\ pc' = [pc EXCEPT ![th] = IF connected THEN "emit" ELSE After(th)]
  /\ UNCHANGED <<link_, super, bounds>> /\ Elsewhere

\* A replace at the exchange; on a connection that is gone it raises, which is
\* logged.
SyncEmits(th) ==
  /\ pc[th] = "emit"
  /\ server' = IF link # "down" THEN naming[th] ELSE server
  /\ pc' = [pc EXCEPT ![th] = After(th)]
  /\ UNCHANGED <<link, orders, super, naming, bounds>> /\ Elsewhere

\* The handler has cleared the flag first.
SubscribeOrders ==
  /\ pc["handler"] = "orders"
  /\ orders' = (orders \/ (connected /\ link # "down"))
  /\ told' = (connected /\ link # "down")
  /\ pc' = [pc EXCEPT !["handler"] = "off"]
  /\ UNCHANGED <<link, server, lib, sup, fails, connected, naming, bounds>> /\ Elsewhere

-----------------------------------------------------------------------------
\* Books

Outside == UNCHANGED <<kind, desired, link_, super, threads>>

\* The exchange's book changes and is pushed if it is subscribed;
\* _handle_orderbook drops it when the slug is not desired (any more).
Push(s) ==
  /\ kind = "market" /\ link = "open" /\ s \in server
  /\ pushes < MaxPushes
  /\ pushes' = pushes + 1
  /\ latest' = [latest EXCEPT ![s] = @ + 1]
  /\ pushed' = IF s \in desired THEN pushed \cup {<<s, latest'[s]>>} ELSE pushed
  /\ UNCHANGED <<book, marking, dirty, batch, seen, faults, updates>> /\ Outside

\* Parsed, then stored under the lock, in the order the threads come to it.
Store(p) ==
  /\ p \in pushed
  /\ pushed' = pushed \ {p}
  /\ book' = [book EXCEPT ![p[1]] = p[2]]
  /\ marking' = marking \cup {p[1]}
  /\ UNCHANGED <<latest, dirty, batch, seen, bounds>> /\ Outside

Mark(s) ==
  /\ s \in marking
  /\ marking' = marking \ {s}
  /\ dirty' = dirty \cup {s}
  /\ UNCHANGED <<latest, pushed, book, batch, seen, bounds>> /\ Outside

\* _coalesce_loop takes the dirty slugs and clears them before the callbacks.
Flush ==
  /\ dirty # {} /\ batch = {}
  /\ batch' = dirty
  /\ dirty' = {}
  /\ UNCHANGED <<latest, pushed, book, marking, seen, bounds>> /\ Outside

\* Fault: the dirty set is cleared once the callbacks are done.
CallBackThenClear(s) ==
  /\ s \in batch
  /\ \/ seen' = [seen EXCEPT ![s] = book[s]] /\ UNCHANGED <<batch, dirty>>
     \/ seen[s] # Gone /\ batch' = batch \ {s} /\ dirty' = dirty \ {s} /\ UNCHANGED seen
  /\ UNCHANGED <<latest, pushed, book, marking, bounds>> /\ Outside

CallBack(s) ==
  /\ s \in batch
  /\ seen' = [seen EXCEPT ![s] = book[s]]
  /\ batch' = batch \ {s}
  /\ UNCHANGED <<latest, pushed, book, marking, dirty, bounds>> /\ Outside

-----------------------------------------------------------------------------
Supervise == Begin \/ ConnectSucceeds \/ AlreadyConnected \/ Watch \/ Ended \/ Rested
Handle == HandlerStarts \/ SubscribeOrders \/ SyncReads("handler") \/ SyncEmits("handler")
Sync == SyncReads("updater") \/ SyncEmits("updater")

Next ==
  \/ Supervise \/ ConnectFails \/ ConnectThrows \/ LibReconnects \/ LibFails
  \/ Drop \/ Hush
  \/ \E new \in SUBSET Slugs : Update(new)
  \/ Handle \/ Sync
  \/ \E s \in Traded : Push(s) \/ Mark(s) \/ CallBack(s)
  \/ \E p \in pushed : Store(p)
  \/ Flush

\* Threads and timers go on; connects that go wrong for ever are not assumed
\* away: a failed one is a fault, and faults are bounded.
Spec ==
  /\ Init /\ [][Next]_vars
  /\ WF_vars(Supervise) /\ WF_vars(Handle) /\ WF_vars(Sync)

-----------------------------------------------------------------------------
\* Properties

\* Types; besides, a connection that is gone has no subscriptions, the client
\* claims order events only while the exchange sends them, and only the market
\* client counts failures and has a library that reconnects.
TypeOK ==
  /\ kind \in Kinds
  /\ desired \subseteq Slugs /\ server \subseteq Slugs
  /\ link \in {"down", "open", "silent"} /\ orders \in BOOLEAN
  /\ lib \in 0..Attempts
  /\ sup \in {"top", "connecting", "watching", "ended", "resting", "hung"}
  /\ fails \in Nat
  /\ connected \in BOOLEAN /\ told \in BOOLEAN
  /\ pc \in [Threads -> {"off", "start", "sync", "emit", "orders"}]
  /\ naming \in [Threads -> SUBSET Slugs]
  /\ latest \in [Traded -> 0..MaxPushes]
  /\ pushed \subseteq Traded \X (1..MaxPushes)
  /\ book \in [Traded -> {Gone} \cup 1..MaxPushes]
  /\ seen \in [Traded -> {Gone} \cup 1..MaxPushes]
  /\ marking \subseteq Traded /\ dirty \subseteq Traded /\ batch \subseteq Traded
  /\ faults \in 0..MaxFaults /\ updates \in 0..MaxUpdates /\ pushes \in 0..MaxPushes
  /\ link = "down" => server = {}
  /\ told => orders
  /\ kind = "service" => lib = 0 /\ fails = 0

\* When the faults end there is a connection, whichever of the two
\* reconnectors was first and however they met, and nobody who watches one
\* sleeps on a silent one; unless the market client has nothing to ask for or
\* the service's client hangs on a connect error.
LinkComesBack ==
  <>[](\/ link = "open"
       \/ link = "silent" /\ sup # "watching"
       \/ sup = "hung"
       \/ kind = "market" /\ desired = {})

\* No change of a book is lost between its handler, the dirty set and the
\* callback: when nothing is pending for a slug, the callback has read the
\* book as it is.
Quiet(s) == s \notin marking /\ s \notin dirty /\ s \notin batch
NothingLost == \A s \in Traded : Quiet(s) => book[s] = Gone \/ seen[s] = book[s]

\* "If we're not yet connected, the on-connect handler picks this up": when
\* the faults end, the exchange pushes what is desired.
ServedInTheEnd == <>[](link = "open" /\ kind = "market" => server = desired)

=============================================================================
