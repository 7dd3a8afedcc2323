----------------------------- MODULE FireDispatch -----------------------------
(***************************************************************************)
(* How the radar turns detected deals into fires: _maybe_dry_fire and the  *)
(* fire_arb dispatcher (Scripts/arb_server.py) over the FireDedup store    *)
(* (Scripts/radar/dedup.py), with the TypeScript executor behind HTTP and  *)
(* the in-process Python executor behind it as the fallback.               *)
(*                                                                         *)
(* The main scan and the two orderbook callbacks call _maybe_dry_fire from *)
(* threads of their own.  A caller reserves its new deals under the lock   *)
(* of the store and then fires them one by one outside it.                 *)
(*                                                                         *)
(* Time counts in units of which Cooldown is FIRE_COOLDOWN_S; the model    *)
(* stops its clock at Horizon.                                             *)
(***************************************************************************)
EXTENDS Integers, FiniteSets

CONSTANTS
  Callers,      \* threads that call _maybe_dry_fire
  Keys,         \* fire keys of the deals on the board, quarantined ones left out
  Cooldown,     \* cooldown_s
  HardCap,      \* hard_cap
  Horizon,      \* bound on the clock
  ViaTs         \* EXECUTOR_URL is set

ASSUME CooldownAssumption == Cooldown \in Nat
ASSUME HardCapAssumption == HardCap \in Nat
ASSUME HorizonAssumption == Horizon \in Nat
ASSUME ViaTsAssumption == ViaTs \in BOOLEAN

VARIABLES
  now,          \* time.time()
  tracked,      \* _tracked: the claimed keys and the time of their claim
  capped,       \* keys the hard cap dropped while a caller had them (history)
  at,           \* where each caller stands
  stamp,        \* the time each busy caller read on entering reserve
  todo,         \* each caller's reserved deals not fired yet
  firing        \* the deal each caller is firing, if any

dispatchVars == <<now, tracked, capped, at, stamp, todo, firing>>

store == <<tracked, capped>>

\* "running": the TypeScript executor has the deal; "python": the in-process
\* executor has it; "both": both do.
CallerStages == {"idle", "reserving", "firing", "posted", "running", "python", "both"}

\* The keys a caller has claimed and not finished firing.
InHand(c) == todo[c] \cup firing[c]

DispatchTypeOK ==
  /\ now \in 0..Horizon
  /\ DOMAIN tracked \subseteq Keys
  /\ \A k \in DOMAIN tracked : tracked[k] \in 0..now
  /\ capped \subseteq Keys
  /\ at \in [Callers -> CallerStages]
  /\ stamp \in [Callers -> 0..now]
  /\ todo \in [Callers -> SUBSET Keys]
  /\ firing \in [Callers -> SUBSET Keys]
  /\ \A c \in Callers :
       /\ at[c] \in {"idle", "reserving"} <=> InHand(c) = {}
       /\ at[c] \in {"posted", "running", "python", "both"} <=> \E k \in Keys : firing[c] = {k}

DispatchInit ==
  /\ now = 0
  /\ tracked = [k \in {} |-> 0]
  /\ capped = {}
  /\ at = [c \in Callers |-> "idle"]
  /\ stamp = [c \in Callers |-> 0]
  /\ todo = [c \in Callers |-> {}]
  /\ firing = [c \in Callers |-> {}]

------------------------------------------------------------------------------
\* FireDedup.reserve

\* The clock is read before the lock is taken.
Enter(c) ==
  /\ at[c] = "idle"
  /\ at' = [at EXCEPT ![c] = "reserving"]
  /\ stamp' = [stamp EXCEPT ![c] = now]
  /\ UNCHANGED <<now, store, todo, firing>>

\* Claims the cooldown has not ended at time t.
LiveClaims(t) == {k \in DOMAIN tracked : t - tracked[k] <= Cooldown}

\* Over the hard cap only the newest int(hard_cap * 0.8) claims survive.
Survive(live, kept) ==
  IF Cardinality(live) <= HardCap
    THEN kept = live
    ELSE /\ Cardinality(kept) = (HardCap * 4) \div 5
         /\ \A k \in kept, d \in live \ kept : tracked[d] <= tracked[k]

\* The caller leaves reserve with its new claims, or at once without any.
Claim(c, new) ==
  /\ todo' = [todo EXCEPT ![c] = new]
  /\ at' = [at EXCEPT ![c] = IF new = {} THEN "idle" ELSE "firing"]
  /\ stamp' = [stamp EXCEPT ![c] = IF new = {} THEN 0 ELSE @]

\* Fault: a key is marked once its deal was fired, not when it is claimed.
ReserveUnmarked(c) ==
  /\ at[c] = "reserving"
  /\ \E deals \in SUBSET Keys : Claim(c, deals \ LiveClaims(stamp[c]))
  /\ UNCHANGED <<now, store, firing>>

\* Under the lock: drop what expired, apply the cap, claim the new deals.
Reserve(c) ==
  /\ at[c] = "reserving"
  /\ \E deals \in SUBSET Keys, kept \in SUBSET LiveClaims(stamp[c]) :
       LET new == deals \ kept IN
       /\ Survive(LiveClaims(stamp[c]), kept)
       /\ tracked' = [k \in kept \cup new |->
                        IF k \in new THEN stamp[c] ELSE tracked[k]]
       /\ capped' = {k \in capped \cup (LiveClaims(stamp[c]) \ kept) :
                      \E d \in Callers : k \in InHand(d)}
       /\ Claim(c, new)
  /\ UNCHANGED <<now, firing>>

------------------------------------------------------------------------------
\* _maybe_dry_fire and the dispatcher, outside the lock

\* The next reserved deal is posted to the TypeScript executor, or fired in
\* process when no EXECUTOR_URL is set.
Dispatch(c) ==
  /\ at[c] = "firing"
  /\ \E k \in todo[c] :
       /\ firing' = [firing EXCEPT ![c] = {k}]
       /\ todo' = [todo EXCEPT ![c] = @ \ {k}]
  /\ at' = [at EXCEPT ![c] = IF ViaTs THEN "posted" ELSE "python"]
  /\ UNCHANGED <<now, store, stamp>>

\* Any exception ends in the in-process executor.
FallBack(c, stage) ==
  /\ at' = [at EXCEPT ![c] = stage]
  /\ UNCHANGED <<now, store, stamp, todo, firing>>

\* The POST is refused, or answered with an error before or after fireArb ran.
PostFails(c) ==
  /\ at[c] \in {"posted", "running"}
  /\ FallBack(c, "python")

\* Fault: only connecting has a timeout.
ConnectTimesOut(c) ==
  /\ at[c] = "posted"
  /\ FallBack(c, "python")

\* Ten seconds without an answer.  The request is not withdrawn: one that
\* was received goes on, and one on its way may still arrive.
PostTimesOut(c) ==
  \/ at[c] \in {"posted", "running"} /\ FallBack(c, "both")
  \/ at[c] = "posted" /\ FallBack(c, "python")

\* Fault: an exception leaves the loop over the reserved deals.
LeaveLoop(c) ==
  /\ at' = [at EXCEPT ![c] = "idle"]
  /\ stamp' = [stamp EXCEPT ![c] = 0]
  /\ firing' = [firing EXCEPT ![c] = {}]

\* The loop goes on to the next reserved deal, whatever became of this one.
NextDeal(c) ==
  /\ at' = [at EXCEPT ![c] = IF todo[c] = {} THEN "idle" ELSE "firing"]
  /\ stamp' = [stamp EXCEPT ![c] = IF todo[c] = {} THEN 0 ELSE @]
  /\ firing' = [firing EXCEPT ![c] = {}]

TsAnswers(c) ==
  /\ at[c] = "running"
  /\ NextDeal(c)
  /\ UNCHANGED <<now, store, todo>>

\* The in-process executor has fired the deal: the next of the batch.
PythonReturns(c) ==
  /\ at[c] \in {"python", "both"}
  /\ NextDeal(c)
  /\ UNCHANGED <<now, store, todo>>

------------------------------------------------------------------------------
\* The TypeScript executor, the clock and the process

TsStarts(c) ==
  /\ at[c] = "posted"
  /\ at' = [at EXCEPT ![c] = "running"]
  /\ UNCHANGED <<now, store, stamp, todo, firing>>

TsEnds(c) ==
  /\ at[c] = "both"
  /\ FallBack(c, "python")

ClockTick ==
  /\ now < Horizon
  /\ now' = now + 1
  /\ UNCHANGED <<store, at, stamp, todo, firing>>

\* The radar restarts: the store is memory only.
Restart ==
  /\ tracked' = [k \in {} |-> 0]
  /\ at' = [c \in Callers |-> "idle"]
  /\ stamp' = [c \in Callers |-> 0]
  /\ todo' = [c \in Callers |-> {}]
  /\ firing' = [c \in Callers |-> {}]
  /\ UNCHANGED <<now, capped>>

------------------------------------------------------------------------------

CallerStep(c) ==
  \/ Enter(c) \/ Reserve(c) \/ Dispatch(c) \/ PostFails(c) \/ PostTimesOut(c)
  \/ PythonReturns(c)

TsStep(c) == TsStarts(c) \/ TsAnswers(c) \/ TsEnds(c)

DispatchNext ==
  \/ \E c \in Callers : CallerStep(c) \/ TsStep(c)
  \/ ClockTick
  \/ Restart

\* A caller goes on once it has something to do: the POST times out and the
\* in-process executor returns.  Nothing is asked of the other executor.
DispatchFairness ==
  \A c \in Callers :
    WF_dispatchVars(Reserve(c) \/ Dispatch(c) \/ PostTimesOut(c) \/ PythonReturns(c))

DispatchSpec == DispatchInit /\ [][DispatchNext]_dispatchVars

DispatchFairSpec == DispatchSpec /\ DispatchFairness

------------------------------------------------------------------------------
\* Properties

\* Two callers never have the same deal in hand, reserved or firing, unless
\* one of the claims outlived its cooldown or fell to the hard cap.  The scan
\* and both callbacks see the same deals, and the store's lock is not held
\* while they fire.
ClaimsExclusive ==
  \A c, d \in Callers : c # d =>
    \A k \in InHand(c) \cap InHand(d) :
      \/ k \in capped
      \/ now - stamp[c] > Cooldown
      \/ now - stamp[d] > Cooldown

\* A reserved batch is fired to its last deal however each fire ends: the
\* claims would otherwise keep the rest from firing for the whole cooldown.
BatchIsFired == \A c \in Callers : todo[c] # {} ~> todo[c] = {}

==============================================================================
