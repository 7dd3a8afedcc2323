------------------------------ MODULE AtomicArb ------------------------------
(***************************************************************************)
(* What the atomic firer reports of one arb, with no wallets, exchanges or *)
(* sockets in sight.  The legs of an arb are decided together: either      *)
(* every leg is held, or no leg is held, or every leg that was taken on is *)
(* handed to the revert, which ends each of them sold or stuck (the        *)
(* operator must intervene).  A held leg beside a missed one is the naked  *)
(* directional bet the firer exists to prevent.                            *)
(***************************************************************************)

CONSTANT Legs

VARIABLE leg

Standing == {"open", "held", "missed", "flattening", "sold", "stuck"}

TypeOK == leg \in [Legs -> Standing]

Init == leg = [l \in Legs |-> "open"]

\* A verdict leaves no leg open, holds all legs or none, and flattens a leg
\* only when a sibling was missed.
Verdict(f) ==
  /\ f \in [Legs -> {"held", "missed", "flattening"}]
  /\ (\E l \in Legs : f[l] = "held") => \A l \in Legs : f[l] = "held"
  /\ (\E l \in Legs : f[l] = "flattening") => \E l \in Legs : f[l] = "missed"

Decide ==
  /\ \A l \in Legs : leg[l] = "open"
  /\ leg' \in [Legs -> {"held", "missed", "flattening"}]
  /\ Verdict(leg')

Flatten(l) ==
  /\ leg[l] = "flattening"
  /\ \E s \in {"sold", "stuck"} : leg' = [leg EXCEPT ![l] = s]

Next == Decide \/ \E l \in Legs : Flatten(l)

Spec == Init /\ [][Next]_leg

\* No leg is held beside a leg that was missed.
NoNakedLeg ==
  (\E l \in Legs : leg[l] = "held") => \A l \in Legs : leg[l] = "held"

==============================================================================
