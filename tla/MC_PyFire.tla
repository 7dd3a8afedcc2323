------------------------------- MODULE MC_PyFire -------------------------------
(* A two-leg deal: a binary Limitless market, whose legs share one slug,   *)
(* two markets of a group, or a platform that registers no slug.           *)
EXTENDS PyFire

CONSTANTS arb, m1, m2

MCArbs == {arb}
MCLegs == {0, 1}
MCSlugs == {m1, m2}

==============================================================================
