----------------------------- MODULE MC_FireArb -----------------------------
(* Two legs: the cross-platform pair, the usual deal of the radar. *)
EXTENDS FireArb

MCLegs == {0, 1}

==============================================================================
