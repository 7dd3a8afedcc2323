---------------------------- MODULE MC_FireDispatch ----------------------------
(* Two callers over three deals, with a cap small enough to be exceeded.   *)
EXTENDS FireDispatch

CONSTANTS scan, ws, k1, k2, k3

MCCallers == {scan, ws}
MCKeys == {k1, k2, k3}

==============================================================================
