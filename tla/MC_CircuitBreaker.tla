--------------------------- MODULE MC_CircuitBreaker ---------------------------
(* Three requests around one breaker that opens after two failures.        *)
EXTENDS CircuitBreaker

CONSTANTS r1, r2, r3

MCRequests == {r1, r2, r3}

==============================================================================
