------------------------------ MODULE MC_KillSwitch ----------------------------
(* Two fires at Limitless, of the first wallet with the global key and of   *)
(* another wallet with a key of its own, and one at Polymarket.             *)
EXTENDS KillSwitch

CONSTANTS lim, own, poly

MCArbs == {lim, own, poly}
MCPlatform == [a \in MCArbs |-> IF a = poly THEN "Polymarket" ELSE "Limitless"]
MCGlobalKey == {lim}

==============================================================================
