--------------------------- MODULE MC_PolySocket ---------------------------
EXTENDS PolySocket

AllKinds == {"market", "user", "service"}
BackoffValue == <<1, 2, 30>>
=============================================================================
