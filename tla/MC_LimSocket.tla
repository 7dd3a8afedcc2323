--------------------------- MODULE MC_LimSocket ----------------------------
EXTENDS LimSocket

BothKinds == {"market", "service"}
MarketOnly == {"market"}
=============================================================================
