SPECIFICATION PolySpec
CONSTANTS
  Kinds <- AllKinds
  Tokens = {t1, t2}
  Traded = {t1}
  None = None
  Prices = {1, 2}
  Backoff <- BackoffValue
  MaxFaults = 2
  MaxUpdates = 2
  MaxMoves = 2
INVARIANTS PolyTypeOK AskIsReal
PROPERTY LinkIsRebuilt
CHECK_DEADLOCK FALSE
