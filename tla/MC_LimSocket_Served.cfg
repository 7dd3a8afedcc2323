SPECIFICATION Spec
CONSTANTS
  Kinds <- MarketOnly
  Slugs = {s1, s2}
  Traded = {}
  MaxFails = 2
  Attempts = 2
  MaxFaults = 2
  MaxUpdates = 1
  MaxPushes = 0

PROPERTY ServedInTheEnd
CHECK_DEADLOCK FALSE
