SPECIFICATION Spec
CONSTANTS
  Kinds <- BothKinds
  Slugs = {s1}
  Traded = {s1}
  MaxFails = 2
  Attempts = 2
  MaxFaults = 2
  MaxUpdates = 3
  MaxPushes = 2
INVARIANTS TypeOK NothingLost
PROPERTY LinkComesBack
CHECK_DEADLOCK FALSE
