SPECIFICATION DispatchFairSpec
CONSTANTS
  scan = scan
  ws = ws
  k1 = k1
  k2 = k2
  k3 = k3
  Callers <- MCCallers
  Keys <- MCKeys
  Cooldown = 1
  HardCap = 2
  Horizon = 2
  ViaTs = TRUE
INVARIANTS
  DispatchTypeOK
  ClaimsExclusive
PROPERTY
  BatchIsFired
