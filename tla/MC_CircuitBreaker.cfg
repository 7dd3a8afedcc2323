SPECIFICATION BreakerFairSpec
CONSTANTS
  r1 = r1
  r2 = r2
  r3 = r3
  Requests <- MCRequests
  FailureThreshold = 2
  SuccessThreshold = 2
  CoolDown = 2
INVARIANTS
  BreakerTypeOK
  NoAlertStranded
PROPERTIES
  QuietPeriod
  NeverStuck
