SPECIFICATION FairSpec
CONSTANTS
  Legs <- MCLegs
  RetryEnabled = TRUE
INVARIANTS
  TypeOK
  ReportedFillIsReal
  WaitingIsRegistered
  NoSellWithoutBuy
PROPERTIES
  LateResultsIgnored
  ReportsAtomically
  FireReturns
