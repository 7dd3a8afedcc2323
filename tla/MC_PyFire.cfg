SPECIFICATION FairSpec
CONSTANTS
  arb = arb
  m1 = m1
  m2 = m2
  Arbs <- MCArbs
  Legs <- MCLegs
  Slugs <- MCSlugs
  NoSlug = NoSlug
INVARIANTS
  TypeOK
  IndexesAgree
  FillOnItsMarket
  BrokenArbIsReverted
PROPERTY
  FireReturns
