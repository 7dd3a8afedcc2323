SPECIFICATION SwitchFairSpec
CONSTANTS
  lim = lim
  own = own
  poly = poly
  Arbs <- MCArbs
  Platform <- MCPlatform
  GlobalKey <- MCGlobalKey
  FirstWallet <- MCGlobalKey
  MaxFires = 2
  Alike <- MCArbs
INVARIANTS
  SwitchTypeOK
  SweepIsComplete
PROPERTIES
  FlagIsFollowed
  DivergenceHalts
