SPECIFICATION FairSpec
CONSTANTS
  One <- OneValue
  Dollar = 10
  Platforms <- PlatformsValue
  Theta <- ThetaValue
  Threshold <- ThresholdValue
  FeeFloor = 948
  FeeCap = 993
  Slippage = 3
  NearBuffer = 30
  PairNear = 30
  NearCut = 5
  SumFloor <- SumFloorValue
  KalshiMinAsk = 50
  KalshiMinSum = 500
  KalshiFavourite = 200
  Balance = 1000
  LegCap = 550
  MinLegLiq = 50
  TightCutoff = 950
  TightLiq <- TightLiqValue
  TightSlip <- TightSlipValue
  WindowAhead = 18720
  RawEvents <- Events
  PushSides <- YesPushed
INVARIANTS TypeOK ProfitInEveryOutcome FitsTheBooks DealtIsHot RowsHedged
PROPERTY StaysStreamed
