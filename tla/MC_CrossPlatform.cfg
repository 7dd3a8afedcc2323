SPECIFICATION Spec
CONSTANTS
  One = 100
  RawPools <- Lists
  Canon <- CanonValue
  Sport <- SportValue
  League <- LeagueValue
  Ends <- EndsValue
  Likeness <- LikenessValue
  Alike <- AlikeValue
  Noise <- NoiseValue
  DrawTokens <- DrawValue
  Theta <- ThetaValue
  Threshold = 96
  CoverThreshold = 93
  CoverLegs = 3
  RealisticSum = 50
  MinDepth = 5
  MinConfidence = 75
  Tolerance = 24
  LegCap = 55
INVARIANT NetIsEarned
