SPECIFICATION Spec
CONSTANTS
  d1 = d1
  d2 = d2
  none = none
  None <- none
  SameMarket = TRUE
  Decision <- MCDecision
  MarketOf <- MCMarketOf
  SideOf   <- MCSideOf
  SizeOf   <- MCSizeOf
  LimitOf  <- MCLimitOf
  FamilyOf <- MCFamilyOf
  MaxSingleOrder    = 4
  MaxMarketExposure = 5
  MaxTotalExposure  = 5
  MaxCorrelated     = 5
  MaxOpenMarkets    = 2
  MaxOrdersPerHour  = 3
  MaxDailyLoss      = 5
  PriceImproves = FALSE
  WritesCanFail = FALSE
  ProcessCanDie = FALSE
  FileCanBreak  = TRUE
  RiskFileCanFail = FALSE
PROPERTIES
  BrokenBookIsKept
