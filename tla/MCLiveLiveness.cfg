SPECIFICATION FairSpec
CONSTANTS
  d1 = d1
  d2 = d2
  none = none
  None <- none
  SameMarket = FALSE
  Decision <- MCDecision
  MarketOf <- MCMarketOf
  SideOf   <- MCSideOf
  SizeOf   <- MCSizeOf
  LimitOf  <- MCLimitOf
  FamilyOf <- MCFamilyOf
  MaxSingleOrder    = 4
  MaxMarketExposure = 6
  MaxTotalExposure  = 7
  MaxCorrelated     = 5
  MaxOpenMarkets    = 2
  MaxOrdersPerHour  = 3
  MaxDailyLoss      = 5
  PriceImproves = FALSE
  WritesCanFail = FALSE
  ProcessCanDie = FALSE
  FileCanBreak  = FALSE
  RiskFileCanFail = FALSE
INVARIANTS
  CapsHoldAtBroker
PROPERTIES
  ResolvedOrderLeavesBook
  SettledFillIsClosed
