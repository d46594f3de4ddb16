SPECIFICATION Spec
CONSTANTS
  d1 = d1
  d2 = d2
  none = none
  None <- none
  SameMarket = TRUE
  Decision <- MCDecision
  MarketOf <- MCMarketOf
  SideOf   <- MCSideOf
  SizeOf   <- MCSizeOf
  LimitOf  <- MCLimitOf
  FamilyOf <- MCFamilyOf
  MaxSingleOrder    = 4
  MaxMarketExposure = 5
  MaxTotalExposure  = 5
  MaxCorrelated     = 5
  MaxOpenMarkets    = 2
  MaxOrdersPerHour  = 3
  MaxDailyLoss      = 5
  PriceImproves = TRUE
  WritesCanFail = TRUE
  ProcessCanDie = TRUE
  FileCanBreak  = FALSE
  RiskFileCanFail = TRUE
INVARIANTS
  TypeOK
  ReservedBeforeSent
  ExposureCoversBroker
  CapsHoldAtBroker
  NoPhantomPosition
  LedgerLeadsTracker
PROPERTIES
  ImplementsOrderLife
