SPECIFICATION Spec
CONSTANTS
  d1 = d1
  d2 = d2
  Decision <- MCDecision
  MarketOf <- MCMarketOf
  SideOf   <- MCSideOf
  SizeOf   <- MCSizeOf
  LimitOf  <- MCLimitOf
  Witness  <- MCWitness
  FileCanBreak = TRUE
INVARIANTS
  TypeOK
  HealthyIsDurable
PROPERTIES
  FillMovesReservation
  FillsAddTheirCost
