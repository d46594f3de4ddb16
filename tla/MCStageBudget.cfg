SPECIFICATION Spec
CONSTANTS
  m1 = m1
  m2 = m2
  m3 = m3
  none = none
  None <- none
  Candidate <- MCCandidate
  Group <- MCGroup
  GroupOf <- MCGroupOf
  PriceOf <- MCPriceOf
  WeightOf <- MCWeightOf
  StageLimits <- MCStageLimits
  Balance <- MCBalance
  KellyBudget <- MCKellyBudget
  MinSettled = 2
  MaxOrders = 2
  TopK = 1
  Throttle = 1000
INVARIANTS
  TypeOK
  GrantsFitPot
PROPERTIES
  OrdersFitStage
  PromotionIsEarned
  StopIsForever
  OrdersAtSavedStage
