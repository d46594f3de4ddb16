SPECIFICATION FairSpec
CONSTANTS
  d1 = d1
  d2 = d2
  t1 = t1
  t2 = t2
  none = none
  None <- none
  Decision <- MCDecision
  Trader <- MCTrader
  MaxCommands = 2
INVARIANTS
  TypeOK
  OneOrderPerTraderAfterKill
  FlatWhileKilled
PROPERTIES
  KillEndsTrading
