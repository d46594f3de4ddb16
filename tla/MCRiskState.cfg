SPECIFICATION Spec
CONSTANTS
  s1 = s1
  s2 = s2
  executor = executor
  dashboard = dashboard
  Proc <- MCProc
  Settlement <- MCSettlement
  LossOf <- MCLossOf
  MaxDailyLoss = 2
  MaxDay = 1
  FileCanBreak = TRUE
SYMMETRY MCSymmetry
INVARIANTS
  TypeOK
  LossMatchesSettlements
PROPERTIES
  ReleaseIsDurable
  UnreadableFileIsKept
