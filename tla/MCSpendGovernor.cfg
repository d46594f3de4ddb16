SPECIFICATION TurnsSpec
CONSTANTS
  c1 = c1
  c2 = c2
  c3 = c3
  none = none
  brain = brain
  other = other
  OneProcess = FALSE
  Proc <- MCProc
  Call <- MCCall
  ProcOf <- MCProcOf
  Estimate <- MCEstimate
  None <- none
  Cap = 3
  MaxDay = 1
  MaxCharge = 3
  FileCanBreak = TRUE
INVARIANTS
  TypeOK
  DayIsNeverUndercounted
  CapHoldsAtProvider
  DayIsChargedOncePerCall
