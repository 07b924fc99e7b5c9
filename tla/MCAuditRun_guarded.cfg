SPECIFICATION Spec
CONSTANTS
  Calls = {c1, c2}
  Users = {u1, u2}
  Keys = {k1, k2}
  Workers = {w1, w2}
  None = None
  Limit = 1
  MaxRetry = 1
  Scarce = {c1}
  FaultBudget <- Guarded
CHECK_DEADLOCK FALSE
INVARIANTS
  DeliveredAreCharged
PROPERTIES
  TerminalIsFinal
  ImplementsLedger
