SPECIFICATION Spec
CONSTANTS
  Calls = {s1, s2}
  Holds = {h1, h2}
  Users = {u1}
  Plans = {pro}
  Quota <- TwoUnits
  FreeQuota = 1
  None = None
  MaxEvents = 3
  MaxMonth = 2
CHECK_DEADLOCK FALSE
SYMMETRY BillingSymmetry
INVARIANTS
  CounterCountsHolds
  UsageIsEntitled
  PaidIsServed

