SPECIFICATION Spec
CONSTANTS
  Requests = {r1, r2, r3, r4}
  Audits = {a1, a2}
  Creators = {u1}
  None = None
  MaxVersion = 1
  FaultBudget <- OneEach
CHECK_DEADLOCK FALSE
SYMMETRY RequestSymmetry
CONSTRAINT AtMostOneFault
INVARIANTS
  EraseReachesShared
PROPERTIES
  ImplementsDisclosure
