SPECIFICATION Spec
CONSTANTS
  Requests = {r1, r2, r3, r4, r5}
  Emails = {e1}
  None = None
CHECK_DEADLOCK FALSE
SYMMETRY AuthSymmetry
INVARIANTS
  KnownAreRevoked
  LateGetsNothing
PROPERTIES
  ImplementsTokenChain
