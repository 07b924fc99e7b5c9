SPECIFICATION Spec
CONSTANTS
  a1 = a1
  Audits = {a1, a2}
  Disputes = {d1, d2}
  Requests = {r1, r2}
  Captures <- SomeCaptures
  RiskScores = {29, 30}
  None = None
  MaxRuns <- OneRuns
SYMMETRY LabelsSymmetry
CHECK_DEADLOCK FALSE
INVARIANTS
  TypeOK
  BlindExamplesWereBlind
  LearnsOnlyObservations
PROPERTIES
  LabelsOutliveCaptures
