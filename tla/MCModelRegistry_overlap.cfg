SPECIFICATION Spec
CONSTANTS
  Admins = {r1, r2}
  r1 = r1
  r2 = r2
  Versions = {v1, v2, v3}
  v1 = v1
  v2 = v2
  v3 = v3
  Audits = {a1}
  a1 = a1
  None = None
  Model = "fraud"
  Curators = {c1}
  c1 = c1
  FeatureRows <- ThreeRows
  CanaryRequests <- TwoCanaries
  Reports <- PassingReports
SYMMETRY RegistrySymmetry
INVARIANTS
  FirstChampionHasCanary
  PromotedHavePassed
PROPERTY ArchivedIsReplaced
