SPECIFICATION ScoringSpec
CONSTANTS
  Nothing = Nothing
  Audits = {a1, a2, a3}
  a1 = a1
  a2 = a2
  a3 = a3
  People = {p1, p2}
  p1 = p1
  p2 = p2
  PersonOf <- MCPersonOf
  Niches = {"fitness"}
  Profile <- MCProfile
  Nights = {n1, n2}
  n1 = n1
  n2 = n2
  Pulls <- MCPulls
  Offered <- MCOffered
  MinDistinct = 2
  MaxFaults = 1
  Earlier <- MCEarlier
  Extra = 440
  Inherited = {}
SYMMETRY ScoringSymmetry
INVARIANT ScoringTypeOK
INVARIANT SeededIsScorable
INVARIANT CorpusCountsPeople
INVARIANT BoughtHelpsByGrowthAlone
INVARIANT AbsenceHasNoVote
CHECK_DEADLOCK FALSE
