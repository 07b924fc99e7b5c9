SPECIFICATION InfluencersSpec
CONSTANTS
  Profiles = {1, 2}
  Names = {n1, n2}
  n1 = n1
  n2 = n2
  Niches = {food}
  food = food
  Counts = {10000}
  Writers = {w1, w2}
  w1 = w1
  w2 = w2
  Readers = {r1}
  r1 = r1
  Filters <- SomeFilters
  Asked = {0, 3}
  DefaultLimit = 1
  MaxLimit = 2
  MaxClock = 2
  Null = Null
SYMMETRY InfluencersSymmetry
INVARIANT InfluencersTypeOK
INVARIANT WalkIsWhole
INVARIANT LoneWritesSetTier
CHECK_DEADLOCK FALSE
