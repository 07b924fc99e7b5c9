SPECIFICATION Spec
CONSTANTS
  Versions = {v1, v2}
  v1 = v1
  v2 = v2
  Requests = {q1}
  q1 = q1
  Runs = 2
  Heuristic = Heuristic
  Torn = Torn
  None = None
INVARIANT VersionPinsModel
CHECK_DEADLOCK FALSE
