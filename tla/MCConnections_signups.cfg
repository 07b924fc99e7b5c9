CONSTANTS
  Users = {u1, u2}
  ig = ig
  yt = yt
  Accounts = {ig, yt}
  PlatformOf <- OneOfEach
  Enabled = {"google", "meta"}
  MaxListed = 2
  Persons = {p1}
  Profiles = {i1, i2}
  Flows = {f1, f2}
  Calls = {c1, c2}
  None = None
SYMMETRY Symmetry
SPECIFICATION Spec
INVARIANTS StateRedeemedOnce TokenIsOwnFlow SignupIsWhole OneProfilePerAccount
CHECK_DEADLOCK FALSE
