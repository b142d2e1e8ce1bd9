CONSTANTS
  c1 = c1
  c2 = c2
  Callers = {c1, c2}
  MaxCalls = 2
  MaxPairs = 3
  MaxTime = 2
  MaxRestarts = 0
  AccessLife = 2
  RefreshLife = 3
  Leeway = 1
  Bare = {}
SPECIFICATION ReauthSpec
SYMMETRY CallerSymmetry
PROPERTIES NeverOverwritesNewer
CHECK_DEADLOCK FALSE
