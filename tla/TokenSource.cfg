CONSTANTS
  c1 = c1
  c2 = c2
  Callers = {c1, c2}
  MaxCalls = 3
  MaxPairs = 3
  MaxTime = 4
  MaxRestarts = 1
  AccessLife = 2
  RefreshLife = 3
  Leeway = 1
  Bare = {1}
SPECIFICATION FairSpec
INVARIANTS SingleFlight NobodyAbandoned
PROPERTIES ConsumedNeverPresented JoinsOpenCall StoreNeverRegresses MonotonicReads EveryCallReturns
CHECK_DEADLOCK FALSE
