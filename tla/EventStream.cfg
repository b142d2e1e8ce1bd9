CONSTANTS
  Closers = {x, y}
  MaxReconnectAttempts = 2
  MaxConns = 5
  MaxRecvs = 3
SPECIFICATION FairSpec
INVARIANTS NoLeak OneConnection GivesUpAtBudget RefusalNotRetried EventsAreWhole
PROPERTIES CloseEndsStream
CHECK_DEADLOCK FALSE
