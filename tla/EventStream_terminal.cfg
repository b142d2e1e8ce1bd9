CONSTANTS
  Closers = {x, y}
  MaxReconnectAttempts = 2
  MaxConns = 5
  MaxRecvs = 3
SPECIFICATION Spec
PROPERTIES TerminalEndsStream
CHECK_DEADLOCK FALSE
