CONSTANTS
  Orders <- Bracket
  Master = "MASTER"
  MaxPlaces = 3
  MaxCancels = 2
SPECIFICATION Spec
INVARIANTS CancelIsComplete
CHECK_DEADLOCK FALSE
