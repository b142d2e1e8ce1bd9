SPECIFICATION MCSpec
CONSTANTS
  Templates <- MCTemplates
  Edits <- MCEdits
  BracketArgs <- MCBracketArgs
  ListArgs <- MCListArgs
  Batches <- MCBatches
  Changes <- MCChanges
  MaxEdits = 2
  MaxCalls = 2
  Orders <- Bracketed
  Master = "MASTER"
  MaxPlaces = 3
  MaxCancels = 2
CHECK_DEADLOCK FALSE
INVARIANTS
  OneOrderPerValue
  OnlyDerivedIsStale
  PreviewedIsPlaced
  SentIsDocumented
  GroupIsDocumented
  PlacedOnce
  NothingLeftWorking
