SPECIFICATION Spec
CONSTANTS
  Templates <- OneOption
  Edits = {"quantity"}
  BracketArgs = {}
  ListArgs = {}
  Batches = {}
  Changes = {}
  MaxEdits = 1
  MaxCalls = 2
CHECK_DEADLOCK FALSE
INVARIANTS
  CorrectedIsResent
