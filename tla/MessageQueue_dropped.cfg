CONSTANTS
  QueueSize = 1
  MaxMessages = 2
  MaxGarbled = 1
  MaxUnreplayed = 1
SPECIFICATION Spec
INVARIANTS DroppedIsMessages
CHECK_DEADLOCK FALSE
