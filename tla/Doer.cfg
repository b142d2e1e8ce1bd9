CONSTANTS
  Requests <- MCRequests
  Reads <- MCReads
  MaxAttempts = 3
  MaxDuration = 1023
  Second = 10
  DefaultBase = 2
  DefaultMax = 20
SPECIFICATION FairSpec
INVARIANTS TypeOK WriteAtMostOnce RefusalIsFinal SuccessWasExecuted CancelKeepsLastError
  DelaysAreSound ErrorsAreClassified SignatureVerifies RequestsAreAsAsked AnswersAreRead
PROPERTIES ImplementsExchange EveryDoReturns
CHECK_DEADLOCK FALSE
