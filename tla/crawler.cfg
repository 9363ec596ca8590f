SPECIFICATION FairSpec
CONSTANTS
  Worker = {w1, w2}
  NumURLs = 3
  MaxAttempts = 2
  LogCap = 1
  StdoutMayFail = TRUE
INVARIANTS
  TypeOK
  ExitCodeContract
  NoSendOnClosedLog
  LogComplete
  RetryBudget
  FailFast
PROPERTIES
  Terminates
  LogInOrder
  ImplementsOutcome
