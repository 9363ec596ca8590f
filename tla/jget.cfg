SPECIFICATION FairJgetSpec
CONSTANTS
  Worker = {w1, w2}
  NumURLs = 2
  MaxAttempts = 1
  LogCap = 1
  StdoutMayFail = FALSE
INVARIANTS
  NothingLeftBehind
  DeliveredOnSuccess
PROPERTY JgetTerminates
