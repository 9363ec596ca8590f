SPECIFICATION Spec
CONSTANTS
  Worker = {w1, w2}
  NumURLs = 2
  MaxAttempts = 2
  LogCap = 1
  StdoutMayFail = FALSE
INVARIANT SuccessMeansSaved
