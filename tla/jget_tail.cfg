SPECIFICATION JgetSpec
CONSTANTS
  Worker = {w1}
  NumURLs = 1
  MaxAttempts = 2
  LogCap = 1
  StdoutMayFail = FALSE
INVARIANT TailDelivered
