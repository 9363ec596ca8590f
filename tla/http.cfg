SPECIFICATION FairSpec
CONSTANTS
  Width = 4
  Retries <- MCRetries
  Backoffs <- MCBackoffs
  Timeouts = {0, 1}
INVARIANTS BodiesClosed AttemptBudget OneLateRequest
PROPERTY CallEnds
