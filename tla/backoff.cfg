SPECIFICATION Spec
CONSTANTS
  Width = 8
  MaxAttempts = 12
  Bases <- MCBases
  Caps <- MCCaps
  RetryAfters = {0, 3, 100, 200}
INVARIANTS HotLoopNeedsOverflow RetryAfterRespected
PROPERTY Doubling
