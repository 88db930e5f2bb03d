SPECIFICATION Spec
CONSTANTS
  IntervalCap = 4
  SlowDownStep = 2
  ExpiryCap = 8
  RequestTimeout = 1
  MaxAttempts = 2
  AskedIntervals <- MCIntervals
  AskedLifetimes <- MCLifetimes
  RetryHints <- MCHints
  NoHint = NoHint
INVARIANTS
  PollsSpaced
  ApprovalCollected
CHECK_DEADLOCK FALSE
