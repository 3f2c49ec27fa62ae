CONSTANTS
  None = None
  Jobs = {j1}
  Workers = {w1, w2, w3}
  MaxAttempts = 2
  LeaseTime = 6
  RetryBase = 1
  RetryMax = 1
  FirstDelays <- OnlyNow
  BeatDelay = 1
  MaxMisses = 2
  MaxRetries = 1
SPECIFICATION PunctualSpec
SYMMETRY Identities
INVARIANTS
  OwnerHoldsCurrentAttempt
  ResultIffSucceeded
  HeartbeatKeepsLease
PROPERTIES
  ClosedJobsStayClosed
