CONSTANTS
  None = None
  e1 = e1
  e2 = e2
  t1 = t1
  t2 = t2
  p1 = p1
  p2 = p2
  Events = {e1, e2}
  Invalid = {e2}
  Threads = {t1, t2}
  Processes = {p1, p2}
  ProcessOf <- TwoProcesses
  BatchSize = 1
  MaxAttempts = 2
  RetryBase = 1
  RetryMax = 1
  MaxRowid = 2
  MaxCrashes = 1
SPECIFICATION MCFairSpec
INVARIANTS
  ExhaustedOnlyAfterAllAttempts
PROPERTIES
  KeepsPromise
  EveryRowLeaves
