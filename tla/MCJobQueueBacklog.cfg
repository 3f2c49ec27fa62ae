CONSTANTS
  None = None
  Jobs = {j1, j2}
  Workers = {w1}
  MaxAttempts = 2
  LeaseTime = 1
  RetryBase = 1
  RetryMax = 1
  FirstDelays <- NowOrLater
  BeatDelay = 0
  MaxMisses = 0
  MaxRetries = 1
SPECIFICATION FairSpec
PROPERTIES
  NoSilentBurial
  KeepsPromise
  EveryJobCloses
