SPECIFICATION MCSpec
CONSTANTS
  Playing = {"scopes", "times", "fanout", "turns", "prompts", "calls", "nameless", "session"}
  Window = 3
  MaxScopes = 4
  MaxFiring = 3
  MaxPositions = 2
  MinSamples = 2
  DriftPercent = 50
  FanoutSeconds = 2
  RebuildTurns = 3
  Warmup = 2
  FloorPercent = 100
  PendingCap = 2
  MaxAlerts = 3
  Unattributed = "nowhere"
  Unknown = Unknown
  Unmarked = Unmarked
  Silent = Silent
  NoSession = NoSession
  Untimed = Untimed
  Absent = Absent
  Seconds <- MCSeconds
  Minimum <- MCMinimum
  Lookback <- MCLookback
  Budget <- MCBudget
  Offered <- MCOffered
  Explicit <- MCExplicit
INVARIANTS
  RecentScopesKept
  RewritesStayApart
  RuntimeSeesFanout
  RuntimeCountsRebuilds
  MarkersOnSeenContent
  DecisionReachesItsResponse
  EffectIsMeasured
  LiveCountsRebuilds
PROPERTIES
  SplitObservationAgrees
CHECK_DEADLOCK FALSE
