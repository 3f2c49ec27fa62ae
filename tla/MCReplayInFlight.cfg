CONSTANTS
  a = a
  b = b
  c = c
  d = d
  ours = ours
  theirs = theirs
  unordered = unordered
  unpriced = unpriced
  unlisted = unlisted
  Unknown = Unknown
  Scopes = {ours, theirs, unordered, unpriced, unlisted}
  Segments = {a, b, c, d}
  TokensOf <- Sizes
  Shapes <- All
  Gaps = {0, 1, 4, 6}
  MaxRequests = 3
  Minimum <- Minimums
  Lookback <- Windows
  PolicyFails = {unlisted}
  Lifetime <- Seconds
  Arms <- BakeOff
  Multipliers <- AnthropicDirect
SPECIFICATION Spec
CHECK_DEADLOCK FALSE
PROPERTIES
  MarkedAgainNotHidden
