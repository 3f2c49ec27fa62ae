CONSTANTS
  a = a
  b = b
  c = c
  d = d
  ours = ours
  theirs = theirs
  unordered = unordered
  unpriced = unpriced
  unlisted = unlisted
  Unknown = Unknown
  Scopes = {ours, theirs, unordered, unpriced, unlisted}
  Segments = {a, b, c, d}
  TokensOf <- Sizes
  Shapes <- Conversation
  Gaps = {0, 1, 4, 6}
  MaxRequests = 4
  Minimum <- Minimums
  Lookback <- NoWindow
  PolicyFails = {unlisted}
  Lifetime <- Seconds
  Arms <- OnlyNeutral
  Multipliers <- AnthropicDirect
SPECIFICATION Spec
CHECK_DEADLOCK FALSE
INVARIANTS
  CreditIsWhatIsSaved
