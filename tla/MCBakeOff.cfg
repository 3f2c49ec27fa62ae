CONSTANTS
  a = a
  b = b
  c = c
  d = d
  ours = ours
  theirs = theirs
  unordered = unordered
  unpriced = unpriced
  unlisted = unlisted
  Unknown = Unknown
  Scopes = {ours, theirs, unordered, unpriced, unlisted}
  Segments = {a, b, c, d}
  TokensOf <- Sizes
  Shapes <- All
  Gaps = {0, 1, 4, 6}
  MaxRequests = 3
  Minimum <- Minimums
  Lookback <- Windows
  PolicyFails = {unlisted}
  Lifetime <- Seconds
  Arms <- BakeOffArms
  Multipliers <- AnthropicDirect
  Questions <- MCQuestions
  WriteLatency = 1
  Whole = 2
  MixedMax = 3
  Takes <- Explicit
  Breakpoint = {ours}
  Budget <- Budgets
  Lifetimes <- Offers
  Premium <- Premiums
  ReadRate <- Reads
  Ordering <- Orders
  Groups <- MCGroups
  MaxIndex = 4
  Preserves = {ours}
  Applied = {"low", "medium"}
SPECIFICATION MCSpec
CHECK_DEADLOCK FALSE
INVARIANTS
  EveryTokenBilledOnce
  HitsWereWritten
  WarmPrefixesAreRead
  HitsAreReusable
  CreditedSpansWouldBeRead
  PlanIsCheapest
  PlanMayBeSent
  ReplayBillsTheEstimate
  RelocationIsLegal
  GainIsWhatIsMarked
