CONSTANTS
  Unreadable = Unreadable
  Absent = Absent
  NotACount = NotACount
  h1 = h1
  h2 = h2
  digest = digest
  TrustedIds = {h1, h2}
  CountedFloor = 60
  ListRate <- MCListRate
  PricedTargets = {"direct"}
  ShapedTargets = {"direct", "bedrock"}
  KnownTargets = {"direct", "bedrock"}
  MinCacheable = 5
  Today = 2
  MinRequests = 2
  MinGaps = 1
  MinTurns = 1
  RebuildInterval = 4
  Lines <- MCLines
  MaxLines = 3
  SettingsOf <- MCSettings
  InvoicesOf <- MCInvoices
  StructureFloor = 60
  UnknownAgent = "unknown"
  MinGroup = 2
  HandedOf <- MCHanded
SPECIFICATION Spec
CHECK_DEADLOCK FALSE
INVARIANTS
  ReconciledMeansComplete
  MonthsRestOnEnough
  StructuralMoneyIsCounted
  OneProvenance
  NoArmBesidesAMissingBill
