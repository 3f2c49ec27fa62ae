CONSTANTS
  None = None
  Events = {e1, e2, e3}
  Invalid = {e3}
  Requests = {r1, r2}
  Credentials = {c1, c2}
  Jobs = {j1, j2}
  MaxEvents = 1
  MaxTime = 1
SPECIFICATION Spec
SYMMETRY Identities
INVARIANTS
  AcceptedEventsCounted
  JobReadsItsBatch
PROPERTIES
  OnlyOtherCredentialsOvertake
