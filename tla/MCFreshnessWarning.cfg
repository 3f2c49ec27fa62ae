CONSTANTS
  None = None
  Events = {e1, e2}
  Invalid = {e2}
  Requests = {r1, r2}
  Credentials = {c1}
  Jobs = {j1, j2}
  MaxEvents = 2
  MaxTime = 2
SPECIFICATION Spec
SYMMETRY Identities
INVARIANTS
  BehindOnlyWhenNewer
