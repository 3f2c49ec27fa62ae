CONSTANTS
  None = None
  Users = {alice, bob, carol}
  Requests = {r1, r2}
SPECIFICATION Spec
SYMMETRY Identities
INVARIANTS
  KeepsAnOwner
