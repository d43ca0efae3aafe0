SPECIFICATION Spec
CONSTANTS
  v1 = v1
  v2 = v2
  r1 = r1
  r2 = r2
  None = None
  Vpn = {v1, v2}
  Request = {r1, r2}
  Calls <- Everything
SYMMETRY Symmetry
INVARIANTS
  TypeOK
  LoopsMissNothing
  StableIdsAreKnown
