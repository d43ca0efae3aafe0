SPECIFICATION Spec
CONSTANTS
  v1 = v1
  v2 = v2
  p1 = p1
  p2 = p2
  p3 = p3
  h1 = h1
  h2 = h2
  Other = Other
  None = None
  Vpn = {v1, v2}
  Pid = {p1, p2, p3}
  Helper = {h1, h2}
  Faults = {"sibling"}
SYMMETRY Symmetry
INVARIANTS
  TypeOK
  OnlyOpenconnect
  FileNamesProcess
