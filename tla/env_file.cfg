SPECIFICATION Spec
CONSTANTS
  v1 = v1
  v2 = v2
  u1 = u1
  p1 = p1
  u2 = u2
  None = None
  Vpn = {v1, v2}
  Name = {u1, p1, u2}
  NamesOf <- Variables
  Part = {"a", "b"}
  MaxParts = 1
  MaxLines = 3
INVARIANTS
  TypeOK
  RestartReadsTheSame
PROPERTIES
  OtherLinesKept
  ImplementsMap
