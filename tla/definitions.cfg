SPECIFICATION Spec
CONSTANTS
  v1 = v1
  v2 = v2
  s1 = s1
  s2 = s2
  n1 = n1
  n2 = n2
  n3 = n3
  t1 = t1
  t2 = t2
  None = None
  Vpn = {v1, v2}
  Server = {s1, s2}
  Name = {n1, n2, n3}
  NamesOf <- Disjoint
  Thread = {t1, t2}
  Hand = {}
  Faults = {"crash"}
INVARIANTS
  PinsMatch
  RestartChangesNothing
  WorkerOwnsRow
PROPERTIES
  OthersUntouched
  RejectedChangesNothing
