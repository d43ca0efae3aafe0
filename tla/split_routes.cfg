SPECIFICATION Spec
CONSTANTS
  zero = zero
  a1 = a1
  a2 = a2
  None = None
  Addr = {zero, a1, a2}
  Len = {0, 32}
  Zero = zero
  Host = 32
  Dns = {a1, a2}
  Route <- Harmless
INVARIANTS
  TypeOK
  NeverTheDefaultRoute
  LeavesNothing
  ResolversAreRouted
  IfaceMeansRouted
