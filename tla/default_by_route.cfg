SPECIFICATION Spec
CONSTANTS
  zero = zero
  a1 = a1
  a2 = a2
  None = None
  Addr = {zero, a1}
  Len = {0, 8, 32}
  Zero = zero
  Host = 32
  Dns = {a1}
  Route <- Anything
INVARIANT
  NeverTheDefaultRoute
