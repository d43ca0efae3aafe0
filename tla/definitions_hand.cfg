SPECIFICATION Spec
CONSTANTS
  v1 = v1
  v2 = v2
  s1 = s1
  s2 = s2
  n1 = n1
  n2 = n2
  n3 = n3
  t1 = t1
  t2 = t2
  None = None
  Vpn = {v1, v2}
  Server = {s1}
  Name = {n1, n2}
  NamesOf <- Single
  Thread = {}
  Hand = {"remove", "add", "server", "invalid", "line"}
  Faults = {"oserror"}
INVARIANT
  TypeOK
PROPERTY
  CredentialsKept
VIEW
  Decisive
