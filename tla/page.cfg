SPECIFICATION Spec
CONSTANTS
  v1 = v1
  v2 = v2
  up = up
  down = down
  f1 = f1
  f2 = f2
  None = None
  Vpn = {v1, v2}
  Look = {up, down}
  Flight = {f1, f2}
INVARIANTS
  TypeOK
PROPERTIES
  FollowsServer
