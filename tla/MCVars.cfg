CONSTANTS
  s1 = s1
  s2 = s2
  Sessions = {s1, s2}
  Roles <- RootAndAdmin
  MaxLoads <- NetflowTwice
  None = None
SPECIFICATION Spec
INVARIANTS
  TablesLive
  Trusted
CHECK_DEADLOCK FALSE
