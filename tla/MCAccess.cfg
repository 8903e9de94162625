CONSTANTS
  Sessions = {s1, s2}
  Keys = {k1}
  Tasks = {t1}
  Secrets = {TRUE}
  Names = {n1, n2}
  Groups = {"root"}
  Peers = {p1}
  MaxId = 2
  None = None
SPECIFICATION Spec
SYMMETRY Symmetry
INVARIANTS
  RefsExact
  FaultsKnown
  AuthorityStored
PROPERTY GrantedByWheel
CHECK_DEADLOCK FALSE
