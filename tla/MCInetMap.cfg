SPECIFICATION Spec
CONSTANTS
  Units = {u1, u2}
  Entries = {e1, e2, e3}
  u1 = u1
  u2 = u2
  e1 = e1
  e2 = e2
  e3 = e3
  None = None
  Owner <- MCOwner
  Shapes <- MCShapes
  Top = 3
  MaxTime = 3
INVARIANTS
  MapsPartition
  NodesMatch
  FindersAgree
  ListingsTrue
PROPERTY
  MapsAsPlanned
CHECK_DEADLOCK FALSE
