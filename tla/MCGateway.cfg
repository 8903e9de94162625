CONSTANTS
  Gws = {g1, g2}
  Ops = {o1}
  Gls = {l1, l2, l3}
  Names = {a, x}
  Addrs = {x, y}
  LinkNos = {1}
  MaxTime = 3
  MaxUnsaved = 1
  MaxLosses = 1
  None = None
SPECIFICATION Spec
SYMMETRY Symmetry
INVARIANTS OneLinkInForce MatchesDatabase
CHECK_DEADLOCK FALSE
