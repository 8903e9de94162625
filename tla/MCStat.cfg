CONSTANTS
  j1 = j1
  j2 = j2
  c1 = c1
  c2 = c2
  u = u
  v = v
  w = w
  l = l
  Jobs = {j1, j2}
  Clients = {c1, c2}
  Wheel = {c1}
  Local = {v}
  None = None
  Gone = Gone
  Hour = 2
  MaxFaults = 1
  MaxCalls = 2
  Files <- MCFiles
  Globs <- MCGlobs
  Feeds <- MCFeeds
  Before <- MCBefore
  Args <- MCArgs
  Calendar <- MCCalendar
SPECIFICATION Spec
SYMMETRY Symmetry
INVARIANTS
  TablesAgree
  UpdateExact
  SharedConnection
  FreedOnce
CHECK_DEADLOCK FALSE
