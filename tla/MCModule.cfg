CONSTANTS
  None = None
  base = base
  twin = twin
  auth = auth
  copy = copy
  Modules = {base, twin, auth, copy}
  Import <- ImportBase
  Auth = {auth, copy}
  Onready = {base}
  Name <- SharedName
  Callers = {c1, c2}
  MaxTasks = 1
  MaxExtra = 1
SPECIFICATION FairSpec
INVARIANTS
  CallersMapped
  TasksMapped
  ImportsMapped
  RefsCounted
PROPERTY LockReleased
