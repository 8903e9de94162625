CONSTANTS
  None = None
  base = base
  twin = twin
  auth = auth
  copy = copy
  Modules = {base}
  Import <- ImportNone
  Auth = {}
  Onready = {}
  Name <- OwnName
  Callers = {c1, c2}
  MaxTasks = 1
  MaxExtra = 1
SPECIFICATION Spec
INVARIANT TasksStayMapped
