CONSTANTS
  MaxTasks = 1
  Handlers = {h1, h2}
  Free = Free
  Self = Self
  NoTask = NoTask
SPECIFICATION FairSpec
INVARIANTS
  NoDanglingUse
  NoLostWakeup
  StopTakesEffect
  SaveMutexReleased
PROPERTIES
  CancelEnds
  MethodEnds
CHECK_DEADLOCK TRUE
