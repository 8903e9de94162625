CONSTANTS
  Threads = {t1, t2}
  MaxRequests = 3
  Methods = {"subscribe", "unsubscribe", "kill"}
SPECIFICATION Spec
SYMMETRY Symmetry
VIEW WithoutMissed
INVARIANTS
  NoFreedUse
  NothingUnsent
  OneReadAfterKill
