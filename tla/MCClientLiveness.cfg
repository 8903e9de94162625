CONSTANTS
  Threads = {t1, t2}
  MaxRequests = 1
  Methods = {"subscribe", "kill", "other"}
SPECIFICATION FairSpec
PROPERTIES
  KillNoticed
  QueueWatched
