\* The library is unloaded under a hook, or before its worker has begun.
SPECIFICATION Spec
CONSTANTS
  t1 = t1
  t2 = t2
  r1 = r1
  r2 = r2
  None = None
  Worker = Worker
  Threads = {t1, t2}
  Reqs = {r1, r2}
  QueueSize = 3
  Nap = 1
  StopWait = 3
  Busy = 2
  QuietUnload = FALSE
INVARIANT
  LibraryOutlivesItsUsers
