\* A ring of three slots; a nap of one unit, calls of at most two, a wait of three.
SPECIFICATION Spec
CONSTANTS
  t1 = t1
  t2 = t2
  r1 = r1
  r2 = r2
  None = None
  Worker = Worker
  Threads = {t1, t2}
  Reqs = {r1, r2}
  QueueSize = 3
  Nap = 1
  StopWait = 3
  Busy = 2
  QuietUnload = TRUE
INVARIANTS
  LibraryOutlivesItsUsers
  NeverSleepsOnWork
PROPERTIES
  ImplementsRequestQueue
  RequestsServed
  UnloadEnds
