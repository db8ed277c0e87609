SPECIFICATION Spec
CONSTANTS
  t1 = t1
  t2 = t2
  b1 = b1
  b2 = b2
  e1 = e1
  e2 = e2
  Threads = {t1, t2}
  OpsOf <- Pollers
  Bufs = {b1, b2}
  NoBuf = NoBuf
  MaxRefs = 2
  Careful = TRUE
  Sizes = {1}
  Huge = 2
  PoolCap = 2
  NvmeCap = 1
  ExportFails = FALSE
  Events = {e1, e2}
  NoEvent = NoEvent
SYMMETRY Symmetric
INVARIANTS
  EventsBalanced
