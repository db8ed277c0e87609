\* A free that CUDA refuses, and another thread that takes the last slot.
SPECIFICATION Spec
CONSTANTS
  t1 = t1
  t2 = t2
  a1 = a1
  a2 = a2
  a3 = a3
  b1 = b1
  b2 = b2
  h1 = h1
  h2 = h2
  None = None
  Threads = {t1, t2}
  Addrs = {a1, a2, a3}
  Bufs = {b1, b2}
  Handles = {h1, h2}
  Sizes = {1, 2}
  Capacity = 2
  SlotsRace = TRUE
SYMMETRY MCSymmetry
INVARIANTS
  UvmIsExact
\* The process ends when the library is unloaded.
CHECK_DEADLOCK FALSE
