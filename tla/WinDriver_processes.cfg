SPECIFICATION Spec
CONSTANTS
  t1 = t1
  t2 = t2
  h1 = h1
  h2 = h2
  b1 = b1
  b2 = b2
  b3 = b3
  Threads = {t1, t2}
  Handles = {h1, h2}
  Uses <- TwoProcesses
  Ops = {"alloc", "free", "reset"}
  Bufs = {b1, b2}
  NoBuf = NoBuf
  MaxBufs = 5
  IdLimit = 3
  OwnLimit = 4
  Sizes = {1, 2}
  Block = 2
  PoolCap = 4
  NvmeCap = 2
  Flags = {FALSE}
  Careful = TRUE
SYMMETRY BufSymmetry
INVARIANTS
  CountersAreExact
  NoOrphans
