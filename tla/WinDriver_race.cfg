\* Clients that race: two requests name one buffer, and one of them frees it.
SPECIFICATION Spec
CONSTANTS
  t1 = t1
  t2 = t2
  h1 = h1
  h2 = h2
  b1 = b1
  b2 = b2
  b3 = b3
  Threads = {t1, t2}
  Handles = {h1}
  Uses <- OneProcess
  Ops = {"alloc", "pin", "free", "madvise", "evict"}
  Bufs = {b1, b2}
  NoBuf = NoBuf
  MaxBufs = 4
  IdLimit = 2
  OwnLimit = 4
  Sizes = {1}
  Block = 1
  PoolCap = 2
  NvmeCap = 1
  Flags = {FALSE}
  Careful = FALSE
SYMMETRY BufSymmetry
INVARIANTS
  NoUseOfFreed
