SPECIFICATION Spec
CONSTANTS
  t1 = t1
  t2 = t2
  h1 = h1
  h2 = h2
  b1 = b1
  b2 = b2
  b3 = b3
  Threads = {t1}
  Handles = {h1, h2}
  Uses <- OneTool
  Ops = {"alloc", "free", "reset"}
  Bufs = {b1, b2}
  NoBuf = NoBuf
  MaxBufs = 3
  IdLimit = 9
  OwnLimit = 4
  Sizes = {2}
  Block = 2
  PoolCap = 6
  NvmeCap = 2
  Flags = {FALSE}
  Careful = TRUE
SYMMETRY BufSymmetry
PROPERTIES
  CloseFreesItsOwn
