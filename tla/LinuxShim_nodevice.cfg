SPECIFICATION Spec
CONSTANTS
  t1 = t1
  t2 = t2
  m1 = m1
  m2 = m2
  d1 = d1
  d2 = d2
  Threads = {t1, t2}
  HostAddrs = {m1, m2}
  CudaAddrs = {d1}
  NumSlots = 4
  Hash <- NoChain
  QueueSize = 1
  UsesDriver = TRUE
  DeviceOpens = FALSE
  None = None
SYMMETRY ThreadSymmetry
INVARIANT
  NothingLost
