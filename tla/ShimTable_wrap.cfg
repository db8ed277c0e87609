SPECIFICATION Spec
CONSTANTS
  t1 = t1
  t2 = t2
  t3 = t3
  k1 = k1
  k2 = k2
  k3 = k3
  k4 = k4
  Threads = {t1}
  Keys = {k1, k2, k3, k4}
  Size = 5
  Hash <- Wrapping
  Threshold = 0
  ReclaimsAlone = TRUE
  Empty = Empty
  Tombstone = Tombstone
INVARIANTS
  EntriesReachable
