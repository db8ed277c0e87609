SPECIFICATION Spec
CONSTANTS
  t1 = t1
  t2 = t2
  t3 = t3
  k1 = k1
  k2 = k2
  k3 = k3
  k4 = k4
  Threads = {t1, t2}
  Keys = {k1, k2, k3}
  Size = 5
  Hash <- Early
  Threshold = 0
  ReclaimsAlone = FALSE
  Empty = Empty
  Tombstone = Tombstone
INVARIANTS
  NoMiss
