\* Three threads, overlapping chains in a table of three, a reclaim whenever two slots are deleted.
SPECIFICATION Spec
CONSTANTS
  t1 = t1
  t2 = t2
  t3 = t3
  k1 = k1
  k2 = k2
  k3 = k3
  k4 = k4
  Threads = {t1, t2, t3}
  Keys = {k1, k2, k3}
  Size = 3
  Hash <- Early
  Threshold = 1
  ReclaimsAlone = TRUE
  Empty = Empty
  Tombstone = Tombstone
PROPERTIES
  ImplementsPtrMap
