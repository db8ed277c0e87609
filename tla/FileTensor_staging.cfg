\* Four pages, three slots, no host cache: two staging lanes.
SPECIFICATION Spec
CONSTANTS
  k1 = k1
  k2 = k2
  PageCount = 4
  Budget = 3
  HostBudget = 0
  Jobs = {k1}
  NoPage = NoPage
  Garbage = Garbage
INVARIANTS
  ConsumersReadTheirPages
  CopiesReadStableBuffers
  AlwaysASlotAndALane
  QuietTeardown
