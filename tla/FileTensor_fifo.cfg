SPECIFICATION HSpec
CONSTANTS
  PageCount = 4
  Budget = 3
  HostBudget = 1
  Jobs = {}
  NoPage = NoPage
  Garbage = Garbage
  k1 = k1
PROPERTIES
  FifoSlotReuse
