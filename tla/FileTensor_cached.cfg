\* Four pages, two slots, a host cache of two lanes.
SPECIFICATION FairHSpec
CONSTANTS
  k1 = k1
  PageCount = 4
  Budget = 2
  HostBudget = 2
  Jobs = {k1}
  NoPage = NoPage
  Garbage = Garbage
INVARIANTS
  AcquiredPagesHoldTheFile
  HostCacheIsTruthful
  WorkingSetStaysResident
PROPERTIES
  ImplementsResidency
  RequestedPagesStay
  CallsEnd
  TeardownEnds
