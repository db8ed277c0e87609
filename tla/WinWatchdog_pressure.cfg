\* One client, the times of the code in seconds, commit charges at the edges of the levels.
SPECIFICATION Spec
CONSTANTS
  w1 = w1
  w2 = w2
  c1 = c1
  c2 = c2
  None = None
  Watchdogs = {w1, w2}
  Clients = {c1}
  Loads = {74, 75, 90}
  Frees = {1, 2}
  Reserve = 2
  Sizes = {1}
  Nap = 1
  StopWait = 10
  RefFails = FALSE
INVARIANTS
  WatchdogEndsFirst
  NoMissedPressure
PROPERTIES
  OomClears
  PressureReachesClient
