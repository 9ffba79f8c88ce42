SPECIFICATION FairSpec
CONSTANTS
  Handlers = {h1, h2, h3}
  NoHandler = none
  CycleMax = 3
  Frac = 2
  Delays = {0, 1, 7}
  MaxIoDelay = 2
  QueueSize = 3
INVARIANTS TypeOK QueueStable ServedOnTime
PROPERTY EventuallyServed
