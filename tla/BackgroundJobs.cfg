SPECIFICATION JobsSpec
CONSTANTS
  Threads = {t1, t2}
  Monitor = Monitor
  MaxConcurrent = 1
  RetainMax = 1
  MaxStarts = 2
  MaxExtras = 2
CHECK_DEADLOCK FALSE
INVARIANTS JobsInv NothingLeft
PROPERTIES ExitTold LifetimeEnds
