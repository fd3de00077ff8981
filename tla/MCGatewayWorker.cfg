CONSTANTS
  Threads = {t1, t2}
  NoThread = NoThread
  MaxMsgs = 3
  MaxControl = 1
  PipeBound = 1
  BusyMode = "steer"
SPECIFICATION Spec
CHECK_DEADLOCK FALSE
INVARIANT OneTurnAtATime
PROPERTIES NoStartAfterShutdown QueuedTurnRuns ShutdownExits
