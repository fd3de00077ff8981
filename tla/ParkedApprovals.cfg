CONSTANTS
  Threads = {t1, t2}
  MaxPrompts = 2
  MaxAsks = 2
  MaxTaps = 3
  MaxFaults = 1
  MaxTokens = 2
SPECIFICATION Spec
CHECK_DEADLOCK FALSE
INVARIANTS RunsNeedTaps SuspendedHasRow
PROPERTY BusyClears
