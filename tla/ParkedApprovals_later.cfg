CONSTANTS
  Threads = {t1}
  MaxPrompts = 1
  MaxAsks = 2
  MaxTaps = 1
  MaxFaults = 0
  MaxTokens = 1
SPECIFICATION Spec
CHECK_DEADLOCK FALSE
INVARIANT LaterAskParksAgain
