CONSTANTS
  BufMax = 2
  MaxTurns = 2
  MaxTexts = 3
  MaxExtras = 2
  MaxFaults = 1
  None = None
SPECIFICATION Spec
CHECK_DEADLOCK FALSE
INVARIANTS DraftInv ProseOnce
PROPERTY Settles
