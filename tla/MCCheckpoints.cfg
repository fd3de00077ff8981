CONSTANTS
  Sessions = {s1, s2}
  None = None
  MaxStack = 2
  MaxEdits = 1
  MaxBuilds = 4
  MaxTurns = 2
  MaxForks = 1
  MaxOps = 2
  MaxFaults = 1
SPECIFICATION Spec
CHECK_DEADLOCK FALSE
SYMMETRY SessionSymmetry
INVARIANTS StacksWhole NoWorkLost CleanAbortRestores
PROPERTIES StepKeepsEntries ImplementsHistory
