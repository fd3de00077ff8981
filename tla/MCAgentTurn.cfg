CONSTANTS
  Candidates = 2
  Provider <- Providers
  HasKey = {2}
  Usages <- Reports
  Limit = 7
  MaxRepairRounds = 1
  MaxDiagRounds = 1
  MaxPrompts = 2
  MaxRounds = 2
  MaxSteers = 1
  MaxCancels = 1
  None = None
SPECIFICATION Spec
CHECK_DEADLOCK FALSE
INVARIANTS PromptOnce CallsAnswered DoneIsVerified SteerKept TurnInv
PROPERTY TurnEnds
