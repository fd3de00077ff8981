SPECIFICATION InstallSpec
CONSTANTS
  Runs = {r1, r2}
  Cmds = {c1, c2}
  NoOne = NoOne
  MaxVersion = 2
  MaxKills = 2
  MaxFaults = 1
  MaxCmds = 2
SYMMETRY Symmetric
CONSTRAINT Excused
CHECK_DEADLOCK FALSE
INVARIANTS OneInstaller CommandSurvives ReceiptTrue
PROPERTIES FailureRestores RollbackExchanges
