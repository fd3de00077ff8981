CONSTANTS
  Chats = {c1, c2}
  Roots = {home, repo}
  JobIds = {j1, j2}
  Personal = home
  None = None
  Crons <- CronExprs
  Delays = {2}
  SecondsPerMinute = 2
  MinutesPerHour = 2
  HoursPerDay = 1
  DaysPerMonth = 2
  MonthsPerYear = 2
  DaysPerWeek = 3
  SearchLimit = 4
  MaxTime = 4
  MaxTurns = 2
  MaxAsks = 2
  MaxFaults = 1
SYMMETRY Interchangeable
SPECIFICATION Spec
PROPERTIES FiresOncePerSlot NoFiringSkipped
CHECK_DEADLOCK FALSE
