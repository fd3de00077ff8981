CONSTANTS
  Chats = {c1, c2}
  NoChat = NoChat
  MaxMsgs = 2
  MaxStops = 1
  MaxDeaths = 1
  MaxFails = 1
  BusyMode = "steer"
SPECIFICATION Spec
CHECK_DEADLOCK FALSE
SYMMETRY ChatSymmetry
INVARIANTS OneWorker Accounted NoReplay
