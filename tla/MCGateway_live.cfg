CONSTANTS
  Chats = {c1}
  NoChat = NoChat
  MaxMsgs = 3
  MaxStops = 1
  MaxDeaths = 0
  MaxFails = 0
  BusyMode = "queue"
SPECIFICATION Spec
CHECK_DEADLOCK FALSE
PROPERTY QueueContinues
