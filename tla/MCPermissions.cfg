CONSTANTS
  s1 = s1
  s2 = s2
  wRoot = wRoot
  wSub = wSub
  execute = "execute"
  write = write
  read = read
  top = top
  other = other
  Sessions = {s1, s2}
  Workspaces = {wRoot, wSub}
  Workspace <- MCWorkspace
  Tools = {"execute", write, read, "none"}
  Texts <- MCTexts
  NoRule = NoRule
  Covers <- MCCovers
  Roots = {top, other}
  Primary = top
  Calls <- MCCalls
  GlobalAllow = {}
  ConfigDeny = {}
  RepoAllow = "test"
  MaxReplies = 2
  MaxRunning = 1
SPECIFICATION Spec
INVARIANTS UntrustedFloor RejectedStaysDenied AllowIsConsented
CHECK_DEADLOCK FALSE
