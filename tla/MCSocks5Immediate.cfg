SPECIFICATION Spec
CONSTANTS
  Capacity = 3
  Scripts <- AllScripts
  Pipelining = FALSE
  OriginFirst = FALSE
  ConnectResults = {"ok", "inprogress", "error"}
  MaxAddrs = 1
  OriginFd = {1, 2}
INVARIANTS OneReplyPerPhase
CHECK_DEADLOCK FALSE
