SPECIFICATION Spec
CONSTANTS
  Capacity = 3
  Scripts <- AllScripts
  Pipelining = FALSE
  OriginFirst = TRUE
  ConnectResults = {"inprogress", "error"}
  MaxAddrs = 1
  OriginFd = {1, 2}
INVARIANTS NoAbort
CHECK_DEADLOCK FALSE
