SPECIFICATION FairSpec
CONSTANTS
  Capacity = 3
  Scripts <- AllScripts
  Pipelining = FALSE
  OriginFirst = FALSE
  ConnectResults = {"ok", "inprogress", "error"}
  MaxAddrs = 1
  OriginFd = {1, 2}
INVARIANTS NoAbort
PROPERTIES ClientAnswered LeaverNoticed
CHECK_DEADLOCK FALSE
