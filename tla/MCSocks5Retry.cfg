SPECIFICATION Spec
CONSTANTS
  Capacity = 3
  Scripts <- AllScripts
  Pipelining = FALSE
  OriginFirst = FALSE
  ConnectResults = {"inprogress", "error"}
  MaxAddrs = 2
  OriginFd = {1, 2}
INVARIANTS ConnectIsWatched
CHECK_DEADLOCK FALSE
