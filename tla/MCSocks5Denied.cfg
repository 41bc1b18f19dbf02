SPECIFICATION Spec
CONSTANTS
  Capacity = 3
  Scripts <- AllScripts
  Pipelining = FALSE
  OriginFirst = FALSE
  ConnectResults = {"inprogress", "error"}
  MaxAddrs = 1
  OriginFd = {1, 2}
INVARIANTS DeniedMeansClosed
CHECK_DEADLOCK FALSE
