SPECIFICATION FairSpec
CONSTANTS
  Capacity = 8
  Scripts <- AllScripts
  Pipelining = TRUE
  OriginFirst = FALSE
  ConnectResults = {"inprogress"}
  MaxAddrs = 1
  OriginFd = {1, 2}
PROPERTY ClientAnswered
CHECK_DEADLOCK FALSE
