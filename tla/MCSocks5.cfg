SPECIFICATION Spec
CONSTANTS
  Capacity = 3
  Scripts <- AllScripts
  Pipelining = TRUE
  OriginFirst = TRUE
  ConnectResults = {"inprogress", "error"}
  MaxAddrs = 2
  OriginFd = {1, 2}
INVARIANTS TypeOK SlotsMatchConnection OneReplyPerPhase ReplyTellsTheTruth
CHECK_DEADLOCK FALSE
