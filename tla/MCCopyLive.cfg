SPECIFICATION FairSpec
CONSTANTS
  Capacity = 3
  SndBuf = 1
  Sends <- Sends41
  Early = {0}
PROPERTY EventuallyCloses
PROPERTY Forwarded
PROPERTY StreamDelivered
CHECK_DEADLOCK FALSE
