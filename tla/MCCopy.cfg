SPECIFICATION Spec
CONSTANTS
  Capacity = 3
  SndBuf = 1
  Sends <- Sends43
  Early = {0, 1, 3}
INVARIANT TypeOK
INVARIANT StreamIntegrity
INVARIANT BufferedIsWatched
INVARIANT NeverWedged
INVARIANT ErrorOnlyOnReset
INVARIANT NothingDroppedAtDone
CHECK_DEADLOCK FALSE
