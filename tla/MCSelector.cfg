SPECIFICATION FairSpec
CONSTANTS
  MaxSize = 3
  Worker = {w1, w2}
  MaxCalls = 1
  Interests <- OneWay
INVARIANTS TypeOK FdSetsMatch MaxFdIsMax
PROPERTY JobsAreHandled
