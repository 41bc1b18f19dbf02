SPECIFICATION FairSpec
CONSTANTS
  MaxSize = 5
  Conn = {c1, c2, c3}
INVARIANTS TypeOK SlotsOwned ConnectionsCounted JobsReachTheirConnection
PROPERTY ConnectsAreServed
CHECK_DEADLOCK FALSE
