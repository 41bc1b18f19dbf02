SPECIFICATION ASpec
CONSTANTS
  Name <- Names3
  Password = {"admin"}
  Empty = ""
  Stored <- AllStored
  DefaultMax = 2
  CommandLines <- CommandLines2
  Limits = {0, 1, 3}
  Builder = {b1, b2, b3}
  NULL = NULL
  Conn = {c1, c2}
  Idle = Idle
  Line <- Lines2
  SB_INITIAL_CAPACITY = 1
  MaxLines = 2
INVARIANTS ATypeOK BuildersOwned BuildersFit
PROPERTIES LogsFollowAccounts
SYMMETRY Symmetry
CHECK_DEADLOCK FALSE
