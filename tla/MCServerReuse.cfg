SPECIFICATION Spec
CONSTANTS
  MaxSize = 5
  Conn = {c1, c2, c3}
INVARIANT EstablishedIsConnected
CHECK_DEADLOCK FALSE
