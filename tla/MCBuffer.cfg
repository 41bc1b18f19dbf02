SPECIFICATION Spec
CONSTANTS
  Byte = {0, 1}
  Capacity = 4
INVARIANT TypeOK
PROPERTY ImplementsFifo
