SPECIFICATION Spec
CONSTANTS
  BufLen = 3
  Depth = 1
  Vals = 6
  MaxCount = 2
  IntMax = 4
  DefaultTimeout = 2
  Timeouts = {0}
INVARIANTS
  TypeOK
  InOrder
  Armed
PROPERTIES
  CallsReturn
