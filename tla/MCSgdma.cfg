SPECIFICATION Spec
CONSTANTS
  NDescriptors = 3
  DescriptorWords = 2
  MaxTransfers = 3
  SyncAfterAsync = FALSE
INVARIANTS
  TypeOK
  CallbackPerTransfer
PROPERTIES
  Undisturbed
  TransfersEnd
  SyncReturns
CHECK_DEADLOCK FALSE
