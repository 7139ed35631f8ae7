SPECIFICATION Spec
CONSTANTS
  NDescriptors = 3
  DescriptorWords = 2
  MaxTransfers = 3
  SyncAfterAsync = TRUE
INVARIANT
  SyncIsSilent
CHECK_DEADLOCK FALSE
