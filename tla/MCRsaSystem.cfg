SPECIFICATION Spec
CONSTANTS
  NDescriptors = 2
  DescriptorWords = 3
  NWords = 2
  CallWords = 2
  FifoWords = 4
  MaxCalls = 3
  Zero = Zero
  NoAnswer = NoAnswer
  Unknown = Unknown
INVARIANTS
  TypeOK
  NothingLeftOver
  AcceleratorAligned
  ParametersSettled
PROPERTY
  CallSpec
CHECK_DEADLOCK FALSE
