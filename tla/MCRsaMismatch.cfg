SPECIFICATION Spec
CONSTANTS
  NDescriptors = 1
  DescriptorWords = 8
  NWords = 8
  CallWords = 2
  FifoWords = 3
  MaxCalls = 2
  Zero = Zero
  NoAnswer = NoAnswer
  Unknown = Unknown
INVARIANT
  ParametersSettled
CHECK_DEADLOCK FALSE
