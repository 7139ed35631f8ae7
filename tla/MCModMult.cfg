SPECIFICATION Spec
CONSTANTS
  Radix <- MCRadix
  NoJob = NoJob
  NoAnswer = NoAnswer
INVARIANTS
  TypeOK
  PartialProduct
PROPERTY
  MultiplierSpec
