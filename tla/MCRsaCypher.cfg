SPECIFICATION Spec
CONSTANTS
  Radix <- MCRadix
  Moduli <- MCModuli
  SoftRadix = 8
  NoJob = NoJob
  NoAnswer = NoAnswer
INVARIANTS
  TypeOK
  Lockstep
  OperandsAdmissible
  RoundInvariant
  HardwareMatchesSoftware
PROPERTY
  ExponentiatorSpec
