SPECIFICATION Spec
CONSTANTS
  NWords = 2
  Word = {w0, w1}
  ExpWord = {w0, w1}
  ModWord = {w0}
  Zero = w0
  NoAnswer = NoAnswer
INVARIANTS
  TypeOK
  FlagsInStep
  StrobeAnswered
PROPERTY
  StreamSpec
