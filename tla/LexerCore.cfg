CONSTANTS
  Alphabet <- CoreAlphabet
  MaxLen = 4
SPECIFICATION Spec
INVARIANTS
  TypeOK
  LosslessTokens
PROPERTIES
  Terminates
CHECK_DEADLOCK FALSE
VIEW LexView
