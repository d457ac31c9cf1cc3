CONSTANTS
  Alphabet <- TypeLineAlphabet
  MaxLen = 5
SPECIFICATION Spec
PROPERTIES
  TypeExprEndsAtLineEnd
CHECK_DEADLOCK FALSE
