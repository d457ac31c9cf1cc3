CONSTANTS
  Streams <- MCStreams
  BodyAlphabet <- BacktickAlphabet
  MaxBody = 7
  Chunks = {}
  TypeWords <- MCTypeWords
  Objects <- MCObjects
  Labels <- MCLabels
  AnonLabels <- MCAnonLabels
  DocNames = {"d1"}
SPECIFICATION Spec
PROPERTIES
  LiteralSpansPreserved
CHECK_DEADLOCK FALSE
