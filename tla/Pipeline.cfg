CONSTANTS
  Streams <- MCStreams
  BodyAlphabet <- LinkAlphabet
  MaxBody = 4
  Chunks <- LinkChunks
  TypeWords <- MCTypeWords
  Objects <- MCObjects
  Labels <- MCLabels
  AnonLabels <- MCAnonLabels
  DocNames = {"d1", "d2"}
SPECIFICATION Spec
INVARIANTS
  FTypeOK
  TypeOK
  ResolutionPrecedence
  BuiltinsNeverLinked
  WarnedIffUnresolved
PROPERTIES
  CommentTextKept
CHECK_DEADLOCK FALSE
