CONSTANTS
  Streams <- MCStreams
  BodyAlphabet <- PlainAlphabet
  MaxBody = 1
  Chunks <- CaptionChunks
  TypeWords <- MCTypeWords
  Objects <- MCObjects
  Labels <- MCLabels
  AnonLabels <- MCAnonLabels
  DocNames = {"d1", "d2"}
SPECIFICATION Spec
INVARIANTS
  OutputEscaped
CHECK_DEADLOCK FALSE
