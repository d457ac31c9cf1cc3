CONSTANTS
  Streams <- MCStreams
  BodyAlphabet <- PlainAlphabet
  MaxBody = 3
  Chunks <- PlainChunks
  TypeWords <- MCTypeWords
  Objects <- MCObjects
  Labels <- MCLabels
  AnonLabels <- MCAnonLabels
  DocNames = {"d1", "d2"}
SPECIFICATION Spec
INVARIANTS
  RoundTrip
CHECK_DEADLOCK FALSE
