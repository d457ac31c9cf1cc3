CONSTANTS
  Docs <- MCDocs
  Names <- MCNames
  Dirs <- MCDirs
  Blocks <- MCBlocks
  Location = "tuple"
  MaxEdits = 2
SPECIFICATION Spec
INVARIANTS
  NeverAborts
CHECK_DEADLOCK FALSE
