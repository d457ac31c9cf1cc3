CONSTANTS
  Docs <- MCDocs
  Names <- MCNames
  Dirs <- MCDirs
  Blocks <- MCBlocks
  Location = "element"
  MaxEdits = 2
SPECIFICATION Spec
INVARIANTS
  LinksToCurrentDefinitions
CHECK_DEADLOCK FALSE
