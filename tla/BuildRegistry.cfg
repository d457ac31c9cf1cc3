CONSTANTS
  Docs <- MCDocs
  Names <- MCNames
  Dirs <- MCDirs
  Blocks <- MCBlocks
  Location = "element"
  MaxEdits = 3
SPECIFICATION Spec
INVARIANTS
  TypeOK
PROPERTIES
  RegistryRefinement
CHECK_DEADLOCK FALSE
