CONSTANTS
  Docs <- MCDocs
  Names <- MCNames
  Dirs <- MCDirs
  Blocks <- MCBlocksIncludedPage
  Location = "element"
  MaxEdits = 1
SPECIFICATION Spec
INVARIANTS
  LinksFromWrittenDoc
CHECK_DEADLOCK FALSE
