SPECIFICATION Spec
CONSTANTS
  NoPath = NoPath
  NoHash = NoHash
  Nothing = Nothing
  Paths <- MCPaths
  Library <- MCLibrary
  Convertible <- MCLibrary
  Source <- MCSource
  Out <- MCOut
  Part <- MCPart
  HasHash = TRUE
  MaxInFlight = 2
INVARIANT
  EveryFileWhole
