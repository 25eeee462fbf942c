SPECIFICATION Spec
CONSTANTS
  NoPath = NoPath
  NoHash = NoHash
  Nothing = Nothing
  Paths <- BothPaths
  Library <- Both
  Convertible <- Both
  Source <- MCSource
  Out <- MCOut
  Part <- MCPart
  HasHash = TRUE
  MaxInFlight = 2
INVARIANTS
  TypeOK
  DoneIsTrue
PROPERTIES
  NothingLost
  KeepsPromise
VIEW WithoutTrash
CONSTRAINT OneLeftover
