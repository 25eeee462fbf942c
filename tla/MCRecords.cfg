SPECIFICATION Spec
CONSTANTS
  Paths <- MCPaths
  Library = {"photo.jpg", "song.wav"}
  Out <- MCOut
  Exact = {"photo.jpg"}
  Versions = {1, 2}
  First = 1
  SizeOf <- MCSizeOf
  Nothing = Nothing
  NoPath = NoPath
  NoHash = NoHash
  Retention = 1
  MaxDay = 2
  MaxEdits = 1
INVARIANTS
  TypeOK
  RebuiltIsReplaced
PROPERTIES
  RetentionKept
  RecordsStand
