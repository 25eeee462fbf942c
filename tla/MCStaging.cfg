SPECIFICATION StagingSpec
CONSTANTS
  Files <- MCFiles
  Versions <- Apart
  Widths = {1, 2}
  Nothing = Nothing
INVARIANTS
  StagingTypeOK
  InputIsOwn
PROPERTIES
  DownloadsKept
  TakesItsOwn
