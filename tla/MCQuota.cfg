SPECIFICATION FairSpec
CONSTANTS
  Files <- MCFiles
  Size <- MCSize
  Output <- MCOutput
  NoFloor = NoFloor
  Setups <- MCSetups
INVARIANTS
  TypeOK
  BudgetHonest
  WayBack
PROPERTIES
  PurgedOnlyWhenLow
  EveryJobEnds
CHECK_DEADLOCK FALSE
