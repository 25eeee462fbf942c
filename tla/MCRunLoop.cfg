SPECIFICATION FairSpec
CONSTANTS
  NoPath = NoPath
  NoHash = NoHash
  NoLimit = NoLimit
  Files <- MCFiles
  Rank <- MCRank
  Limits <- MCLimits
  DryLimits <- MCDryLimits
  MaxInFlight = 2
  Strands = TRUE
  LedgerFails = TRUE
INVARIANTS
  TypeOK
  NothingOverlooked
  AtMostOneLate
  ClaimedHasOwner
PROPERTIES
  Terminates
