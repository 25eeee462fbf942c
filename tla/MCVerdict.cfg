SPECIFICATION VerdictSpec
CONSTANTS
  MinUsefulBytes = 1
  NoDuration = NoDuration
  Files <- MCFiles
  Limits <- MCLimits
  ProbeFails = FALSE
INVARIANTS
  VerdictTypeOK
  Reconsidered
  OneLossyPass
