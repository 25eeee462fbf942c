SPECIFICATION Spec
CONSTANTS
  Contents = {c1, c2}
  Settings <- MCSettings
  MaxCrf = 5
  FallbackCrf = 4
  CrfStep = 2
  MaxAttempts = 3
  SearchError = 4
INVARIANTS
  TypeOK
  AcceptedAtGate
  HintIsProven
  HintPaysOff
  ReachesTheGate
