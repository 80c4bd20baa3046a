SPECIFICATION FairSpec
CONSTANTS
  Configs <- MCConfigs
  Minute = 2
  Modulus = 8
  ExitCodes <- MCExitCodes
  MaxFaults = 2
  NoCode = NoCode
INVARIANTS
  TypeOK
  VerdictMatchesCommand
  NothingLeftBehind
PROPERTIES
  RunReturns
CHECK_DEADLOCK FALSE
