SPECIFICATION Spec
CONSTANTS
  MaxFaults = 2
  MaxBad = 3
  MaxCrashes = 3
INVARIANTS ResultHonest BackupReady
PROPERTIES LimitsKept CopiesMade
CHECK_DEADLOCK FALSE
