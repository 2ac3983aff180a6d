SPECIFICATION LinkFairSpec
CONSTANTS
  MaxChanges = 4
INVARIANTS NoSleepWhileUp
PROPERTIES LockFollows
CHECK_DEADLOCK FALSE
