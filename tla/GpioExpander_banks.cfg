SPECIFICATION Spec
CONSTANTS
  Tools = {t1, t2}
  Args <- MCBanks
  Options = {"up", "down", "enable", "value", "other"}
  None = None
  Crowded = FALSE
  MaxOptions = 2
  MaxFaults = 1
SYMMETRY Symmetry
INVARIANTS TypeOK ZeroMeansDone PullsExclusive
PROPERTIES PinsSpec
