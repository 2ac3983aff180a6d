SPECIFICATION FairSpec
CONSTANTS
  Typed <- Commands
  Moving = {"IOT0", "Battery"}
  Present <- MCPresent
  Busy = {"Battery", "UsbHub"}
  MaxCommands = 2
  MaxMoves = 2
  MaxFaults = 1
INVARIANTS SuccessIsDone SeenHappened
PROPERTIES NeverOverlooked NoneMissed
CHECK_DEADLOCK FALSE
