SPECIFICATION FairSpec
CONSTANTS
  Volumes = {0, 1}
  Rates = {"r8000", "r16000"}
  Widths = {"S16", "S24"}
  Toggled <- MCToggled
  Preset <- MCPreset
  RawControls = FALSE
  MaxOps = 2
INVARIANTS Heard WireFormat RefsMatch
PROPERTIES StopsQuiet
CHECK_DEADLOCK FALSE
