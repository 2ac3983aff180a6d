\* Every platform; two edits, two failed commands, three boots.
SPECIFICATION Spec
CONSTANTS
    MaxEdits = 2
    MaxFaults = 2
    MaxBoots = 2
INVARIANTS
    OverlayOutcome
    NaggerReady
    EditsKept
PROPERTY MountSpec
\* The last boot ends in a stopped system.
CHECK_DEADLOCK FALSE
