\* Dual and single systems; every pair of troubles in flash, one transient
\* failure and one reset or power cut at any point.
SPECIFICATION FairSpec
CONSTANTS
    Platforms <- MCPlain
    Images <- MCImages
    MaxFaults = 1
    MaxResets = 1
INVARIANTS
    MarksDeserved
    SameHalf
PROPERTIES
    GetsCloser
    SwapsProgress
    LegatoKept
    ComesUp
\* A module that gave up, or that is up, waits for a reset.
CHECK_DEADLOCK FALSE
