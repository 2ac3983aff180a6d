\* Every platform, every content of flash, two transient failures and two
\* reboots or power cuts at any point.
SPECIFICATION FairSpec
CONSTANTS
    MaxFaults = 2
    MaxBoots = 2
INVARIANTS
    HealthyBootMounts
    ResultTruthful
    NoAttachLeak
PROPERTIES
    DataKept
    LastBootMounts
    StoreSpec
\* The number of reboots is bounded, so the last boot has an end.
CHECK_DEADLOCK FALSE
