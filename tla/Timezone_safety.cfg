\* Two copies of tzoneset that do not start at the same moment, one failure,
\* two power cuts.
SPECIFICATION Spec
CONSTANTS
    Tools = {t1, t2}
    Zones = {universal, z1, z2}
    Default = universal
    None = none
    Bogus = bogus
    Racing = FALSE
    MaxFaults = 1
    MaxBoots = 2
    MaxCalls = 3
INVARIANTS
    TypeOK
    LockFreed
    ZoneMatches
    ZoneKept
\* After the last shutdown nothing more happens.
CHECK_DEADLOCK FALSE
