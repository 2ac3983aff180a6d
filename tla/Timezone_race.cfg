\* Two copies of tzoneset that may start at the same moment, nothing fails.
SPECIFICATION Spec
CONSTANTS
    Tools = {t1, t2}
    Zones = {universal, z1}
    Default = universal
    None = none
    Bogus = bogus
    Racing = TRUE
    MaxFaults = 0
    MaxBoots = 0
    MaxCalls = 2
INVARIANT OneAtATime
CHECK_DEADLOCK FALSE
