CONSTANTS
    Kids = {k1, k2}
    Lifetime = 1
    JobLifetime = 1
    Detached = FALSE
    Slack = 1
    MaxSignals = 1
SPECIFICATION FairSpec
INVARIANTS
    NkidsExact
    OneCompiler
PROPERTIES
    FilesRemoved
    EverySlotServes
CHECK_DEADLOCK FALSE
