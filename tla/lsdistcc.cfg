CONSTANTS
    N = 3
    GroupSize = 2
    MaxTries = 2
    Overlap = 1
    DnsGap = 0
    Compile = TRUE
SPECIFICATION LsSpec
INVARIANTS
    Vouched
    NeverIdle
CHECK_DEADLOCK FALSE
