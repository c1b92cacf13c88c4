SPECIFICATION FairSpec
CONSTANTS
    Clients = {c1, c2}
    pump = pump
    plain = plain
    Servers = {pump, plain}
    PumpServers = {pump}
    HostList <- ClientHosts
    NSlots <- OneSlotEach
    SlotsScanned = 2
    MaxDiscrepancies = 1
    NoHost = NoHost
    MaxBuilds = 1
    LogsErrors = TRUE
INVARIANTS
    LocksMatchWork
    SuccessHasObject
PROPERTIES
    SlotsRespected
    BuildsEnd
CHECK_DEADLOCK FALSE
