SPECIFICATION InputsSpec
CONSTANTS
    Menu <- MCMenu
    MaxPhrases = 4
    HostLists <- MCHostLists
    Objects <- MCObjects
    XcodeTexts <- MCXcodeTexts
    HeaderMaps <- MCHeaderMaps
    HeaderKeys <- MCHeaderKeys
    Calls <- MCCalls
    Bin <- MCBin
    Names <- MCNames
    Scripted = "u"
    Servers <- MCServers
    Asked = {p, q}
    Starts <- MCStarts
    StatsEvents <- MCStatsEvents
    Histories <- MCHistories
    MaxStats = 4
    Disk <- MCDisk
    Own <- MCOwn
    Defaults <- MCDefaults
    Longer <- MCLonger
    PumpCommands <- MCPumpCommands
    MaxCommands = 2
CHECK_DEADLOCK FALSE
INVARIANTS
    SameCompile
    ServersDescribed
    NamesTranslated
    CallsBounded
    CompilerRuns
    StartedAsTold
