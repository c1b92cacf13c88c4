CONSTANTS
    host = host
    type = type
    c1 = c1
    c2 = c2
    tool = tool
    none = none
    nospec = nospec
    Hosts = {host}
    Dprops = {type}
    DpropOf <- MCDpropOf
    Clients = {c1, c2}
    Specs <- MCSpecs
    Loads <- MCLoads
    NoHost = none
    NoSpec = nospec
    ConfiguredFile <- MCConfiguredFile
    Tools = {tool}
    Sends <- MCSends
    Wait <- MCWait
SPECIFICATION ClientsSpec
INVARIANTS
    CpuWhileRunning
PROPERTIES
    CpusComeBack
