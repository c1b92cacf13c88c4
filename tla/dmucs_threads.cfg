CONSTANTS
    type = type
    nospec = nospec
    Hosts = {h1}
    Dprops = {type}
    DpropOf <- MCDpropOf
    Clients = {c1}
    Specs <- MCSpecs
    Loads <- MCLoads
    NoHost = none
    NoSpec = nospec
    ConfiguredFile <- MCConfiguredFile
    MaxListed = 2
SPECIFICATION SerialSpec
INVARIANTS
    NoCpuLost
PROPERTIES
    ImplementsServer
    HandlerEnds
