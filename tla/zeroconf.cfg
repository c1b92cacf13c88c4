CONSTANTS
    Servers = {s1}
    Interfaces = {i1, i2}
    Clients = {c1, c2}
    NoOne = NoOne
    MaxAvahi = 1
    MaxTrouble = 1
SPECIFICATION Spec
INVARIANTS
    Registered
PROPERTIES
    ServersFound
CHECK_DEADLOCK FALSE
