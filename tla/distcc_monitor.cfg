CONSTANTS
    Pids = {p1, p2}
    RemoteSlots = {1}
    LocalSlots = {2}
    MaxAge = 0
SPECIFICATION Spec
INVARIANTS
    SteadyListed
