CONSTANTS
    a = a  b = b  h = h  i = i  t = t  s = s  z = z  X = X  Y = Y  p = p  none = none
    Files <- MCFiles
    Macros <- MCMacros
    Absolute = {p}
    NoFile = none
    System = {s}
    Malformed = {z}
    Named <- MCNamed
    Triggers = {t}
    Edited = {t}
    Programs <- MCPrograms
    Commands <- MCCommands
    MaxCommands = 3
    MaxEdits = 2
    MaxTimeouts = 1
SPECIFICATION AnalyzerSpec
INVARIANTS
    StaticClosed
    ComputedCovered
    TriggersSeen
CHECK_DEADLOCK FALSE
