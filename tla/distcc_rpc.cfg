SPECIFICATION SessionSpec
CONSTANTS
    Versions <- AllVersions
    Files <- TwoFiles
    MaxFaults = 3
    LogsErrors = TRUE
    Peers <- MCPeers
    Logins <- MCLogins
    Addresses = 2
INVARIANTS
    JobScriptsAgree
    SessionsAgree
    LetInFirst
PROPERTIES
    ImplementsRemote
    BothEnd
