CONSTANTS
    fast = fast
    slow = slow
    type = type
    c1 = c1
    c2 = c2
    none = none
    nospec = nospec
    Hosts <- MCHosts
    Dprops <- MCDprops
    DpropOf <- MCDpropOf
    Clients = {c1, c2}
    Specs <- MCSpecs
    Loads <- MCLoads
    NoHost = none
    NoSpec = nospec
    ConfiguredFile <- MCConfiguredFile
    AddrOf <- MCAddrOf
    Namings <- MCNamings
    Rooms <- MCRooms
    Commands <- MCCommands
    FileTexts <- MCFileTexts
SPECIFICATION FairSpec
INVARIANTS
    CpusPlaced
    CpusAccounted
    TextsTrue
PROPERTIES
    CpusConserved
    AdminDownSticks
    SilentHostLeaves
