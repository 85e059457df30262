SPECIFICATION Spec
CONSTANTS
    Board = {b1, b2}
    NoBoard = NoBoard
    Port = {p1, p2}
    NoPort = NoPort
    Id = {id1, id2}
    NoId = NoId
    Types <- AllTypes
    Lists <- AllLists
    RomIds <- AllRomIds
    MaxEvents = 2
    b1 = b1
    b2 = b2
    id1 = id1
    id2 = id2
INVARIANTS
    WritesTheMeant
    ReportsTheWritten
    ComesBackAsInstalled
    AdviceWorks
CHECK_DEADLOCK FALSE
SYMMETRY Ports
