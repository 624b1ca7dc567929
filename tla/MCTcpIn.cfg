CONSTANTS
    Client = {c1, c2}
    Server = server
    HeaderSize = 2
    BodySize = 1
    MaxMsgSize = 1
    StorageSize = 5
    MaxClients = 2
    SocketSize = 3
    MaxPerUpdate = 1
    ServerMessages = 0
    ClientMessages = 1
    MaxMade <- MessagesMade
    MaxConn = 2
    Targeted = FALSE
    Fits = {TRUE}
SPECIFICATION Spec
INVARIANTS
    StreamInOrder
    SlotsAgree
CHECK_DEADLOCK FALSE
SYMMETRY Symmetric
