CONSTANTS
    Client = {c1}
    Server = server
    HeaderSize = 2
    BodySize = 1
    MaxMsgSize = 1
    StorageSize = 5
    MaxClients = 2
    SocketSize = 2
    MaxPerUpdate = 2
    ServerMessages = 2
    ClientMessages = 0
    MaxMade <- MessagesMade
    MaxConn = 2
    Targeted = FALSE
    Fits = {TRUE}
SPECIFICATION Spec
INVARIANTS
    
    NothingSkipped
CHECK_DEADLOCK FALSE
