CONSTANTS
    Client = {c1, c2}
    Server = server
    HeaderSize = 1
    BodySize = 1
    MaxMsgSize = 1
    StorageSize = 5
    MaxClients = 2
    SocketSize = 1
    MaxPerUpdate = 1
    ServerMessages = 1
    ClientMessages = 0
    MaxMade <- MessagesMade
    MaxConn = 2
    Targeted = TRUE
    Fits = {TRUE}
SPECIFICATION FairSpec
PROPERTY
    UpdateReturns
CHECK_DEADLOCK FALSE
