CONSTANTS
    SeqSpace = 16
    RxCap = 2
    TxCap = 2
    Mss = 1
    WinShift = 0
    MaxSegmentCount = 2
    Client = "client"
    Server = "server"
    Iss <- WrappingIss
    Bytes <- BothWrite
    Chunks = {2}
    Options <- PlainOptions
    Closable <- NeverClosed
    MayKeepAlive = FALSE
    MayAbort = FALSE
    EmitFails = FALSE
    MaxInFlight = 1
    MaxFaults = 1
    MaxRetransmits <- NoLimit
SPECIFICATION FairSpec
PROPERTIES
    EventuallyRead
CHECK_DEADLOCK FALSE
