CONSTANTS
    SeqSpace = 16
    RxCap = 2
    TxCap = 2
    Mss = 1
    WinShift = 0
    MaxSegmentCount = 2
    Client = "client"
    Server = "server"
    Iss <- WrappingIss
    Bytes <- BothWrite
    Chunks = {2}
    Options <- PlainOptions
    Closable <- ClientCloses
    MayKeepAlive = FALSE
    MayAbort = FALSE
    EmitFails = FALSE
    MaxInFlight = 2
    MaxFaults = 0
    MaxRetransmits = 0
SPECIFICATION CloseSpec
INVARIANTS
    FinishedIsComplete
PROPERTIES
    FinAckedIsFinReceived
    ImplementsByteStream
CHECK_DEADLOCK FALSE
