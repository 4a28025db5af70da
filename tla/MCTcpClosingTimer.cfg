CONSTANTS
    SeqSpace = 16
    RxCap = 2
    TxCap = 2
    Mss = 1
    WinShift = 0
    MaxSegmentCount = 2
    Client = "client"
    Server = "server"
    Iss <- WrappingIss
    Bytes <- ServerWrites1
    Chunks = {2}
    Options <- PlainOptions
    Closable <- ClientCloses
    MayKeepAlive = FALSE
    MayAbort = FALSE
    EmitFails = FALSE
    MaxInFlight = 2
    MaxFaults = 1
    MaxRetransmits = 1
SPECIFICATION Spec
INVARIANTS
    ClosingIsTimed
CHECK_DEADLOCK FALSE
