CONSTANTS
    SeqSpace = 16
    RxCap = 2
    TxCap = 2
    Mss = 2
    WinShift = 1
    MaxSegmentCount = 2
    Client = "client"
    Server = "server"
    Iss <- WrappingIss
    Bytes <- ClientWrites2
    Chunks = {2}
    Options <- LateOptions
    Closable <- NeverClosed
    MayKeepAlive = TRUE
    MayAbort = TRUE
    EmitFails = TRUE
    MaxInFlight = 1
    MaxFaults = 0
    MaxRetransmits = 1
SPECIFICATION Spec
INVARIANTS
    PollAtMirrorsDispatch
CHECK_DEADLOCK FALSE
