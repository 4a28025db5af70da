CONSTANTS
    SeqSpace = 16
    RxCap = 2
    TxCap = 2
    Mss = 2
    WinShift = 0
    MaxSegmentCount = 2
    Client = "client"
    Server = "server"
    Iss <- WrappingIss
    Bytes <- ClientWrites3
    Chunks = {2}
    Options <- PlainOptions
    Closable <- GivenUp
    MayKeepAlive = FALSE
    MayAbort = FALSE
    EmitFails = FALSE
    MaxInFlight = 2
    MaxFaults = 1
    MaxRetransmits = 1
SPECIFICATION Spec
INVARIANTS
    TypeOK
    StreamIntegrity
    AckedIsReceived
    SubtractionsOK
PROPERTIES
    InFlightIsTimed
CHECK_DEADLOCK FALSE
