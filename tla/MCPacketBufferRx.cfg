SPECIFICATION RxSpec
CONSTANTS
    h = h
    None = None
    Header <- MCHeader
    NoHeader = None
    Payloads <- MCPayloads
    Byte0 = 0
    MetaCap = 3
    DataCap = 4
INVARIANTS TypeOK NeverPanics
PROPERTIES ImplementsPacketQueue EnqueueFitsWhenEmpty
