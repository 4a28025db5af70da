SPECIFICATION TxSpec
CONSTANTS
    h = h
    None = None
    Header <- MCHeader
    NoHeader = None
    Payloads <- MCNonEmptyPayloads
    Byte0 = 0
    MetaCap = 3
    DataCap = 4
INVARIANT NeverPanics
PROPERTY ImplementsPacketQueue
