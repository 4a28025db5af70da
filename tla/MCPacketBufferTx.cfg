SPECIFICATION TxSpec
CONSTANTS
    h = h
    None = None
    Header <- MCHeader
    NoHeader = None
    Payloads <- MCNonEmptyPayloads
    Byte0 = 0
    MetaCap = 2
    DataCap = 4
PROPERTY ImplementsPacketQueue
