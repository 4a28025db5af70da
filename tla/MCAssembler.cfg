SPECIFICATION Spec
CONSTANTS
    MaxSegmentCount = 3
    MaxSpan = 8
    Offsets <- MCOffsets
    Sizes <- MCSizes
INVARIANTS RepresentationOK IterYieldsRuns
PROPERTY RecordsReceivedSet
