SPECIFICATION Spec
CONSTANTS
    a = a
    b = b
    MaxCap = 3
    Capacities <- MCCapacities
    Elem <- MCElem
    Zero = a
    Slices <- MCSlices
    Counts <- MCCounts
INVARIANT TypeOK
PROPERTY ImplementsFifo
