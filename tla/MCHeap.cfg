CONSTANTS
    v = v  w = w
    Keys <- MCKeys
    Values <- MCValues
    Stores <- MCStores
    MaxBlockIndex = 2
    MaxItemIndex = 5
    MaxHeapItems = 7
    MaxHeapTreeDepth = 2
    MaxItems = 5
    CountBound = 9
CHECK_DEADLOCK FALSE
SPECIFICATION Spec
INVARIANTS HeapTypeOK ReadersExact
PROPERTIES IterationVouches
