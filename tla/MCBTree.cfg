CONSTANTS
    p0 = p0  p1 = p1  p2 = p2  p3 = p3  p4 = p4
    Refs <- MCRefs
    Keys <- MCKeys
    Stores <- MCStores
    MaxBTreeDepth = 2
    MaxItems = 4
SPECIFICATION Spec
INVARIANTS TypeOK WorkBounded ReadersExact
PROPERTIES IterationVouches WalksEnd ImplementsTraversal
