CONSTANTS
    d1 = d1  d2 = d2  x0 = x0  x1 = x1  x2 = x2  n1 = n1  n2 = n2
    DataBids <- MCDataBids
    InternalBids <- MCInternalBids
    Nids <- MCNids
    Calls <- MCCalls
    MaxXBlockDepth = 2
    MaxSubnodeDepth = 2
    MaxAllocation = 4
    MaxItems = 3
CHECK_DEADLOCK FALSE
SPECIFICATION Spec
INVARIANTS TypeOK WorkBounded MatchesTree
PROPERTIES Terminates ImplementsTraversal
