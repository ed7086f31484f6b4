CONSTANTS
    x = x  y = y
    RowIds <- MCRowIds
    Tables <- MCTables
    MaxItems = 4
    MaxAllocation = 52
    MaxColumns = 8
    MaxOrdinal = 4
CHECK_DEADLOCK FALSE
SPECIFICATION Spec
INVARIANTS OnlyPstErrors
