CONSTANTS
    Keys = {1, 2, 3, 4, 5}
    Rids = {0, 1, 2, 3, 4, 5}
    Order = 2
    MaxEntries = 6
    MaxMixed = 3
    Columns = 2
    Garbage = Garbage
CHECK_DEADLOCK FALSE
SPECIFICATION LookupSpec
INVARIANTS
    LookupTypeOK
    SearchSound
    FoundWhileReachable
    ChainComplete
    StoresReachTree
    HitsAreRows
    InsertedRowsAreRead
