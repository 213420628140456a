\* The transaction begins implicitly at the first write, as pysqlite opens
\* it: statistics read before it are stale when written back.
CONSTANTS
    Paths <- TxnPaths
    ParentPath <- TxnParent
    RootPath = ""
    Clusters = {0, 1}
    Sizes = {1}
    MaxNodeId = 2
    MaxSerial = 2
    MaxTime = 0
    PurgeNodeAt = {}
    PurgeChildrenOf = {}
    NONE = NONE
    p1 = p1
    p2 = p2
    Procs <- TxnProcs
    LockAtBegin = FALSE
SPECIFICATION Spec
PROPERTY Refines
