\* The caller opens each call's transaction with the write lock: the
\* committed file follows the atomic VersionTree, crashes included.
CONSTANTS
    Paths <- TxnPaths
    ParentPath <- TxnParent
    RootPath = ""
    Clusters = {0, 1}
    Sizes = {1}
    MaxNodeId = 2
    MaxSerial = 2
    MaxTime = 1
    PurgeNodeAt = {}
    PurgeChildrenOf = {}
    NONE = NONE
    p1 = p1
    p2 = p2
    Procs <- TxnProcs
    LockAtBegin = TRUE
SPECIFICATION Spec
PROPERTY Refines
