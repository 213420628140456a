\* statistics_latest on an account.
CONSTANTS
    Paths <- LayoutPaths
    ParentPath <- LayoutParent
    RootPath <- EmptyPath
    Clusters = {0, 1}
    Sizes = {1, 2}
    MaxNodeId = 4
    MaxSerial = 3
    MaxTime = 1
    PurgeNodeAt = {}
    PurgeChildrenOf = {}
    NONE = NONE
    StatPaths <- Accounts
SPECIFICATION Spec
INVARIANT StatisticsLatestSize
