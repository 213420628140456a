\* statistics_latest on a container with a sibling container a/cd.
CONSTANTS
    Paths <- SiblingPaths
    ParentPath <- SiblingParent
    RootPath <- EmptyPath
    Clusters = {0, 1}
    Sizes = {1, 2}
    MaxNodeId = 4
    MaxSerial = 3
    MaxTime = 1
    PurgeNodeAt = {}
    PurgeChildrenOf = {}
    NONE = NONE
    StatPaths <- Containers
SPECIFICATION Spec
INVARIANT StatisticsLatestSize
