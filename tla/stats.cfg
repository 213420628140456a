\* The rollups of node_create, version_create, version_remove,
\* version_recluster and node_remove stay exact on the account layout.
CONSTANTS
    Paths <- LayoutPaths
    ParentPath <- LayoutParent
    RootPath <- EmptyPath
    Clusters = {0, 1}
    Sizes = {1, 2}
    MaxNodeId = 4
    MaxSerial = 3
    MaxTime = 1
    PurgeNodeAt = {}
    PurgeChildrenOf = {}
    NONE = NONE
    StatPaths <- Containers
SPECIFICATION Spec
INVARIANT TypeOK
INVARIANT StatisticsSize
INVARIANT StatisticsPopulation
