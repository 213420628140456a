\* Further configuration: the purge_sizes check with two clusters and two
\* sizes (about 100s); the attributes run checks StatisticsSize with one of each.
CONSTANTS
    Paths <- AccountPaths
    ParentPath <- AccountParent
    RootPath = ""
    Clusters = {0, 1}
    Sizes = {1, 2}
    MaxNodeId = 4
    MaxSerial = 2
    MaxTime = 1
    PurgeNodeAt <- Objects
    PurgeChildrenOf <- Containers
    NONE = NONE
SPECIFICATION Spec
INVARIANT TypeOK
INVARIANT StatisticsSize
CONSTRAINT PopulationBounded
