\* Purging a container's objects also takes their count off the
\* account's population, which counts the container's own versions.
CONSTANTS
    Paths <- AccountPaths
    ParentPath <- AccountParent
    RootPath = ""
    Clusters = {0, 1}
    Sizes = {1, 2}
    MaxNodeId = 5
    MaxSerial = 3
    MaxTime = 1
    PurgeNodeAt <- Objects
    PurgeChildrenOf <- Containers
    NONE = NONE
SPECIFICATION Spec
INVARIANT StatisticsPopulation
