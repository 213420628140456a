\* node_purge on a container left without versions deletes it and,
\* by cascade, its objects, without taking their sizes off the account.
CONSTANTS
    Paths <- AccountPaths
    ParentPath <- AccountParent
    RootPath = ""
    Clusters = {0, 1}
    Sizes = {1, 2}
    MaxNodeId = 5
    MaxSerial = 3
    MaxTime = 1
    PurgeNodeAt <- AccountPaths
    PurgeChildrenOf <- Containers
    NONE = NONE
SPECIFICATION Spec
INVARIANT StatisticsSize
