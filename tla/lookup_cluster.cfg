\* version_lookup takes the newest version of the node in any cluster and
\* answers NONE when that one is in another cluster.
CONSTANTS
    Paths <- DeepPaths
    ParentPath <- DeepParent
    RootPath = ""
    Clusters = {0, 1}
    Sizes = {1}
    MaxNodeId = 3
    MaxSerial = 2
    MaxTime = 1
    PurgeNodeAt = {}
    PurgeChildrenOf = {}
    NONE = NONE
SPECIFICATION Spec
INVARIANT LookupIsLatestInCluster
