\* After the newest version is removed, the next version_create returns its
\* serial again.
CONSTANTS
    Paths <- DeepPaths
    ParentPath <- DeepParent
    RootPath = ""
    Clusters = {0}
    Sizes = {1}
    MaxNodeId = 3
    MaxSerial = 2
    MaxTime = 1
    PurgeNodeAt = {}
    PurgeChildrenOf = {}
    NONE = NONE
SPECIFICATION HistSpec
PROPERTY SerialNeverReused
