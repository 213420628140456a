\* node_purge_children on the root: the root is its own parent, so the
\* clean-up of version-less children deletes the root row itself.
CONSTANTS
    Paths <- AccountPaths
    ParentPath <- AccountParent
    RootPath = ""
    Clusters = {0}
    Sizes = {1}
    MaxNodeId = 5
    MaxSerial = 2
    MaxTime = 1
    PurgeNodeAt = {}
    PurgeChildrenOf = {""}
    NONE = NONE
SPECIFICATION Spec
INVARIANT RootNodePresent
