\* The spec's scenario "color==red,!archived" against _construct_filters.
CONSTANTS
    Paths <- ChainPaths
    ParentPath <- ChainParent
    RootPath = ""
    Clusters = {0}
    Sizes = {1}
    MaxNodeId = 2
    MaxSerial = 1
    MaxTime = 0
    PurgeNodeAt = {}
    PurgeChildrenOf = {}
    NONE = NONE
    Keys = {"color", "archived"}
    PolicyKeys = {}
    Values = {1}
    EMPTYVALUE = 0
    FilterArgs <- SpecScenario
SPECIFICATION ASpec
INVARIANT FilterAsSpecified
