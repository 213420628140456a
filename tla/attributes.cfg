\* Attribute and policy rows, and the size rollups, through version and node
\* reuse and purges as the object store issues them (objects purged one by
\* one, containers purged of their objects) on the account layout.
CONSTANTS
    Paths <- AccountPaths
    ParentPath <- AccountParent
    RootPath = ""
    Clusters = {0}
    Sizes = {1}
    MaxNodeId = 4
    MaxSerial = 2
    MaxTime = 1
    PurgeNodeAt <- Objects
    PurgeChildrenOf <- Containers
    NONE = NONE
    Keys = {"color"}
    PolicyKeys = {"quota"}
    Values = {1}
    EMPTYVALUE = 0
    FilterArgs = {}
SPECIFICATION ASpec
CONSTRAINT PopulationBounded
INVARIANT StatisticsSize
PROPERTY FreshRowsStartEmpty
