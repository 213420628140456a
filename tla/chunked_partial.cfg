\* A send that raises after writing part of the chunk is resent whole.
CONSTANTS
    MaxBlocks = 2
    PartialSends = TRUE
    Statuses <- MC_Statuses
    Bodies <- MC_Bodies
SPECIFICATION Spec
INVARIANT StreamIntact
CHECK_DEADLOCK FALSE
