\* The server answers a successful upload with a body of one newline.
CONSTANTS
    MaxBlocks = 1
    PartialSends = FALSE
    Statuses <- MC_Statuses
    Bodies <- MC_Bodies
SPECIFICATION Spec
INVARIANT ReturnedBody
CHECK_DEADLOCK FALSE
