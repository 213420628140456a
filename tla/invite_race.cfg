\* Two overlapping requests of an inviter with one invitation left.
CONSTANTS
    r1 = r1
    r2 = r2
    Requests <- TwoRequests
    Allowance = 1
SPECIFICATION Spec
INVARIANT SentWithinAllowance
