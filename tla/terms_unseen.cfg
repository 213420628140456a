\* A signing form rendered before newer terms are added, then posted.
CONSTANTS
    Tabs <- TermsTabs
    t1 = t1
    t2 = t2
    MaxTerms = 2
    MaxTime = 2
    NONE = NONE
SPECIFICATION Spec
INVARIANT SignedTermsSeen
