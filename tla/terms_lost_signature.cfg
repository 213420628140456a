\* Two tabs of one user: a GET of one tab and a signature posted from the other.
CONSTANTS
    Tabs <- TermsTabs
    t1 = t1
    t2 = t2
    MaxTerms = 2
    MaxTime = 2
    NONE = NONE
SPECIFICATION Spec
PROPERTY SignatureKept
