CONSTANTS
    MaxChar <- MC_MaxChar
    Universe <- Max_Universe
    PrefixArgs <- Max_Prefixes
    StartArgs <- MC_Starts
    DelimiterArgs <- MC_Delimiters
    LimitArgs <- MC_Limits
SPECIFICATION Spec
INVARIANTS
    ListingSound
