CONSTANTS
    MaxChar <- MC_MaxChar
    Universe <- MC_Universe
    PrefixArgs <- MC_Prefixes
    StartArgs <- MC_Starts
    DelimiterArgs <- MC_Delimiters
    LimitArgs <- MC_Limits
SPECIFICATION Spec
INVARIANTS
    TypeOK
    ListingSound
