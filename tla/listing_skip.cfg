CONSTANTS
    MaxChar <- Skip_MaxChar
    Universe <- Skip_Universe
    PrefixArgs <- Skip_Prefixes
    StartArgs <- MC_Starts
    DelimiterArgs <- MC_Delimiters
    LimitArgs <- MC_Limits
SPECIFICATION Spec
INVARIANTS
    ListingComplete
