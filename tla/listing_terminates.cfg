\* Delimiter listings under concurrent writers always end.
CONSTANTS
    MaxChar <- MC_MaxChar
    Universe <- Term_Universe
    PrefixArgs <- Skip_Prefixes
    StartArgs <- MC_Starts
    DelimiterArgs <- Term_Delimiters
    LimitArgs <- MC_Limits
SPECIFICATION FairSpec
PROPERTY ListingTerminates
