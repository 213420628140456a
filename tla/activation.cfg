\* Concurrent activate, send_activation, update_token and logout requests.
CONSTANTS
    b1 = b1
    b2 = b2
    b3 = b3
    tk1 = tk1
    tk2 = tk2
    tk3 = tk3
    Browsers <- MC_Browsers
    Tokens <- MC_Tokens
    NONE = NONE
SPECIFICATION Spec
INVARIANT TypeOK
INVARIANT VerifiedOnce
INVARIANT MailOnlyUnverified
