\* Two requests, three access tokens, one sign-out and one page load
SPECIFICATION FairSpec
CONSTANTS
    Accounts = {A, B}
    NoAccount = NoAccount
    Requests = {r1, r2}
    MaxTokens = 3
    MaxFaults = 1
    MaxLogouts = 1
    MaxReloads = 1
CHECK_DEADLOCK FALSE
INVARIANTS TypeOK OneIdentity DeniedForCause
PROPERTY RequestsSettle
