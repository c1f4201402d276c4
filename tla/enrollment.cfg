SPECIFICATION FairSpec
CONSTANTS
    Requests = {r1}
    Calls = {c1, c2}
    Beats = {b1}
    RequestTTL = 1
    LeaseTTL = 1
    MaxIssues = 2
    MaxTime = 2
    MaxRestarts = 1
INVARIANTS OneAnswer RevokedIsDead NeverZero
PROPERTIES OutcomeFinal ImplementsCredentialGrant IssuingEnds
CHECK_DEADLOCK FALSE
