SPECIFICATION FairSpec
CONSTANTS
    Operators = {o1}
    Hosts = {h1, h2}
    Nobody = nobody
    Calls = {c1, c2}
    Sweeper = sweeper
    StaleAfter = 0
    MaxTime = 1
PROPERTIES TerminationFinal ClaimFinal SilentIsNoticed HeartbeatRecovers
CHECK_DEADLOCK FALSE
