SPECIFICATION Spec
CONSTANTS
    Operators = {o1}
    Hosts = {h1}
    Nobody = nobody
    Calls = {c1, c2}
    Sweeper = sweeper
    StaleAfter = 0
    MaxTime = 1
PROPERTY NeverRevived
CHECK_DEADLOCK FALSE
