SPECIFICATION FairSpec
CONSTANTS
    Txs = {t1}
    Calls = {c1, c2}
    TTL = 2
    EnvelopeTTL = 2
    MaxTime = 4
    MaxRestarts = 1
INVARIANTS ExecutedOnce
PROPERTIES ClosedIsFinal ImplementsOneShot ApprovalsDrain
CHECK_DEADLOCK FALSE
