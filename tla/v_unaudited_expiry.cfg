SPECIFICATION Spec
CONSTANTS
    Txs = {t1, t2}
    Calls = {c1}
    TTL = 1
    EnvelopeTTL = 2
    MaxTime = 3
    MaxRestarts = 1
PROPERTY AuditedBeforeDeletion
CHECK_DEADLOCK FALSE
