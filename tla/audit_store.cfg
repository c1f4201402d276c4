CONSTANTS
    Writer = {w1, w2}
    w1 = w1
    w2 = w2
    Session = {s1}
    Tx = {t1}
    Kind <- MCKind
    Request = {0, 2}
    Genesis <- MCGenesis
    Hash <- MCHash
    Retention = 1
    MaxNow = 2
    MaxSeq = 4
SPECIFICATION Spec
INVARIANTS
    AlwaysVerifiable
    PruningAccounted
    ReceiptBacked
    ReferencesHold
    AlarmOnlyOnRace
PROPERTIES
    AppendOnly
CHECK_DEADLOCK FALSE
