CONSTANTS
    Caller = {c1, c2, c3}
    Key = {k1, k2}
    Cap = 2
SPECIFICATION FairSpec
INVARIANTS
    TypeOK
    ExactlyOnce
    AckTruthful
PROPERTIES
    ImplementsRecordOnce
    PublishedIsRecorded
CHECK_DEADLOCK FALSE
