CONSTANTS
    Envelope <- OperatorEnvelopes
    Delivery = {d1, d2}
    Runtime = "operator"
    MaxNow = 2
    MaxRoot = 1
SPECIFICATION FairSpec
INVARIANTS
    TypeOK
    AtMostOnceBeforeExpiry
    IntentBeforeExecution
    EvidenceTruthful
    InFlightOwned
    NoDanglingReservation
PROPERTIES
    EveryDeliveryAccounted
    ImplementsBoundary
CHECK_DEADLOCK FALSE
