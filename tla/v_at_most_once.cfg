CONSTANTS
    Envelope <- OneEnvelope
    Delivery = {d1, d2}
    Runtime = "operator"
    MaxNow = 2
    MaxRoot = 1
SPECIFICATION Spec
INVARIANT AtMostOnce
CHECK_DEADLOCK FALSE
