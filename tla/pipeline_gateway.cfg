CONSTANTS
    Envelope <- GatewayEnvelopes
    Delivery = {d1, d2, d3}
    Runtime = "gateway"
    MaxNow = 2
    MaxRoot = 1
SPECIFICATION Spec
SYMMETRY DeliverySymmetry
INVARIANT AtMostOnceBeforeExpiry
CHECK_DEADLOCK FALSE
