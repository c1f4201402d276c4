------------------------ MODULE MCGovernancePipeline ------------------------
EXTENDS GovernancePipeline, TLC

BaseEnvelope ==
    [id |-> "base", expiresAt |-> 1, root |-> 0, posture |-> "notary",
     wellFormed |-> TRUE, prefetched |-> FALSE, incomplete |-> FALSE,
     mutation |-> TRUE, bootstrap |-> FALSE, votes |-> TRUE, proof |-> TRUE]

\* A governed mutation that needs both proofs, a malformed envelope, an
\* empty-payload heartbeat and a query built in process by the Gateway.
Mutation  == [BaseEnvelope EXCEPT !.id = "mutation"]
Malformed == [BaseEnvelope EXCEPT !.id = "malformed", !.wellFormed = FALSE]
Heartbeat == [BaseEnvelope EXCEPT !.id = "heartbeat", !.posture = "doctrine",
                 !.incomplete = TRUE, !.mutation = FALSE]
Prefetched == [BaseEnvelope EXCEPT !.id = "prefetched", !.posture = "doctrine",
                 !.prefetched = TRUE, !.mutation = FALSE]

OneEnvelope        == {Mutation}
OperatorEnvelopes  == {Mutation, Malformed, Heartbeat}
GatewayEnvelopes   == {Mutation, Prefetched}

DeliverySymmetry == Permutations(Delivery)
=============================================================================
