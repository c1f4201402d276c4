---- MODULE MCL2Consensus ----
(* The vote lists: a member that votes no, twice, both ways, or after a forgery in its *)
(* name, with the other member before or after it; and the policies that an            *)
(* administrator may submit, the last of which AddConsensus must refuse.               *)
EXTENDS L2Consensus

CONSTANTS k1, k2

MCTribunal == <<k1, k2>>

Vote(k, decision) == [signer |-> k, decision |-> decision, genuine |-> TRUE]

Forged == [Vote(k1, TRUE) EXCEPT !.genuine = FALSE]

Yes1 == Vote(k1, TRUE)
No1  == Vote(k1, FALSE)
Yes2 == Vote(k2, TRUE)

MCEnvelopes == {<<>>, <<Forged, Yes2>>, <<Yes1, No1>>, <<Forged, Yes1, Yes2>>,
                <<Yes1, Yes1, Yes2>>, <<No1, Yes2, Yes1>>, <<Yes2, Yes1, Forged>>}

Policy(members, quorum, distinct, enabled) ==
    [members |-> members, quorum |-> quorum, distinct |-> distinct, enabled |-> enabled]

MCProposals == {Policy({k1, k2}, 2, TRUE, TRUE), Policy({k1, k2}, 1, FALSE, TRUE),
                Policy({k1}, 1, TRUE, FALSE), Policy({k1}, 0, FALSE, TRUE)}
====
