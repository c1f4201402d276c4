------------------------------- MODULE Posture -------------------------------
(***************************************************************************)
(* Governance postures and the two posture-gated checks of the L4 Warden.  *)
(*                                                                         *)
(* A posture says which proofs gate execution.  A check first finds out    *)
(* whether its evidence verifies (`valid') and then whether a missing or   *)
(* bad proof rejects the envelope: L2 spares bootstrap actions, L3 spares  *)
(* actions that are not mutations.                                         *)
(*                                                                         *)
(* An envelope e is a record; this module reads the fields                 *)
(*   posture, mutation, bootstrap, votes (L2 votes are attached) and       *)
(*   proof (an L3 proof is attached).                                      *)
(***************************************************************************)

Postures == {"doctrine", "consensus", "ratify", "notary"}

RequiresL2Signature(p) == p \in {"consensus", "notary"}

RequiresL3Proof(p) == p \in {"ratify", "notary"}

(* What verifyL2Posture and verifyL3Posture return as their first result. *)
L2Valid(e, quorumMet) == e.votes /\ quorumMet

L3Valid(e, proofVerifies) == e.proof /\ proofVerifies

(* When the second result, the error, is not nil. *)
L2Rejects(e, valid) == ~valid /\ RequiresL2Signature(e.posture) /\ ~e.bootstrap

L3Rejects(e, valid) == ~valid /\ RequiresL3Proof(e.posture) /\ e.mutation
=============================================================================
