----------------------------- MODULE MCApprovals -----------------------------
(* One suspended transaction and two concurrent requests about it. *)
EXTENDS Approvals
=============================================================================
