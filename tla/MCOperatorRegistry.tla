------------------------- MODULE MCOperatorRegistry -------------------------
(* One Operator document, two hosts that compete for it and two handlers. *)
EXTENDS OperatorRegistry
=============================================================================
