---------------------------- MODULE MCEnrollment ----------------------------
(* One request of either kind, two concurrent handlers, leases that run out *)
(* and a second issuance of the same request.                               *)
EXTENDS Enrollment
=============================================================================
