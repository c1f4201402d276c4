---------------------------- MODULE MCAuditIngest ----------------------------
(* Three calls that share two idempotency keys, and a buffer that overflows. *)
EXTENDS AuditIngest
=============================================================================
