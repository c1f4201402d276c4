----------------------------- MODULE MCAuditStore -----------------------------
EXTENDS AuditStore, TLC

CONSTANTS w1, w2

\* A hash without collisions: the term itself.
MCHash(seq, prev, body) == <<seq, prev, body>>

MCGenesis == <<>>

\* The Actuator's goroutine and the file service's.
MCKind == (w1 :> {"receipt"}) @@ (w2 :> {"fileEdit"})
=============================================================================
