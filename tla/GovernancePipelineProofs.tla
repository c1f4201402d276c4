----------------------- MODULE GovernancePipelineProofs -----------------------
(***************************************************************************)
(* Proofs about one runtime of the governance pipeline, for any set of     *)
(* envelopes, any number of deliveries and both kinds of runtime.          *)
(***************************************************************************)
EXTENDS GovernancePipeline, TLAPS

(***************************************************************************)
(* The inductive invariant.                                                *)
(***************************************************************************)

(* A delivery that may still execute, or has executed. *)
Holds(d) == Reserved(d) \/ d \in executed

(* A holder's nonce has a row until the envelope expires ... *)
HolderHasRow ==
    \A d \in Delivery : Holds(d) => envOf[d] \in nonces \/ Expired(envOf[d])

(* ... and so there is one holder until then. *)
OneHolder ==
    \A d1, d2 \in Delivery :
        Holds(d1) /\ Holds(d2) /\ d1 # d2 /\ envOf[d1] = envOf[d2]
            => Expired(envOf[d1])

(* What the position of a goroutine says about the evidence it has left.    *)
BeforeExecution == {"idle", "track", "expiry", "reserve", "insert", "stateless",
                    "stateful", "posture", "release", "admitted", "intent",
                    "commit", "prepare", "execute"}

BeforeCommitment == BeforeExecution \ {"prepare", "execute"}

Position(d) ==
    /\ pc[d] \in BeforeExecution => d \notin executed /\ outcome[d] = "none"
    /\ pc[d] \in BeforeCommitment => d \notin commitments
    /\ pc[d] \in {"commit", "prepare", "execute"} => Fact(d, "EXECUTING", FALSE) \in chain
    /\ pc[d] \in {"prepare", "execute"} => d \in commitments
    /\ pc[d] \in {"finalize", "attest"} => outcome[d] # "none"
    /\ pc[d] = "attest" => Fact(d, outcome[d], FALSE) \in chain
    /\ pc[d] \in BeforeExecution \cup {"finalize", "attest"} => d \notin published

PositionInv == \A d \in Delivery : Position(d)

OutcomeInv ==
    \A d \in Delivery :
        /\ outcome[d] \in {"COMPLETED", "FAILED"} => d \in executed
        /\ outcome[d] = "REJECTED" => d \notin executed \cup commitments

(* The whole invariant. *)
IInv ==
    /\ TypeOK
    /\ InFlightOwned
    /\ HolderHasRow
    /\ OneHolder
    /\ PositionInv
    /\ OutcomeInv
    /\ IntentBeforeExecution
    /\ EvidenceTruthful

(***************************************************************************)
(* What a write of a receipt does, whatever its caller.                    *)
(***************************************************************************)

(* LogReceipt keeps the types of the audit chain and of the projection.     *)
LEMMA LogReceiptType ==
    ASSUME TypeOK, NEW d \in Delivery, pc[d] # "idle", NEW status \in Statuses,
           NEW attested \in BOOLEAN, NEW ok, LogReceipt(d, status, attested, ok)
    PROVE  chain' \subseteq Facts /\ projection' \in [Envelope -> Receipts \cup {NoReceipt}]
<1>1. [delivery |-> d, status |-> status, attested |-> attested] \in Facts
    BY DEF Facts
<1>2. [status |-> status, attested |-> attested] \in Receipts
    BY DEF Receipts
<1>3. envOf[d] \in Envelope
    BY DEF TypeOK
<1> QED
    BY <1>1, <1>2, <1>3 DEF LogReceipt, TypeOK

(* Every action keeps the types; a final receipt has a status because its     *)
(* outcome is set before "finalize" is reached.                              *)
LEMMA TypeStep == IInv /\ [Next]_vars => TypeOK'
<1> SUFFICES ASSUME IInv, [Next]_vars PROVE TypeOK'
    OBVIOUS
<1> USE DEF IInv, TypeOK, At, Goto, warden, evidence, clocks, PCs, Running, Terminal
<1>1. ASSUME NEW d \in Delivery, TrackInFlight(d) PROVE TypeOK'
    BY <1>1 DEF TrackInFlight, RejectWithReceipt
<1>2. ASSUME NEW d \in Delivery, CheckExpiry(d) PROVE TypeOK'
    BY <1>2 DEF CheckExpiry, RejectWithReceipt, ReleaseInFlight
<1>3. ASSUME NEW d \in Delivery, ReserveFails(d) PROVE TypeOK'
    BY <1>3 DEF ReserveFails, RejectWithReceipt, ReleaseInFlight
<1>4. ASSUME NEW d \in Delivery, CleanupExpiredNonces(d) PROVE TypeOK'
    BY <1>4 DEF CleanupExpiredNonces, LiveNonces
<1>5. ASSUME NEW d \in Delivery, SelectNonce(d) PROVE TypeOK'
    BY <1>5 DEF SelectNonce, RejectWithReceipt, ReleaseInFlight
<1>6. ASSUME NEW d \in Delivery, InsertNonce(d) PROVE TypeOK'
    BY <1>6 DEF InsertNonce, RejectWithReceipt, ReleaseInFlight
<1>7. ASSUME NEW d \in Delivery, VerifyStateless(d) PROVE TypeOK'
    BY <1>7 DEF VerifyStateless
<1>8. ASSUME NEW d \in Delivery, VerifyStateful(d) PROVE TypeOK'
    BY <1>8 DEF VerifyStateful
<1>9. ASSUME NEW d \in Delivery, VerifyPosture(d) PROVE TypeOK'
    BY <1>9 DEF VerifyPosture
<1>10. ASSUME NEW d \in Delivery, ReleaseNonce(d) PROVE TypeOK'
    BY <1>10 DEF ReleaseNonce, RejectWithReceipt
<1>11. ASSUME NEW d \in Delivery, BuildCommand(d) PROVE TypeOK'
    BY <1>11 DEF BuildCommand
<1>12. ASSUME NEW d \in Delivery, PersistIntent(d) PROVE TypeOK'
  <2>1. PICK ok \in BOOLEAN : LogReceipt(d, "EXECUTING", FALSE, ok)
    BY <1>12 DEF PersistIntent
  <2>2. "EXECUTING" \in Statuses /\ pc[d] # "idle"
    BY <1>12 DEF PersistIntent, PositionInv, Position, Statuses
  <2>3. chain' \subseteq Facts /\ projection' \in [Envelope -> Receipts \cup {NoReceipt}]
    BY <2>1, <2>2, LogReceiptType
  <2> QED
    BY <1>12, <2>3 DEF PersistIntent
<1>13. ASSUME NEW d \in Delivery, PersistCommitment(d) PROVE TypeOK'
    BY <1>13 DEF PersistCommitment
<1>14. ASSUME NEW d \in Delivery, PrepareExecution(d) PROVE TypeOK'
    BY <1>14 DEF PrepareExecution
<1>15. ASSUME NEW d \in Delivery, InvokeHandler(d) PROVE TypeOK'
    BY <1>15 DEF InvokeHandler
<1>16. ASSUME NEW d \in Delivery, LogFinalReceipt(d) PROVE TypeOK'
  <2>1. PICK ok \in BOOLEAN : LogReceipt(d, outcome[d], FALSE, ok)
    BY <1>16 DEF LogFinalReceipt
  <2>2. outcome[d] \in Statuses /\ pc[d] # "idle"
    BY <1>16 DEF LogFinalReceipt, PositionInv, Position, Statuses
  <2>3. chain' \subseteq Facts /\ projection' \in [Envelope -> Receipts \cup {NoReceipt}]
    BY <2>1, <2>2, LogReceiptType
  <2> QED
    BY <1>16, <2>3 DEF LogFinalReceipt
<1>17. ASSUME NEW d \in Delivery, AttestFinalReceipt(d) PROVE TypeOK'
  <2>1. PICK ok \in BOOLEAN : LogReceipt(d, outcome[d], TRUE, ok)
    BY <1>17 DEF AttestFinalReceipt
  <2>2. outcome[d] \in Statuses /\ pc[d] # "idle"
    BY <1>17 DEF AttestFinalReceipt, PositionInv, Position, Statuses
  <2>3. chain' \subseteq Facts /\ projection' \in [Envelope -> Receipts \cup {NoReceipt}]
    BY <2>1, <2>2, LogReceiptType
  <2> QED
    BY <1>17, <2>3 DEF AttestFinalReceipt
<1>18. CASE \E d \in Delivery, e \in Envelope : Receive(d, e)
    BY <1>18 DEF Receive
<1>19. CASE Tick
    BY <1>19 DEF Tick
<1>20. CASE AdvanceRoot
    BY <1>20 DEF AdvanceRoot
<1>21. CASE RunMaintenance
    BY <1>21 DEF RunMaintenance, LiveNonces
<1>22. CASE Restart
    BY <1>22 DEF Restart
<1>23. CASE UNCHANGED vars
    BY <1>23 DEF vars
<1> QED
    BY <1>1, <1>2, <1>3, <1>4, <1>5, <1>6, <1>7, <1>8, <1>9, <1>10, <1>11, <1>12, <1>13, <1>14, <1>15, <1>16, <1>17, <1>18, <1>19, <1>20, <1>21, <1>22, <1>23 DEF Next, Step, Verify, Execute

(* Only the goroutine that stored an entry of the in-flight map deletes it.   *)
LEMMA InFlightStep == IInv /\ [Next]_vars => InFlightOwned'
<1> SUFFICES ASSUME IInv, [Next]_vars PROVE InFlightOwned'
    OBVIOUS
<1> USE DEF IInv, TypeOK, At, Goto, warden, evidence, clocks, InFlightOwned, Tracking
<1>1. ASSUME NEW d \in Delivery, TrackInFlight(d) PROVE InFlightOwned'
    BY <1>1 DEF TrackInFlight, RejectWithReceipt
<1>2. ASSUME NEW d \in Delivery, CheckExpiry(d) PROVE InFlightOwned'
    BY <1>2 DEF CheckExpiry, RejectWithReceipt, ReleaseInFlight
<1>3. ASSUME NEW d \in Delivery, ReserveFails(d) PROVE InFlightOwned'
    BY <1>3 DEF ReserveFails, RejectWithReceipt, ReleaseInFlight
<1>4. ASSUME NEW d \in Delivery, CleanupExpiredNonces(d) PROVE InFlightOwned'
    BY <1>4 DEF CleanupExpiredNonces, LiveNonces
<1>5. ASSUME NEW d \in Delivery, SelectNonce(d) PROVE InFlightOwned'
    BY <1>5 DEF SelectNonce, RejectWithReceipt, ReleaseInFlight
<1>6. ASSUME NEW d \in Delivery, InsertNonce(d) PROVE InFlightOwned'
    BY <1>6 DEF InsertNonce, RejectWithReceipt, ReleaseInFlight
<1>7. ASSUME NEW d \in Delivery, VerifyStateless(d) PROVE InFlightOwned'
    BY <1>7 DEF VerifyStateless
<1>8. ASSUME NEW d \in Delivery, VerifyStateful(d) PROVE InFlightOwned'
    BY <1>8 DEF VerifyStateful
<1>9. ASSUME NEW d \in Delivery, VerifyPosture(d) PROVE InFlightOwned'
    BY <1>9 DEF VerifyPosture
<1>10. ASSUME NEW d \in Delivery, ReleaseNonce(d) PROVE InFlightOwned'
    BY <1>10 DEF ReleaseNonce, RejectWithReceipt
<1>11. ASSUME NEW d \in Delivery, BuildCommand(d) PROVE InFlightOwned'
    BY <1>11 DEF BuildCommand
<1>12. ASSUME NEW d \in Delivery, PersistIntent(d) PROVE InFlightOwned'
    BY <1>12 DEF PersistIntent
<1>13. ASSUME NEW d \in Delivery, PersistCommitment(d) PROVE InFlightOwned'
    BY <1>13 DEF PersistCommitment
<1>14. ASSUME NEW d \in Delivery, PrepareExecution(d) PROVE InFlightOwned'
    BY <1>14 DEF PrepareExecution
<1>15. ASSUME NEW d \in Delivery, InvokeHandler(d) PROVE InFlightOwned'
    BY <1>15 DEF InvokeHandler
<1>16. ASSUME NEW d \in Delivery, LogFinalReceipt(d) PROVE InFlightOwned'
    BY <1>16 DEF LogFinalReceipt
<1>17. ASSUME NEW d \in Delivery, AttestFinalReceipt(d) PROVE InFlightOwned'
  <2>1. PICK l \in {"done", "aborted"} : pc' = [pc EXCEPT ![d] = l]
    BY <1>17 DEF AttestFinalReceipt
  <2> QED
    BY <1>17, <2>1 DEF AttestFinalReceipt
<1>18. CASE \E d \in Delivery, e \in Envelope : Receive(d, e)
    BY <1>18 DEF Receive
<1>19. CASE Tick
    BY <1>19 DEF Tick
<1>20. CASE AdvanceRoot
    BY <1>20 DEF AdvanceRoot
<1>21. CASE RunMaintenance
    BY <1>21 DEF RunMaintenance, LiveNonces
<1>22. CASE Restart
    BY <1>22 DEF Restart, Running
<1>23. CASE UNCHANGED vars
    BY <1>23 DEF vars
<1> QED
    BY <1>1, <1>2, <1>3, <1>4, <1>5, <1>6, <1>7, <1>8, <1>9, <1>10, <1>11, <1>12, <1>13, <1>14, <1>15, <1>16, <1>17, <1>18, <1>19, <1>20, <1>21, <1>22, <1>23 DEF Next, Step, Verify, Execute

(* The row of a reservation outlives its holder: it is deleted only when the *)
(* envelope has expired or by the holder that gives it back, so a second     *)
(* holder can enter only after the expiry.                                   *)
LEMMA ReplayStep == IInv /\ [Next]_vars => HolderHasRow' /\ OneHolder'
<1> SUFFICES ASSUME IInv, [Next]_vars PROVE HolderHasRow' /\ OneHolder'
    OBVIOUS
<1> USE DEF IInv, TypeOK, At, Goto, warden, evidence, clocks, HolderHasRow, OneHolder, Holds, Reserved, Expired, PositionInv, Position, BeforeExecution
<1>1. ASSUME NEW d \in Delivery, TrackInFlight(d) PROVE HolderHasRow' /\ OneHolder'
    BY <1>1 DEF TrackInFlight, RejectWithReceipt
<1>2. ASSUME NEW d \in Delivery, CheckExpiry(d) PROVE HolderHasRow' /\ OneHolder'
    BY <1>2 DEF CheckExpiry, RejectWithReceipt, ReleaseInFlight
<1>3. ASSUME NEW d \in Delivery, ReserveFails(d) PROVE HolderHasRow' /\ OneHolder'
    BY <1>3 DEF ReserveFails, RejectWithReceipt, ReleaseInFlight
<1>4. ASSUME NEW d \in Delivery, CleanupExpiredNonces(d) PROVE HolderHasRow' /\ OneHolder'
    BY <1>4 DEF CleanupExpiredNonces, LiveNonces
<1>5. ASSUME NEW d \in Delivery, SelectNonce(d) PROVE HolderHasRow' /\ OneHolder'
    BY <1>5 DEF SelectNonce, RejectWithReceipt, ReleaseInFlight
<1>6. ASSUME NEW d \in Delivery, InsertNonce(d) PROVE HolderHasRow' /\ OneHolder'
    BY <1>6 DEF InsertNonce, RejectWithReceipt, ReleaseInFlight
<1>7. ASSUME NEW d \in Delivery, VerifyStateless(d) PROVE HolderHasRow' /\ OneHolder'
    BY <1>7 DEF VerifyStateless
<1>8. ASSUME NEW d \in Delivery, VerifyStateful(d) PROVE HolderHasRow' /\ OneHolder'
    BY <1>8 DEF VerifyStateful
<1>9. ASSUME NEW d \in Delivery, VerifyPosture(d) PROVE HolderHasRow' /\ OneHolder'
    BY <1>9 DEF VerifyPosture
<1>10. ASSUME NEW d \in Delivery, ReleaseNonce(d) PROVE HolderHasRow' /\ OneHolder'
    BY <1>10 DEF ReleaseNonce, RejectWithReceipt
<1>11. ASSUME NEW d \in Delivery, BuildCommand(d) PROVE HolderHasRow' /\ OneHolder'
    BY <1>11 DEF BuildCommand
<1>12. ASSUME NEW d \in Delivery, PersistIntent(d) PROVE HolderHasRow' /\ OneHolder'
    BY <1>12 DEF PersistIntent
<1>13. ASSUME NEW d \in Delivery, PersistCommitment(d) PROVE HolderHasRow' /\ OneHolder'
    BY <1>13 DEF PersistCommitment
<1>14. ASSUME NEW d \in Delivery, PrepareExecution(d) PROVE HolderHasRow' /\ OneHolder'
    BY <1>14 DEF PrepareExecution
<1>15. ASSUME NEW d \in Delivery, InvokeHandler(d) PROVE HolderHasRow' /\ OneHolder'
    BY <1>15 DEF InvokeHandler
<1>16. ASSUME NEW d \in Delivery, LogFinalReceipt(d) PROVE HolderHasRow' /\ OneHolder'
    BY <1>16 DEF LogFinalReceipt
<1>17. ASSUME NEW d \in Delivery, AttestFinalReceipt(d) PROVE HolderHasRow' /\ OneHolder'
  <2>1. PICK l \in {"done", "aborted"} : pc' = [pc EXCEPT ![d] = l]
    BY <1>17 DEF AttestFinalReceipt
  <2> QED
    BY <1>17, <2>1 DEF AttestFinalReceipt
<1>18. CASE \E d \in Delivery, e \in Envelope : Receive(d, e)
  <2>1. PICK d \in Delivery, e \in Envelope : Receive(d, e)
    BY <1>18
  <2>2. d \notin executed /\ \A c \in Delivery : Holds(c)' => c # d /\ Holds(c)
    BY <2>1 DEF Receive
  <2> QED
    BY <2>1, <2>2 DEF Receive
<1>19. CASE Tick
  <2>1. \A d \in Delivery : Holds(d) => envOf[d] \in Envelope
    OBVIOUS
  <2>2. \A e \in Envelope : now > e.expiresAt => now' > e.expiresAt
    BY <1>19, EnvelopeAssumption DEF Tick
  <2> QED
    BY <1>19, <2>1, <2>2 DEF Tick
<1>20. CASE AdvanceRoot
    BY <1>20 DEF AdvanceRoot
<1>21. CASE RunMaintenance
    BY <1>21 DEF RunMaintenance, LiveNonces
<1>22. CASE Restart
    BY <1>22 DEF Restart
<1>23. CASE UNCHANGED vars
    BY <1>23 DEF vars
<1> QED
    BY <1>1, <1>2, <1>3, <1>4, <1>5, <1>6, <1>7, <1>8, <1>9, <1>10, <1>11, <1>12, <1>13, <1>14, <1>15, <1>16, <1>17, <1>18, <1>19, <1>20, <1>21, <1>22, <1>23 DEF Next, Step, Verify, Execute

(* Where a goroutine is says what it has left behind.                        *)
LEMMA PositionStep == IInv /\ [Next]_vars => PositionInv'
<1> SUFFICES ASSUME IInv, [Next]_vars, NEW c \in Delivery PROVE Position(c)'
    BY DEF PositionInv
<1> USE DEF IInv, TypeOK, At, Goto, warden, evidence, clocks, PositionInv, Position, BeforeExecution, BeforeCommitment, Running, Fact
<1>1. ASSUME NEW d \in Delivery, TrackInFlight(d) PROVE Position(c)'
  <2>1. CASE RejectWithReceipt(d)
    BY <1>1, <2>1 DEF TrackInFlight, RejectWithReceipt
  <2>2. CASE pc' = [pc EXCEPT ![d] = "expiry"] /\ UNCHANGED outcome
    BY <1>1, <2>2 DEF TrackInFlight
  <2> QED
    BY <1>1, <2>1, <2>2 DEF TrackInFlight
<1>2. ASSUME NEW d \in Delivery, CheckExpiry(d) PROVE Position(c)'
  <2>1. CASE RejectWithReceipt(d)
    BY <1>2, <2>1 DEF CheckExpiry, RejectWithReceipt
  <2>2. CASE pc' = [pc EXCEPT ![d] = "reserve"] /\ UNCHANGED outcome
    BY <1>2, <2>2 DEF CheckExpiry
  <2> QED
    BY <1>2, <2>1, <2>2 DEF CheckExpiry
<1>3. ASSUME NEW d \in Delivery, ReserveFails(d) PROVE Position(c)'
    BY <1>3 DEF ReserveFails, RejectWithReceipt, ReleaseInFlight
<1>4. ASSUME NEW d \in Delivery, CleanupExpiredNonces(d) PROVE Position(c)'
    BY <1>4 DEF CleanupExpiredNonces, LiveNonces
<1>5. ASSUME NEW d \in Delivery, SelectNonce(d) PROVE Position(c)'
  <2>1. CASE RejectWithReceipt(d)
    BY <1>5, <2>1 DEF SelectNonce, RejectWithReceipt
  <2>2. CASE pc' = [pc EXCEPT ![d] = "insert"] /\ UNCHANGED outcome
    BY <1>5, <2>2 DEF SelectNonce
  <2> QED
    BY <1>5, <2>1, <2>2 DEF SelectNonce
<1>6. ASSUME NEW d \in Delivery, InsertNonce(d) PROVE Position(c)'
  <2>1. CASE RejectWithReceipt(d)
    BY <1>6, <2>1 DEF InsertNonce, RejectWithReceipt
  <2>2. CASE pc' = [pc EXCEPT ![d] = "stateless"] /\ UNCHANGED outcome
    BY <1>6, <2>2 DEF InsertNonce
  <2> QED
    BY <1>6, <2>1, <2>2 DEF InsertNonce
<1>7. ASSUME NEW d \in Delivery, VerifyStateless(d) PROVE Position(c)'
    BY <1>7 DEF VerifyStateless
<1>8. ASSUME NEW d \in Delivery, VerifyStateful(d) PROVE Position(c)'
    BY <1>8 DEF VerifyStateful
<1>9. ASSUME NEW d \in Delivery, VerifyPosture(d) PROVE Position(c)'
    BY <1>9 DEF VerifyPosture
<1>10. ASSUME NEW d \in Delivery, ReleaseNonce(d) PROVE Position(c)'
    BY <1>10 DEF ReleaseNonce, RejectWithReceipt
<1>11. ASSUME NEW d \in Delivery, BuildCommand(d) PROVE Position(c)'
    BY <1>11 DEF BuildCommand
<1>12. ASSUME NEW d \in Delivery, PersistIntent(d) PROVE Position(c)'
  <2>1. PICK l \in {"commit", "aborted"} : pc' = [pc EXCEPT ![d] = l]
    BY <1>12 DEF PersistIntent
  <2>2. chain \subseteq chain' /\ chain' \subseteq chain \cup {Fact(d, "EXECUTING", FALSE)}
    BY <1>12 DEF PersistIntent, LogReceipt, Fact
  <2>3. l = "commit" => Fact(d, "EXECUTING", FALSE) \in chain'
    BY <1>12, <2>1 DEF PersistIntent, LogReceipt, Fact
  <2> QED
    BY <1>12, <2>1, <2>2, <2>3 DEF PersistIntent
<1>13. ASSUME NEW d \in Delivery, PersistCommitment(d) PROVE Position(c)'
    BY <1>13 DEF PersistCommitment
<1>14. ASSUME NEW d \in Delivery, PrepareExecution(d) PROVE Position(c)'
    BY <1>14 DEF PrepareExecution
<1>15. ASSUME NEW d \in Delivery, InvokeHandler(d) PROVE Position(c)'
    BY <1>15 DEF InvokeHandler
<1>16. ASSUME NEW d \in Delivery, LogFinalReceipt(d) PROVE Position(c)'
  <2>1. PICK l \in {"attest", "aborted"} : pc' = [pc EXCEPT ![d] = l]
    BY <1>16 DEF LogFinalReceipt
  <2>2. chain \subseteq chain' /\ chain' \subseteq chain \cup {Fact(d, outcome[d], FALSE)}
    BY <1>16 DEF LogFinalReceipt, LogReceipt, Fact
  <2>3. l = "attest" => Fact(d, outcome[d], FALSE) \in chain'
    BY <1>16, <2>1 DEF LogFinalReceipt, LogReceipt, Fact
  <2> QED
    BY <1>16, <2>1, <2>2, <2>3 DEF LogFinalReceipt
<1>17. ASSUME NEW d \in Delivery, AttestFinalReceipt(d) PROVE Position(c)'
  <2>1. PICK l \in {"done", "aborted"} : pc' = [pc EXCEPT ![d] = l]
    BY <1>17 DEF AttestFinalReceipt
  <2>2. chain \subseteq chain' /\ chain' \subseteq chain \cup {Fact(d, outcome[d], TRUE)}
    BY <1>17 DEF AttestFinalReceipt, LogReceipt, Fact
  <2>3. /\ published' \subseteq published \cup {d}
        /\ d \in published' \ published => Fact(d, outcome[d], TRUE) \in chain'
    BY <1>17 DEF AttestFinalReceipt, LogReceipt, Fact
  <2> QED
    BY <1>17, <2>1, <2>2, <2>3 DEF AttestFinalReceipt
<1>18. CASE \E d \in Delivery, e \in Envelope : Receive(d, e)
    BY <1>18 DEF Receive
<1>19. CASE Tick
    BY <1>19 DEF Tick
<1>20. CASE AdvanceRoot
    BY <1>20 DEF AdvanceRoot
<1>21. CASE RunMaintenance
    BY <1>21 DEF RunMaintenance, LiveNonces
<1>22. CASE Restart
    BY <1>22 DEF Restart
<1>23. CASE UNCHANGED vars
    BY <1>23 DEF vars
<1> QED
    BY <1>1, <1>2, <1>3, <1>4, <1>5, <1>6, <1>7, <1>8, <1>9, <1>10, <1>11, <1>12, <1>13, <1>14, <1>15, <1>16, <1>17, <1>18, <1>19, <1>20, <1>21, <1>22, <1>23 DEF Next, Step, Verify, Execute

(* An outcome is decided once, by an execution or by a rejection.             *)
LEMMA OutcomeStep == IInv /\ [Next]_vars => OutcomeInv'
<1> SUFFICES ASSUME IInv, [Next]_vars PROVE OutcomeInv'
    OBVIOUS
<1> USE DEF IInv, TypeOK, At, Goto, warden, evidence, clocks, OutcomeInv, PositionInv, Position, BeforeExecution, BeforeCommitment
<1>1. ASSUME NEW d \in Delivery, TrackInFlight(d) PROVE OutcomeInv'
    BY <1>1 DEF TrackInFlight, RejectWithReceipt
<1>2. ASSUME NEW d \in Delivery, CheckExpiry(d) PROVE OutcomeInv'
    BY <1>2 DEF CheckExpiry, RejectWithReceipt, ReleaseInFlight
<1>3. ASSUME NEW d \in Delivery, ReserveFails(d) PROVE OutcomeInv'
    BY <1>3 DEF ReserveFails, RejectWithReceipt, ReleaseInFlight
<1>4. ASSUME NEW d \in Delivery, CleanupExpiredNonces(d) PROVE OutcomeInv'
    BY <1>4 DEF CleanupExpiredNonces, LiveNonces
<1>5. ASSUME NEW d \in Delivery, SelectNonce(d) PROVE OutcomeInv'
    BY <1>5 DEF SelectNonce, RejectWithReceipt, ReleaseInFlight
<1>6. ASSUME NEW d \in Delivery, InsertNonce(d) PROVE OutcomeInv'
    BY <1>6 DEF InsertNonce, RejectWithReceipt, ReleaseInFlight
<1>7. ASSUME NEW d \in Delivery, VerifyStateless(d) PROVE OutcomeInv'
    BY <1>7 DEF VerifyStateless
<1>8. ASSUME NEW d \in Delivery, VerifyStateful(d) PROVE OutcomeInv'
    BY <1>8 DEF VerifyStateful
<1>9. ASSUME NEW d \in Delivery, VerifyPosture(d) PROVE OutcomeInv'
    BY <1>9 DEF VerifyPosture
<1>10. ASSUME NEW d \in Delivery, ReleaseNonce(d) PROVE OutcomeInv'
    BY <1>10 DEF ReleaseNonce, RejectWithReceipt
<1>11. ASSUME NEW d \in Delivery, BuildCommand(d) PROVE OutcomeInv'
    BY <1>11 DEF BuildCommand
<1>12. ASSUME NEW d \in Delivery, PersistIntent(d) PROVE OutcomeInv'
    BY <1>12 DEF PersistIntent
<1>13. ASSUME NEW d \in Delivery, PersistCommitment(d) PROVE OutcomeInv'
    BY <1>13 DEF PersistCommitment
<1>14. ASSUME NEW d \in Delivery, PrepareExecution(d) PROVE OutcomeInv'
    BY <1>14 DEF PrepareExecution
<1>15. ASSUME NEW d \in Delivery, InvokeHandler(d) PROVE OutcomeInv'
    BY <1>15 DEF InvokeHandler
<1>16. ASSUME NEW d \in Delivery, LogFinalReceipt(d) PROVE OutcomeInv'
    BY <1>16 DEF LogFinalReceipt
<1>17. ASSUME NEW d \in Delivery, AttestFinalReceipt(d) PROVE OutcomeInv'
  <2>1. PICK l \in {"done", "aborted"} : pc' = [pc EXCEPT ![d] = l]
    BY <1>17 DEF AttestFinalReceipt
  <2> QED
    BY <1>17, <2>1 DEF AttestFinalReceipt
<1>18. CASE \E d \in Delivery, e \in Envelope : Receive(d, e)
    BY <1>18 DEF Receive
<1>19. CASE Tick
    BY <1>19 DEF Tick
<1>20. CASE AdvanceRoot
    BY <1>20 DEF AdvanceRoot
<1>21. CASE RunMaintenance
    BY <1>21 DEF RunMaintenance, LiveNonces
<1>22. CASE Restart
    BY <1>22 DEF Restart
<1>23. CASE UNCHANGED vars
    BY <1>23 DEF vars
<1> QED
    BY <1>1, <1>2, <1>3, <1>4, <1>5, <1>6, <1>7, <1>8, <1>9, <1>10, <1>11, <1>12, <1>13, <1>14, <1>15, <1>16, <1>17, <1>18, <1>19, <1>20, <1>21, <1>22, <1>23 DEF Next, Step, Verify, Execute

(* Before its outcome is decided a goroutine has left nothing but its intent. *)
LEMMA QuietBeforeOutcome ==
    ASSUME IInv, NEW d \in Delivery, pc[d] \in BeforeExecution
    PROVE  \A f \in chain : f.delivery = d => f.status = "EXECUTING"
<1>1. outcome[d] = "none"
    BY DEF IInv, PositionInv, Position
<1>2. \A f \in chain : f.delivery = d /\ f.status # "EXECUTING" => f.status = "none"
    BY <1>1 DEF IInv, EvidenceTruthful
<1>3. \A f \in chain : f.status \in Statuses
    BY DEF IInv, TypeOK, Facts
<1> QED
    BY <1>2, <1>3 DEF Statuses

(* A rejection before the commitment contradicts no evidence.                *)
LEMMA RejectionKeepsEvidence ==
    ASSUME IInv, NEW d \in Delivery, pc[d] \in BeforeCommitment, RejectWithReceipt(d),
           UNCHANGED <<chain, commitments, published, executed>>
    PROVE  IntentBeforeExecution' /\ EvidenceTruthful'
<1>1. pc[d] \in BeforeExecution
    BY DEF BeforeCommitment
<1>2. \A f \in chain : f.delivery = d => f.status = "EXECUTING"
    BY <1>1, QuietBeforeOutcome
<1>3. d \notin published
    BY <1>1 DEF IInv, PositionInv, Position
<1>4. \A c \in Delivery : c # d => outcome'[c] = outcome[c]
    BY DEF RejectWithReceipt, IInv, TypeOK
<1>5. \A f \in chain : f.delivery \in Delivery
    BY DEF IInv, TypeOK, Facts
<1>6. published \subseteq Delivery
    BY DEF IInv, TypeOK
<1>7. IntentBeforeExecution'
    BY DEF IInv, IntentBeforeExecution, Fact
<1>8. EvidenceTruthful'
    BY <1>2, <1>3, <1>4, <1>5, <1>6 DEF IInv, EvidenceTruthful, Fact
<1> QED
    BY <1>7, <1>8

(* A step that writes no evidence and decides no outcome keeps it all.        *)
LEMMA FrameKeepsEvidence ==
    ASSUME IInv, UNCHANGED <<outcome, chain, commitments, published, executed>>
    PROVE  IntentBeforeExecution' /\ EvidenceTruthful'
BY DEF IInv, IntentBeforeExecution, EvidenceTruthful, Fact

(* The evidence grows and stays true.                                        *)
LEMMA EvidenceStep == IInv /\ [Next]_vars => IntentBeforeExecution' /\ EvidenceTruthful'
<1> SUFFICES ASSUME IInv, [Next]_vars PROVE IntentBeforeExecution' /\ EvidenceTruthful'
    OBVIOUS
<1>1. ASSUME NEW d \in Delivery, TrackInFlight(d) PROVE IntentBeforeExecution' /\ EvidenceTruthful'
  <2>1. CASE RejectWithReceipt(d)
    BY <1>1, <2>1, RejectionKeepsEvidence DEF TrackInFlight, At, evidence, BeforeCommitment, BeforeExecution
  <2>2. CASE UNCHANGED outcome
    BY <1>1, <2>2, FrameKeepsEvidence DEF TrackInFlight, evidence
  <2> QED
    BY <1>1, <2>1, <2>2 DEF TrackInFlight
<1>2. ASSUME NEW d \in Delivery, CheckExpiry(d) PROVE IntentBeforeExecution' /\ EvidenceTruthful'
  <2>1. CASE RejectWithReceipt(d)
    BY <1>2, <2>1, RejectionKeepsEvidence DEF CheckExpiry, At, evidence, BeforeCommitment, BeforeExecution
  <2>2. CASE UNCHANGED outcome
    BY <1>2, <2>2, FrameKeepsEvidence DEF CheckExpiry, evidence
  <2> QED
    BY <1>2, <2>1, <2>2 DEF CheckExpiry
<1>3. ASSUME NEW d \in Delivery, ReserveFails(d) PROVE IntentBeforeExecution' /\ EvidenceTruthful'
    BY <1>3, RejectionKeepsEvidence DEF ReserveFails, At, evidence, BeforeCommitment, BeforeExecution
<1>4. ASSUME NEW d \in Delivery, CleanupExpiredNonces(d) PROVE IntentBeforeExecution' /\ EvidenceTruthful'
    BY <1>4, FrameKeepsEvidence DEF CleanupExpiredNonces, evidence
<1>5. ASSUME NEW d \in Delivery, SelectNonce(d) PROVE IntentBeforeExecution' /\ EvidenceTruthful'
  <2>1. CASE RejectWithReceipt(d)
    BY <1>5, <2>1, RejectionKeepsEvidence DEF SelectNonce, At, evidence, BeforeCommitment, BeforeExecution
  <2>2. CASE UNCHANGED outcome
    BY <1>5, <2>2, FrameKeepsEvidence DEF SelectNonce, evidence
  <2> QED
    BY <1>5, <2>1, <2>2 DEF SelectNonce
<1>6. ASSUME NEW d \in Delivery, InsertNonce(d) PROVE IntentBeforeExecution' /\ EvidenceTruthful'
  <2>1. CASE RejectWithReceipt(d)
    BY <1>6, <2>1, RejectionKeepsEvidence DEF InsertNonce, At, evidence, BeforeCommitment, BeforeExecution
  <2>2. CASE UNCHANGED outcome
    BY <1>6, <2>2, FrameKeepsEvidence DEF InsertNonce, evidence
  <2> QED
    BY <1>6, <2>1, <2>2 DEF InsertNonce
<1>7. ASSUME NEW d \in Delivery, VerifyStateless(d) PROVE IntentBeforeExecution' /\ EvidenceTruthful'
    BY <1>7, FrameKeepsEvidence DEF VerifyStateless, evidence
<1>8. ASSUME NEW d \in Delivery, VerifyStateful(d) PROVE IntentBeforeExecution' /\ EvidenceTruthful'
    BY <1>8, FrameKeepsEvidence DEF VerifyStateful, evidence
<1>9. ASSUME NEW d \in Delivery, VerifyPosture(d) PROVE IntentBeforeExecution' /\ EvidenceTruthful'
    BY <1>9, FrameKeepsEvidence DEF VerifyPosture, evidence
<1>10. ASSUME NEW d \in Delivery, ReleaseNonce(d) PROVE IntentBeforeExecution' /\ EvidenceTruthful'
    BY <1>10, RejectionKeepsEvidence DEF ReleaseNonce, At, evidence, BeforeCommitment, BeforeExecution
<1>11. ASSUME NEW d \in Delivery, BuildCommand(d) PROVE IntentBeforeExecution' /\ EvidenceTruthful'
    BY <1>11, FrameKeepsEvidence DEF BuildCommand, evidence
<1>12. ASSUME NEW d \in Delivery, PersistIntent(d) PROVE IntentBeforeExecution' /\ EvidenceTruthful'
  <2> DEFINE new == Fact(d, "EXECUTING", FALSE)
  <2>1. /\ chain \subseteq chain' /\ chain' \subseteq chain \cup {new}
        /\ pc[d] = "intent"
        /\ UNCHANGED <<outcome, commitments, executed>>
    BY <1>12 DEF PersistIntent, LogReceipt, Fact, At
  <2>2. new.delivery = d /\ new.status = "EXECUTING" /\ new.attested = FALSE
    BY DEF Fact
  <2>5. IntentBeforeExecution'
    BY <2>1 DEF IInv, IntentBeforeExecution, Fact
  <2>6. EvidenceTruthful'
    <3>1. published' = published
      BY <1>12 DEF PersistIntent
    <3> HIDE DEF new
    <3> QED
      BY <2>1, <2>2, <3>1 DEF IInv, EvidenceTruthful, Fact
  <2> QED
    BY <2>5, <2>6
<1>13. ASSUME NEW d \in Delivery, PersistCommitment(d) PROVE IntentBeforeExecution' /\ EvidenceTruthful'
  <2>1. /\ pc[d] = "commit"
        /\ commitments \subseteq commitments' /\ commitments' \subseteq commitments \cup {d}
        /\ UNCHANGED <<outcome, chain, published, executed>>
    BY <1>13 DEF PersistCommitment, At
  <2>2. \A f \in chain : f.delivery = d => f.status = "EXECUTING"
    BY <2>1, QuietBeforeOutcome DEF BeforeExecution
  <2>3. IntentBeforeExecution'
    BY <2>1 DEF IInv, IntentBeforeExecution, Fact
  <2>4. EvidenceTruthful'
    BY <2>1, <2>2 DEF IInv, EvidenceTruthful, Fact
  <2> QED
    BY <2>3, <2>4
<1>14. ASSUME NEW d \in Delivery, PrepareExecution(d) PROVE IntentBeforeExecution' /\ EvidenceTruthful'
    BY <1>14, FrameKeepsEvidence DEF PrepareExecution, evidence
<1>15. ASSUME NEW d \in Delivery, InvokeHandler(d) PROVE IntentBeforeExecution' /\ EvidenceTruthful'
  <2>1. PICK status \in {"COMPLETED", "FAILED"} : outcome' = [outcome EXCEPT ![d] = status]
    BY <1>15 DEF InvokeHandler
  <2>2. /\ pc[d] = "execute"
        /\ executed' = executed \cup {d}
        /\ UNCHANGED <<chain, commitments, published>>
    BY <1>15 DEF InvokeHandler, At, evidence
  <2>3. \A f \in chain : f.delivery = d => f.status = "EXECUTING"
    BY <2>2, QuietBeforeOutcome DEF BeforeExecution
  <2>4. /\ d \notin published
        /\ Fact(d, "EXECUTING", FALSE) \in chain
        /\ d \in commitments
    BY <2>2 DEF IInv, PositionInv, Position, BeforeExecution
  <2>5. \A c \in Delivery : c # d => outcome'[c] = outcome[c]
    BY <2>1 DEF IInv, TypeOK
  <2>6. published \subseteq Delivery /\ \A f \in chain : f.delivery \in Delivery
    BY DEF IInv, TypeOK, Facts
  <2>7. IntentBeforeExecution'
    BY <2>2, <2>4 DEF IInv, IntentBeforeExecution, Fact
  <2>8. EvidenceTruthful'
    BY <2>2, <2>3, <2>4, <2>5, <2>6 DEF IInv, EvidenceTruthful, Fact
  <2> QED
    BY <2>7, <2>8
<1>16. ASSUME NEW d \in Delivery, LogFinalReceipt(d) PROVE IntentBeforeExecution' /\ EvidenceTruthful'
  <2> DEFINE new == Fact(d, outcome[d], FALSE)
  <2>1. /\ chain \subseteq chain' /\ chain' \subseteq chain \cup {new}
        /\ pc[d] = "finalize"
        /\ UNCHANGED <<outcome, commitments, executed>>
    BY <1>16 DEF LogFinalReceipt, LogReceipt, Fact, At
  <2>2. new.delivery = d /\ new.status = outcome[d] /\ new.attested = FALSE
    BY DEF Fact
  <2>3. /\ outcome[d] \in {"COMPLETED", "FAILED", "REJECTED"}
        /\ outcome[d] \in {"COMPLETED", "FAILED"} => d \in executed
        /\ outcome[d] = "REJECTED" => d \notin executed \cup commitments
    BY <2>1 DEF IInv, TypeOK, PositionInv, Position, OutcomeInv
  <2>5. IntentBeforeExecution'
    BY <2>1 DEF IInv, IntentBeforeExecution, Fact
  <2>6. EvidenceTruthful'
    <3>1. published' = published
      BY <1>16 DEF LogFinalReceipt
    <3> HIDE DEF new
    <3> QED
      BY <2>1, <2>2, <2>3, <3>1 DEF IInv, EvidenceTruthful, Fact
  <2> QED
    BY <2>5, <2>6
<1>17. ASSUME NEW d \in Delivery, AttestFinalReceipt(d) PROVE IntentBeforeExecution' /\ EvidenceTruthful'
  <2> DEFINE new == Fact(d, outcome[d], TRUE)
  <2>1. /\ chain \subseteq chain' /\ chain' \subseteq chain \cup {new}
        /\ pc[d] = "attest"
        /\ UNCHANGED <<outcome, commitments, executed>>
    BY <1>17 DEF AttestFinalReceipt, LogReceipt, Fact, At
  <2>2. new.delivery = d /\ new.status = outcome[d] /\ new.attested = TRUE
    BY DEF Fact
  <2>3. /\ outcome[d] \in {"COMPLETED", "FAILED", "REJECTED"}
        /\ outcome[d] \in {"COMPLETED", "FAILED"} => d \in executed
        /\ outcome[d] = "REJECTED" => d \notin executed \cup commitments
    BY <2>1 DEF IInv, TypeOK, PositionInv, Position, OutcomeInv
  <2>5. IntentBeforeExecution'
    BY <2>1 DEF IInv, IntentBeforeExecution, Fact
  <2>6. Fact(d, outcome[d], FALSE) \in chain
    BY <2>1 DEF IInv, PositionInv, Position
  <2>7. \A c \in published' : c \in published \/ (c = d /\ new \in chain')
    BY <1>17 DEF AttestFinalReceipt, LogReceipt, Fact
  <2>8. EvidenceTruthful'
    <3>1. \A c \in published' : Fact(c, outcome[c], TRUE) \in chain'
      BY <2>1, <2>7 DEF IInv, EvidenceTruthful
    <3> HIDE DEF new
    <3> QED
      BY <2>1, <2>2, <2>3, <2>6, <3>1 DEF IInv, EvidenceTruthful, Fact
  <2> QED
    BY <2>5, <2>8
<1>18. CASE \E d \in Delivery, e \in Envelope : Receive(d, e)
    BY <1>18, FrameKeepsEvidence DEF Receive, evidence
<1>19. CASE Tick
    BY <1>19, FrameKeepsEvidence DEF Tick, evidence
<1>20. CASE AdvanceRoot
    BY <1>20, FrameKeepsEvidence DEF AdvanceRoot, evidence
<1>21. CASE RunMaintenance
    BY <1>21, FrameKeepsEvidence DEF RunMaintenance, evidence
<1>22. CASE Restart
    BY <1>22, FrameKeepsEvidence DEF Restart, evidence
<1>23. CASE UNCHANGED vars
    BY <1>23, FrameKeepsEvidence DEF vars
<1> QED
    BY <1>1, <1>2, <1>3, <1>4, <1>5, <1>6, <1>7, <1>8, <1>9, <1>10, <1>11, <1>12, <1>13, <1>14, <1>15, <1>16, <1>17, <1>18, <1>19, <1>20, <1>21, <1>22, <1>23 DEF Next, Step, Verify, Execute

(***************************************************************************)
(* The theorems.                                                           *)
(***************************************************************************)

(* The initial state satisfies the invariant.                                *)
LEMMA InitInv == Init => IInv
<1> SUFFICES ASSUME Init PROVE IInv
    OBVIOUS
<1>1. TypeOK
    BY DEF Init, TypeOK, PCs
<1>2. InFlightOwned
    BY DEF Init, InFlightOwned, Tracking
<1>3. HolderHasRow /\ OneHolder
    BY DEF Init, HolderHasRow, OneHolder, Holds, Reserved
<1>4. PositionInv /\ OutcomeInv
    BY DEF Init, PositionInv, Position, OutcomeInv, BeforeExecution, BeforeCommitment
<1>5. IntentBeforeExecution /\ EvidenceTruthful
    BY DEF Init, IntentBeforeExecution, EvidenceTruthful
<1> QED
    BY <1>1, <1>2, <1>3, <1>4, <1>5 DEF IInv

(* The invariant is inductive: it holds in every reachable state.            *)
THEOREM Invariant == Spec => []IInv
<1>1. IInv /\ [Next]_vars => IInv'
    BY TypeStep, InFlightStep, ReplayStep, PositionStep, OutcomeStep, EvidenceStep DEF IInv
<1> QED
    BY <1>1, InitInv, PTL DEF Spec

(* Type correctness of the pipeline.                                         *)
THEOREM TypeCorrect == Spec => []TypeOK
<1>1. IInv => TypeOK
    BY DEF IInv
<1> QED
    BY <1>1, Invariant, PTL

(* The replay guard: no two deliveries of an envelope execute before it has  *)
(* expired, for any number of duplicates, restarts and store failures.       *)
THEOREM ReplayGuard == Spec => []AtMostOnceBeforeExpiry
<1>1. IInv => AtMostOnceBeforeExpiry
    BY DEF IInv, TypeOK, OneHolder, Holds, AtMostOnceBeforeExpiry
<1> QED
    BY <1>1, Invariant, PTL

(* Nothing executes before its EXECUTING receipt and its commitment are      *)
(* durable.                                                                  *)
THEOREM FailClosed == Spec => []IntentBeforeExecution
<1>1. IInv => IntentBeforeExecution
    BY DEF IInv
<1> QED
    BY <1>1, Invariant, PTL

(* The audit chain tells the truth about what executed.                      *)
THEOREM TruthfulEvidence == Spec => []EvidenceTruthful
<1>1. IInv => EvidenceTruthful
    BY DEF IInv
<1> QED
    BY <1>1, Invariant, PTL

(* Entries of the in-flight map and the goroutines that delete them pair up. *)
THEOREM InFlightPairing == Spec => []InFlightOwned
<1>1. IInv => InFlightOwned
    BY DEF IInv
<1> QED
    BY <1>1, Invariant, PTL

(***************************************************************************)
(* Reservations that nobody answers for.  Every row of the replay store    *)
(* has a delivery that answers for it, and a delivery does so until it     *)
(* gives the row back.                                                     *)
(***************************************************************************)
AnswersFor(d) ==
    \/ Reserved(d)
    \/ d \in executed \cup leaked
    \/ pc[d] \in {"aborted", "dropped", "crashed"} /\ outcome[d] # "REJECTED"

LeakedInv == \A d \in leaked : pc[d] # "idle"

LEMMA LeakedStep == IInv /\ LeakedInv /\ [Next]_vars => LeakedInv'
<1> SUFFICES ASSUME IInv, LeakedInv, [Next]_vars PROVE LeakedInv'
    OBVIOUS
<1> USE DEF LeakedInv, IInv, TypeOK, At, Goto, warden
<1>1. ASSUME NEW d \in Delivery, Verify(d) PROVE LeakedInv'
    BY <1>1 DEF Verify, TrackInFlight, CheckExpiry, ReserveFails, CleanupExpiredNonces,
       SelectNonce, InsertNonce, VerifyStateless, VerifyStateful, VerifyPosture, ReleaseNonce,
       RejectWithReceipt
<1>2. ASSUME NEW d \in Delivery, Execute(d) PROVE LeakedInv'
    BY <1>2 DEF Execute, BuildCommand, PersistIntent, PersistCommitment, PrepareExecution,
       InvokeHandler, LogFinalReceipt, AttestFinalReceipt
<1>3. CASE \E d \in Delivery, e \in Envelope : Receive(d, e)
    BY <1>3 DEF Receive
<1>4. CASE Tick \/ AdvanceRoot \/ RunMaintenance \/ UNCHANGED vars
    BY <1>4 DEF Tick, AdvanceRoot, RunMaintenance, vars
<1>5. CASE Restart
    BY <1>5 DEF Restart
<1> QED
    BY <1>1, <1>2, <1>3, <1>4, <1>5 DEF Next, Step

(* A delivery answers for its row as long as the row is there. *)
LEMMA AnswersStep ==
    ASSUME IInv, LeakedInv, [Next]_vars, NEW c \in Delivery, AnswersFor(c), envOf[c] \in nonces'
    PROVE  AnswersFor(c)' /\ envOf'[c] = envOf[c]
<1> DEFINE Goal == AnswersFor(c)' /\ envOf'[c] = envOf[c]
<1> USE DEF IInv, TypeOK, At, Goto, warden, AnswersFor, Reserved, PositionInv, Position, BeforeExecution
<1>1. ASSUME NEW d \in Delivery, TrackInFlight(d) PROVE Goal
    BY <1>1 DEF TrackInFlight, RejectWithReceipt
<1>2. ASSUME NEW d \in Delivery, CheckExpiry(d) PROVE Goal
    BY <1>2 DEF CheckExpiry, RejectWithReceipt, ReleaseInFlight
<1>3. ASSUME NEW d \in Delivery, ReserveFails(d) PROVE Goal
    BY <1>3 DEF ReserveFails, RejectWithReceipt, ReleaseInFlight
<1>4. ASSUME NEW d \in Delivery, CleanupExpiredNonces(d) PROVE Goal
    BY <1>4 DEF CleanupExpiredNonces
<1>5. ASSUME NEW d \in Delivery, SelectNonce(d) PROVE Goal
    BY <1>5 DEF SelectNonce, RejectWithReceipt, ReleaseInFlight
<1>6. ASSUME NEW d \in Delivery, InsertNonce(d) PROVE Goal
    BY <1>6 DEF InsertNonce, RejectWithReceipt
<1>7. ASSUME NEW d \in Delivery, VerifyStateless(d) PROVE Goal
    BY <1>7 DEF VerifyStateless
<1>8. ASSUME NEW d \in Delivery, VerifyStateful(d) PROVE Goal
    BY <1>8 DEF VerifyStateful
<1>9. ASSUME NEW d \in Delivery, VerifyPosture(d) PROVE Goal
    BY <1>9 DEF VerifyPosture
<1>10. ASSUME NEW d \in Delivery, ReleaseNonce(d) PROVE Goal
    BY <1>10 DEF ReleaseNonce, RejectWithReceipt
<1>11. ASSUME NEW d \in Delivery, BuildCommand(d) PROVE Goal
    BY <1>11 DEF BuildCommand
<1>12. ASSUME NEW d \in Delivery, PersistIntent(d) PROVE Goal
    BY <1>12 DEF PersistIntent
<1>13. ASSUME NEW d \in Delivery, PersistCommitment(d) PROVE Goal
    BY <1>13 DEF PersistCommitment
<1>14. ASSUME NEW d \in Delivery, PrepareExecution(d) PROVE Goal
    BY <1>14 DEF PrepareExecution
<1>15. ASSUME NEW d \in Delivery, InvokeHandler(d) PROVE Goal
    BY <1>15 DEF InvokeHandler
<1>16. ASSUME NEW d \in Delivery, LogFinalReceipt(d) PROVE Goal
    BY <1>16 DEF LogFinalReceipt
<1>17. ASSUME NEW d \in Delivery, AttestFinalReceipt(d) PROVE Goal
  <2>1. PICK l \in {"done", "aborted"} : pc' = [pc EXCEPT ![d] = l]
    BY <1>17 DEF AttestFinalReceipt
  <2> QED
    BY <1>17, <2>1 DEF AttestFinalReceipt
<1>18. CASE \E d \in Delivery, e \in Envelope : Receive(d, e)
  <2>1. PICK d \in Delivery, e \in Envelope : Receive(d, e)
    BY <1>18
  <2>2. c # d
    BY <2>1 DEF Receive, LeakedInv
  <2> QED
    BY <2>1, <2>2 DEF Receive
<1>19. CASE Tick
    BY <1>19 DEF Tick
<1>20. CASE AdvanceRoot
    BY <1>20 DEF AdvanceRoot
<1>21. CASE RunMaintenance
    BY <1>21 DEF RunMaintenance
<1>22. CASE Restart
    BY <1>22 DEF Restart
<1>23. CASE UNCHANGED vars
    BY <1>23 DEF vars
<1> QED
    BY <1>1, <1>2, <1>3, <1>4, <1>5, <1>6, <1>7, <1>8, <1>9, <1>10, <1>11, <1>12, <1>13, <1>14, <1>15, <1>16, <1>17, <1>18, <1>19, <1>20, <1>21, <1>22, <1>23 DEF Next, Step, Verify, Execute

(* A new row comes with the delivery that inserted it. *)
LEMMA NewRowStep ==
    ASSUME IInv, [Next]_vars, NEW e \in nonces', e \notin nonces
    PROVE  \E d \in Delivery : Reserved(d)' /\ envOf'[d] = e
<1>1. PICK d \in Delivery : InsertNonce(d)
    BY DEF Next, Step, Verify, Execute, TrackInFlight, CheckExpiry, ReserveFails,
       CleanupExpiredNonces, SelectNonce, VerifyStateless, VerifyStateful, VerifyPosture,
       ReleaseNonce, BuildCommand, PersistIntent, PersistCommitment, PrepareExecution,
       InvokeHandler, LogFinalReceipt, AttestFinalReceipt, Receive, Tick, AdvanceRoot,
       RunMaintenance, Restart, LiveNonces, warden, vars
<1>2. e = envOf[d] /\ envOf' = envOf /\ Goto(d, "stateless")
    BY <1>1 DEF InsertNonce
<1> QED
    BY <1>2 DEF IInv, TypeOK, Goto, Reserved

(* No reservation stays behind without a delivery that is being processed,   *)
(* was admitted, was cut off, or whose release failed.                       *)
THEOREM ReservationsReleased == Spec => []NoDanglingReservation
<1>1. Init => LeakedInv /\ NoDanglingReservation
    BY DEF Init, LeakedInv, NoDanglingReservation
<1>2. IInv /\ LeakedInv /\ NoDanglingReservation /\ [Next]_vars => NoDanglingReservation'
  <2> SUFFICES ASSUME IInv, LeakedInv, NoDanglingReservation, [Next]_vars, NEW e \in nonces'
               PROVE  \E d \in Delivery : envOf'[d] = e /\ AnswersFor(d)'
    BY DEF NoDanglingReservation, AnswersFor
  <2>1. CASE e \in nonces
    <3>1. PICK d \in Delivery : envOf[d] = e /\ AnswersFor(d)
        BY <2>1 DEF NoDanglingReservation, AnswersFor
    <3> QED
        BY <3>1, AnswersStep
  <2>2. CASE e \notin nonces
    <3>1. PICK d \in Delivery : Reserved(d)' /\ envOf'[d] = e
        BY <2>2, NewRowStep
    <3> QED
        BY <3>1 DEF AnswersFor
  <2> QED
    BY <2>1, <2>2
<1> QED
    BY <1>1, <1>2, LeakedStep, Invariant, PTL DEF Spec

(***************************************************************************)
(* The refinement of the execution boundary.                               *)
(***************************************************************************)

(* A delivery that has not arrived has left nothing. *)
ArrivedInv == \A f \in chain : pc[f.delivery] # "idle"

LEMMA ArrivedStep == IInv /\ ArrivedInv /\ [Next]_vars => ArrivedInv'
<1> SUFFICES ASSUME IInv, ArrivedInv, [Next]_vars PROVE ArrivedInv'
    OBVIOUS
<1>0. \A f \in chain : f.delivery \in Delivery
    BY DEF IInv, TypeOK, Facts
<1> USE DEF ArrivedInv, IInv, TypeOK, At, Goto, evidence
<1>1. ASSUME NEW d \in Delivery, Verify(d) PROVE ArrivedInv'
    BY <1>0, <1>1 DEF Verify, TrackInFlight, CheckExpiry, ReserveFails, CleanupExpiredNonces,
       SelectNonce, InsertNonce, VerifyStateless, VerifyStateful, VerifyPosture, ReleaseNonce,
       RejectWithReceipt
<1>2. ASSUME NEW d \in Delivery, Execute(d) PROVE ArrivedInv'
  <2>1. \A c \in Delivery : pc[c] # "idle" => pc'[c] # "idle"
    <3>1. CASE BuildCommand(d) \/ PersistIntent(d) \/ PersistCommitment(d)
      BY <3>1 DEF BuildCommand, PersistIntent, PersistCommitment
    <3>2. CASE PrepareExecution(d) \/ InvokeHandler(d)
      BY <3>2 DEF PrepareExecution, InvokeHandler
    <3>3. CASE LogFinalReceipt(d) \/ AttestFinalReceipt(d)
      BY <3>3 DEF LogFinalReceipt, AttestFinalReceipt
    <3> QED BY <1>2, <3>1, <3>2, <3>3 DEF Execute
  <2>2. pc[d] # "idle"
    BY <1>2 DEF Execute, BuildCommand, PersistIntent, PersistCommitment, PrepareExecution,
       InvokeHandler, LogFinalReceipt, AttestFinalReceipt
  <2>3. \A f \in chain' : f \in chain \/ f.delivery = d
    BY <1>2 DEF Execute, BuildCommand, PersistIntent, PersistCommitment, PrepareExecution,
       InvokeHandler, LogFinalReceipt, AttestFinalReceipt, LogReceipt
  <2> QED
    BY <1>0, <2>1, <2>2, <2>3
<1>3. CASE \E d \in Delivery, e \in Envelope : Receive(d, e)
    BY <1>0, <1>3 DEF Receive
<1>4. CASE Tick \/ AdvanceRoot \/ RunMaintenance \/ UNCHANGED vars
    BY <1>4 DEF Tick, AdvanceRoot, RunMaintenance, vars
<1>5. CASE Restart
    BY <1>0, <1>5 DEF Restart
<1> QED
    BY <1>1, <1>2, <1>3, <1>4, <1>5 DEF Next, Step

(* The boundary does not see a step that leaves these alone. *)
LEMMA BoundaryStutter ==
    ASSUME UNCHANGED <<envOf, now, chain, commitments, executed>>
    PROVE  UNCHANGED Boundary!bvars
BY DEF Boundary!bvars, IntentOf, SettledOf, Expired

(* The boundary sees an EXECUTING receipt as an intent, an outcome as a      *)
(* settlement, and nothing else that is written to the chain.                *)
LEMMA BoundaryReceipt ==
    ASSUME IInv, NEW d \in Delivery, NEW status \in Statuses, NEW attested \in BOOLEAN,
           chain' = chain \cup {Fact(d, status, attested)}
    PROVE  /\ IntentOf' = IF status = "EXECUTING" /\ ~attested THEN IntentOf \cup {d} ELSE IntentOf
           /\ SettledOf' = IF status \in {"COMPLETED", "FAILED"} /\ ~attested
                             THEN SettledOf \cup {d} ELSE SettledOf
<1>1. \A c \in Delivery, s \in Statuses :
         Fact(c, s, FALSE) \in chain' <=>
            \/ Fact(c, s, FALSE) \in chain
            \/ c = d /\ s = status /\ ~attested
    BY DEF Fact
<1>2. "EXECUTING" \in Statuses /\ "COMPLETED" \in Statuses /\ "FAILED" \in Statuses
    BY DEF Statuses
<1>3. IntentOf' = IF status = "EXECUTING" /\ ~attested THEN IntentOf \cup {d} ELSE IntentOf
    BY <1>1, <1>2 DEF IntentOf
<1>4. SettledOf' = IF status \in {"COMPLETED", "FAILED"} /\ ~attested
                     THEN SettledOf \cup {d} ELSE SettledOf
    BY <1>1, <1>2 DEF SettledOf
<1> QED
    BY <1>3, <1>4

LEMMA BoundaryStep == IInv /\ ArrivedInv /\ [Next]_vars => [Boundary!BNext]_(Boundary!bvars)
<1> SUFFICES ASSUME IInv, ArrivedInv, [Next]_vars PROVE Boundary!BNext \/ UNCHANGED Boundary!bvars
    OBVIOUS
<1> USE DEF clocks, warden, evidence
<1>1. ASSUME NEW d \in Delivery, Verify(d) PROVE UNCHANGED Boundary!bvars
    BY <1>1, BoundaryStutter DEF Verify, TrackInFlight, CheckExpiry, ReserveFails,
       CleanupExpiredNonces, SelectNonce, InsertNonce, VerifyStateless, VerifyStateful,
       VerifyPosture, ReleaseNonce
<1>2. ASSUME NEW d \in Delivery, BuildCommand(d) \/ PrepareExecution(d)
      PROVE  UNCHANGED Boundary!bvars
    BY <1>2, BoundaryStutter DEF BuildCommand, PrepareExecution
<1>3. ASSUME NEW d \in Delivery, NEW status \in Statuses, NEW attested \in BOOLEAN, NEW ok \in BOOLEAN,
             LogReceipt(d, status, attested, ok),
             UNCHANGED <<envOf, now, commitments, executed>>,
             status \in {"COMPLETED", "FAILED"} /\ ~attested => d \in executed
      PROVE  Boundary!BNext \/ UNCHANGED Boundary!bvars
  <2>1. CASE chain' = chain
    BY <1>3, <2>1, BoundaryStutter
  <2>2. CASE chain' = chain \cup {Fact(d, status, attested)}
    <3>1. /\ IntentOf' = IF status = "EXECUTING" /\ ~attested THEN IntentOf \cup {d} ELSE IntentOf
          /\ SettledOf' = IF status \in {"COMPLETED", "FAILED"} /\ ~attested
                            THEN SettledOf \cup {d} ELSE SettledOf
        BY <1>3, <2>2, BoundaryReceipt
    <3>2. {e \in Envelope : Expired(e)}' = {e \in Envelope : Expired(e)}
        BY <1>3 DEF Expired
    <3>3. CASE status = "EXECUTING" /\ ~attested
        BY <1>3, <3>1, <3>2, <3>3 DEF Boundary!BNext, Boundary!Intend
    <3>4. CASE status \in {"COMPLETED", "FAILED"} /\ ~attested
        BY <1>3, <3>1, <3>2, <3>4 DEF Boundary!BNext, Boundary!Settle
    <3>5. CASE status = "REJECTED" \/ attested
        BY <1>3, <3>1, <3>2, <3>5 DEF Boundary!bvars
    <3> QED
        BY <3>3, <3>4, <3>5 DEF Statuses
  <2> QED
    BY <1>3, <2>1, <2>2 DEF LogReceipt, Fact
<1>4. ASSUME NEW d \in Delivery, PersistIntent(d) PROVE Boundary!BNext \/ UNCHANGED Boundary!bvars
    BY <1>3, <1>4 DEF PersistIntent, Statuses
<1>5. ASSUME NEW d \in Delivery, PersistCommitment(d)
      PROVE  Boundary!BNext \/ UNCHANGED Boundary!bvars
  <2>1. d \in IntentOf
    BY <1>5 DEF PersistCommitment, At, IInv, PositionInv, Position, IntentOf
  <2>2. UNCHANGED <<envOf, now, chain, executed>> /\ commitments' \in {commitments, commitments \cup {d}}
    BY <1>5 DEF PersistCommitment
  <2>3. CASE commitments' = commitments
    BY <2>2, <2>3, BoundaryStutter
  <2>4. CASE commitments' = commitments \cup {d}
    <3>1. Boundary!Commit(d)
        BY <2>1, <2>2, <2>4 DEF Boundary!Commit, IntentOf, SettledOf, Expired
    <3> QED
        BY <3>1 DEF Boundary!BNext
  <2> QED
    BY <2>2, <2>3, <2>4
<1>6. ASSUME NEW d \in Delivery, InvokeHandler(d) PROVE Boundary!BNext
  <2>1. d \in IntentOf /\ d \in commitments /\ d \notin executed /\ envOf[d] \in Envelope
    BY <1>6 DEF InvokeHandler, At, IInv, TypeOK, PositionInv, Position, IntentOf, BeforeExecution
  <2>2. \A b \in executed : envOf[b] = envOf[d] => Expired(envOf[d])
    BY <1>6, <2>1 DEF InvokeHandler, At, IInv, TypeOK, OneHolder, Holds, Reserved
  <2>3. /\ UNCHANGED <<envOf, now, chain, commitments>>
        /\ executed' = executed \cup {d}
    BY <1>6 DEF InvokeHandler
  <2>4. Boundary!Run(d)
    BY <2>1, <2>2, <2>3 DEF Boundary!Run, IntentOf, SettledOf, Expired
  <2> QED
    BY <2>4 DEF Boundary!BNext
<1>7. ASSUME NEW d \in Delivery, LogFinalReceipt(d) \/ AttestFinalReceipt(d)
      PROVE  Boundary!BNext \/ UNCHANGED Boundary!bvars
  <2>1. outcome[d] \in Statuses /\ (outcome[d] \in {"COMPLETED", "FAILED"} => d \in executed)
    BY <1>7 DEF LogFinalReceipt, AttestFinalReceipt, At, IInv, TypeOK, PositionInv, Position,
       OutcomeInv, Statuses
  <2>2. \E attested, ok \in BOOLEAN : LogReceipt(d, outcome[d], attested, ok)
    BY <1>7 DEF LogFinalReceipt, AttestFinalReceipt
  <2>3. UNCHANGED <<envOf, now, commitments, executed>>
    BY <1>7 DEF LogFinalReceipt, AttestFinalReceipt
  <2> QED
    BY <1>3, <2>1, <2>2, <2>3
<1>8. CASE \E d \in Delivery, e \in Envelope : Receive(d, e)
  <2>1. PICK d \in Delivery, e \in Envelope : Receive(d, e)
    BY <1>8
  <2>2. d \notin IntentOf /\ d \notin executed
    BY <2>1 DEF Receive, At, ArrivedInv, IntentOf, Fact, IInv, PositionInv, Position, BeforeExecution
  <2>3. Boundary!Bind(d, e)
    BY <2>1, <2>2 DEF Receive, Boundary!Bind, IntentOf, SettledOf, Expired
  <2> QED
    BY <2>3 DEF Boundary!BNext
<1>9. CASE Tick
  <2>1. {e \in Envelope : Expired(e)}' = {e \in Envelope : Expired(e)} \cup {e \in Envelope : Expired(e)'}
    BY <1>9, EnvelopeAssumption DEF Tick, Expired, IInv, TypeOK
  <2>2. PICK T \in SUBSET Envelope : T = {e \in Envelope : Expired(e)'}
    OBVIOUS
  <2>3. Boundary!Close(T)
    BY <1>9, <2>1, <2>2 DEF Tick, Boundary!Close, IntentOf, SettledOf
  <2> QED
    BY <2>3 DEF Boundary!BNext
<1>10. CASE AdvanceRoot \/ RunMaintenance \/ Restart \/ UNCHANGED vars
    BY <1>10, BoundaryStutter DEF AdvanceRoot, RunMaintenance, Restart, vars
<1> QED
    BY <1>1, <1>2, <1>4, <1>5, <1>6, <1>7, <1>8, <1>9, <1>10 DEF Next, Step, Execute

(* The pipeline implements the execution boundary, for any envelopes, any    *)
(* number of deliveries and both runtimes: side effects happen in the order  *)
(* and as often as the boundary allows.                                      *)
THEOREM PipelineImplementsBoundary == Spec => ImplementsBoundary
<1>1. Init => Boundary!BInit /\ ArrivedInv
    BY EnvelopeAssumption DEF Init, Boundary!BInit, ArrivedInv, IntentOf, SettledOf, Expired
<1> QED
    BY <1>1, ArrivedStep, BoundaryStep, Invariant, PTL DEF Spec, ImplementsBoundary, Boundary!BSpec
=============================================================================
