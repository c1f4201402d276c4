--------------------------- MODULE ApprovalsProofs ---------------------------
(***************************************************************************)
(* An approved transaction executes at most once before its envelope       *)
(* expires, and a closed one never, for every number of transactions,      *)
(* concurrent requests and restarts.                                       *)
(*                                                                         *)
(* ExecutedOnce is not inductive: an approval that has reserved the nonce  *)
(* will execute later.  NonceInv says who may, as long as the envelope has *)
(* not expired: while its nonce is not reserved the transaction has not    *)
(* executed, at most one call is between the reservation and the           *)
(* execution, and while there is one the transaction has not executed.     *)
(* Giving the nonce back is safe because only that call does it, and it    *)
(* does not go on to execute.  The deletion of expired nonces is safe      *)
(* because it uses the comparison that the premise uses.                   *)
(***************************************************************************)
EXTENDS Approvals, TLAPS

Holds(c) == calls[c].pc \in {"verify", "execute"}

NonceInv ==
    /\ \A t \in Txs : t \notin submitted => executed[t] = 0
    /\ \A t \in Txs : t \notin nonces /\ ~Lapsed(t) => executed[t] = 0
    /\ \A c \in Calls : Holds(c) /\ ~Lapsed(calls[c].tx)
          => calls[c].tx \in nonces /\ executed[calls[c].tx] = 0
    /\ \A c, d \in Calls :
          Holds(c) /\ Holds(d) /\ calls[c].tx = calls[d].tx /\ ~Lapsed(calls[c].tx) => c = d

\* A call works on a transaction that was suspended.
CallInv == \A c \in Calls : calls[c].pc # "idle" => calls[c].tx \in submitted

IInv == TypeOK /\ CallInv /\ NonceInv /\ ExecutedOnce

LEMMA AnyTxType == AnyTx \in Txs
BY ApprovalsAssumption DEF AnyTx

LEMMA InitIInv == Init => IInv
<1> SUFFICES ASSUME Init PROVE IInv
  OBVIOUS
<1> USE ApprovalsAssumption, AnyTxType DEF Init, NoCall, SweepIdle, Times, CallType, CallPcs
<1>1. TypeOK
  BY DEF TypeOK
<1>2. CallInv /\ NonceInv /\ ExecutedOnce
  BY DEF CallInv, NonceInv, Holds, ExecutedOnce, Lapsed
<1> QED BY <1>1, <1>2 DEF IInv

(* The requests keep the types and what they know of their transaction. *)
LEMMA TypeStep == TypeOK /\ CallInv /\ [Next]_vars => TypeOK' /\ CallInv'
<1> SUFFICES ASSUME TypeOK, CallInv, [Next]_vars PROVE TypeOK' /\ CallInv'
  OBVIOUS
<1>a. ASSUME NEW c \in Calls, NEW pc \in CallPcs, Goto(c, pc) PROVE calls' \in [Calls -> CallType]
  BY <1>a DEF Goto, TypeOK, CallType
<1>b. ASSUME NEW c \in Calls, Done(c) PROVE calls' \in [Calls -> CallType]
  BY <1>b, AnyTxType DEF Done, NoCall, TypeOK, CallType, CallPcs
<1>c. ASSUME NEW c \in Calls, NEW t \in Txs, NEW pc \in CallPcs, NEW b \in BOOLEAN, Start(c, t, pc, b)
      PROVE  calls' \in [Calls -> CallType]
  BY <1>c DEF Start, TypeOK, CallType
<1> USE ApprovalsAssumption, AnyTxType DEF TypeOK, CallInv, Times
<1>1. ASSUME NEW c \in Calls, NEW t \in Txs, Arrive(c, t) PROVE TypeOK' /\ CallInv'
  <2>1. CASE StoreSuspendedTransaction(c, t)
    <3>1. calls' \in [Calls -> CallType]
      BY <2>1, <1>c DEF StoreSuspendedTransaction, CallPcs
    <3>2. /\ clock + TTL \in 0 .. MaxTime
          /\ expires' \in [Txs -> 0 .. MaxTime]
          /\ lapses' \in [Txs -> Nat]
      BY <2>1 DEF StoreSuspendedTransaction
    <3> QED BY <2>1, <3>1, <3>2 DEF StoreSuspendedTransaction, Start, At
  <2>2. ASSUME NEW b \in BOOLEAN, HandleApprovalVerify(c, t, b) PROVE TypeOK' /\ CallInv'
    <3>1. calls' \in [Calls -> CallType]
      BY <2>2, <1>c DEF HandleApprovalVerify, CallPcs
    <3> QED BY <2>2, <3>1 DEF HandleApprovalVerify, Live, Start
  <2>3. ASSUME NEW b \in BOOLEAN, HandleApprovalRespond(c, t, b) PROVE TypeOK' /\ CallInv'
    <3>1. calls' \in [Calls -> CallType]
      BY <2>3, <1>c DEF HandleApprovalRespond, CallPcs
    <3> QED BY <2>3, <3>1 DEF HandleApprovalRespond, Live, Start
  <2> QED BY <1>1, <2>1, <2>2, <2>3 DEF Arrive
<1>2. ASSUME NEW c \in Calls, Step(c) PROVE TypeOK' /\ CallInv'
  <2>0. calls' \in [Calls -> CallType]
    BY <1>2, <1>a, <1>b
       DEF Step, Announce, DeleteSuspendedTransaction, ApproveSuspendedTransaction,
           ResumeWithL3Proof, CheckExpiry, ReserveNonce, VerifyEnvelope, Execute, CallPcs
  <2>1. calls[c].tx \in Txs
    BY DEF CallType
  <2>2. CallInv'
    <3>1. /\ Done(c) \/ \E pc \in CallPcs : Goto(c, pc)
          /\ calls[c].pc # "idle"
          /\ submitted' = submitted
      BY <1>2
         DEF Step, Announce, DeleteSuspendedTransaction, ApproveSuspendedTransaction,
             ResumeWithL3Proof, CheckExpiry, ReserveNonce, VerifyEnvelope, Execute, At, CallPcs
    <3>2. \A d \in Calls : calls'[d].pc = "idle" \/ (calls[d].pc # "idle" /\ calls'[d].tx = calls[d].tx)
      BY <3>1 DEF Goto, Done, NoCall, CallType
    <3> QED BY <3>1, <3>2
  <2>3. CASE Announce(c)
    <3>1. events' \in [Txs -> SUBSET {"requested", "expired"}]
      BY <2>3, <2>1 DEF Announce
    <3> QED BY <2>3, <2>0, <2>2, <3>1 DEF Announce
  <2>4. CASE DeleteSuspendedTransaction(c)
    BY <2>4, <2>0, <2>2 DEF DeleteSuspendedTransaction
  <2>5. CASE ApproveSuspendedTransaction(c) \/ ResumeWithL3Proof(c) \/ CheckExpiry(c)
    BY <2>5, <2>0, <2>2 DEF ApproveSuspendedTransaction, ResumeWithL3Proof, CheckExpiry
  <2>6. CASE ReserveNonce(c)
    <3>1. nonces' \subseteq submitted
      BY <2>6 DEF ReserveNonce, At
    <3> QED BY <2>6, <2>0, <2>2, <3>1 DEF ReserveNonce
  <2>7. CASE VerifyEnvelope(c)
    <3>1. nonces' \subseteq submitted
      BY <2>7 DEF VerifyEnvelope
    <3> QED BY <2>7, <2>0, <2>2, <3>1 DEF VerifyEnvelope
  <2>8. CASE Execute(c)
    <3>1. executed' \in [Txs -> Nat]
      BY <2>8, <2>1 DEF Execute
    <3> QED BY <2>8, <2>0, <2>2, <3>1 DEF Execute
  <2> QED BY <1>2, <2>3, <2>4, <2>5, <2>6, <2>7, <2>8 DEF Step
<1>3. CASE Sweep
  <2> USE DEF SweepIdle, Overdue
  <2>1. CASE GetExpired
    BY <2>1 DEF GetExpired
  <2>2. ASSUME NEW t \in Txs, AuditExpired(t) PROVE TypeOK' /\ CallInv'
    <3>1. /\ events' \in [Txs -> SUBSET {"requested", "expired"}]
          /\ sweep' \in [pc : {"idle", "audit", "cleanup"}, listed : SUBSET Txs, pending : SUBSET Txs]
          /\ UNCHANGED <<rows, submitted, expires, lapses, nonces, executed, calls, clock, restarts>>
      <4>1. events' \in [Txs -> SUBSET {"requested", "expired"}]
        BY <2>2 DEF AuditExpired
      <4>2. sweep' \in [pc : {"idle", "audit", "cleanup"}, listed : SUBSET Txs, pending : SUBSET Txs]
        BY <2>2 DEF AuditExpired
      <4> QED BY <2>2, <4>1, <4>2 DEF AuditExpired
    <3> QED BY <3>1
  <2>3. CASE CleanupExpired \/ SweepFails
    BY <2>3 DEF CleanupExpired, SweepFails
  <2> QED BY <1>3, <2>1, <2>2, <2>3 DEF Sweep
<1>4. CASE Prune \/ Tick \/ CleanupExpiredNonces
  BY <1>4 DEF Prune, Tick, CleanupExpiredNonces
<1>5. CASE Restart
  <2>1. calls' \in [Calls -> CallType]
    BY <1>5 DEF Restart, NoCall, CallType, CallPcs
  <2>2. CallInv'
    BY <1>5 DEF Restart, NoCall
  <2>3. sweep' \in [pc : {"idle", "audit", "cleanup"}, listed : SUBSET Txs, pending : SUBSET Txs]
    BY <1>5 DEF Restart, SweepIdle
  <2>4. restarts' \in 0 .. MaxRestarts
    BY <1>5 DEF Restart
  <2> QED BY <1>5, <2>1, <2>2, <2>3, <2>4 DEF Restart
<1>6. CASE UNCHANGED vars
  BY <1>6 DEF vars
<1> QED BY <1>1, <1>2, <1>3, <1>4, <1>5, <1>6 DEF Next

(* The reservation of a nonce admits one call to the execution, until the  *)
(* envelope expires.                                                       *)
LEMMA NonceStep ==
  TypeOK /\ CallInv /\ NonceInv /\ ExecutedOnce /\ [Next]_vars => NonceInv' /\ ExecutedOnce'
<1> SUFFICES ASSUME TypeOK, CallInv, NonceInv, ExecutedOnce, [Next]_vars
             PROVE  NonceInv' /\ ExecutedOnce'
  OBVIOUS
<1> USE AnyTxType DEF TypeOK, CallType, CallPcs, CallInv, NonceInv, ExecutedOnce, Holds, At,
                      Goto, Done, Start, NoCall
<1>0. ASSUME UNCHANGED <<clock, lapses>> PROVE \A t \in Txs : Lapsed(t)' <=> Lapsed(t)
  BY <1>0 DEF Lapsed
<1>a. ASSUME UNCHANGED <<submitted, nonces, executed, clock, lapses>>,
             \A d \in Calls : Holds(d)' => Holds(d) /\ calls'[d].tx = calls[d].tx
      PROVE  NonceInv' /\ ExecutedOnce'
  BY <1>a, <1>0
<1>1. ASSUME NEW c \in Calls, NEW t \in Txs, Arrive(c, t) PROVE NonceInv' /\ ExecutedOnce'
  <2>1. CASE StoreSuspendedTransaction(c, t)
    <3>1. /\ t \notin submitted /\ executed' = executed /\ nonces' = nonces
          /\ submitted' = submitted \cup {t}
          /\ \A u \in Txs \ {t} : Lapsed(u)' <=> Lapsed(u)
      BY <2>1 DEF StoreSuspendedTransaction, Lapsed
    <3>2. /\ executed[t] = 0
          /\ \A d \in Calls : Holds(d)' => Holds(d) /\ calls'[d] = calls[d] /\ calls[d].tx # t
      BY <2>1, <3>1 DEF StoreSuspendedTransaction
    <3>3. ExecutedOnce'
      BY <3>1, <3>2
    <3>4. NonceInv'
      BY <3>1, <3>2
    <3> QED BY <3>3, <3>4
  <2>2. ASSUME NEW b \in BOOLEAN, HandleApprovalVerify(c, t, b) \/ HandleApprovalRespond(c, t, b)
        PROVE  NonceInv' /\ ExecutedOnce'
    <3>1. \A d \in Calls : Holds(d)' => Holds(d) /\ calls'[d].tx = calls[d].tx
      BY <2>2 DEF HandleApprovalVerify, HandleApprovalRespond
    <3> QED BY <2>2, <1>a, <3>1 DEF HandleApprovalVerify, HandleApprovalRespond
  <2> QED BY <1>1, <2>1, <2>2 DEF Arrive
<1>2. ASSUME NEW c \in Calls, Step(c) PROVE NonceInv' /\ ExecutedOnce'
  <2>1. CASE Announce(c) \/ DeleteSuspendedTransaction(c) \/ ApproveSuspendedTransaction(c)
             \/ ResumeWithL3Proof(c) \/ CheckExpiry(c)
    BY <2>1, <1>0 DEF Announce, DeleteSuspendedTransaction, ApproveSuspendedTransaction,
                      ResumeWithL3Proof, CheckExpiry
  <2>2. CASE ReserveNonce(c)
    <3>1. CASE Done(c) /\ UNCHANGED nonces
      BY <2>2, <3>1, <1>0 DEF ReserveNonce
    <3>2. CASE calls[c].tx \notin nonces /\ nonces' = nonces \cup {calls[c].tx} /\ Goto(c, "verify")
      BY <2>2, <3>2, <1>0 DEF ReserveNonce
    <3> QED BY <2>2, <3>1, <3>2 DEF ReserveNonce
  <2>3. CASE VerifyEnvelope(c)
    <3> DEFINE t == calls[c].tx
    <3>1. /\ t \in Txs /\ Holds(c) /\ UNCHANGED <<submitted, executed, clock, lapses>>
          /\ \A d \in Calls \ {c} : calls'[d] = calls[d]
      BY <2>3 DEF VerifyEnvelope
    <3>2. \/ calls'[c].tx = t /\ nonces' = nonces
          \/ ~Holds(c)' /\ nonces \ {t} \subseteq nonces'
      BY <2>3 DEF VerifyEnvelope
    <3>3. \A d \in Calls : Holds(d)' => Holds(d) /\ calls'[d].tx = calls[d].tx
      BY <3>1, <3>2
    <3>4. CASE calls'[c].tx = t /\ nonces' = nonces
      BY <3>1, <3>3, <3>4, <1>a
    <3>5. CASE ~Holds(c)' /\ nonces \ {t} \subseteq nonces'
      <4>1. \A d \in Calls : Holds(d)' /\ calls'[d].tx = t => Lapsed(t)
        BY <3>1, <3>3, <3>5
      <4>2. ~Lapsed(t) => executed[t] = 0
        BY <3>1
      <4> QED BY <1>0, <3>1, <3>3, <3>5, <4>1, <4>2
    <3> QED BY <3>2, <3>4, <3>5
  <2>4. CASE Execute(c)
    <3>1. CASE Done(c) /\ UNCHANGED executed
      BY <2>4, <3>1, <1>0 DEF Execute
    <3>2. CASE executed' = [executed EXCEPT ![calls[c].tx] = @ + 1]
      <4>1. \A d \in Calls : Holds(d)' => d # c /\ Holds(d) /\ calls'[d] = calls[d]
        BY <2>4 DEF Execute
      <4>2. ~Lapsed(calls[c].tx) => calls[c].tx \in nonces /\ executed[calls[c].tx] = 0
        BY <2>4 DEF Execute
      <4>3. \A d \in Calls : Holds(d)' /\ calls[d].tx = calls[c].tx => Lapsed(calls[c].tx)
        BY <2>4, <4>1 DEF Execute
      <4> QED BY <2>4, <3>2, <4>1, <4>2, <4>3, <1>0 DEF Execute
    <3> QED BY <2>4, <3>1, <3>2 DEF Execute
  <2> QED BY <1>2, <2>1, <2>2, <2>3, <2>4 DEF Step
<1>3. CASE Sweep \/ Prune \/ CleanupExpiredNonces
  BY <1>3, <1>0 DEF Sweep, GetExpired, AuditExpired, CleanupExpired, SweepFails, Prune,
                    CleanupExpiredNonces
<1>4. CASE Tick
  <2>1. \A t \in Txs : Lapsed(t) => Lapsed(t)'
    BY <1>4, ApprovalsAssumption DEF Tick, Lapsed, Times
  <2> QED BY <1>4, <2>1 DEF Tick
<1>5. CASE Restart
  BY <1>5, <1>0 DEF Restart
<1>6. CASE UNCHANGED vars
  BY <1>6, <1>0 DEF vars
<1> QED BY <1>1, <1>2, <1>3, <1>4, <1>5, <1>6 DEF Next

LEMMA SpecIInv == Spec => []IInv
<1>1. IInv /\ [Next]_vars => IInv'
  BY TypeStep, NonceStep DEF IInv
<1> QED BY InitIInv, <1>1, PTL DEF Spec

(***************************************************************************)
(* The store, the calls and the sweep keep their types; every row and      *)
(* every reserved nonce belongs to a transaction that was suspended.       *)
(***************************************************************************)
THEOREM ApprovalsTypeCorrect == Spec => []TypeOK
<1>1. IInv => TypeOK
  BY DEF IInv
<1> QED BY SpecIInv, <1>1, PTL

(***************************************************************************)
(* ResumeWithL3Proof executes a transaction at most once before its        *)
(* envelope expires, whatever approvals, denials, sweeps, deletions of     *)
(* nonces and restarts run beside each other.                              *)
(***************************************************************************)
THEOREM ApprovalExecutesOnce == Spec => []ExecutedOnce
<1>1. IInv => ExecutedOnce
  BY DEF IInv
<1> QED BY SpecIInv, <1>1, PTL

(* No step turns the clock back or changes the expiry of an envelope that  *)
(* was suspended.                                                          *)
LEMMA LapsedStep ==
  ASSUME TypeOK, [Next]_vars, NEW t \in submitted, Lapsed(t)
  PROVE  Lapsed(t)'
<1>1. lapses'[t] = lapses[t] /\ (clock' = clock \/ clock' = clock + 1)
  BY DEF Next, Arrive, StoreSuspendedTransaction, HandleApprovalVerify, HandleApprovalRespond,
         Step, Announce, DeleteSuspendedTransaction, ApproveSuspendedTransaction,
         ResumeWithL3Proof, CheckExpiry, ReserveNonce, VerifyEnvelope, Execute, Sweep,
         GetExpired, AuditExpired, CleanupExpired, SweepFails, Prune, CleanupExpiredNonces,
         Tick, Restart, vars, TypeOK
<1>2. clock \in Nat /\ lapses[t] \in Nat
  BY ApprovalsAssumption DEF TypeOK, Times
<1> QED BY <1>1, <1>2 DEF Lapsed

(* What a step does to a transaction that is closed. *)
LEMMA ClosedStep ==
  ASSUME TypeOK, [Next]_vars, NEW t \in Txs, Closed(t)
  PROVE  Closed(t)' /\ executed'[t] = executed[t]
<1> USE AnyTxType DEF TypeOK, CallType, CallPcs, Closed, InHand, At, Goto, Done, Start, NoCall, Times
<1>0. Lapsed(t) => Lapsed(t)'
  BY LapsedStep
<1>1. ASSUME NEW c \in Calls, NEW u \in Txs, Arrive(c, u)
      PROVE  Closed(t)' /\ executed'[t] = executed[t]
  <2>1. CASE StoreSuspendedTransaction(c, u)
    BY <1>0, <2>1 DEF StoreSuspendedTransaction
  <2>2. ASSUME NEW b \in BOOLEAN, HandleApprovalVerify(c, u, b) \/ HandleApprovalRespond(c, u, b)
        PROVE  Closed(t)' /\ executed'[t] = executed[t]
    BY <1>0, <2>2 DEF HandleApprovalVerify, HandleApprovalRespond
  <2> QED BY <1>1, <2>1, <2>2 DEF Arrive
<1>2. ASSUME NEW c \in Calls, Step(c) PROVE Closed(t)' /\ executed'[t] = executed[t]
  <2>1. CASE Announce(c) \/ DeleteSuspendedTransaction(c)
    BY <1>0, <2>1 DEF Announce, DeleteSuspendedTransaction
  <2>2. CASE ApproveSuspendedTransaction(c)
    BY <1>0, <2>2, ApprovalsAssumption DEF ApproveSuspendedTransaction, Live
  <2>3. CASE ResumeWithL3Proof(c)
    BY <1>0, <2>3, ApprovalsAssumption DEF ResumeWithL3Proof, Live
  <2>4. CASE CheckExpiry(c)
    BY <1>0, <2>4 DEF CheckExpiry
  <2>5. CASE ReserveNonce(c) \/ VerifyEnvelope(c)
    BY <1>0, <2>5 DEF ReserveNonce, VerifyEnvelope
  <2>6. CASE Execute(c)
    BY <1>0, <2>6 DEF Execute
  <2> QED BY <1>2, <2>1, <2>2, <2>3, <2>4, <2>5, <2>6 DEF Step
<1>3. CASE Sweep \/ Prune \/ CleanupExpiredNonces
  BY <1>0, <1>3 DEF Sweep, GetExpired, AuditExpired, CleanupExpired, SweepFails, Prune,
                    CleanupExpiredNonces
<1>4. CASE Tick
  BY <1>0, <1>4, ApprovalsAssumption DEF Tick
<1>5. CASE Restart
  BY <1>0, <1>5 DEF Restart
<1>6. CASE UNCHANGED vars
  BY <1>0, <1>6 DEF vars
<1> QED BY <1>1, <1>2, <1>3, <1>4, <1>5, <1>6 DEF Next

(***************************************************************************)
(* A denied, executed, deleted, overdue or expired transaction that no     *)
(* call has in hand never executes again and is never approvable again.    *)
(***************************************************************************)
THEOREM ApprovalClosedIsFinal == Spec => ClosedIsFinal
<1>1. TypeOK /\ [Next]_vars
      => [\A t \in Txs : Closed(t) => Closed(t)' /\ executed'[t] = executed[t]]_vars
  BY ClosedStep
<1> QED BY ApprovalsTypeCorrect, <1>1, PTL DEF Spec, ClosedIsFinal

(***************************************************************************)
(* The refinement.                                                         *)
(***************************************************************************)

(* A step that suspends nothing and runs nothing can only close and lapse. *)
LEMMA CloseStep ==
  ASSUME TypeOK, [Next]_vars, UNCHANGED <<submitted, executed>>
  PROVE  Promise!ONext
<1> DEFINE T == OpenTxs \ OpenTxs'
<1> DEFINE L == LapsedTxs'
<1>1. ASSUME NEW t \in submitted, Closed(t) PROVE Closed(t)'
  <2>1. t \in Txs
    BY DEF TypeOK
  <2> QED BY <1>1, <2>1, ClosedStep
<1>2. OpenTxs' \subseteq OpenTxs
  BY <1>1 DEF OpenTxs
<1>3. T \subseteq OpenTxs /\ OpenTxs' = OpenTxs \ T
  BY <1>2
<1>4. L \subseteq submitted /\ LapsedTxs' = LapsedTxs \cup L
  BY LapsedStep DEF LapsedTxs
<1>5. T \in SUBSET Txs /\ L \in SUBSET Txs
  BY <1>4 DEF OpenTxs, TypeOK
<1> HIDE DEF T, L
<1>6. Promise!Close(T, L)
  BY <1>3, <1>4 DEF Promise!Close
<1> QED BY <1>5, <1>6 DEF Promise!ONext

(* StoreSuspendedTransaction opens its transaction or leaves it closed. *)
LEMMA SuspendStep ==
  ASSUME TypeOK, CallInv, NEW c \in Calls, NEW t \in Txs, StoreSuspendedTransaction(c, t)
  PROVE  Promise!Suspend(t)
<1>1. /\ t \notin submitted /\ submitted' = submitted \cup {t}
      /\ executed' = executed /\ clock' = clock
      /\ \A u \in Txs \ {t} : /\ expires'[u] = expires[u] /\ (u \in rows' <=> u \in rows)
                             /\ lapses'[u] = lapses[u]
  BY DEF StoreSuspendedTransaction, TypeOK
<1>2. \A u \in Txs \ {t} : Lapsed(u)' <=> Lapsed(u)
  BY <1>1 DEF Lapsed
<1>3. \A d \in Calls, u \in Txs \ {t} : InHand(d, u)' <=> InHand(d, u)
  <2>1. \A d \in Calls : \/ calls'[d] = calls[d]
                         \/ calls'[d].pc = "announce" /\ calls[d].pc = "idle"
    BY DEF StoreSuspendedTransaction, Start, At, TypeOK, CallType
  <2> QED BY <1>2, <2>1 DEF InHand
<1>4. ASSUME NEW u \in submitted PROVE Closed(u)' <=> Closed(u)
  <2>1. u \in Txs \ {t} /\ u \in submitted'
    BY <1>1 DEF TypeOK
  <2> QED BY <1>1, <1>2, <1>3, <2>1 DEF Closed
<1>5. OpenTxs' \in {OpenTxs, OpenTxs \cup {t}}
  <2>1. OpenTxs \subseteq OpenTxs' /\ OpenTxs' \subseteq OpenTxs \cup {t}
    BY <1>1, <1>4 DEF OpenTxs
  <2> QED BY <2>1
<1>6. LapsedTxs' \in {LapsedTxs, LapsedTxs \cup {t}}
  <2>1. LapsedTxs \subseteq LapsedTxs' /\ LapsedTxs' \subseteq LapsedTxs \cup {t}
    BY <1>1, <1>2 DEF LapsedTxs, TypeOK
  <2> QED BY <2>1
<1> QED BY <1>1, <1>5, <1>6 DEF Promise!Suspend

(* The handler runs for a call that has its transaction in hand; by NonceInv *)
(* that transaction has not run, or its envelope has expired.                *)
LEMMA RunStep ==
  ASSUME TypeOK, CallInv, NonceInv, NEW c \in Calls, Execute(c), executed' # executed
  PROVE  Promise!Run(calls[c].tx)
<1> DEFINE t == calls[c].tx
<1>1. t \in Txs /\ t \in submitted /\ InHand(c, t)
  BY DEF Execute, At, InHand, TypeOK, CallType, CallInv
<1>2. executed[t] = 0 \/ t \in LapsedTxs
  BY <1>1 DEF Execute, At, NonceInv, Holds, LapsedTxs
<1>3. /\ executed' = [executed EXCEPT ![t] = executed[t] + 1]
      /\ UNCHANGED <<rows, submitted, expires, lapses, clock>>
  BY DEF Execute
<1>4. t \in OpenTxs
  BY <1>1 DEF OpenTxs, Closed
<1> HIDE DEF t
<1>5. (\A u \in Txs : Lapsed(u)' <=> Lapsed(u)) /\ LapsedTxs' = LapsedTxs
  BY <1>3 DEF Lapsed, LapsedTxs
<1>6. \A d \in Calls, u \in Txs \ {t} : InHand(d, u)' <=> InHand(d, u)
  <2>1. \A d \in Calls : calls'[d] = calls[d] \/ (calls[d].tx = t /\ calls'[d].pc = "idle")
                         \/ (calls[d].tx = t /\ calls'[d].tx = t)
    BY DEF Execute, At, Goto, Done, NoCall, TypeOK, CallType, t
  <2> QED BY <1>5, <2>1 DEF InHand
<1>7. ASSUME NEW u \in submitted \ {t} PROVE Closed(u)' <=> Closed(u)
  <2>1. u \in Txs \ {t}
    BY DEF TypeOK
  <2> QED BY <1>3, <1>5, <1>6, <2>1 DEF Closed
<1>8. OpenTxs' \in {OpenTxs, OpenTxs \ {t}}
  <2>1. OpenTxs \ {t} \subseteq OpenTxs' /\ OpenTxs' \subseteq OpenTxs
    BY <1>3, <1>4, <1>7 DEF OpenTxs
  <2> QED BY <2>1
<1>9. Promise!Run(t)
  BY <1>1, <1>2, <1>3, <1>4, <1>5, <1>8 DEF Promise!Run
<1> QED BY <1>9 DEF t

(* Every step is a step of the promise, or none that it sees. *)
LEMMA PromiseStep ==
  ASSUME IInv, [Next]_vars
  PROVE  [Promise!ONext]_(Promise!ovars)
<1> USE DEF Promise!ovars
<1>0. TypeOK /\ CallInv /\ NonceInv
  BY DEF IInv
<1>1. CASE UNCHANGED <<submitted, executed>>
  BY <1>0, <1>1, CloseStep
<1>2. ASSUME NEW c \in Calls, NEW t \in Txs, StoreSuspendedTransaction(c, t)
      PROVE  Promise!ONext
  BY <1>0, <1>2, SuspendStep DEF Promise!ONext
<1>3. ASSUME NEW c \in Calls, Execute(c), executed' # executed
      PROVE  Promise!ONext
  <2>1. calls[c].tx \in Txs
    BY <1>0 DEF TypeOK, CallType
  <2> QED BY <1>0, <1>3, <2>1, RunStep DEF Promise!ONext
<1>4. ASSUME NEW c \in Calls, NEW t \in Txs, Arrive(c, t), ~StoreSuspendedTransaction(c, t)
      PROVE  UNCHANGED <<submitted, executed>>
  BY <1>4 DEF Arrive, HandleApprovalVerify, HandleApprovalRespond
<1>5. ASSUME NEW c \in Calls, Step(c), ~(Execute(c) /\ executed' # executed)
      PROVE  UNCHANGED <<submitted, executed>>
  BY <1>5 DEF Step, Announce, DeleteSuspendedTransaction, ApproveSuspendedTransaction,
              ResumeWithL3Proof, CheckExpiry, ReserveNonce, VerifyEnvelope, Execute
<1>6. CASE Sweep \/ Prune \/ CleanupExpiredNonces \/ Tick \/ Restart \/ UNCHANGED vars
  <2>1. UNCHANGED <<submitted, executed>>
    BY <1>6 DEF Sweep, GetExpired, AuditExpired, CleanupExpired, SweepFails, Prune,
                CleanupExpiredNonces, Tick, Restart, vars
  <2> QED BY <1>1, <2>1
<1> QED BY <1>1, <1>2, <1>3, <1>4, <1>5, <1>6 DEF Next

(***************************************************************************)
(* Suspension and approval implement the one-shot approval: what rows,     *)
(* nonces, concurrent calls, sweeps, prunes and restarts do together is a  *)
(* transaction that is suspended once, runs only while it is open and at   *)
(* most once before its envelope expires, and is never opened again.       *)
(***************************************************************************)
THEOREM ApprovalsImplementOneShot == Spec => ImplementsOneShot
<1>1. Init => Promise!OInit
  BY DEF Init, Promise!OInit, OpenTxs, LapsedTxs
<1>2. IInv /\ [Next]_vars => [Promise!ONext]_(Promise!ovars)
  BY PromiseStep
<1> QED BY <1>1, <1>2, SpecIInv, PTL DEF Spec, ImplementsOneShot, Promise!OSpec
=============================================================================
