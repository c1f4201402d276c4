------------------------------ MODULE Approvals ------------------------------
(***************************************************************************)
(* Human approval on the Gateway: transactions that the Warden refuses for *)
(* want of an L3 proof are suspended in a store with a deadline, resumed   *)
(* by an approval, denied, swept when they expire, or pruned.              *)
(*                                                                         *)
(* An approval reads the row, hands the envelope with the proof to         *)
(* ProcessEnvelope and deletes the row when that succeeds.  Nothing holds  *)
(* the row meanwhile: approvals run beside each other, beside denials, and *)
(* beside the sweep and the pruner, which delete it by the clock.  What    *)
(* keeps two approvals from executing twice is the nonce that              *)
(* ProcessEnvelope reserves and gives back when it refuses the envelope.   *)
(* The nonce is kept until the envelope expires: the Warden compares the   *)
(* clock with expires_at of the envelope before it reserves, and a ticker  *)
(* deletes the nonces of envelopes that have expired.                      *)
(***************************************************************************)
EXTENDS Integers, FiniteSets

CONSTANTS Txs,          \* transaction hashes
          Calls,        \* goroutines that serve requests
          TTL,          \* ApprovalRequestTTL
          EnvelopeTTL,  \* lifetime of an envelope, from its minting
          MaxTime,      \* bound: the clock stops here
          MaxRestarts   \* bound on crashes of the Gateway

ASSUME ApprovalsAssumption ==
    /\ Txs # {}
    /\ TTL \in Nat
    /\ EnvelopeTTL \in Nat
    /\ MaxTime \in Nat
    /\ MaxRestarts \in Nat

VARIABLES rows,        \* the transactions in suspended_transactions
          submitted,   \* the transactions that were suspended at some time
          expires,     \* expires_at of each row
          lapses,      \* expires_at of each envelope
          nonces,      \* the transactions whose nonce is reserved
          executed,    \* how often the handler of each ran
          events,      \* the notary events on the audit chain, by transaction
          calls,       \* what each request is doing
          sweep,       \* what the maintenance sweep is doing
          clock, restarts

vars == <<rows, submitted, expires, lapses, nonces, executed, events, calls, sweep, clock, restarts>>

Times == 0 .. MaxTime

AnyTx == CHOOSE t \in Txs : TRUE

NoCall == [pc |-> "idle", tx |-> AnyTx, genuine |-> FALSE]

SweepIdle == [pc |-> "idle", listed |-> {}, pending |-> {}]

CallPcs == {"idle", "announce", "deny", "mark", "resume", "expiry", "reserve", "verify", "execute", "delete"}

CallType == [pc : CallPcs, tx : Txs, genuine : BOOLEAN]

TypeOK ==
    /\ rows \subseteq submitted
    /\ submitted \subseteq Txs
    /\ expires \in [Txs -> Times]
    /\ lapses \in [Txs -> Nat]
    /\ nonces \subseteq submitted
    /\ executed \in [Txs -> Nat]
    /\ events \in [Txs -> SUBSET {"requested", "expired"}]
    /\ calls \in [Calls -> CallType]
    /\ sweep \in [pc : {"idle", "audit", "cleanup"}, listed : SUBSET Txs, pending : SUBSET Txs]
    /\ clock \in Times
    /\ restarts \in 0 .. MaxRestarts

Init ==
    /\ rows = {}
    /\ submitted = {}
    /\ expires = [t \in Txs |-> 0]
    /\ lapses = [t \in Txs |-> 0]
    /\ nonces = {}
    /\ executed = [t \in Txs |-> 0]
    /\ events = [t \in Txs |-> {}]
    /\ calls = [c \in Calls |-> NoCall]
    /\ sweep = SweepIdle
    /\ clock = 0
    /\ restarts = 0

-----------------------------------------------------------------------------
At(c, pc) == calls[c].pc = pc

Goto(c, pc) == calls' = [calls EXCEPT ![c].pc = pc]

Done(c) == calls' = [calls EXCEPT ![c] = NoCall]

Start(c, t, pc, genuine) ==
    /\ At(c, "idle")
    /\ calls' = [calls EXCEPT ![c] = [pc |-> pc, tx |-> t, genuine |-> genuine]]

\* GetSuspendedTransaction finds the row.
Live(t) == t \in rows /\ expires[t] > clock

\* The envelope of t has expired, for the Warden and for the replay store.
Lapsed(t) == clock > lapses[t]

\* The rows that the sweep lists and deletes, and that the pruner deletes.
Overdue == {t \in rows : expires[t] < clock}

(***************************************************************************)
(* Suspension.  The Warden has refused the envelope with ErrL3ProofMissing *)
(* and given its nonce back.  If the row cannot be stored the caller is    *)
(* sent to an approval page all the same.  The envelope was minted before, *)
(* and how much of its life its deliberation and the Warden have left is   *)
(* open.  The guard on the clock is the model's: every deadline of a row   *)
(* must be reachable.                                                      *)
(***************************************************************************)
StoreSuspendedTransaction(c, t) ==
    /\ t \notin submitted
    /\ clock + TTL < MaxTime
    /\ submitted' = submitted \cup {t}
    /\ expires' = [expires EXCEPT ![t] = clock + TTL]
    /\ \E l \in 0 .. clock + EnvelopeTTL : lapses' = [lapses EXCEPT ![t] = l]
    /\ At(c, "idle")
    /\ \/ rows' = rows \cup {t} /\ Start(c, t, "announce", FALSE)
       \/ UNCHANGED <<rows, calls>>
    /\ UNCHANGED <<nonces, executed, events, sweep, clock, restarts>>

\* RecordEvent of approval.requested; a failure is logged.
Announce(c) ==
    /\ At(c, "announce")
    /\ \/ events' = [events EXCEPT ![calls[c].tx] = @ \cup {"requested"}]
       \/ UNCHANGED events
    /\ Done(c)
    /\ UNCHANGED <<rows, submitted, expires, lapses, nonces, executed, sweep, clock, restarts>>

-----------------------------------------------------------------------------
(***************************************************************************)
(* Decisions.  A proof from the approval page may verify.  The proof that  *)
(* the console's respond endpoint makes up never does: the Gateway's       *)
(* notary wants a WebAuthn assertion of every caller.                      *)
(***************************************************************************)
HandleApprovalVerify(c, t, genuine) ==
    /\ Live(t)
    /\ Start(c, t, "resume", genuine)
    /\ UNCHANGED <<rows, submitted, expires, lapses, nonces, executed, events, sweep, clock, restarts>>

HandleApprovalRespond(c, t, approved) ==
    /\ Live(t)
    /\ Start(c, t, IF approved THEN "mark" ELSE "deny", FALSE)
    /\ UNCHANGED <<rows, submitted, expires, lapses, nonces, executed, events, sweep, clock, restarts>>

\* The result of DeleteSuspendedTransaction is ignored or logged.
DeleteSuspendedTransaction(c) ==
    /\ calls[c].pc \in {"deny", "delete"}
    /\ \/ rows' = rows \ {calls[c].tx}
       \/ UNCHANGED rows
    /\ Done(c)
    /\ UNCHANGED <<submitted, expires, lapses, nonces, executed, events, sweep, clock, restarts>>

\* UPDATE ... SET approved = 1 WHERE expires_at > now.  The Gateway's notary does not read
\* the columns that it sets.
ApproveSuspendedTransaction(c) ==
    /\ At(c, "mark")
    /\ IF Live(calls[c].tx) THEN Goto(c, "resume") ELSE Done(c)
    /\ UNCHANGED <<rows, submitted, expires, lapses, nonces, executed, events, sweep, clock, restarts>>

-----------------------------------------------------------------------------
(***************************************************************************)
(* ResumeWithL3Proof: its own read of the row, then ProcessEnvelope, whose *)
(* steps are those of GovernancePipeline reduced to the expiry check, the  *)
(* nonce, the verdict and the execution.                                   *)
(***************************************************************************)
ResumeWithL3Proof(c) ==
    /\ At(c, "resume")
    /\ IF Live(calls[c].tx) THEN Goto(c, "expiry") ELSE Done(c)
    /\ UNCHANGED <<rows, submitted, expires, lapses, nonces, executed, events, sweep, clock, restarts>>

\* Mutant: the expiry is left to the deadline of the row.
CheckExpiryMutant(c) ==
    /\ At(c, "expiry")
    /\ Goto(c, "reserve")
    /\ UNCHANGED <<rows, submitted, expires, lapses, nonces, executed, events, sweep, clock, restarts>>

\* The Warden turns an expired envelope away before it looks at the nonce.
CheckExpiry(c) ==
    /\ At(c, "expiry")
    /\ IF Lapsed(calls[c].tx) THEN Done(c) ELSE Goto(c, "reserve")
    /\ UNCHANGED <<rows, submitted, expires, lapses, nonces, executed, events, sweep, clock, restarts>>

\* A reserved nonce is a replay, one that is in flight is refused, and the store may fail.
ReserveNonce(c) ==
    /\ At(c, "reserve")
    /\ \/ /\ calls[c].tx \notin nonces
          /\ nonces' = nonces \cup {calls[c].tx}
          /\ Goto(c, "verify")
       \/ /\ Done(c)
          /\ UNCHANGED nonces
    /\ UNCHANGED <<rows, submitted, expires, lapses, executed, events, sweep, clock, restarts>>

\* Mutant: the attempt gives the nonce back whatever the verdict.
VerifyEnvelopeMutant(c) ==
    /\ At(c, "verify")
    /\ nonces' = nonces \ {calls[c].tx}
    /\ IF calls[c].genuine THEN Goto(c, "execute") ELSE Done(c)
    /\ UNCHANGED <<rows, submitted, expires, lapses, executed, events, sweep, clock, restarts>>

\* Refused for the proof, or because the live state root has moved since the suspension: the
\* nonce is given back, and an error of that is only logged.
VerifyEnvelope(c) ==
    /\ At(c, "verify")
    /\ \/ /\ calls[c].genuine
          /\ Goto(c, "execute")
          /\ UNCHANGED nonces
       \/ /\ nonces' \in {nonces \ {calls[c].tx}, nonces}
          /\ Done(c)
    /\ UNCHANGED <<rows, submitted, expires, lapses, executed, events, sweep, clock, restarts>>

\* The Actuator: closed before the handler, or the handler ran and the result is an error,
\* or it is not and the row is to be deleted.  The nonce stays reserved.
Execute(c) ==
    /\ At(c, "execute")
    /\ \/ Done(c) /\ UNCHANGED executed
       \/ /\ executed' = [executed EXCEPT ![calls[c].tx] = @ + 1]
          /\ Done(c) \/ Goto(c, "delete")
    /\ UNCHANGED <<rows, submitted, expires, lapses, nonces, events, sweep, clock, restarts>>

-----------------------------------------------------------------------------
(***************************************************************************)
(* runMaintenanceSweep and the pruner.                                     *)
(***************************************************************************)
GetExpired ==
    /\ sweep.pc = "idle"
    /\ sweep' = [pc |-> IF Overdue = {} THEN "cleanup" ELSE "audit",
                 listed |-> Overdue, pending |-> Overdue]
    /\ UNCHANGED <<rows, submitted, expires, lapses, nonces, executed, events, calls, clock, restarts>>

\* RecordEvent of transaction.expired; a failure is logged.
AuditExpired(t) ==
    /\ sweep.pc = "audit"
    /\ t \in sweep.pending
    /\ \/ events' = [events EXCEPT ![t] = @ \cup {"expired"}]
       \/ UNCHANGED events
    /\ sweep' = [sweep EXCEPT !.pending = @ \ {t},
                              !.pc = IF sweep.pending = {t} THEN "cleanup" ELSE @]
    /\ UNCHANGED <<rows, submitted, expires, lapses, nonces, executed, calls, clock, restarts>>

\* Mutant: the sweep ends after its audit.
CleanupExpiredMutant ==
    /\ sweep.pc = "cleanup"
    /\ sweep' = SweepIdle
    /\ UNCHANGED <<rows, submitted, expires, lapses, nonces, executed, events, calls, clock, restarts>>

\* DELETE ... WHERE expires_at < now, with the time of this statement.
CleanupExpired ==
    /\ sweep.pc = "cleanup"
    /\ rows' = rows \ Overdue
    /\ sweep' = SweepIdle
    /\ UNCHANGED <<submitted, expires, lapses, nonces, executed, events, calls, clock, restarts>>

\* A statement of the sweep returned an error: it ends until the next tick.
SweepFails ==
    /\ sweep.pc = "cleanup"
    /\ sweep' = SweepIdle
    /\ UNCHANGED <<rows, submitted, expires, lapses, nonces, executed, events, calls, clock, restarts>>

\* The store's own pruner deletes what is overdue, and the oldest rows of a store that has
\* grown too large.
Prune ==
    /\ \/ rows' = rows \ Overdue
       \/ \E t \in rows : /\ \A u \in rows : expires[t] <= expires[u]
                          /\ rows' = rows \ {t}
    /\ UNCHANGED <<submitted, expires, lapses, nonces, executed, events, calls, sweep, clock, restarts>>

\* DELETE FROM nonces WHERE expires_at < now, by the database's ticker.
CleanupExpiredNonces ==
    /\ nonces' = {t \in nonces : ~Lapsed(t)}
    /\ UNCHANGED <<rows, submitted, expires, lapses, executed, events, calls, sweep, clock, restarts>>

-----------------------------------------------------------------------------
Tick ==
    /\ clock < MaxTime
    /\ clock' = clock + 1
    /\ UNCHANGED <<rows, submitted, expires, lapses, nonces, executed, events, calls, sweep, restarts>>

\* Mutant: the nonces are kept in memory.
RestartMutant ==
    /\ restarts < MaxRestarts
    /\ restarts' = restarts + 1
    /\ calls' = [c \in Calls |-> NoCall]
    /\ sweep' = SweepIdle
    /\ nonces' = {}
    /\ UNCHANGED <<rows, submitted, expires, lapses, executed, events, clock>>

\* The Gateway crashes and starts again; both stores are on disk.
Restart ==
    /\ restarts < MaxRestarts
    /\ restarts' = restarts + 1
    /\ calls' = [c \in Calls |-> NoCall]
    /\ sweep' = SweepIdle
    /\ UNCHANGED <<rows, submitted, expires, lapses, nonces, executed, events, clock>>

Arrive(c, t) ==
    \/ StoreSuspendedTransaction(c, t)
    \/ \E b \in BOOLEAN : HandleApprovalVerify(c, t, b) \/ HandleApprovalRespond(c, t, b)

Step(c) ==
    \/ Announce(c)
    \/ DeleteSuspendedTransaction(c)
    \/ ApproveSuspendedTransaction(c)
    \/ ResumeWithL3Proof(c)
    \/ CheckExpiry(c)
    \/ ReserveNonce(c)
    \/ VerifyEnvelope(c)
    \/ Execute(c)

Sweep ==
    \/ GetExpired
    \/ \E t \in Txs : AuditExpired(t)
    \/ CleanupExpired
    \/ SweepFails

Next ==
    \/ \E c \in Calls, t \in Txs : Arrive(c, t)
    \/ \E c \in Calls : Step(c)
    \/ Sweep
    \/ Prune
    \/ CleanupExpiredNonces
    \/ Tick
    \/ Restart

Spec == Init /\ [][Next]_vars

\* Time passes, the sweep's ticker fires, and its DELETE does not fail for ever.
FairSpec ==
    /\ Spec
    /\ WF_vars(Tick)
    /\ WF_vars(Sweep)
    /\ SF_vars(CleanupExpired)

-----------------------------------------------------------------------------
(***************************************************************************)
(* Properties.                                                             *)
(***************************************************************************)

(***************************************************************************)
(* One approval, one execution: however many approvals of a transaction    *)
(* run beside each other, are retried after an error or after a restart,   *)
(* or race a denial, its handler runs at most once before its envelope     *)
(* expires (ResumeWithL3Proof).  Afterwards the nonce is gone, and an      *)
(* approval that had passed the Warden's expiry check before may run it    *)
(* again.                                                                  *)
(***************************************************************************)
ExecutedOnce == \A t \in Txs : executed[t] > 1 => Lapsed(t)

\* The call has read the row of t and is on its way to execute it; before the Warden's expiry
\* check only as long as the envelope can still pass it.
InHand(c, t) ==
    /\ calls[c].tx = t
    /\ \/ calls[c].pc \in {"reserve", "verify", "execute"}
       \/ calls[c].pc = "expiry" /\ ~Lapsed(t)

\* t has been suspended and is not to be approved any more: its row was deleted by a denial,
\* an execution, the sweep or the pruner, or its deadline has come, or its envelope has
\* expired; and no call has it in hand.
Closed(t) ==
    /\ t \in submitted
    /\ t \notin rows \/ expires[t] <= clock \/ Lapsed(t)
    /\ \A c \in Calls : ~InHand(c, t)

(***************************************************************************)
(* A decision is final: once a transaction is closed it never executes and *)
(* never becomes approvable again, whatever requests, sweeps and restarts  *)
(* follow.  An approval that raced the denial, the deadline or the expiry  *)
(* is the only one that can still execute, and only before it returns.     *)
(***************************************************************************)
ClosedIsFinal ==
    [][\A t \in Txs : Closed(t) => Closed(t)' /\ executed'[t] = executed[t]]_vars

\* What can still run: the transactions with a live row, and those an approval has in hand.
OpenTxs == {t \in submitted : ~Closed(t)}

LapsedTxs == {t \in submitted : Lapsed(t)}

Promise ==
    INSTANCE OneShotApproval
        WITH Transaction <- Txs, suspended <- submitted, open <- OpenTxs,
             lapsed <- LapsedTxs, runs <- executed

(***************************************************************************)
(* The store, the nonces, the calls and the sweep together implement a     *)
(* one-shot approval: a transaction is suspended once, runs only while it  *)
(* is open and at most once before its envelope expires, and is never      *)
(* opened again.                                                           *)
(***************************************************************************)
ImplementsOneShot == Promise!OSpec

(***************************************************************************)
(* No suspended transaction stays in the store for ever: it is executed    *)
(* and deleted, denied or pruned, or the sweep removes it after its        *)
(* deadline (RunMaintenance).                                              *)
(***************************************************************************)
ApprovalsDrain == \A t \in Txs : t \in rows ~> t \notin rows

(***************************************************************************)
(* The comment on RunMaintenance: it audits expired transactions before    *)
(* deletion.  Every row that the sweep deletes was listed, and so audited  *)
(* or its audit tried.                                                     *)
(***************************************************************************)
AuditedBeforeDeletion ==
    [][sweep.pc = "cleanup" /\ sweep'.pc = "idle" => rows \ rows' \subseteq sweep.listed]_vars

=============================================================================
