-------------------------- MODULE GovernancePipeline --------------------------
(***************************************************************************)
(* One runtime of the governance pipeline: the dispatcher that receives    *)
(* GovernanceEnvelopes, the L4 Warden that admits them, the replay store,  *)
(* and the L5 Actuator that executes them and writes the audit evidence.   *)
(*                                                                         *)
(* Every received message is handled by a goroutine of its own, so the     *)
(* processes of the model are the deliveries: a delivery is one reception  *)
(* of one envelope, and the same envelope may be delivered any number of   *)
(* times.  A step is one access to shared state: the in-flight map, the    *)
(* replay store, the state root, the audit store, the commitment ledger,   *)
(* the execution handler.                                                  *)
(*                                                                         *)
(* Runtime = "operator" is an outbound Operator: handleGovernanceEnvelope  *)
(* over a SQLReplayStore, which deletes expired nonces as it reserves one. *)
(* Runtime = "gateway" is the Gateway's embedded Operator: ProcessEnvelope *)
(* over a ReplayStoreService, whose expired nonces a ticker deletes.       *)
(***************************************************************************)
EXTENDS Naturals, Posture

CONSTANTS
    Envelope,       \* the envelopes that may be delivered, as records
    Delivery,       \* the receptions of a message, one goroutine each
    Runtime,        \* "operator" or "gateway"
    MaxNow,         \* bound on the clock
    MaxRoot         \* bound on the number of writes to bound state

ASSUME EnvelopeAssumption ==
    /\ \A e \in Envelope :
          /\ e.expiresAt \in Nat
          /\ e.root \in Nat
          /\ e.posture \in Postures
          /\ \A f \in {e.wellFormed, e.prefetched, e.incomplete, e.mutation,
                       e.bootstrap, e.votes, e.proof} : f \in BOOLEAN
    /\ Runtime \in {"operator", "gateway"}
    /\ MaxNow \in Nat
    /\ MaxRoot \in Nat

VARIABLES
    now,            \* the clock
    root,           \* the live state Merkle root, as the number of writes so far
    pc,             \* where each delivery's goroutine is
    envOf,          \* the envelope of each delivery
    outcome,        \* the status of each delivery's final receipt, once known
    inFlight,       \* L4Warden.inFlight: envelopes whose nonce is in the map
    nonces,         \* the replay store: envelopes whose nonce has a row
    projection,     \* the receipts table: the latest receipt per envelope
    chain,          \* the chained receipt facts of the audit store
    commitments,    \* the commitment ledger
    executed,       \* deliveries that invoked the execution handler (history)
    leaked,         \* deliveries whose ReleaseNonce failed (history)
    published       \* deliveries whose final receipt reached the Gateway

warden   == <<inFlight, nonces, leaked>>
evidence == <<projection, chain, commitments, published>>
clocks   == <<now, root>>
vars     == <<now, root, pc, envOf, outcome, inFlight, nonces, projection,
              chain, commitments, executed, leaked, published>>

NoEnvelope == [id |-> "none"]

Running  == {"track", "expiry", "reserve", "insert", "stateless", "stateful",
             "posture", "release", "admitted", "intent", "commit", "prepare",
             "execute", "finalize", "attest"}
Terminal == {"done", "aborted", "dropped", "crashed"}
PCs      == Running \cup Terminal \cup {"idle"}

Statuses == {"EXECUTING", "COMPLETED", "FAILED", "REJECTED"}
Receipts == [status : Statuses, attested : BOOLEAN]
Facts    == [delivery : Delivery, status : Statuses, attested : BOOLEAN]

NoReceipt == [status |-> "none", attested |-> FALSE]

TypeOK ==
    /\ now \in Nat
    /\ root \in Nat
    /\ pc \in [Delivery -> PCs]
    /\ envOf \in [Delivery -> Envelope \cup {NoEnvelope}]
    /\ \A d \in Delivery : pc[d] # "idle" => envOf[d] \in Envelope
    /\ outcome \in [Delivery -> {"none", "COMPLETED", "FAILED", "REJECTED"}]
    /\ inFlight \subseteq Envelope
    /\ nonces \subseteq Envelope
    /\ projection \in [Envelope -> Receipts \cup {NoReceipt}]
    /\ chain \subseteq Facts
    /\ commitments \subseteq Delivery
    /\ executed \subseteq Delivery
    /\ leaked \subseteq Delivery
    /\ published \subseteq Delivery

Init ==
    /\ now = 0
    /\ root = 0
    /\ pc = [d \in Delivery |-> "idle"]
    /\ envOf = [d \in Delivery |-> NoEnvelope]
    /\ outcome = [d \in Delivery |-> "none"]
    /\ inFlight = {}
    /\ nonces = {}
    /\ projection = [e \in Envelope |-> NoReceipt]
    /\ chain = {}
    /\ commitments = {}
    /\ executed = {}
    /\ leaked = {}
    /\ published = {}

(***************************************************************************)
(* Local control.                                                          *)
(***************************************************************************)

At(d, label) == pc[d] = label

Goto(d, label) == pc' = [pc EXCEPT ![d] = label]

(* Mutant: a rejection that is only logged. *)
RejectSilently(d) ==
    /\ Goto(d, "done")
    /\ outcome' = [outcome EXCEPT ![d] = "REJECTED"]

(* `reject' of VerifyEnvelope, followed by RecordRejectedTransaction.  Its  *)
(* final receipt goes through the same code as that of an execution.        *)
RejectWithReceipt(d) ==
    /\ Goto(d, "finalize")
    /\ outcome' = [outcome EXCEPT ![d] = "REJECTED"]

Expired(e) == now > e.expiresAt

(***************************************************************************)
(* Dispatcher: a message of the command channel, or a call of              *)
(* ProcessEnvelope, starts a delivery.                                     *)
(***************************************************************************)

(* A message that is too long, is no envelope or pairs an event type with   *)
(* another's action type is refused before: it never becomes a delivery,    *)
(* and nothing the model has changes.                                       *)
Receive(d, e) ==
    /\ At(d, "idle")
    /\ Goto(d, "track")
    /\ envOf' = [envOf EXCEPT ![d] = e]
    /\ UNCHANGED <<clocks, outcome, warden, evidence, executed>>

(***************************************************************************)
(* L4 Warden.                                                              *)
(***************************************************************************)

(* Mutant: releaseInFlight is deferred before the LoadOrStore result is seen. *)
TrackInFlightDeferred(d) ==
    /\ At(d, "track")
    /\ \/ /\ envOf[d] \notin inFlight
          /\ inFlight' = inFlight \cup {envOf[d]}
          /\ Goto(d, "expiry")
          /\ UNCHANGED outcome
       \/ /\ envOf[d] \in inFlight
          /\ RejectWithReceipt(d)
          /\ inFlight' = inFlight \ {envOf[d]}
    /\ UNCHANGED <<clocks, envOf, nonces, leaked, evidence, executed>>

(* The loser of LoadOrStore rejects and leaves the winner's entry alone. *)
TrackInFlight(d) ==
    /\ At(d, "track")
    /\ \/ /\ envOf[d] \notin inFlight
          /\ inFlight' = inFlight \cup {envOf[d]}
          /\ Goto(d, "expiry")
          /\ UNCHANGED outcome
       \/ /\ envOf[d] \in inFlight
          /\ RejectWithReceipt(d)
          /\ UNCHANGED inFlight
    /\ UNCHANGED <<clocks, envOf, nonces, leaked, evidence, executed>>

ReleaseInFlight(d) == inFlight' = inFlight \ {envOf[d]}

CheckExpiry(d) ==
    /\ At(d, "expiry")
    /\ \/ /\ Expired(envOf[d])
          /\ ReleaseInFlight(d)
          /\ RejectWithReceipt(d)
       \/ /\ ~Expired(envOf[d])
          /\ Goto(d, "reserve")
          /\ UNCHANGED <<inFlight, outcome>>
    /\ UNCHANGED <<clocks, envOf, nonces, leaked, evidence, executed>>

(* ReserveNonce returned an error: fail closed. *)
ReserveFails(d) ==
    /\ pc[d] \in {"reserve", "insert"}
    /\ ReleaseInFlight(d)
    /\ RejectWithReceipt(d)
    /\ UNCHANGED <<clocks, envOf, nonces, leaked, evidence, executed>>

(* Mutant: DELETE ... WHERE expires_at <= now. *)
LiveNoncesInclusive == {e \in nonces : now < e.expiresAt}

(* DELETE ... WHERE expires_at < now, the complement of the expiry check. *)
LiveNonces == {e \in nonces : ~Expired(e)}

(* First statement of SQLReplayStore.ReserveNonce. *)
CleanupExpiredNonces(d) ==
    /\ Runtime = "operator"
    /\ At(d, "reserve")
    /\ nonces' = LiveNonces
    /\ Goto(d, "insert")
    /\ UNCHANGED <<clocks, envOf, outcome, inFlight, leaked, evidence, executed>>

(* First statement of ReplayStoreService.ReserveNonce. *)
SelectNonce(d) ==
    /\ Runtime = "gateway"
    /\ At(d, "reserve")
    /\ \/ /\ envOf[d] \in nonces
          /\ ReleaseInFlight(d)
          /\ RejectWithReceipt(d)
       \/ /\ envOf[d] \notin nonces
          /\ Goto(d, "insert")
          /\ UNCHANGED <<inFlight, outcome>>
    /\ UNCHANGED <<clocks, envOf, nonces, leaked, evidence, executed>>

(* Mutant: INSERT OR REPLACE. *)
InsertNonceReplacing(d) ==
    /\ At(d, "insert")
    /\ ReleaseInFlight(d)
    /\ nonces' = nonces \cup {envOf[d]}
    /\ Goto(d, "stateless")
    /\ UNCHANGED <<clocks, envOf, outcome, leaked, evidence, executed>>

(* The INSERT both stores end with; a UNIQUE violation is a replay. *)
InsertNonce(d) ==
    /\ At(d, "insert")
    /\ ReleaseInFlight(d)
    /\ \/ /\ envOf[d] \notin nonces
          /\ nonces' = nonces \cup {envOf[d]}
          /\ Goto(d, "stateless")
          /\ UNCHANGED outcome
       \/ /\ envOf[d] \in nonces
          /\ RejectWithReceipt(d)
          /\ UNCHANGED nonces
    /\ UNCHANGED <<clocks, envOf, leaked, evidence, executed>>

VerifyStateless(d) ==
    /\ At(d, "stateless")
    /\ Goto(d, IF envOf[d].wellFormed THEN "stateful" ELSE "release")
    /\ UNCHANGED <<clocks, envOf, outcome, warden, evidence, executed>>

(* The command channel hands the Warden the envelope's own root as the      *)
(* pre-fetched one, and so do the Gateway's in-process envelope builders.   *)
ComparesOwnRoot(e) == Runtime = "operator" \/ e.prefetched

VerifyStateful(d) ==
    /\ At(d, "stateful")
    /\ \/ /\ ComparesOwnRoot(envOf[d]) \/ envOf[d].root = root
          /\ Goto(d, "posture")
       \/ /\ ~ComparesOwnRoot(envOf[d])      \* mismatch, or no root available
          /\ Goto(d, "release")
    /\ UNCHANGED <<clocks, envOf, outcome, warden, evidence, executed>>

(* Whether a quorum verifies and whether the human proof verifies depend on *)
(* the signer, policy and approval stores at this moment.                   *)
VerifyPosture(d) ==
    /\ At(d, "posture")
    /\ \E quorumMet, proofVerifies \in BOOLEAN :
          LET e  == envOf[d]
              l2 == L2Valid(e, quorumMet)
              l3 == L3Valid(e, proofVerifies)
          IN  Goto(d, IF L2Rejects(e, l2) \/ L3Rejects(e, l3)
                        THEN "release" ELSE "admitted")
    /\ UNCHANGED <<clocks, envOf, outcome, warden, evidence, executed>>

(* Mutant: a failure path that forgets the release. *)
ReleaseNonceForgotten(d) ==
    /\ At(d, "release")
    /\ RejectWithReceipt(d)
    /\ UNCHANGED <<clocks, envOf, warden, evidence, executed>>

(* releaseNonceReservation: an error of the store is only logged. *)
ReleaseNonce(d) ==
    /\ At(d, "release")
    /\ RejectWithReceipt(d)
    /\ \/ /\ nonces' = nonces \ {envOf[d]}
          /\ UNCHANGED leaked
       \/ /\ leaked' = leaked \cup {d}
          /\ UNCHANGED nonces
    /\ UNCHANGED <<clocks, envOf, inFlight, evidence, executed>>

(***************************************************************************)
(* Between the Warden and the Actuator.                                    *)
(***************************************************************************)

(* handleGovernanceEnvelope drops an admitted envelope that lacks its event *)
(* type or its payload: no receipt is written and the nonce stays reserved. *)
BuildCommand(d) ==
    /\ At(d, "admitted")
    /\ Goto(d, IF Runtime = "operator" /\ envOf[d].incomplete
                 THEN "dropped" ELSE "intent")
    /\ UNCHANGED <<clocks, envOf, outcome, warden, evidence, executed>>

(***************************************************************************)
(* L5 Actuator.                                                            *)
(***************************************************************************)

(* LogReceipt writes the console document and then the audit store, which   *)
(* upserts the projection and appends a chained fact in one transaction.    *)
(* It fails when either write fails, so a failure may leave the audit store *)
(* written.                                                                 *)
LogReceipt(d, status, attested, ok) ==
    \/ /\ chain' = chain \cup {[delivery |-> d, status |-> status,
                                attested |-> attested]}
       /\ projection' = [projection EXCEPT ![envOf[d]] =
                            [status |-> status, attested |-> attested]]
    \/ /\ ~ok
       /\ UNCHANGED <<chain, projection>>

PersistIntent(d) ==
    /\ At(d, "intent")
    /\ \E ok \in BOOLEAN :
          /\ LogReceipt(d, "EXECUTING", FALSE, ok)
          /\ Goto(d, IF ok THEN "commit" ELSE "aborted")
    /\ UNCHANGED <<clocks, envOf, outcome, warden, commitments, published, executed>>

(* Mutant: the commitment is best effort. *)
PersistCommitmentBestEffort(d) ==
    /\ At(d, "commit")
    /\ commitments' \in {commitments, commitments \cup {d}}
    /\ Goto(d, "prepare")
    /\ UNCHANGED <<clocks, envOf, outcome, warden, projection, chain, published, executed>>

PersistCommitment(d) ==
    /\ At(d, "commit")
    /\ \/ /\ commitments' = commitments \cup {d}
          /\ Goto(d, "prepare")
       \/ /\ Goto(d, "aborted")
          /\ UNCHANGED commitments
    /\ UNCHANGED <<clocks, envOf, outcome, warden, projection, chain, published, executed>>

(* rehydratePayload and MintCapability, each of which may fail closed. *)
PrepareExecution(d) ==
    /\ At(d, "prepare")
    /\ \E ok \in BOOLEAN : Goto(d, IF ok THEN "execute" ELSE "aborted")
    /\ UNCHANGED <<clocks, envOf, outcome, warden, evidence, executed>>

(* Mutant: a handler that fails leaves the status of the receipt unset. *)
InvokeHandlerUnset(d) ==
    /\ At(d, "execute")
    /\ executed' = executed \cup {d}
    /\ outcome' \in {outcome, [outcome EXCEPT ![d] = "COMPLETED"]}
    /\ Goto(d, "finalize")
    /\ UNCHANGED <<clocks, envOf, warden, evidence>>

(* The handler runs, with or without an error, and a mutation may write     *)
(* bound state.                                                             *)
InvokeHandler(d) ==
    /\ At(d, "execute")
    /\ executed' = executed \cup {d}
    /\ \E status \in {"COMPLETED", "FAILED"} :
          outcome' = [outcome EXCEPT ![d] = status]
    /\ \E w \in {0, 1} :
          /\ w = 1 => envOf[d].mutation /\ root < MaxRoot
          /\ root' = root + w
    /\ Goto(d, "finalize")
    /\ UNCHANGED <<now, envOf, warden, evidence>>

(* Mutant: the receipt is attested although its write failed. *)
LogFinalReceiptUnchecked(d) ==
    /\ At(d, "finalize")
    /\ \E ok \in BOOLEAN : LogReceipt(d, outcome[d], FALSE, ok)
    /\ Goto(d, "attest")
    /\ UNCHANGED <<clocks, envOf, outcome, warden, commitments, published, executed>>

(* signAndLogFinalReceipt, first write. *)
LogFinalReceipt(d) ==
    /\ At(d, "finalize")
    /\ \E ok \in BOOLEAN :
          /\ LogReceipt(d, outcome[d], FALSE, ok)
          /\ Goto(d, IF ok THEN "attest" ELSE "aborted")
    /\ UNCHANGED <<clocks, envOf, outcome, warden, commitments, published, executed>>

(* signAndLogFinalReceipt, second write, with the persistence attestation;  *)
(* then the best-effort publication to the Gateway.                         *)
AttestFinalReceipt(d) ==
    /\ At(d, "attest")
    /\ \/ /\ LogReceipt(d, outcome[d], TRUE, TRUE)
          /\ Goto(d, "done")
          /\ published' \in {published, published \cup {d}}
       \/ /\ LogReceipt(d, outcome[d], TRUE, FALSE)
          /\ Goto(d, "aborted")
          /\ UNCHANGED published
    /\ UNCHANGED <<clocks, envOf, outcome, warden, commitments, executed>>

(***************************************************************************)
(* The rest of the process and its environment.                            *)
(***************************************************************************)

Tick ==
    /\ now < MaxNow
    /\ now' = now + 1
    /\ UNCHANGED <<root, pc, envOf, outcome, warden, evidence, executed>>

(* Another writer of bound state. *)
AdvanceRoot ==
    /\ root < MaxRoot
    /\ root' = root + 1
    /\ UNCHANGED <<now, pc, envOf, outcome, warden, evidence, executed>>

(* The 30-second ticker of the Gateway's database. *)
RunMaintenance ==
    /\ Runtime = "gateway"
    /\ nonces' = LiveNonces
    /\ UNCHANGED <<clocks, pc, envOf, outcome, inFlight, leaked, evidence, executed>>

(* Mutant: the reservations live in memory only. *)
RestartForgetful ==
    /\ \E d \in Delivery : pc[d] \in Running
    /\ pc' = [d \in Delivery |-> IF pc[d] \in Running THEN "crashed" ELSE pc[d]]
    /\ inFlight' = {}
    /\ nonces' = {}
    /\ UNCHANGED <<clocks, envOf, outcome, leaked, evidence, executed>>

(* The process dies and restarts: goroutines and the in-flight map are gone, *)
(* the databases stay.  A fresh map is made by NewL4Warden.                  *)
Restart ==
    /\ \E d \in Delivery : pc[d] \in Running
    /\ pc' = [d \in Delivery |-> IF pc[d] \in Running THEN "crashed" ELSE pc[d]]
    /\ inFlight' = {}
    /\ UNCHANGED <<clocks, envOf, outcome, nonces, leaked, evidence, executed>>

Verify(d) ==
    \/ TrackInFlight(d)
    \/ CheckExpiry(d)
    \/ ReserveFails(d)
    \/ CleanupExpiredNonces(d)
    \/ SelectNonce(d)
    \/ InsertNonce(d)
    \/ VerifyStateless(d)
    \/ VerifyStateful(d)
    \/ VerifyPosture(d)
    \/ ReleaseNonce(d)

Execute(d) ==
    \/ BuildCommand(d)
    \/ PersistIntent(d)
    \/ PersistCommitment(d)
    \/ PrepareExecution(d)
    \/ InvokeHandler(d)
    \/ LogFinalReceipt(d)
    \/ AttestFinalReceipt(d)

Step(d) == Verify(d) \/ Execute(d)

Next ==
    \/ \E d \in Delivery : Step(d)
    \/ \E d \in Delivery, e \in Envelope : Receive(d, e)
    \/ Tick
    \/ AdvanceRoot
    \/ RunMaintenance
    \/ Restart

Spec == Init /\ [][Next]_vars

(* Each goroutine is scheduled by the Go runtime and no step of one waits   *)
(* for another, so a started delivery keeps running.  Nothing is assumed    *)
(* of arrivals, of the clock, of other writers or of restarts.              *)
FairSpec == Spec /\ \A d \in Delivery : WF_vars(Step(d))

(***************************************************************************)
(* Properties.                                                             *)
(***************************************************************************)

(* The goroutine is between LoadOrStore and the delete of its entry. *)
Tracking(d) == pc[d] \in {"expiry", "reserve", "insert"}

(* The goroutine has reserved the nonce and has not given it back. *)
Reserved(d) == pc[d] \in {"stateless", "stateful", "posture", "release", "admitted",
                          "intent", "commit", "prepare", "execute"}

Fact(d, status, attested) ==
    [delivery |-> d, status |-> status, attested |-> attested]

(* The replay guard of the Warden: as long as an envelope has not expired,  *)
(* no two deliveries of it reach the execution handler, however duplicate   *)
(* deliveries interleave, whatever fails and whenever the process restarts. *)
AtMostOnceBeforeExpiry ==
    \A d1, d2 \in executed :
        d1 # d2 /\ envOf[d1] = envOf[d2] => Expired(envOf[d1])

(* The Actuator's fail-closed order: a delivery whose handler was invoked    *)
(* has its EXECUTING receipt in the audit chain and its commitment in the   *)
(* ledger, also after a crash.                                              *)
IntentBeforeExecution ==
    \A d \in executed :
        /\ Fact(d, "EXECUTING", FALSE) \in chain
        /\ d \in commitments

(* The audit chain never lies: an outcome is recorded only for a delivery    *)
(* that executed, a rejection only for one that did not even commit, no      *)
(* delivery has two outcomes, an attestation follows the receipt it attests, *)
(* and what was published to the Gateway was attested locally first.         *)
EvidenceTruthful ==
    /\ \A f \in chain :
          /\ f.status \in {"COMPLETED", "FAILED"} => f.delivery \in executed
          /\ f.status = "REJECTED" => f.delivery \notin executed \cup commitments
          /\ f.status # "EXECUTING" => f.status = outcome[f.delivery]
          /\ f.attested => Fact(f.delivery, f.status, FALSE) \in chain
    /\ \A d \in published : Fact(d, outcome[d], TRUE) \in chain

(* trackInFlight and releaseInFlight pair up: every entry of the in-flight   *)
(* map has exactly one goroutine that will delete it, so no nonce is locked  *)
(* out by an entry that nobody owns and no goroutine loses its entry to a    *)
(* duplicate that was turned away.                                           *)
InFlightOwned ==
    /\ \A e \in inFlight : \E d \in Delivery : Tracking(d) /\ envOf[d] = e
    /\ \A d \in Delivery : Tracking(d) => envOf[d] \in inFlight
    /\ \A d1, d2 \in Delivery :
          Tracking(d1) /\ Tracking(d2) /\ envOf[d1] = envOf[d2] => d1 = d2

(* releaseNonceReservation: a nonce stays in the replay store only for a    *)
(* delivery that is still being processed, that was admitted, that a crash  *)
(* cut off, or whose release failed; a rejected envelope can be sent again. *)
NoDanglingReservation ==
    \A e \in nonces : \E d \in Delivery :
        /\ envOf[d] = e
        /\ \/ Reserved(d)
           \/ d \in executed \cup leaked
           \/ pc[d] \in {"aborted", "dropped", "crashed"} /\ outcome[d] # "REJECTED"

(* Every message that reaches the Warden is accounted for: it ends with an  *)
(* attested final receipt, unless a store failed, the process died, or the  *)
(* dispatcher dropped it for its empty payload.                             *)
EveryDeliveryAccounted ==
    \A d \in Delivery :
        At(d, "track") ~>
            \/ \E f \in chain : f.delivery = d /\ f.attested
            \/ pc[d] \in {"aborted", "dropped", "crashed"}

(* The pipeline implements the execution boundary its documents describe:   *)
(* the refinement maps deliveries to attempts and envelopes to transactions. *)
IntentOf == {d \in Delivery : Fact(d, "EXECUTING", FALSE) \in chain}

SettledOf == {d \in Delivery : \E s \in {"COMPLETED", "FAILED"} : Fact(d, s, FALSE) \in chain}

Boundary ==
    INSTANCE ExecutionBoundary
        WITH Attempt <- Delivery, Transaction <- Envelope, txOf <- envOf,
             closed <- {e \in Envelope : Expired(e)}, intents <- IntentOf,
             committed <- commitments, ran <- executed, settled <- SettledOf

(* Every behaviour of the runtime is one the execution boundary allows: what *)
(* execution may happen, in which order its durable evidence is written, and *)
(* that an open transaction runs at most once.                               *)
ImplementsBoundary == Boundary!BSpec

(* What a document says and the code does not do.                           *)

(* "Duplicate nonces return ErrTxTransactionReplay": no envelope is executed *)
(* twice, without a time limit.                                             *)
AtMostOnce ==
    \A d1, d2 \in executed : envOf[d1] = envOf[d2] => d1 = d2
=============================================================================
