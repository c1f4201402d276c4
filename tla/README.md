# A formal model of the g8e governed path

This directory holds TLA+ specifications of the part of g8e on which its promises rest: the path
an action takes from a signed `GovernanceEnvelope` to a side effect, the evidence it leaves
behind, and the Gateway's services that decide who may act: consensus, human approval, the
registry of Operators and platform enrollment. TLC checks the specifications on small instances;
TLAPS proves every safety property that TLC checks, for every value of the constants.

All source paths below are relative to `src/`.

## 1. The system

g8e puts a governance pipeline between an agent that proposes actions and the machine on which
they run. A *Gateway* builds and signs envelopes and dispatches them over a pub/sub broker; an
*Operator* verifies each one (L4 Warden), executes it (L5 Actuator) and stores receipts,
commitments and audit events in local SQLite databases. The Gateway also embeds an Operator of its
own, which is called in process.

```
          Gateway                                      Operator (or the embedded one)
  +---------------------+   command channel   +----------------------------------------+
  | dispatch, approvals | ------------------> | dispatcher: one goroutine per message  |
  | pub/sub broker      |                     |   -> L4 Warden  -> replay store        |
  | audit ingestion     | -- audit channel -> |                 -> L2, L3, state root  |
  |                     | <- acknowledgement  |   -> L5 Actuator -> audit store        |
  |                     | <- receipts         |                  -> commitment ledger  |
  +---------------------+                     |                  -> execution handler  |
                                              | audit listener  -> audit store         |
                                              | pruner, verifier -> audit store        |
                                              +----------------------------------------+
```

### Inventory

| Component | State | Operations | Interacts with | What is hard | What makes it correct |
|---|---|---|---|---|---|
| Dispatcher (`pubsub/pubsub_commands.go`) | none of its own; one goroutine per message | `handleCommandPayload`, `handleGovernanceEnvelope`, `ProcessEnvelope` | calls Warden, then Actuator | the same envelope handled by several goroutines; refusals after admission | every message ends in evidence or in a known failure |
| L4 Warden (`governance/l4_warden.go`) | `inFlight` map | `VerifyEnvelope` | replay store, state root provider, L2, L3 | check-then-act on clock, map and store; release on every failure path | an envelope is admitted at most once; a rejected one is not locked out |
| Replay stores (`storage/replay_store.go`, `gateway/replay_store_service.go`) | table of nonces with expiry | `ReserveNonce`, `ReleaseNonce`, cleanup | Warden; the database's ticker | expiry boundary; two statements on the Gateway | a live nonce is found |
| L5 Actuator (`governance/l5_actuator.go`) | none in memory | `Execute`, `RecordRejectedTransaction`, `LogReceipt`, `persistCommitment` | audit store, ledger, handler, Gateway | any write may fail alone, the process may die between two | no side effect without prior evidence; no evidence that lies |
| Audit store (`storage/audit_store.go`, `audit_chain.go`) | events, checkpoints, receipts, mutations, sessions | appends, upsert, four-step prune, `VerifyChain` | every writer, pruner, verifier | rows stamped before the lock; interrupted prune; reads that are not one snapshot | the chain verifies; nothing leaves it unaccounted; references hold |
| Audit ingestion (`gateway/audit_ingest_service.go`, `pubsub/audit_service.go`) | a call's channel; the chain | `Ingest`, `HandleAuditRecord`, `publishAuditAck` | broker, audit store | timeouts, retries, lost and late acknowledgements | stored once; the answer names the caller's own row |
| Pub/sub broker and client (`gateway/gateway_pubsub.go`, `pubsub/g8eg_pubsub_client.go`) | subscriptions, a bounded buffer per connection | publish, subscribe, disconnect | everything remote | drop-oldest, breaks, a second write after a reconnect, no redelivery | subscribers get what they may see, in order, up to drops |
| L2 Consensus (`governance/l2_consensus.go`, `gateway/consensus_store_service.go`) | signers, policy | add and delete signers, `AddConsensus`, deliberate, count votes | Warden | signers and policy change during a count; check and write apart | quorum of distinct enrolled members; no silent overwrite |
| Suspended transactions, approvals (`mcp/gateway.go`, `gateway/passkey_service_approvals.go`) | suspended rows, nonces | suspend, approve, deny, resume, sweep, prune | Warden, Actuator | approval against approval, denial, expiry, crash | executes at most once; a decision is final; nothing stays for ever |
| Operator presence and registration (`gateway/operator_staleness.go`, `gateway_service.go`, `registration_service.go`) | Operator documents | heartbeat, stop, terminate, bind, register, sweep | document store | whole documents written back from stale copies | terminations and claims are final; silence is noticed |
| Platform enrollment (`gateway/platform_enrollment_service.go`, `pubsub/platform_enrollment_handlers.go`) | requests, leases, certificates, Operators, sessions, app policies | create, decide, complete, revoke, reconcile | CA, registry, policy store | leases that run out under a live issuer; any step fails; crashes | one set of credentials; revocation is complete; no request stuck |
| Gateway dispatch and inference (`gateway/dispatch_service.go`, `inference/attempt_store.go`) | one channel per call; attempt records and results in files | dispatch, progress, complete, time out; `Begin`, `Complete`, `Fail` | broker, Operator, provider | lost, doubled, late and reordered messages; files read and written apart | the answer is what the audit chain says; one provider call per attempt |
| Commitment ledger (`storage/commitment_ledger.go`) | chained rows | append, verify | Actuator | several instances on one file | one chain |
| L1 Doctrine, L3 Notary | patterns, keys | pure verdicts | Warden | cryptography, text | |
| Sessions, vault, public feed, compliance, evaluation, ensemble, user interfaces | | | | | outside the governed path; see `PROJECT.json` |

`PROJECT.json` lists every component with its status, and under `hazards` the places where this
code can go wrong in ways a unit test would hardly reach, with the properties that cover each.

## 2. Modules

| Module | Models | Extends |
|---|---|---|
| `Posture` | which proofs a posture requires and when a missing one rejects | |
| `GovernancePipeline` | dispatcher, Warden, replay store, Actuator of one runtime | `Posture` |
| `ExecutionBoundary` | the abstract promise about side effects | |
| `GovernancePipelineProofs` | proofs about `GovernancePipeline` | `GovernancePipeline`, TLAPS |
| `AuditStore` | the audit database, its writers, pruner and verifier | |
| `AuditStoreProofs` | proofs about `AuditStore` | `AuditStore`, TLAPS |
| `AuditIngest` | ingestion over the broker, both ends | |
| `AuditIngestProofs` | proofs about `AuditIngest` | `AuditIngest`, TLAPS |
| `OperatorRegistry`, `OperatorRegistryProofs` | Operator documents, heartbeats, registration, staleness; proofs | |
| `L2Consensus`, `L2ConsensusProofs` | signer and policy stores, tribunal, the Warden's vote count; proofs | |
| `Approvals`, `ApprovalsProofs` | suspended transactions; proofs | |
| `Enrollment`, `EnrollmentProofs` | platform enrollment; proofs | |
| `InferenceDispatch`, `InferenceDispatchProofs` | a governed inference from dispatch to answer; proofs | |
| `OneShotApproval`, `RecordOnce`, `CredentialGrant`, `GovernedCall` | the abstract promises of approvals, ingestion, enrollment and inference | |
| `MC...`, one for each module with a run | instances for TLC: envelopes, votes, policies, hash, symmetry | the module they instantiate |

The definitions marked "Mutant:" are deliberate faults. They are used by no specification;
substituted for the definition that follows them they make the property they belong to fail, which
shows that the property depends on that line of the code.

### GovernancePipeline

A *delivery* is one reception of one envelope and is a goroutine; the same envelope may be
received by several. `pc[d]` is the goroutine's position, and each step is one access to shared
state, in the order of the code:

| pc | Action | Code |
|---|---|---|
| `idle` | `Receive` | `handleCommandPayload` / `ProcessEnvelope` |
| `track` | `TrackInFlight` | `trackInFlight` (`LoadOrStore`) |
| `expiry` | `CheckExpiry` | `VerifyEnvelope`, expiry |
| `reserve`, `insert` | `CleanupExpiredNonces` or `SelectNonce`, `InsertNonce`, `ReserveFails` | `ReserveNonce` of either store; the in-flight entry goes with its result |
| `stateless`, `stateful`, `posture` | `VerifyStateless`, `VerifyStateful`, `VerifyPosture` | the three verification stages |
| `release` | `ReleaseNonce` | `releaseNonceReservation`, whose error is only logged |
| `admitted` | `BuildCommand` | the dispatcher between Warden and Actuator |
| `intent`, `commit`, `prepare`, `execute` | `PersistIntent`, `PersistCommitment`, `PrepareExecution`, `InvokeHandler` | `Execute` |
| `finalize`, `attest` | `LogFinalReceipt`, `AttestFinalReceipt` | `signAndLogFinalReceipt`, used by executions and by rejections |

`done`, `aborted` (a store failed and the code returned), `dropped` (an envelope without event
type or payload, refused by the dispatcher) and `crashed` are final. The shared state is
`inFlight`, `nonces`, the `projection` (receipts table), the `chain` of receipt facts,
`commitments` and the live `root`; `executed`, `leaked` and `outcome` record history. `Restart`
loses goroutines and the in-flight map and keeps the databases. `Runtime` selects the outbound
Operator or the Gateway's embedded one, which differ in the replay store, in the root they compare
and in the empty-payload check.

Data is reduced to what the properties distinguish: an envelope is a record of its expiry, root,
posture and flags; the stateless checks are one flag; the verdicts on a quorum and on a human
proof are free choices, since they depend on stores that change under the Warden's feet.

`ExecutionBoundary` says the same without goroutines: intent, commitment, run and outcome of an
attempt happen in this order, and a transaction that is still open runs once. `ImplementsBoundary`
maps deliveries to attempts, envelopes to transactions, expired envelopes to closed transactions,
and facts in the chain to intents and outcomes.

### AuditStore

Tables are sets of rows: `events` with sequence number, previous hash, body and hash;
`checkpoints`, `receipts` (one row per transaction), `mutations`, `sessions`. An append or a chain
prune runs in one `BEGIN IMMEDIATE` transaction and is one step. Three things are not atomic, and
they are what the module is about:

* `Stamp` then `RecordEvent` / `RecordActionReceipt` / `RecordFileMutation`: timestamps are taken
  before the write lock, so sequence order is not timestamp order;
* `StartPrune`, `PruneMutations`, `PruneChain`, `PruneReceipts`, `PruneSessions`: one cutoff and
  four transactions, of which any may fail (`PruneFails`) or be the last (`Restart`);
* `StartVerify`, `LookupCheckpoint`, `WalkRows`: separate statements of `VerifyChain`.

Foreign keys are no guard of the model. `sqliteutil/db.go:96-111` runs `PRAGMA foreign_keys = ON`
once, on whichever connection of the pool of 20 (`db.go:85`) it gets, and the DSN (`db.go:75`)
does not set it for the others. So a mutation of a pruned event, and a prune of an event that a
mutation refers to, succeed or fail (`RecordFails`, `PruneFails`). What is left to hold the tables
together is the order of the pruner's steps: `ReferencesHold` says that events and receipts never
lose their session, and that a mutation outlives its event only if it was recorded *late*, after
the event was pruned or between the pruner's first and second transaction. `late` is recorded in
the row as history.

`Hash` is a constant operator. The proofs hold for any; TLC uses the term itself, a hash without
collisions. `horizon` and the verifier's `raced` and `inRange` are history.

### AuditIngest

`pc`, `slot` and `keyOf` are the calls of `Ingest` (a retry is another call with the same key);
`buffer` is the broker's drop-oldest buffer of the Operator's connection; `listener` holds the
records being handled, in the three statements lookup, append, acknowledge; `acks` the answers on
their way. Connections break and keep a prefix of what they held, acknowledgements get lost or
arrive again, stores fail, the Operator restarts.

`RecordOnce` is what a caller may rely on: a call submits its key, the key is added to the chain
once, perhaps after the call has given up, and a call that succeeds names a row of its own key.
`ImplementsRecordOnce` maps a call's position to new, open, ok or failed, and the chain to itself.

### OperatorRegistry

`docs` is the collection of Operator documents, `call` what each goroutine of the Gateway is
doing. The document store offers two updates, and the module is about their difference:
`DocConditionalUpdate` is one statement (`ConditionalUpdate`); `DocUpdate` reads the document
(`ReadDocument`) and writes all of it back (`WriteDocument`), the status it read included. Every
reader first reconciles staleness (`ScanStale`, then `MarkStale` for each document found), and so
does the sweep. `ReceiveHeartbeat` to `Restore` is `handleHeartbeatPublish`; `CheckStop`,
`CheckTerminate`, `MatchFingerprint`, `MatchOffline`, `CreateSlot` and `SignCSR` are the
registration service, whose two queries fall through to the next step when they fail. Any number
of heartbeats of one Operator may be under way. A failing store elsewhere is a goroutine that
stops there.

### L2Consensus

`signers` and `policy` are the two stores; `AddConsensus`, `ResolveMember`, `CheckExisting` and
`WritePolicy` the steps of a policy change, by several administrators at once; `Deliberate` the
tribunal's votes. `Verify` loads the policy once and `CheckVote` takes one vote a step, looking
the signer up each time, as `verifyL2Posture` does. `QuorumExact` compares the loop with a
declarative definition: the members whose *first* verified vote is a yes, counted as a set. What a
posture makes of the verdict is `Posture!L2Rejects`.

### Approvals

`rows` is the table of suspended transactions with their deadlines `expires`, `lapses` the
`expires_at` of their envelopes, `nonces` the replay store as far as suspended transactions reach
it, `calls` the requests of the approval page and of the console, `sweep` the maintenance
goroutine. An approval goes through `ApproveSuspendedTransaction`, `ResumeWithL3Proof`, and the
pipeline reduced to `CheckExpiry`, `ReserveNonce`, `VerifyEnvelope`, `Execute`, and deletes the
row last. The replay store forgets a nonce once its envelope has expired (`CleanupExpiredNonces`),
and the expiry was checked before the reservation, so an approval that was delayed between the two
may execute a transaction again: `ExecutedOnce` is a statement about the time before the envelope
expires. The envelope was minted, for five minutes, before the row; how much of its life is left
at the suspension is open. The sweep lists (`GetExpired`), audits row by row (`AuditExpired`), and
deletes by a later clock (`CleanupExpired`); the suspended store's own pruner (`Prune`) deletes on
a timer of its own, and also the oldest rows of a store that has grown too large. `Restart` loses
calls and sweep.

`OneShotApproval` knows only which transactions were suspended, which are open, which have lapsed
and how often each has run: one is opened once, runs only while it is open and at most once before
it lapses, and what is closed stays closed. `ImplementsOneShot` takes as open those with a row
that is not overdue and an envelope that has not expired, and those that an approval already has
in hand.

### Enrollment

A request moves by conditional updates: pending, approved, issuing, completed, revoked, or denied,
expired, removed. `AcquireLease` to `FinishIssue` is an issuance, with `SupersedeOperatorLeases`
in the middle; `RollbackLease`, `Reload`, `SubmitDownstream` and `HandlePersistPolicy` follow.
`Revoke` to `MarkRevoked` is the revocation in its three steps. `ReconcileList`, `ReconcileOne`
and `ReconcileFails` recover leases that ran out, on a ticker. `issues` numbers the issuances, so
that two of one request can be told apart.

The Operator documents have another writer. `HeartbeatRead` and `HeartbeatWrite` are the two
statements of the `DocUpdate` of `handleHeartbeatPublish` (`gateway_service.go:1582`), which write
back the status that was read. An Operator that a heartbeat has made active again after its
termination has the status "revived", which tells it from one that never was terminated.
`RevokedIsDead` promises of a revoked request that its certificates are revoked, for good, and
that its Operator is terminated or revived.

One owner, fingerprint and component name are enough for the supersession and the shared policy,
and more would only separate what may interfere. The deactivation of a session and the termination
of its Operator are one step that may do either part only. Left out: deduplication and quota
(checks before the document is written), proofs of possession, the CLI session, and the retention
period of finished requests (removal may happen at any time).

`CredentialGrant` has no leases: a request is asked for, approved or refused, granted one
credential of its own, told no other, and revoked after that credential was withdrawn. Under
`ImplementsCredentialGrant` issuing is approved (a lease and its rollback do not show), removed is
refused, and a credential is withdrawn once its certificates are revoked. The Operator's status is
not part of it, since a heartbeat can undo it.

### InferenceDispatch

`calls` is the Gateway's side: `Dispatch` publishes the command, `Receive` is the broker's
in-process handler with its bounded channel, `TakeResult`, `TakeOverflow` and `Expire` are the
cases of the select, and `Verdict` is `verifyInferenceCompletion` with
`ReconcileInferenceProgress`. `runs` is the Operator's: `Govern` stands for Warden and Actuator
(which `GovernancePipeline` models), `BeginRead` to `FailWrite` are provider call and attempt
store, each file read and written in a step of its own, and `Finish` stores and publishes the
final receipt. `net` holds messages on their way. They may be doubled (the client writes again
after a reconnect), arrive in any order, or be lost, that is, never be received. `raced` records
that two calls were in `Begin` for one attempt id at the same time.

An answer is its number of parts, and the hash over the parts is that number: two answers of one
call with equal parts are the same stream. Left out: the embedded Operator's path, commands other
than inferences, the observers, the raw response file, `Import`, and a second delivery of the
command itself (section 5).

`GovernedCall` is what remains without commands, files and messages: a call is refused or opened,
reaches the provider at most once and before it is settled, is settled by one final receipt, and
is answered once, with the receipt's outcome or with an answer that leaves the outcome open.
`ImplementsGovernedCall` maps `called` and `receipts` to themselves.

## 3. Runs

| Run | Checks | Shows |
|---|---|---|
| `pipeline_operator` | `TypeOK`, `AtMostOnceBeforeExpiry`, `IntentBeforeExecution`, `EvidenceTruthful`, `InFlightOwned`, `NoDanglingReservation`, `EveryDeliveryAccounted`, `ImplementsBoundary` | an outbound Operator with duplicates, store failures, restarts and inline cleanup; every message ends in evidence or a named failure; the pipeline refines the boundary |
| `pipeline_gateway` | `AtMostOnceBeforeExpiry` | the embedded Operator: two-statement reservation, ticker, moving root, three deliveries |
| `audit_store` | `AlwaysVerifiable`, `PruningAccounted`, `ReceiptBacked`, `ReferencesHold`, `AlarmOnlyOnRace`, `AppendOnly` | receipts and file edits of two writers, and verifications, against an interruptible pruner, without foreign keys |
| `audit_ingest` | `TypeOK`, `ExactlyOnce`, `AckTruthful`, `ImplementsRecordOnce`, `PublishedIsRecorded` | ingestion with every failure of the transport refines `RecordOnce`; a record that was not itself lost is stored, also after its caller gave up |
| `operator_registry` | `TerminationFinal`, `ClaimFinal`, `SilentIsNoticed`, `HeartbeatRecovers` | one document under heartbeats, stops, terminations, bindings, two hosts' registrations and the sweep |
| `l2_consensus` | `QuorumExact`, `UnsafeNeverValid`, `NoSilentOverwrite` | vote lists with repetitions, contradictions and forgeries, while two administrators change signers and policy |
| `approvals` | `ExecutedOnce`, `ClosedIsFinal`, `ImplementsOneShot`, `ApprovalsDrain` | two concurrent requests about one transaction, again and again, an envelope that expires, nonces that are forgotten, a crash, the sweep and the pruner; refines `OneShotApproval` |
| `enrollment` | `OneAnswer`, `RevokedIsDead`, `NeverZero`, `OutcomeFinal`, `ImplementsCredentialGrant`, `IssuingEnds` | two handlers, a heartbeat, failing steps, a lease that runs out, reconciliation, revocation and a crash; refines `CredentialGrant` |
| `inference_dispatch` | `AnswerTruthful`, `AttemptBound`, `ImplementsGovernedCall` | a streaming and a plain call that may share an attempt id, on an unreliable transport, with failing files and restarts; refines `GovernedCall` |
| `v_at_most_once`, `v_revived`, `v_unaudited_expiry` | one documented statement each | a counterexample, section 6 |

The type invariants of all modules are proved (section 4); `pipeline_operator` checks that of its
module too, and `audit_ingest` its own, which holds the bound of the drop-oldest buffer.

### Bounds

* Pipeline: two deliveries where temporal properties are checked, three on the Gateway, where two
  of the same envelope race and the third is the retry or the bystander. Envelopes expire at time
  1 and the clock runs to 2, so there is a time before, at and after expiry. The envelopes are a
  mutation that needs both proofs, a malformed one, an empty heartbeat, and on the Gateway one
  with a pre-fetched root. `MaxRoot` 1 lets the root move once.
* Audit store: a writer of receipts and one of file edits, one session, one transaction, retention
  1, clock 2, and a chain of four rows, which has room for two checkpoints; verifications from the
  start and from row 2. Two writers suffice to reverse timestamp order, and two checkpoints for a
  prune that removes what an earlier one left.
* Ingestion: three calls on two keys, so that two share a key and one does not; a buffer of two,
  which overflows.
* Registry: one document, two hosts that compete for it, two request goroutines and the sweep.
  With `StaleAfter` 0 and a clock to 1 a document is fresh, then silent.
* Consensus: two keys, one of which is its own public key and so trusted without a document. Seven
  vote lists cover the orders in which a forged, a repeated and a contradicting vote can stand;
  four policies include one that `AddConsensus` must refuse.
* Approvals: one transaction and two requests at a time, each of which may be followed by others;
  `TTL` and `EnvelopeTTL` 2 and a clock to 4 leave time to be overdue and let the envelope expire
  before, with or after the row. The second execution after the expiry is reached: without its
  premise `ExecutedOnce` fails. Transactions share no state but the store's size limit.
  `v_unaudited_expiry` has two, so that the sweep has one to audit while the other becomes
  overdue.
* Enrollment: one request of either kind, two handlers, a heartbeat, two issuances, a lease of 1
  and a clock to 2: the lease runs out under its issuer and another takes it, and the request's
  own deadline passes.
* Inference: one attempt id for both calls, answers of up to two events, a buffer of one, which
  overflows, one message written twice. With two events the order can be wrong and one can be
  missing.

`CHECK_DEADLOCK FALSE` is set where the bounded system comes to rest: all goroutines have ended
and the clock is at its bound. `l2_consensus` has no such end and deadlock is checked. Symmetry
(of deliveries) is used in `pipeline_gateway` only, which has no temporal property.

### Fairness

* `GovernancePipeline!FairSpec`: weak fairness of each delivery's steps. A delivery is a goroutine
  that the Go scheduler keeps running, and no step of it waits for another goroutine.
* `AuditIngest!FairSpec`: weak fairness of the listener's loop, for the same reason.
* `OperatorRegistry!FairSpec`: weak fairness of the steps of each goroutine, and of the start of a
  sweep, which a ticker fires.
* `Approvals!FairSpec`: weak fairness of the clock and of the sweep, and strong fairness of
  `CleanupExpired`: the DELETE may fail often, but a store whose every DELETE fails for ever
  drains nothing. No fairness of requests or of the pruner.
* `Enrollment!FairSpec`: weak fairness of the clock and of the cleanup goroutine, and strong
  fairness of `ReconcileOne`: its update may fail (`platform_enrollment_service.go:821`), and is
  then tried again at the next tick, but not for ever. Nothing is assumed of the calls: an issuer
  may stall for ever, and the lease still ends.

Nothing is assumed about arrivals, callers, acknowledgements or restarts. The conclusions of
`EveryDeliveryAccounted` and `PublishedIsRecorded` therefore name the failures that may end a
delivery or lose a record.

## 4. What is proved

| Theorems | Statement |
|---|---|
| `TypeCorrect`, `ReplayGuard`, `FailClosed`, `TruthfulEvidence`, `InFlightPairing`, `ReservationsReleased` | `Spec => []` of `TypeOK`, `AtMostOnceBeforeExpiry`, `IntentBeforeExecution`, `EvidenceTruthful`, `InFlightOwned`, `NoDanglingReservation` |
| `PipelineImplementsBoundary` | `Spec => ImplementsBoundary`: `GovernancePipeline` refines `ExecutionBoundary` |
| `AuditTypeCorrect`, `ChainAlwaysVerifiable`, `NoOtherAlarm`, `SequenceNumbersGrow`, `ReferencesNeverDangle`, `ReceiptsBacked`, `NothingLeavesUncounted` | `Spec =>` `[]TypeOK`, `[]AlwaysVerifiable`, `[]AlarmOnlyOnRace`, `AppendOnly`, `[]ReferencesHold`, `[]ReceiptBacked`, `[]PruningAccounted` |
| `IngestTypeCorrect`, `StoredOnce`, `AnswersTruthful` | `Spec => []` of `TypeOK`, `ExactlyOnce`, `AckTruthful` |
| `IngestImplementsRecordOnce` | `Spec => ImplementsRecordOnce`: `AuditIngest` refines `RecordOnce` |
| `ConsensusTypeCorrect`, `ConsensusQuorumExact`, `ConsensusUnsafeNeverValid`, `ConsensusNoSilentOverwrite` | `Spec =>` `[]TypeOK`, `[]QuorumExact`, `[]UnsafeNeverValid`, `NoSilentOverwrite` |
| `ApprovalsTypeCorrect`, `ApprovalExecutesOnce`, `ApprovalClosedIsFinal` | `Spec =>` `[]TypeOK`, `[]ExecutedOnce`, `ClosedIsFinal` |
| `ApprovalsImplementOneShot` | `Spec => ImplementsOneShot`: `Approvals` refines `OneShotApproval` |
| `RegistryTypeCorrect`, `RegistryTerminationFinal`, `RegistryClaimFinal` | `Spec =>` `[]TypeOK`, `TerminationFinal`, `ClaimFinal` |
| `EnrollmentTypeCorrect`, `EnrollmentOneAnswer`, `EnrollmentRevokedIsDead`, `EnrollmentOutcomeFinal`, `EnrollmentNeverZero` | `Spec =>` `[]TypeOK`, `[]OneAnswer`, `[]RevokedIsDead`, `OutcomeFinal`, `[]NeverZero` |
| `EnrollmentImplementsCredentialGrant` | `Spec => ImplementsCredentialGrant`: `Enrollment` refines `CredentialGrant` |
| `DispatchTypeCorrect`, `DispatchAnswersTruthful`, `DispatchAttemptBound` | `Spec => []` of `TypeOK`, `AnswerTruthful`, `AttemptBound` |
| `DispatchImplementsGovernedCall` | `Spec => ImplementsGovernedCall`: `InferenceDispatch` refines `GovernedCall` |

The only assumptions are the named ones on the constants, at the head of each module: fields have
their types, bounds are natural numbers, and sets from which a default is chosen are not empty.
Deliveries, envelopes, writers, sessions, callers, keys, Operators, hosts, transactions, requests
and attempts are arbitrary sets; only the signer keys of `L2Consensus` must be finitely many,
since they are counted.

**Pipeline.** The replay guard is not inductive: it says nothing about a delivery that is on its
way to the handler. `IInv` adds *holders*, the deliveries that have a reservation or have
executed. `HolderHasRow` says that the nonce of a holder is in the store until it expires, and
`OneHolder` that an unexpired envelope has one holder. The step that matters is `InsertNonce`: a
second holder would need the row to be absent, and by `HolderHasRow` it is not. Cleanup keeps
`HolderHasRow` because it deletes exactly what the expiry check refuses, and that is where the `<`
of the one and the `>` of the other have to agree. On the Gateway the insert after the select is
still guarded by the UNIQUE constraint, so the proof does not need the in-flight map;
`InFlightOwned` is a property in its own right. `PositionInv` says what evidence a delivery has
left by the time it is at each position and `OutcomeInv` ties outcomes to positions; together they
make `IntentBeforeExecution` and `EvidenceTruthful` inductive. For the refinement every action is
one step of the boundary or a stutter; it needs `ArrivedInv`, that only a delivery that arrived
left a fact, and `OneHolder` where the boundary asks that an open transaction has not run.

**Audit store.** `AlwaysVerifiable` says that a walk from the latest checkpoint succeeds, which
does not survive an append or a prune on its own. `ChainInv` states what does: after the anchor
the rows are consecutive, each linked to its predecessor and the first to the anchor's hash.
`RowsInv` gives distinct numbers, bounded by the head; `CheckpointsInv` places checkpoints before
the head. The prune is the hard step: it deletes rows by timestamp, so the new anchor is the
highest deleted number and rows below it may survive, outside the walk; above it nothing was
deleted, and the checkpoint event keeps the table from ever being empty, which is why numbers do
not restart at 1. `VerifierInv` says that the start a verification has looked up is right until a
prune commits. `ReceiptsBacked` and `ReferencesNeverDangle` rest on the order of the four
transactions and on the one cutoff they share. `MutationsInv` says of a mutation that is not late
what the pruner's position implies: its event is stored, and while the pass is about to prune the
chain it is not one of those to be deleted. With `ValuesInv`, the types of the rows and of what
writers and pruner hold, they are inductive. `NothingLeavesUncounted` needs what a sum over a set
is: that adding a checkpoint adds its count, in whatever order a fold takes the members
(`SumAdd`). The lemmas about the fold argue by a smallest counterexample: a set of finite sets has
a member that contains no other (`SmallestSet`), so no induction theorem is cited. With
`CountInv`, that tables are finite and counts are numbers, a prune moves what it deletes from one
summand to the other and its checkpoint event is one more row.

**Ingestion.** `ExactlyOnce` rests on the serial listener: `SerialInv` (one record at a time),
`HandlerInv` (a handler that is about to append knows its key is absent) and `AnswerInv` (every
acknowledgement and every filled slot names a row of its key). For the refinement `SentInv` is
added: a record in the buffer or in the listener belongs to a call that has submitted it, which is
what `RecordOnce` asks where the chain grows, also when that call has long ended.

**Consensus.** `CountInv` is the loop invariant of the vote count, stated for the votes passed so
far: `seen` is the set of members with a verified vote and `affirmative` the cardinality of those
whose first is a yes. `PolicyInv` says that every policy written, and every one on its way, passed
`WellFormed`; with it `UnsafeInv` (an unsafe deliberation consists of noes) refutes a quorum
reached by nobody.

**Approvals.** `NonceInv` ties executions to nonces as long as the envelope has not expired: a
transaction that has executed keeps its nonce reserved, and of the calls between reservation and
execution there is one per nonce. The cleanup does not touch such nonces, since it deletes what
the Warden calls expired, and expiry is final. `CallInv` says that a call's transaction was
suspended. `ClosedIsFinal` follows step by step, as every way back into the pipeline passes
`Live`. For the refinement every step opens, runs or closes transactions or does not show. What
executes is open, since a call has it in hand, and runs for the first time unless it has lapsed,
by `NonceInv`; that nothing opens again is the step lemma of `ClosedIsFinal`.

**Registry.** Termination and claim are action properties whose premise names the writes still
under way. `PathInv` says what a goroutine that is about to write has found before (and so that
the set of threatening goroutines cannot grow while the document is terminated), `EmptyInv` that a
missing document has no fingerprint.

**Enrollment.** `CallInv` relates a handler's position to the issuance it carries, `StateInv` and
`GrantInv` number the issuances. `RevokedIsDead` is inductive with these, since the state moves to
revoked only after the other two steps succeeded. `CopyInv` says that what a heartbeat has read
was true of the document once. That an Operator which was once terminated is terminated or revived
survives every write-back, whatever copy it writes (`Written`). `ZeroInv` is the invariant for
`NeverZero`: the document of the latest issuance is active and no handler is about to terminate
it. The refinement needs `OwnerInv`, that an issuance has one owner: the handler that signed it
until a request stores it, and that request from then on. With it the credential that
`FinishIssue` stores is nobody else's, even when the lease ran out and a second handler took the
request over.

**Inference.** `RunInv` says what position, provider call and receipt have to do with each other.
`MsgsInv` says of every completion on its way or queued, with an attestation, that its run has
ended with this receipt and this many parts, which no later step changes; that is why doubling,
delay and reordering cannot make an answer false. `FilesInv` is the invariant of the attempt
files. Without a race a call about to write is alone and finds no record (`WriteInv`), one that
has begun owns the record (`BegunInv`, `OwnInv`), and a completed record matches the result
(`DigestInv`). For the refinement `RefusedInv` is added, that a refused call has no run: so
whatever reaches the provider or leaves a receipt was accepted. `RunInv` then gives that it has
not done so before, and the truth of the answer in the next state that a call is told what its
receipt says.

### Only model-checked

`EveryDeliveryAccounted`, `PublishedIsRecorded`, `SilentIsNoticed`, `HeartbeatRecovers`,
`ApprovalsDrain` and `IssuingEnds` are liveness under fairness, which the prover does not reach.
Every invariant, action property and refinement of a passing run is proved.

## 5. Assumptions of the models

* The clock does not run backwards.
* A nonce identifies an envelope; two envelopes with one nonce but different contents are not
  considered. An envelope carries a state root.
* Warden, Actuator and audit store are configured; a missing one refuses everything.
* A SQLite transaction that reports success is durable, and `BEGIN IMMEDIATE` serialises writers.
* The receipt's console document is only a second way for `LogReceipt` to fail.
* Ingestion is idempotent within the retention of the chain; a key whose row was pruned would be
  stored again, and the model of ingestion has no pruner.
* Signatures, proofs and certificates are genuine or not; nobody forges one that verifies.
* A record or result file is read and written whole (`fs/atomic.go` renames a temporary file over
  it).
* An inference command is delivered once. The replay guard refuses a duplicate before it executes
  (`GovernancePipeline`), but the Operator publishes that rejection as a completion
  (`pubsub_commands.go:839-841`): a caller that met it first would be told "rejected" although the
  provider was called. `AnswerTruthful` and `ImplementsGovernedCall` hold under this assumption.
* A caller of `Dispatch` passes a progress callback exactly when its request streams, as the only
  caller does (`gateway/inference_dispatch.go:245-261`); the Operator goes by the request.
* An update that a ticker tries again and again does not fail for ever (section 3, fairness).

## 6. Where the documents and the code part

Three are runs, whose property states what the text says and whose counterexample is what the code
does.

* `v_at_most_once`. `docs/architecture/governance.md:345` gives duplicates no time limit. The
  Warden checks expiry before it reserves, and the reservation deletes expired rows first: a
  duplicate that passed the check in time and was then delayed past `expires_at` executes again.
  Within the envelope's lifetime the guard is proved. `Approvals` meets the same window: an
  approval delayed past the expiry executes a transaction a second time, which `ExecutedOnce`
  exempts.
* `v_revived`. The comment at `gateway/gateway_service.go:1587` says a stopped or terminated
  Operator that keeps publishing is never revived. The `DocUpdate` five lines above writes back
  the status it read; a termination in between is undone. `TerminationFinal`, proved, says that
  such a write already under way is the only cause. The termination by which an enrollment is
  revoked is undone in the same way (`RevokedIsDead`); its certificates stay revoked.
* `v_unaudited_expiry`. The comments at `mcp/gateway.go:325` and `338` say that what expires is
  audited before it is deleted. Listing and deletion take the time anew, so a row that becomes
  overdue in between is deleted without its event.

Noted while modelling, without a run of their own:

* Pipeline. `governance/l4_warden.go:461` and `docs/architecture/storage.md:100` say the Operator
  compares with the provider's current root; for messages of the command channel the dispatcher
  supplies the envelope's own (`pubsub/pubsub_commands.go:800`). The rejection of a duplicate
  overwrites the COMPLETED row of the receipts table (`storage.md:150`); the chained facts keep
  both. An admitted envelope with no event type or an empty payload is dropped without release or
  receipt (`governance.md:102`), the one way to a dangling reservation that
  `NoDanglingReservation` exempts. The comment at `pubsub_commands.go:885` says a nil receipt
  means a failure before the initial receipt was persisted, but commitment and preparation
  failures return one too. `FinalizeNonce` has no caller. `governance.md:343` has expiry strict,
  the code admits equality.
* Audit store. `docs/architecture/storage.md:106` says the database opens with foreign-key
  enforcement; it is enforced on one connection of the pool (`sqliteutil/db.go:75-106`), so a file
  mutation may be left without its event. A prune between `VerifyChain`'s queries makes it call an
  intact chain broken; `AlarmOnlyOnRace` bounds this. Verification with `from_seq=1` after a prune
  reports a mismatch; rows with newer timestamps and numbers below a checkpoint's lie outside
  every later walk.
* Registry. The sweep may overwrite a recovery that happened after its scan, and the next
  heartbeat repairs it. A re-enrolled Operator whose document has an old `last_heartbeat_at` is
  stale at once. Two first registrations may claim the same free slot; the later write wins, and
  `ClaimFinal` begins when no claim is under way. A stop that was checked before a termination
  turns terminated into stopped.
* Consensus. Deleting the signer document of a member whose id is its hex public key leaves it
  trusted. Two `AddConsensus` calls that both passed the existence check overwrite each other,
  which `NoSilentOverwrite` exempts. Without `RequireDistinct` a member counts by its first
  verified vote. The in-process tribunal keeps the member list it loaded at start.
* Approvals. The pruner deletes overdue rows without an event. A row kept "so the user can retry"
  (`mcp/gateway.go:1286`) after a failed execution cannot be retried, since its nonce is spent.
  The console's answer reports success although its resume failed, and the proof it makes up never
  verifies. An attempt with a bad proof makes a good one beside it fail as a replay; a retry
  succeeds. A transaction may have both an execution and an "expired" event.
* Enrollment. The comment at `platform_enrollment_handlers.go:510` ("never zero") holds for
  failures and crashes; two issuances that overlap terminate each other, which `NeverZero`
  exempts. A retry of `Complete` that read "completed" before a revocation re-creates the session
  or the policy after it. A request may go from issuing to expired under a live lease. `Decide`
  approves after the expiry. Revoking one instance of an app deletes the policy all instances
  share.
* Inference. The comment at `inference/attempt_store.go:72` (the record binds the result's digest)
  fails when two calls are in `Begin` with one id; `AttemptBound`, proved, says that this is the
  only cause. When `Complete` fails the record stays in progress for ever. `Execute` returns, and
  the Operator publishes, a COMPLETED receipt that was not stored (`pubsub_commands.go:880`); only
  the Gateway's check of the attestation keeps it from the caller.

## 7. Not modelled

* Refusals before the Warden: a message that is too large or does not parse
  (`pubsub_commands.go:684-699`) and fields that do not fit the event type (`805-815`) leave a log
  entry, the latter also an unsigned receipt that says blocked. `EveryDeliveryAccounted` is about
  messages that reach the Warden.
* Legacy backfill, `RecordEvents` (a batch of the appends modelled), `CreateSession` and queries
  of the audit store.
* The cryptography behind envelopes, votes, proofs, certificates and receipts; L1's patterns.
* The execution handlers other than inference beyond "ran, with or without an error, and may have
  written state"; the dispatch of commands other than inferences, and to the embedded Operator.
* Broker access control, patterns, `DisconnectIdentity` and the receipt relay.
* The commitment ledger's chain and the protocol chain validator. In `GovernancePipeline` the
  ledger is the set of committed deliveries.
* The tool catalogue, downstream dispatch and circuit breaker of `mcp/gateway.go`; the session and
  binding keys of the key-value store; deduplication and quota of enrollment.
* A record lost by drop-oldest or a break is not redelivered; the only repair is the caller's
  retry, so no unconditional delivery property is stated.
* Generated protocol code, user interfaces, the Python ensemble, evaluation, compliance reports
  and the public feed, which are outside the governed path or only read its evidence. They are
  most of the repository's lines, and the reason why the mapped share of it is small.

## 8. Plan

Done: pipeline and boundary, audit store, ingestion, registry, consensus, approvals, enrollment,
inference; every safety property of a run is proved, and five modules are shown to refine an
abstract specification.

Next, by importance:

1. `CommitmentLedger`: several instances on one file; one chain, with an abstract log as its
   specification.
2. `Dispatch`: commands other than inferences, whose wait takes the first result without a
   receipt, and the observers' begin and finalize.
3. `PubSubBroker`: snapshot-then-send publication, and `DisconnectIdentity` against a concurrent
   subscribe.
4. `ProtocolChain`: the stage order it accepts against the order the stages run in.
5. The composition of `Approvals` with `GovernancePipeline`, whose reservation and verdict it now
   repeats in a reduced form.
