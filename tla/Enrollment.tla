----------------------------- MODULE Enrollment -----------------------------
(***************************************************************************)
(* Platform enrollment on the Gateway: a component asks for credentials,   *)
(* the owner approves or denies, the component completes the request and   *)
(* collects them, and the owner may revoke them.  A request is a document  *)
(* whose state moves by conditional updates; between them run the          *)
(* handlers that sign certificates and write Operator documents, sessions  *)
(* and policies.                                                           *)
(*                                                                         *)
(* Issuance is guarded by a lease: the state "issuing" with a deadline.    *)
(* Every update is conditional on the state alone, so an issuer that       *)
(* outlives its lease may meet a second one.  The Gateway may crash        *)
(* between any two steps.                                                  *)
(*                                                                         *)
(* The Operator documents have other writers, the heartbeats above all.    *)
(* DocUpdate reads a document and later writes it back whole, so such a    *)
(* writer may undo a termination that came in between.                     *)
(*                                                                         *)
(* All Operator requests here have one owner and one system fingerprint,   *)
(* and all app requests one component name.                                *)
(***************************************************************************)
EXTENDS Integers

CONSTANTS Requests,     \* request ids
          Calls,        \* goroutines that serve requests
          Beats,        \* goroutines that handle the heartbeats of Operators
          RequestTTL,   \* PlatformEnrollmentRequestTTL
          LeaseTTL,     \* PlatformEnrollmentIssuanceLeaseTTL
          MaxIssues,    \* bound on the certificates signed
          MaxTime,      \* bound: the clock stops here
          MaxRestarts   \* bound on crashes of the Gateway

ASSUME EnrollmentAssumption ==
    /\ Requests # {}
    /\ {RequestTTL, LeaseTTL, MaxIssues, MaxTime, MaxRestarts} \subseteq Nat
    /\ MaxIssues > 0

VARIABLES state,       \* of each request
          kind, expires, lease,
          issued,      \* the issuance whose credentials the request holds, 0 if none
          issues,      \* how many issuances there have been
          operators,   \* the status of the Operator document of each issuance
          sessions,    \* the issuances whose Operator session is active
          certs,       \* the issuances whose certificates are all revoked
          policy,      \* the requests that the app policy stands for: at most one
          answers,     \* the issuances returned to the requester, for each request
          raced,       \* an Operator document was written before another's supersession began
          calls,       \* what each request handler is doing
          reconcile,   \* the requests that the cleanup goroutine has yet to treat
          clock, restarts,
          copies       \* the Operator document that each heartbeat has read and will write back

docs == <<state, kind, expires, lease, issued>>
grants == <<issues, operators, sessions, certs, policy>>
vars == <<docs, grants, answers, raced, calls, reconcile, clock, restarts, copies>>

Times == 0 .. MaxTime
Issuances == 1 .. MaxIssues
Kinds == {"app", "operator"}

Live == {"pending", "approved", "issuing"}
States == Live \cup {"none", "completed", "denied", "expired", "revoked", "removed"}

\* The status of an Operator document.  "active" stands for every status but terminated, and
\* "revived" for an active one that had been terminated: the difference is the model's.
Statuses == {"none", "active", "terminated", "revived"}

NoCopy == [id |-> 0, status |-> "none"]

NoCall == [pc |-> "idle", req |-> CHOOSE r \in Requests : TRUE, id |-> 0, arg |-> "none", todo |-> {}]

CallPcs == {"idle", "expire", "decide", "lease", "issue", "sign", "supersede", "terminate",
            "finish", "unissue", "rollback", "reload", "downstream", "policy", "revoke",
            "withdraw", "mark"}

CallType == [pc : CallPcs, req : Requests, id : 0 .. MaxIssues, arg : States,
             todo : SUBSET Issuances]

TypeOK ==
    /\ state \in [Requests -> States]
    /\ kind \in [Requests -> Kinds]
    /\ expires \in [Requests -> Times]
    /\ lease \in [Requests -> Times]
    /\ issued \in [Requests -> 0 .. MaxIssues]
    /\ issues \in 0 .. MaxIssues
    /\ operators \in [Issuances -> Statuses]
    /\ sessions \subseteq Issuances
    /\ certs \subseteq Issuances
    /\ policy \subseteq Requests
    /\ answers \in [Requests -> SUBSET Issuances]
    /\ raced \in BOOLEAN
    /\ calls \in [Calls -> CallType]
    /\ reconcile \in [recover : SUBSET Requests, expire : SUBSET Requests]
    /\ clock \in Times
    /\ restarts \in 0 .. MaxRestarts
    /\ copies \in [Beats -> [id : 0 .. MaxIssues, status : Statuses]]

Init ==
    /\ state = [r \in Requests |-> "none"]
    /\ kind \in [Requests -> Kinds]
    /\ expires = [r \in Requests |-> 0]
    /\ lease = [r \in Requests |-> 0]
    /\ issued = [r \in Requests |-> 0]
    /\ issues = 0
    /\ operators = [i \in Issuances |-> "none"]
    /\ sessions = {}
    /\ certs = {}
    /\ policy = {}
    /\ answers = [r \in Requests |-> {}]
    /\ raced = FALSE
    /\ calls = [c \in Calls |-> NoCall]
    /\ reconcile = [recover |-> {}, expire |-> {}]
    /\ clock = 0
    /\ restarts = 0
    /\ copies = [b \in Beats |-> NoCopy]

-----------------------------------------------------------------------------
At(c, pc) == calls[c].pc = pc

Req(c) == calls[c].req

Goto(c, pc) == calls' = [calls EXCEPT ![c].pc = pc]

Done(c) == calls' = [calls EXCEPT ![c] = NoCall]

Start(c, r, pc, id, arg) ==
    calls' = [calls EXCEPT ![c] = [pc |-> pc, req |-> r, id |-> id, arg |-> arg, todo |-> {}]]

\* The handler goes on with nothing but its request.
Back(c, pc) == Start(c, Req(c), pc, 0, "none")

\* DocConditionalUpdate of the state: it is applied if the state is still old.
Move(r, old, new) == state' = IF state[r] = old THEN [state EXCEPT ![r] = new] ELSE state

Expired(r) == clock > expires[r]

(***************************************************************************)
(* CreateRequest writes a pending document.  The guard on the clock is the *)
(* model's: every deadline must be reachable.                              *)
(***************************************************************************)
CreateRequest(r) ==
    /\ state[r] = "none"
    /\ clock + RequestTTL < MaxTime
    /\ state' = [state EXCEPT ![r] = "pending"]
    /\ expires' = [expires EXCEPT ![r] = clock + RequestTTL]
    /\ UNCHANGED <<kind, lease, issued, grants, answers, raced, calls, reconcile, clock, restarts, copies>>

\* GetStatus, Complete, Decide and the scans of ListPending, findLiveRequest and checkQuota,
\* on a request whose time is over.
GetStatus(c, r) ==
    /\ At(c, "idle")
    /\ state[r] \in Live
    /\ Expired(r)
    /\ Start(c, r, "expire", 0, state[r])
    /\ UNCHANGED <<docs, grants, answers, raced, reconcile, clock, restarts, copies>>

\* expireRequest, on the condition that the state is the one read.
ExpireRequest(c) ==
    /\ At(c, "expire")
    /\ Move(Req(c), calls[c].arg, "expired")
    /\ Done(c)
    /\ UNCHANGED <<kind, expires, lease, issued, grants, answers, raced, reconcile, clock, restarts, copies>>

-----------------------------------------------------------------------------
(***************************************************************************)
(* Decide, and the DECIDE envelope's handler.                              *)
(***************************************************************************)
Decide(c, r, decision) ==
    /\ At(c, "idle")
    /\ state[r] = "pending"
    /\ ~Expired(r)
    /\ Start(c, r, "decide", 0, decision)
    /\ UNCHANGED <<docs, grants, answers, raced, reconcile, clock, restarts, copies>>

\* Mutant: the handler relies on the service's look at the state.
HandleDecideMutant(c) ==
    /\ At(c, "decide")
    /\ state' = [state EXCEPT ![Req(c)] = calls[c].arg]
    /\ Done(c)
    /\ UNCHANGED <<kind, expires, lease, issued, grants, answers, raced, reconcile, clock, restarts, copies>>

\* It does not look at the clock.
HandleDecide(c) ==
    /\ At(c, "decide")
    /\ Move(Req(c), "pending", calls[c].arg)
    /\ Done(c)
    /\ UNCHANGED <<kind, expires, lease, issued, grants, answers, raced, reconcile, clock, restarts, copies>>

-----------------------------------------------------------------------------
(***************************************************************************)
(* Complete and issueComponent.                                            *)
(***************************************************************************)
Complete(c, r) ==
    /\ At(c, "idle")
    /\ \/ /\ state[r] = "completed"
          /\ Start(c, r, "downstream", issued[r], "none")
       \/ /\ state[r] = "approved" /\ ~Expired(r)
          /\ Start(c, r, "lease", 0, "none")
    /\ UNCHANGED <<docs, grants, answers, raced, reconcile, clock, restarts, copies>>

\* approved -> issuing.  The guard on the clock is the model's.
AcquireLease(c) ==
    /\ At(c, "lease")
    /\ clock + LeaseTTL <= MaxTime
    /\ IF state[Req(c)] = "approved"
       THEN /\ lease' = [lease EXCEPT ![Req(c)] = clock + LeaseTTL]
            /\ state' = [state EXCEPT ![Req(c)] = "issuing"]
            /\ Goto(c, "issue")
       ELSE /\ Done(c)
            /\ UNCHANGED <<state, lease>>
    /\ UNCHANGED <<kind, expires, issued, grants, answers, raced, reconcile, clock, restarts, copies>>

\* The ISSUE envelope is refused, or its handler does not find the state issuing, or it does.
HandleIssue(c) ==
    /\ At(c, "issue")
    /\ \/ Back(c, "rollback")
       \/ state[Req(c)] = "issuing" /\ Goto(c, "sign")
    /\ UNCHANGED <<docs, grants, answers, raced, reconcile, clock, restarts, copies>>

\* Signing fails, or yields certificates under new ids; for an Operator its document is
\* written, active.
SignComponent(c) ==
    /\ At(c, "sign")
    /\ \/ /\ Back(c, "unissue")
          /\ UNCHANGED <<grants, raced>>
       \/ /\ issues < MaxIssues
          /\ issues' = issues + 1
          /\ IF kind[Req(c)] = "operator"
             THEN /\ operators' = [operators EXCEPT ![issues + 1] = "active"]
                  /\ raced' = (raced \/ \E d \in Calls : At(d, "supersede"))
                  /\ Start(c, Req(c), "supersede", issues + 1, "none")
             ELSE /\ Start(c, Req(c), "finish", issues + 1, "none")
                  /\ UNCHANGED <<operators, raced>>
          /\ UNCHANGED <<sessions, certs, policy>>
    /\ UNCHANGED <<docs, answers, reconcile, clock, restarts, copies>>

\* Mutant: the new document is not left out of those found.
SupersedeOperatorLeasesMutant(c) ==
    /\ At(c, "supersede")
    /\ LET others == {i \in Issuances : operators[i] \in {"active", "revived"}}
       IN  calls' = [calls EXCEPT ![c].pc = IF others = {} THEN "finish" ELSE "terminate",
                                  ![c].todo = others]
    /\ UNCHANGED <<docs, grants, answers, raced, reconcile, clock, restarts, copies>>

\* The query of supersedeOperatorLeases, or its error, which ends the signing.
SupersedeOperatorLeases(c) ==
    /\ At(c, "supersede")
    /\ \/ LET others == {i \in Issuances \ {calls[c].id} : operators[i] \in {"active", "revived"}}
          IN  calls' = [calls EXCEPT ![c].pc = IF others = {} THEN "finish" ELSE "terminate",
                                     ![c].todo = others]
       \/ Back(c, "unissue")
    /\ UNCHANGED <<docs, grants, answers, raced, reconcile, clock, restarts, copies>>

\* One of the documents found: its session, then its status.  An error ends the signing.  The
\* update writes the status whatever it has read, so the read is not a step of its own.
TerminateSuperseded(c, i) ==
    /\ At(c, "terminate")
    /\ i \in calls[c].todo
    /\ \/ /\ sessions' = sessions \ {i}
          /\ operators' = [operators EXCEPT ![i] = "terminated"]
          /\ calls' = [calls EXCEPT ![c].pc = IF calls[c].todo = {i} THEN "finish" ELSE @,
                                    ![c].todo = @ \ {i}]
       \/ /\ sessions' \in {sessions, sessions \ {i}}
          /\ Back(c, "unissue")
          /\ UNCHANGED operators
    /\ UNCHANGED <<issues, certs, policy, docs, answers, raced, reconcile, clock, restarts, copies>>

\* Mutant: the issuer that lost the update answers with what it has signed.
FinishIssueMutant(c) ==
    /\ At(c, "finish")
    /\ IF state[Req(c)] = "issuing"
       THEN /\ state' = [state EXCEPT ![Req(c)] = "completed"]
            /\ issued' = [issued EXCEPT ![Req(c)] = calls[c].id]
       ELSE UNCHANGED <<state, issued>>
    /\ Goto(c, "downstream")
    /\ UNCHANGED <<kind, expires, lease, grants, answers, raced, reconcile, clock, restarts, copies>>

\* issuing -> completed with the credentials, whoever holds the lease; the receipt of the
\* envelope may fail after it.  Or the update is not applied.
FinishIssue(c) ==
    /\ At(c, "finish")
    /\ \/ /\ state[Req(c)] = "issuing"
          /\ state' = [state EXCEPT ![Req(c)] = "completed"]
          /\ issued' = [issued EXCEPT ![Req(c)] = calls[c].id]
          /\ Back(c, "reload") \/ Back(c, "rollback")
       \/ /\ Back(c, "rollback")
          /\ UNCHANGED <<state, issued>>
    /\ UNCHANGED <<kind, expires, lease, grants, answers, raced, reconcile, clock, restarts, copies>>

\* Mutant: the request has to be approved again.
RollbackLeaseMutant(c) ==
    /\ calls[c].pc \in {"unissue", "rollback"}
    /\ Move(Req(c), "issuing", "pending")
    /\ IF At(c, "unissue") THEN Back(c, "rollback") ELSE Done(c)
    /\ UNCHANGED <<kind, expires, lease, issued, grants, answers, raced, reconcile, clock, restarts, copies>>

\* issuing -> approved: the handler's after a failed signing, then the service's.
RollbackLease(c) ==
    /\ calls[c].pc \in {"unissue", "rollback"}
    /\ Move(Req(c), "issuing", "approved")
    /\ IF At(c, "unissue") THEN Back(c, "rollback") ELSE Done(c)
    /\ UNCHANGED <<kind, expires, lease, issued, grants, answers, raced, reconcile, clock, restarts, copies>>

Reload(c) ==
    /\ At(c, "reload")
    /\ IF state[Req(c)] = "completed"
       THEN Start(c, Req(c), "downstream", issued[Req(c)], "none")
       ELSE Done(c)
    /\ UNCHANGED <<docs, grants, answers, raced, reconcile, clock, restarts, copies>>

Answer(c) ==
    /\ answers' = [answers EXCEPT ![Req(c)] = @ \cup {calls[c].id}]
    /\ Done(c)

\* submitDownstreamEnvelopes: CREATE_SESSION writes the sessions over what is there;
\* PERSIST_POLICY retains a policy that exists.  An error ends the call.
SubmitDownstream(c) ==
    /\ At(c, "downstream")
    /\ \/ /\ kind[Req(c)] = "operator"
          /\ sessions' = sessions \cup {calls[c].id}
          /\ Answer(c)
       \/ /\ kind[Req(c)] = "app"
          /\ IF policy = {} THEN Goto(c, "policy") /\ UNCHANGED answers ELSE Answer(c)
          /\ UNCHANGED sessions
       \/ /\ Done(c)
          /\ UNCHANGED <<sessions, answers>>
    /\ UNCHANGED <<issues, operators, certs, policy, docs, raced, reconcile, clock, restarts, copies>>

HandlePersistPolicy(c) ==
    /\ At(c, "policy")
    /\ policy' = {Req(c)}
    /\ Answer(c)
    /\ UNCHANGED <<issues, operators, sessions, certs, docs, raced, reconcile, clock, restarts, copies>>

-----------------------------------------------------------------------------
(***************************************************************************)
(* Revoke and the handler of its envelope: certificates, then what the     *)
(* kind has, then the state.  An error between them ends the call.         *)
(***************************************************************************)
Revoke(c, r) ==
    /\ At(c, "idle")
    /\ state[r] = "completed"
    /\ Start(c, r, "revoke", issued[r], "none")
    /\ UNCHANGED <<docs, grants, answers, raced, reconcile, clock, restarts, copies>>

RevokeCertificate(c) ==
    /\ At(c, "revoke")
    /\ \/ /\ state[Req(c)] = "completed"
          /\ certs' = certs \cup {calls[c].id}
          /\ Goto(c, "withdraw") \/ Done(c)
       \/ /\ Done(c)
          /\ UNCHANGED certs
    /\ UNCHANGED <<issues, operators, sessions, policy, docs, answers, raced, reconcile, clock, restarts, copies>>

\* Mutant: an error of the Operator store is logged.
WithdrawMutant(c) ==
    /\ At(c, "withdraw")
    /\ sessions' = sessions \ {calls[c].id}
    /\ operators' \in {operators, [operators EXCEPT ![calls[c].id] = "terminated"]}
    /\ Goto(c, "mark")
    /\ UNCHANGED <<issues, certs, policy, docs, answers, raced, reconcile, clock, restarts, copies>>

\* The Operator's sessions and then the status of its document, or the app policy, whichever request of the
\* component's name wrote it.
Withdraw(c) ==
    /\ At(c, "withdraw")
    /\ \/ /\ kind[Req(c)] = "operator"
          /\ sessions' = sessions \ {calls[c].id}
          /\ operators' = [operators EXCEPT ![calls[c].id] = "terminated"]
          /\ Goto(c, "mark")
          /\ UNCHANGED policy
       \/ /\ kind[Req(c)] = "app"
          /\ policy' = {}
          /\ Goto(c, "mark")
          /\ UNCHANGED <<sessions, operators>>
       \/ /\ kind[Req(c)] = "operator"
          /\ sessions' \in {sessions, sessions \ {calls[c].id}}
          /\ Done(c)
          /\ UNCHANGED <<operators, policy>>
    /\ UNCHANGED <<issues, certs, docs, answers, raced, reconcile, clock, restarts, copies>>

MarkRevoked(c) ==
    /\ At(c, "mark")
    /\ Move(Req(c), "completed", "revoked")
    /\ Done(c)
    /\ UNCHANGED <<kind, expires, lease, issued, grants, answers, raced, reconcile, clock, restarts, copies>>

-----------------------------------------------------------------------------
(***************************************************************************)
(* The DocUpdate of handleHeartbeatPublish, for an Operator of any status: *)
(* it reads the document, and writes it back with the status that it has   *)
(* read.  Writing may fail.                                                *)
(***************************************************************************)
HeartbeatRead(b, i) ==
    /\ copies[b].id = 0
    /\ operators[i] # "none"
    /\ copies' = [copies EXCEPT ![b] = [id |-> i, status |-> operators[i]]]
    /\ UNCHANGED <<docs, grants, answers, raced, calls, reconcile, clock, restarts>>

\* A document with the status now, over which one with the status read is written.
WrittenBack(now, read) == IF read = "active" /\ now # "active" THEN "revived" ELSE read

HeartbeatWrite(b) ==
    /\ copies[b].id # 0
    /\ \/ operators' = [operators EXCEPT ![copies[b].id] = WrittenBack(@, copies[b].status)]
       \/ UNCHANGED operators
    /\ copies' = [copies EXCEPT ![b] = NoCopy]
    /\ UNCHANGED <<docs, issues, sessions, certs, policy, answers, raced, calls, reconcile, clock, restarts>>

-----------------------------------------------------------------------------
(***************************************************************************)
(* The cleanup goroutine: ReconcileExpiredLeases and                       *)
(* CleanupTerminalRequests.  The retention window is not counted.          *)
(***************************************************************************)
Overdue == {r \in Requests : state[r] = "issuing" /\ lease[r] <= clock}

\* Mutant: a request whose own time is over is left alone.
ReconcileListMutant ==
    /\ reconcile = [recover |-> {}, expire |-> {}]
    /\ Overdue # {}
    /\ reconcile' = [recover |-> {r \in Overdue : ~Expired(r)}, expire |-> {}]
    /\ UNCHANGED <<docs, grants, answers, raced, calls, clock, restarts, copies>>

ReconcileList ==
    /\ reconcile = [recover |-> {}, expire |-> {}]
    /\ Overdue # {}
    /\ reconcile' = [recover |-> {r \in Overdue : ~Expired(r)},
                     expire |-> {r \in Overdue : Expired(r)}]
    /\ UNCHANGED <<docs, grants, answers, raced, calls, clock, restarts, copies>>

\* One of the requests listed, on the condition that it is still, or again, issuing.
ReconcileOne(r) ==
    /\ \/ r \in reconcile.recover /\ Move(r, "issuing", "approved")
       \/ r \in reconcile.expire /\ Move(r, "issuing", "expired")
    /\ reconcile' = [recover |-> reconcile.recover \ {r}, expire |-> reconcile.expire \ {r}]
    /\ UNCHANGED <<kind, expires, lease, issued, grants, answers, raced, calls, clock, restarts, copies>>

\* The update fails, which is logged: the request waits for the next tick.
ReconcileFails(r) ==
    /\ r \in reconcile.recover \cup reconcile.expire
    /\ reconcile' = [recover |-> reconcile.recover \ {r}, expire |-> reconcile.expire \ {r}]
    /\ UNCHANGED <<docs, grants, answers, raced, calls, clock, restarts, copies>>

CleanupTerminalRequests(r) ==
    /\ state[r] \in {"denied", "expired"}
    /\ state' = [state EXCEPT ![r] = "removed"]
    /\ UNCHANGED <<kind, expires, lease, issued, grants, answers, raced, calls, reconcile, clock, restarts, copies>>

Tick ==
    /\ clock < MaxTime
    /\ clock' = clock + 1
    /\ UNCHANGED <<docs, grants, answers, raced, calls, reconcile, restarts, copies>>

\* The Gateway crashes and starts again; the documents are on disk.
Restart ==
    /\ restarts < MaxRestarts
    /\ restarts' = restarts + 1
    /\ calls' = [c \in Calls |-> NoCall]
    /\ reconcile' = [recover |-> {}, expire |-> {}]
    /\ copies' = [b \in Beats |-> NoCopy]
    /\ UNCHANGED <<docs, grants, answers, raced, clock>>

Arrive(c, r) ==
    \/ GetStatus(c, r)
    \/ \E decision \in {"approved", "denied"} : Decide(c, r, decision)
    \/ Complete(c, r)
    \/ Revoke(c, r)

Step(c) ==
    \/ ExpireRequest(c)
    \/ HandleDecide(c)
    \/ AcquireLease(c)
    \/ HandleIssue(c)
    \/ SignComponent(c)
    \/ SupersedeOperatorLeases(c)
    \/ \E i \in Issuances : TerminateSuperseded(c, i)
    \/ FinishIssue(c)
    \/ RollbackLease(c)
    \/ Reload(c)
    \/ SubmitDownstream(c)
    \/ HandlePersistPolicy(c)
    \/ RevokeCertificate(c)
    \/ Withdraw(c)
    \/ MarkRevoked(c)

Cleanup ==
    \/ ReconcileList
    \/ \E r \in Requests : ReconcileOne(r) \/ ReconcileFails(r)

Next ==
    \/ \E r \in Requests : CreateRequest(r) \/ CleanupTerminalRequests(r)
    \/ \E c \in Calls, r \in Requests : Arrive(c, r)
    \/ \E c \in Calls : Step(c)
    \/ \E b \in Beats : HeartbeatWrite(b) \/ \E i \in Issuances : HeartbeatRead(b, i)
    \/ Cleanup
    \/ Tick
    \/ Restart

Spec == Init /\ [][Next]_vars

\* Time passes, the ticker of runCleanup fires, and an update that every tick tries again does
\* not fail for ever.  Nothing is assumed of the calls.
FairSpec ==
    /\ Spec
    /\ WF_vars(Tick)
    /\ WF_vars(Cleanup)
    /\ \A r \in Requests : SF_vars(ReconcileOne(r))

-----------------------------------------------------------------------------
(***************************************************************************)
(* Properties.                                                             *)
(***************************************************************************)

(***************************************************************************)
(* Complete is idempotent: however often it is retried, beside itself,     *)
(* after errors, restarts and recovered leases, every successful answer    *)
(* carries the same credentials, those that the request stores.            *)
(***************************************************************************)
OneAnswer == \A r \in Requests : answers[r] \subseteq {issued[r]}

(***************************************************************************)
(* An outcome is final: a denied or expired request is never revived, a    *)
(* completed one only ever becomes revoked, and the credentials stored are *)
(* never replaced, whatever calls and reconciliations are under way.       *)
(***************************************************************************)
OutcomeFinal ==
    [][\A r \in Requests :
          /\ state[r] \in {"denied", "expired"} => state'[r] \in {state[r], "removed"}
          /\ state[r] = "completed" => state'[r] \in {"completed", "revoked"}
          /\ state[r] \in {"revoked", "removed"} => state'[r] = state[r]
          /\ issued[r] # 0 => issued'[r] = issued[r]]_vars

(***************************************************************************)
(* A request that says revoked has no certificate left to authenticate     *)
(* with, for good, even if a revocation was cut short or two ran beside    *)
(* each other (HandleRevoke).  Its Operator was terminated before it said  *)
(* so, and is terminated still unless a heartbeat that had read the        *)
(* document before wrote it back.                                          *)
(***************************************************************************)
RevokedIsDead ==
    \A r \in Requests :
        state[r] = "revoked" =>
            /\ issued[r] \in certs
            /\ kind[r] = "operator" => operators[issued[r]] \in {"terminated", "revived"}

(***************************************************************************)
(* A failed ISSUE must not permanently consume approval: no crash, stalled *)
(* call or failed rollback leaves a request issuing for ever               *)
(* (ReconcileExpiredLeases).                                               *)
(***************************************************************************)
IssuingEnds == \A r \in Requests : state[r] = "issuing" ~> state[r] # "issuing"

(***************************************************************************)
(* A failure in supersedeOperatorLeases leaves a redundant lease, never    *)
(* zero: once an Operator has been written, and before any revocation, one *)
(* is active, whichever steps fail and wherever the Gateway crashes.  The  *)
(* exception, which the comment there does not mention: two issuances that *)
(* have both written their document before the first of them runs its      *)
(* query terminate each other.                                             *)
(***************************************************************************)
NeverZero ==
    ~raced /\ certs = {} /\ (\E i \in Issuances : operators[i] # "none") =>
        \E i \in Issuances : operators[i] = "active"

PhaseOf(s) ==
    CASE s = "none"                                -> "none"
      [] s = "pending"                             -> "asked"
      [] s \in {"approved", "issuing"}             -> "approved"
      [] s = "completed"                           -> "granted"
      [] s = "revoked"                             -> "revoked"
      [] s \in {"denied", "expired", "removed"}    -> "refused"

Phases == [r \in Requests |-> PhaseOf(state[r])]

\* The requests whose certificates authenticate nobody any more.  The status of the Operator
\* document is no part of it: a heartbeat may write it back.
Withdrawn == {r \in Requests : issued[r] \in certs}

Promise == INSTANCE CredentialGrant WITH
    Request <- Requests, Credential <- Issuances, NoCredential <- 0,
    phase <- Phases, grant <- issued, told <- answers, withdrawn <- Withdrawn

(***************************************************************************)
(* Leases, retries and reconciliation do not show: a request is granted    *)
(* one credential, its own, after its approval and before it is refused; a *)
(* failed issuance does not take the approval back; its requester is given *)
(* that credential and no other, and "revoked" follows the revocation of   *)
(* its certificates, which is final.                                       *)
(***************************************************************************)
ImplementsCredentialGrant == Promise!CSpec

=============================================================================
