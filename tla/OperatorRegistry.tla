-------------------------- MODULE OperatorRegistry --------------------------
(***************************************************************************)
(* The Gateway's registry of Operators: one document per Operator, its     *)
(* presence status, and the goroutines that read and rewrite it.           *)
(*                                                                         *)
(* Two ways to write a document meet here.  DocConditionalUpdate checks    *)
(* and writes one field in one SQL statement.  DocUpdate reads the whole   *)
(* document, merges its fields in memory and writes the whole document     *)
(* back in a second statement, so it puts back whatever it had read of the *)
(* fields it does not set, the status among them.  Heartbeats, stops,      *)
(* terminations, registrations and session bindings all use DocUpdate, and *)
(* the staleness sweep and the recovery use the conditional form.          *)
(*                                                                         *)
(* Every reader (DocGet, DocQuery) first reconciles staleness: it lists    *)
(* the silent active documents and then marks each of them stale.          *)
(***************************************************************************)
EXTENDS Integers, FiniteSets

CONSTANTS Operators,   \* document ids, each a UUID that createSlot may draw
          Hosts,       \* system fingerprints
          Nobody,      \* the fingerprint of a slot nobody has claimed
          Calls,       \* goroutines of the Gateway that handle requests
          Sweeper,     \* the goroutine of runOperatorStalenessSweep
          StaleAfter,  \* constants.OperatorHeartbeatStaleAfter
          MaxTime      \* bound: the clock stops here

ASSUME RegistryAssumption ==
    /\ Operators # {}
    /\ Nobody \notin Hosts
    /\ Sweeper \notin Calls
    /\ StaleAfter \in Nat
    /\ MaxTime \in Nat

VARIABLES docs,   \* the operators collection
          call,   \* what each goroutine is doing
          clock   \* the Gateway's clock

vars == <<docs, call, clock>>

Goroutines == Calls \cup {Sweeper}

Never == -1

Times == 0 .. MaxTime

Statuses == {"absent", "offline", "active", "stale", "stopped", "terminated"}

(***************************************************************************)
(* A document, reduced to the fields that decide presence and ownership.   *)
(* seenAt is the last sign of life that operatorHeartbeatStale takes:      *)
(* last_heartbeat_at if there is one (heard), and claimed_at otherwise.    *)
(***************************************************************************)
Documents == [status : Statuses, fingerprint : Hosts \cup {Nobody},
              heard : BOOLEAN, seenAt : Times \cup {Never}]

Absent == [status |-> "absent", fingerprint |-> Nobody, heard |-> FALSE, seenAt |-> Never]

Slot == [Absent EXCEPT !.status = "offline"]

(***************************************************************************)
(* The fields of call[c]: the request and its position in the code; the    *)
(* position to go to when the reconciliation under way is done; the        *)
(* document it is about; the host that registers; the document as          *)
(* DocUpdate read it; the time it stamped; and the documents its           *)
(* reconciliation still has to mark.                                       *)
(***************************************************************************)
Kinds == {"none", "heartbeat", "sweep", "annotate", "stop", "terminate", "register"}

Positions == {"idle", "scan", "mark", "check", "match", "offline", "create", "sign",
              "read", "write", "restore"}

CallRecords == [kind : Kinds, pc : Positions, ret : Positions, op : Operators,
                host : Hosts \cup {Nobody}, copy : Documents,
                stamp : Times \cup {Never}, pending : SUBSET Operators]

AnyOperator == CHOOSE o \in Operators : TRUE

Idle == [kind |-> "none", pc |-> "idle", ret |-> "idle", op |-> AnyOperator, host |-> Nobody,
         copy |-> Absent, stamp |-> Never, pending |-> {}]

TypeOK ==
    /\ docs \in [Operators -> Documents]
    /\ call \in [Goroutines -> CallRecords]
    /\ clock \in Times

Init ==
    /\ docs = [o \in Operators |-> Absent]
    /\ call = [c \in Goroutines |-> Idle]
    /\ clock = 0

-----------------------------------------------------------------------------
(***************************************************************************)
(* Staleness.                                                              *)
(***************************************************************************)

Silent(doc) ==
    /\ doc.status = "active"
    /\ clock - doc.seenAt > StaleAfter

At(c, kind, pc) == call[c].kind = kind /\ call[c].pc = pc

Goto(c, pc) == call' = [call EXCEPT ![c].pc = pc]

Done(c) == call' = [call EXCEPT ![c] = Idle]

\* What a reconciliation lists: one document for DocGet, all of them for DocQuery.
Scope(record) == IF record.kind \in {"sweep", "register"} THEN Operators ELSE {record.op}

\* The call once its reconciliation still has to mark the documents in found; with none
\* left it continues where the reader wanted to read, or returns.
Reconciling(record, found) ==
    IF found # {} THEN [record EXCEPT !.pending = found, !.pc = "mark"]
    ELSE IF record.ret = "idle" THEN Idle
    ELSE [record EXCEPT !.pending = {}, !.pc = record.ret, !.ret = "idle"]

ScanStale(c) ==
    /\ call[c].pc = "scan"
    /\ call' = [call EXCEPT ![c] = Reconciling(@, {o \in Scope(@) : Silent(docs[o])})]
    /\ UNCHANGED <<docs, clock>>

\* Mutant: the status expected and the status written are swapped.
ConditionalUpdateMutant(o, expected, status) ==
    docs' = [docs EXCEPT ![o].status = IF @ = status THEN expected ELSE @]

\* The statement "set field status where status = expected".
ConditionalUpdate(o, expected, status) ==
    docs' = [docs EXCEPT ![o].status = IF @ = expected THEN status ELSE @]

MarkStale(c, o) ==
    /\ call[c].pc = "mark"
    /\ o \in call[c].pending
    /\ ConditionalUpdate(o, "active", "stale")
    /\ call' = [call EXCEPT ![c] = Reconciling(@, @.pending \ {o})]
    /\ UNCHANGED clock

-----------------------------------------------------------------------------
(***************************************************************************)
(* Requests arrive.                                                        *)
(***************************************************************************)

Start(c, record) ==
    /\ call[c].kind = "none"
    /\ call' = [call EXCEPT ![c] = record]
    /\ UNCHANGED <<docs, clock>>

\* A heartbeat is stamped with the Gateway's clock before the document is read.  It comes over
\* the Operator's connection or over HTTP, so two of one Operator may run beside each other.
ReceiveHeartbeat(c, o) ==
    /\ docs[o].status \notin {"absent", "offline"}
    /\ Start(c, [Idle EXCEPT !.kind = "heartbeat", !.pc = "read", !.op = o, !.stamp = clock])

\* Every other request begins with a read of the collection, which reconciles.
StartReading(c, record) ==
    Start(c, Reconciling(record, {o \in Scope(record) : Silent(docs[o])}))

\* Stop, terminate and the session bindings first load the document with DocGet.
ReceiveRequest(c, o, kind) ==
    /\ docs[o].status \notin {"absent", "offline"}
    /\ StartReading(c, [Idle EXCEPT !.kind = kind, !.op = o,
                                    !.ret = IF kind = "annotate" THEN "read" ELSE "check"])

ReceiveRegistration(c, h) ==
    StartReading(c, [Idle EXCEPT !.kind = "register", !.ret = "match", !.host = h])

\* One tick of the sweep.
StartSweep == StartReading(Sweeper, [Idle EXCEPT !.kind = "sweep"])

-----------------------------------------------------------------------------
(***************************************************************************)
(* The checks between loading a document and updating it.                  *)
(***************************************************************************)

\* A stop is dispatched to an active Operator only; when the dispatch has succeeded
\* MarkOperatorStopped loads the document again, and looks at its owner alone.
CheckStop(c) ==
    /\ At(c, "stop", "check")
    /\ \/ /\ docs[call[c].op].status = "active"
          /\ call' = [call EXCEPT ![c].pc = "scan", ![c].ret = "read"]
       \/ Done(c)
    /\ UNCHANGED <<docs, clock>>

CheckTerminate(c) ==
    /\ At(c, "terminate", "check")
    /\ IF docs[call[c].op].status = "terminated" THEN Done(c) ELSE Goto(c, "read")
    /\ UNCHANGED <<docs, clock>>

\* Mutant: the query for the host's own document also returns terminated ones.
MatchMutant(h) == {o \in Operators : docs[o].fingerprint = h}

Match(h) == {o \in Operators : docs[o].fingerprint = h /\ docs[o].status # "terminated"}

\* Re-enrollment of a host takes its own document.  None is found, or the query fails, which
\* is not told apart.
MatchFingerprint(c) ==
    /\ At(c, "register", "match")
    /\ \/ \E o \in Match(call[c].host) :
             call' = [call EXCEPT ![c].op = o, ![c].pc = "sign"]
       \/ call' = [call EXCEPT ![c].pc = "scan", ![c].ret = "offline"]
    /\ UNCHANGED <<docs, clock>>

\* Mutant: any document of the user that is not active will do for a slot.
FreeSlotsMutant == {o \in Operators : docs[o].status \in {"offline", "stale"}}

FreeSlots == {o \in Operators : docs[o].status = "offline"}

\* A first enrollment takes any slot that is offline; there is none, or the query fails.
MatchOffline(c) ==
    /\ At(c, "register", "offline")
    /\ \/ \E o \in FreeSlots : call' = [call EXCEPT ![c].op = o, ![c].pc = "sign"]
       \/ call' = [call EXCEPT ![c].pc = "scan", ![c].ret = "create"]
    /\ UNCHANGED <<docs, clock>>

CreateSlot(c) ==
    /\ At(c, "register", "create")
    /\ \E o \in Operators :
         /\ docs[o].status = "absent"
         /\ docs' = [docs EXCEPT ![o] = Slot]
         /\ call' = [call EXCEPT ![c].op = o, ![c].pc = "sign"]
    /\ UNCHANGED clock

\* The certificate request is signed, or refused: the slot then stays as it is.
SignCSR(c) ==
    /\ At(c, "register", "sign")
    /\ \/ call' = [call EXCEPT ![c].pc = "read", ![c].stamp = clock]
       \/ Done(c)
    /\ UNCHANGED <<docs, clock>>

-----------------------------------------------------------------------------
(***************************************************************************)
(* DocUpdate.                                                              *)
(***************************************************************************)

\* The document as DocUpdate merges it.
Merged(r) ==
    CASE r.kind = "heartbeat" -> [r.copy EXCEPT !.heard = TRUE, !.seenAt = r.stamp]
      [] r.kind = "stop"      -> [r.copy EXCEPT !.status = "stopped"]
      [] r.kind = "terminate" -> [r.copy EXCEPT !.status = "terminated"]
      [] r.kind = "register"  -> [r.copy EXCEPT !.status = "active", !.fingerprint = r.host,
                                                !.seenAt = IF r.copy.heard THEN @ ELSE r.stamp]
      [] OTHER                -> r.copy

\* SELECT data
ReadDocument(c) ==
    /\ call[c].pc = "read"
    /\ call' = [call EXCEPT ![c].copy = docs[call[c].op], ![c].pc = "write"]
    /\ UNCHANGED <<docs, clock>>

\* UPDATE documents SET data
WriteDocument(c) ==
    /\ call[c].pc = "write"
    /\ docs' = [docs EXCEPT ![call[c].op] = Merged(call[c])]
    /\ IF call[c].kind = "heartbeat" THEN Goto(c, "restore") ELSE Done(c)
    /\ UNCHANGED clock

\* Mutant: the recovery expects the status it is about to write.
RestoreNever(c) ==
    /\ At(c, "heartbeat", "restore")
    /\ ConditionalUpdate(call[c].op, "active", "active")
    /\ Done(c)
    /\ UNCHANGED clock

\* A heartbeat restores a stale Operator, and reports it from a fresh DocGet.
Restore(c) ==
    /\ At(c, "heartbeat", "restore")
    /\ ConditionalUpdate(call[c].op, "stale", "active")
    /\ IF docs[call[c].op].status = "stale"
       THEN call' = [call EXCEPT ![c].pc = "scan", ![c].ret = "idle"]
       ELSE Done(c)
    /\ UNCHANGED clock

Tick ==
    /\ clock < MaxTime
    /\ clock' = clock + 1
    /\ UNCHANGED <<docs, call>>

-----------------------------------------------------------------------------
Arrive(c) ==
    \/ \E o \in Operators :
         \/ ReceiveHeartbeat(c, o)
         \/ \E kind \in {"annotate", "stop", "terminate"} : ReceiveRequest(c, o, kind)
    \/ \E h \in Hosts : ReceiveRegistration(c, h)

Step(c) ==
    \/ ScanStale(c)
    \/ \E o \in Operators : MarkStale(c, o)
    \/ CheckStop(c)
    \/ CheckTerminate(c)
    \/ MatchFingerprint(c)
    \/ MatchOffline(c)
    \/ CreateSlot(c)
    \/ SignCSR(c)
    \/ ReadDocument(c)
    \/ WriteDocument(c)
    \/ Restore(c)

Next ==
    \/ \E c \in Calls : Arrive(c)
    \/ StartSweep
    \/ \E c \in Goroutines : Step(c)
    \/ Tick

Spec == Init /\ [][Next]_vars

\* A goroutine keeps running, and the sweep's ticker keeps firing.
FairSpec ==
    /\ Spec
    /\ WF_vars(StartSweep)
    /\ \A c \in Goroutines : WF_vars(Step(c))

-----------------------------------------------------------------------------
(***************************************************************************)
(* Properties.                                                             *)
(***************************************************************************)

\* The stop request has passed its check and will write whatever it finds.
StopPending(c) == call[c].kind = "stop" /\ (call[c].ret = "read" \/ call[c].pc \in {"read", "write"})

\* A registration has settled on a document and will activate it.
ClaimPending(c) == call[c].kind = "register" /\ call[c].pc \in {"sign", "read", "write"}

\* A request that was decided, or a document that was read, before the termination of o and
\* whose write is still to come.
ThreatensTermination(c, o) ==
    /\ call[c].op = o
    /\ \/ StopPending(c)
       \/ ClaimPending(c)
       \/ call[c].kind \in {"heartbeat", "annotate"} /\ call[c].pc = "write"
          /\ call[c].copy.status # "terminated"

TerminationSettled(o) ==
    /\ docs[o].status = "terminated"
    /\ \A c \in Goroutines : ~ThreatensTermination(c, o)

(***************************************************************************)
(* Termination is final once the requests that were under way have ended:  *)
(* TerminateOperator has no successor state, so from then on no heartbeat, *)
(* sweep, stop, binding or registration, in any interleaving, brings the   *)
(* Operator back (registration_service.go TerminateOperator; the hard gate *)
(* in ValidateOperatorSession relies on it).                               *)
(***************************************************************************)
TerminationFinal ==
    [][\A o \in Operators : TerminationSettled(o) => TerminationSettled(o)']_vars

\* A write to o is under way that would put another host, or an empty slot, in its place.
ThreatensClaim(c, o, h) ==
    /\ call[c].op = o
    /\ \/ ClaimPending(c) /\ call[c].host # h
       \/ call[c].kind # "register" /\ call[c].pc = "write" /\ call[c].copy.fingerprint # h

ClaimSettled(o, h) ==
    /\ docs[o].fingerprint = h
    /\ docs[o].status # "offline"
    /\ \A c \in Goroutines :
         /\ ~ThreatensClaim(c, o, h)
         /\ call[c].op = o /\ call[c].pc = "write" /\ call[c].kind # "register"
              => call[c].copy.status # "offline"

(***************************************************************************)
(* A slot that a host has claimed stays that host's: once the requests     *)
(* that were under way have ended, no registration of another host and no  *)
(* rewrite of the document can hand its Operator id to somebody else       *)
(* (RegisterDeviceCSR's three-step resolution).                            *)
(***************************************************************************)
ClaimFinal ==
    [][\A o \in Operators, h \in Hosts : ClaimSettled(o, h) => ClaimSettled(o, h)']_vars

(***************************************************************************)
(* An Operator that falls silent does not stay active: the sweep marks it, *)
(* or it is heard from again, stopped or terminated, however many stale    *)
(* copies of its document are written back meanwhile                       *)
(* (runOperatorStalenessSweep).                                            *)
(***************************************************************************)
SilentIsNoticed ==
    \A o \in Operators : Silent(docs[o]) ~> ~Silent(docs[o])

(***************************************************************************)
(* A heartbeat that is being handled ends the staleness of its Operator,   *)
(* whatever sweeps, bindings and other heartbeats run beside it            *)
(* (handleHeartbeatPublish).                                               *)
(***************************************************************************)
HeartbeatRecovers ==
    \A o \in Operators :
        (\E c \in Calls : /\ call[c].kind = "heartbeat"
                          /\ call[c].op = o
                          /\ call[c].pc \in {"read", "write", "restore"})
            ~> docs[o].status # "stale"

(***************************************************************************)
(* The comment on the recovery in handleHeartbeatPublish: a stopped or     *)
(* terminated Operator that keeps publishing is never revived.             *)
(***************************************************************************)
NeverRevived ==
    [][\A c \in Calls, o \in Operators :
         /\ call[c].kind = "heartbeat"
         /\ call[c] # call'[c]
         /\ docs[o].status \in {"stopped", "terminated"}
         => docs'[o].status = docs[o].status]_vars

=============================================================================
