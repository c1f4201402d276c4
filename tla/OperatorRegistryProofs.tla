----------------------- MODULE OperatorRegistryProofs -----------------------
(***************************************************************************)
(* A settled termination and a settled claim are final, for every number   *)
(* of Operators, hosts and goroutines.                                     *)
(*                                                                         *)
(* Both properties speak of what goroutines in flight may still write.     *)
(* PathInv rules out that a goroutine gets to a write by another way than  *)
(* through its own read or, for a registration, through the choice of a    *)
(* document; EmptyInv that a claimed document is taken for a missing one.  *)
(***************************************************************************)
EXTENDS OperatorRegistry, TLAPS

PathInv ==
    \A c \in Goroutines :
        /\ call[c].ret # "write"
        /\ call[c].ret = "read" => call[c].kind \in {"annotate", "stop"}
        /\ call[c].pc \in {"read", "write"} =>
             call[c].kind \in {"heartbeat", "annotate", "stop", "terminate", "register"}
        /\ call[c].kind = "register" /\ call[c].pc \in {"scan", "mark"} =>
             call[c].ret \in {"match", "offline", "create"}

EmptyInv ==
    /\ \A o \in Operators : docs[o].status = "absent" => docs[o].fingerprint = Nobody
    /\ \A c \in Goroutines : call[c].copy.status = "absent" => call[c].copy.fingerprint = Nobody

IInv == TypeOK /\ PathInv /\ EmptyInv

-----------------------------------------------------------------------------
LEMMA Constants ==
  /\ AnyOperator \in Operators
  /\ Idle \in CallRecords
  /\ Absent \in Documents /\ Slot \in Documents
  /\ Idle.kind = "none" /\ Idle.pc = "idle" /\ Idle.ret = "idle" /\ Idle.copy = Absent
  /\ Absent.fingerprint = Nobody /\ Slot.status = "offline"
<1>1. AnyOperator \in Operators
  BY RegistryAssumption DEF AnyOperator
<1>2. Absent \in Documents /\ Slot \in Documents /\ Absent.fingerprint = Nobody
      /\ Slot.status = "offline"
  BY DEF Absent, Slot, Documents, Statuses, Never
<1>3. Idle \in CallRecords /\ Idle.kind = "none" /\ Idle.pc = "idle" /\ Idle.ret = "idle"
      /\ Idle.copy = Absent
  BY <1>1, <1>2 DEF Idle, CallRecords, Kinds, Positions
<1> QED BY <1>1, <1>2, <1>3

(* Where a reconciliation leaves its goroutine. *)
LEMMA ReconcilingResult ==
  ASSUME NEW r \in CallRecords, NEW found \in SUBSET Operators
  PROVE  LET q == Reconciling(r, found)
         IN  /\ q \in CallRecords
             /\ \/ q = Idle
                \/ /\ q.kind = r.kind /\ q.op = r.op /\ q.host = r.host /\ q.copy = r.copy
                   /\ \/ q.pc = "mark" /\ q.ret = r.ret
                      \/ q.pc = r.ret /\ q.ret = "idle" /\ r.ret # "idle"
<1>1. CASE found # {}
  <2>1. Reconciling(r, found) = [r EXCEPT !.pending = found, !.pc = "mark"]
    BY <1>1 DEF Reconciling
  <2> QED BY <2>1 DEF CallRecords, Positions
<1>2. CASE found = {} /\ r.ret = "idle"
  BY <1>2, Constants DEF Reconciling
<1>3. CASE found = {} /\ r.ret # "idle"
  <2>1. Reconciling(r, found) = [r EXCEPT !.pending = {}, !.pc = r.ret, !.ret = "idle"]
    BY <1>3 DEF Reconciling
  <2> QED BY <1>3, <2>1 DEF CallRecords, Positions
<1> QED BY <1>1, <1>2, <1>3

LEMMA InitIInv == Init => IInv
<1> SUFFICES ASSUME Init PROVE IInv
  OBVIOUS
<1>1. TypeOK
  BY Constants, RegistryAssumption DEF Init, TypeOK, Times
<1>2. PathInv /\ EmptyInv
  BY Constants DEF Init, PathInv, EmptyInv
<1> QED BY <1>1, <1>2 DEF IInv

(* The records a request can start with. *)
Fresh(q) ==
    \/ q = Idle
    \/ /\ q.copy = Absent
       /\ \/ q.kind = "heartbeat" /\ q.pc = "read" /\ q.ret = "idle"
          \/ q.kind = "annotate" /\ q.pc = "mark" /\ q.ret = "read"
          \/ q.kind = "annotate" /\ q.pc = "read" /\ q.ret = "idle"
          \/ q.kind \in {"stop", "terminate"} /\ q.pc = "mark" /\ q.ret = "check"
          \/ q.kind \in {"stop", "terminate"} /\ q.pc = "check" /\ q.ret = "idle"
          \/ q.kind = "register" /\ q.pc = "mark" /\ q.ret = "match"
          \/ q.kind = "register" /\ q.pc = "match" /\ q.ret = "idle"
          \/ q.kind = "sweep" /\ q.pc = "mark" /\ q.ret = "idle"

Arrives(c, q) == Fresh(q) /\ docs' = docs /\ clock' = clock /\ call' = [call EXCEPT ![c] = q]

LEMMA ArriveCases ==
  ASSUME TypeOK, NEW c \in Calls, Arrive(c)
  PROVE  \E q \in CallRecords : Arrives(c, q)
<1>1. ASSUME NEW o \in Operators, ReceiveHeartbeat(c, o)
      PROVE  \E q \in CallRecords : Arrives(c, q)
  <2> DEFINE r == [Idle EXCEPT !.kind = "heartbeat", !.pc = "read", !.op = o, !.stamp = clock]
  <2>1. /\ r \in CallRecords /\ r.kind = "heartbeat" /\ r.pc = "read" /\ r.ret = "idle"
        /\ r.copy = Absent
    <3>1. clock \in Times /\ Idle \in CallRecords
      BY Constants DEF TypeOK
    <3>2. r \in CallRecords
      BY <3>1 DEF CallRecords, Kinds, Positions
    <3>3. /\ r.kind = "heartbeat" /\ r.pc = "read" /\ r.ret = Idle.ret /\ r.copy = Idle.copy
      BY <3>1 DEF CallRecords
    <3> QED BY <3>2, <3>3, Constants
  <2>2. Start(c, r)
    BY <1>1 DEF ReceiveHeartbeat
  <2> HIDE DEF r
  <2> QED BY <2>1, <2>2 DEF Arrives, Fresh, Start
<1>2. ASSUME NEW o \in Operators, NEW kind \in {"annotate", "stop", "terminate"},
             ReceiveRequest(c, o, kind)
      PROVE  \E q \in CallRecords : Arrives(c, q)
  <2> DEFINE r == [Idle EXCEPT !.kind = kind, !.op = o,
                               !.ret = IF kind = "annotate" THEN "read" ELSE "check"]
             found == {p \in Scope(r) : Silent(docs[p])}
             q == Reconciling(r, found)
  <2>1. /\ r \in CallRecords /\ r.kind = kind /\ r.op = o /\ r.copy = Absent
        /\ r.ret = IF kind = "annotate" THEN "read" ELSE "check"
    <3>1. Idle \in CallRecords /\ Idle.copy = Absent
      BY Constants
    <3>2. kind \in Kinds /\ (IF kind = "annotate" THEN "read" ELSE "check") \in Positions
      BY DEF Kinds, Positions
    <3>3. r \in CallRecords
      BY <3>1, <3>2 DEF CallRecords
    <3>4. /\ r.kind = kind /\ r.op = o /\ r.copy = Idle.copy
          /\ r.ret = IF kind = "annotate" THEN "read" ELSE "check"
      BY <3>1 DEF CallRecords
    <3> QED BY <3>1, <3>3, <3>4
  <2>2. found \in SUBSET Operators
    BY <2>1 DEF Scope
  <2>3. Start(c, q)
    BY <1>2 DEF ReceiveRequest, StartReading
  <2> HIDE DEF r, found
  <2>4. /\ q \in CallRecords
        /\ \/ q = Idle
           \/ /\ q.kind = r.kind /\ q.copy = r.copy
              /\ \/ q.pc = "mark" /\ q.ret = r.ret
                 \/ q.pc = r.ret /\ q.ret = "idle"
    BY <2>1, <2>2, ReconcilingResult
  <2> HIDE DEF q
  <2>5. Fresh(q)
    BY <2>1, <2>4 DEF Fresh
  <2> QED BY <2>3, <2>4, <2>5 DEF Arrives, Start
<1>3. ASSUME NEW h \in Hosts, ReceiveRegistration(c, h)
      PROVE  \E q \in CallRecords : Arrives(c, q)
  <2> DEFINE r == [Idle EXCEPT !.kind = "register", !.ret = "match", !.host = h]
             found == {p \in Scope(r) : Silent(docs[p])}
             q == Reconciling(r, found)
  <2>1. /\ r \in CallRecords /\ r.kind = "register" /\ r.ret = "match" /\ r.copy = Absent
    BY Constants DEF CallRecords, Kinds, Positions
  <2>2. found \in SUBSET Operators
    BY <2>1 DEF Scope
  <2>3. Start(c, q)
    BY <1>3 DEF ReceiveRegistration, StartReading
  <2> HIDE DEF r, found
  <2>4. /\ q \in CallRecords
        /\ \/ q = Idle
           \/ /\ q.kind = r.kind /\ q.copy = r.copy
              /\ \/ q.pc = "mark" /\ q.ret = r.ret
                 \/ q.pc = r.ret /\ q.ret = "idle"
    BY <2>1, <2>2, ReconcilingResult
  <2> HIDE DEF q
  <2>5. Fresh(q)
    BY <2>1, <2>4 DEF Fresh
  <2> QED BY <2>3, <2>4, <2>5 DEF Arrives, Start
<1> QED BY <1>1, <1>2, <1>3 DEF Arrive

LEMMA SweepCases ==
  ASSUME TypeOK, StartSweep PROVE \E q \in CallRecords : Arrives(Sweeper, q)
<1> DEFINE r == [Idle EXCEPT !.kind = "sweep"]
           found == {p \in Scope(r) : Silent(docs[p])}
           q == Reconciling(r, found)
<1>1. r \in CallRecords /\ r.kind = "sweep" /\ r.ret = "idle" /\ r.copy = Absent
  BY Constants DEF CallRecords, Kinds
<1>2. found \in SUBSET Operators
  BY <1>1 DEF Scope
<1>3. Start(Sweeper, q)
  BY DEF StartSweep, StartReading
<1> HIDE DEF r, found
<1>4. /\ q \in CallRecords
      /\ \/ q = Idle
         \/ /\ q.kind = r.kind /\ q.copy = r.copy
            /\ \/ q.pc = "mark" /\ q.ret = r.ret
               \/ q.pc = r.ret /\ q.ret = "idle" /\ r.ret # "idle"
  BY <1>1, <1>2, ReconcilingResult
<1> HIDE DEF q
<1>5. Fresh(q)
  BY <1>1, <1>4 DEF Fresh
<1> QED BY <1>3, <1>4, <1>5 DEF Arrives, Start

-----------------------------------------------------------------------------
(***************************************************************************)
(* What a step of c can do to its own record q and to a document: the      *)
(* cases that the invariants and the two properties distinguish.           *)
(***************************************************************************)
Moved(c, q) == call' = [call EXCEPT ![c] = q]

StatusOnly(d, e) ==
    /\ e.fingerprint = d.fingerprint
    /\ \/ e.status = d.status
       \/ {d.status, e.status} = {"active", "stale"}

(* Reading, marking, restoring: the documents keep their host and change     *)
(* between active and stale at most; the goroutine ends, marks, or goes on   *)
(* where it said it would.                                                   *)
Reads(c, q) ==
    /\ \A o \in Operators : StatusOnly(docs[o], docs'[o])
    /\ \/ q = Idle
       \/ /\ q.kind = call[c].kind /\ q.op = call[c].op /\ q.host = call[c].host
          /\ q.copy = call[c].copy
          /\ \/ q.pc = "mark" /\ q.ret = call[c].ret /\ call[c].pc \in {"scan", "mark"}
             \/ q.pc = call[c].ret /\ q.ret = "idle" /\ call[c].ret # "idle"
                /\ call[c].pc \in {"scan", "mark"}
             \/ q.pc = "scan" /\ q.ret = "idle" /\ call[c].kind = "heartbeat"
             \/ q.pc = "scan" /\ q.ret = "read" /\ call[c].kind = "stop"
                /\ docs[call[c].op].status = "active"
             \/ q.pc = "read" /\ q.ret = call[c].ret /\ call[c].kind = "terminate"
             \/ q.pc = "scan" /\ q.ret \in {"offline", "create"} /\ call[c].kind = "register"

(* A registration settles on a document, or prepares its write. *)
Claims(c, q) ==
    /\ call[c].kind = "register"
    /\ q.kind = "register" /\ q.host = call[c].host /\ q.copy = call[c].copy /\ q.ret = call[c].ret
    /\ \/ /\ q.pc = "sign" /\ docs' = docs
          /\ docs[q.op].fingerprint = q.host /\ docs[q.op].status # "terminated"
       \/ /\ q.pc = "sign" /\ docs' = docs
          /\ docs[q.op].status = "offline"
       \/ /\ q.pc = "sign"
          /\ docs[q.op].status = "absent"
          /\ docs' = [docs EXCEPT ![q.op] = Slot]
       \/ /\ q.pc = "read" /\ q.op = call[c].op /\ docs' = docs
          /\ call[c].pc = "sign"

(* The two statements of DocUpdate. *)
Loads(c, q) ==
    /\ docs' = docs
    /\ call[c].pc = "read"
    /\ q.kind = call[c].kind /\ q.op = call[c].op /\ q.host = call[c].host /\ q.ret = call[c].ret
    /\ q.pc = "write" /\ q.copy = docs[q.op]

Writes(c, q) ==
    /\ call[c].pc = "write"
    /\ docs' = [docs EXCEPT ![call[c].op] = Merged(call[c])]
    /\ \/ q = Idle
       \/ /\ call[c].kind = "heartbeat"
          /\ q.kind = call[c].kind /\ q.op = call[c].op /\ q.copy = call[c].copy
          /\ q.ret = call[c].ret /\ q.pc = "restore"

LEMMA MergedResult ==
  ASSUME NEW r \in CallRecords
  PROVE  /\ Merged(r) \in Documents
         /\ r.kind = "register" => Merged(r).status = "active" /\ Merged(r).fingerprint = r.host
         /\ r.kind = "stop" => Merged(r).status = "stopped"
         /\ r.kind = "terminate" => Merged(r).status = "terminated"
         /\ r.kind \notin {"register", "stop", "terminate"} => Merged(r).status = r.copy.status
         /\ r.kind # "register" => Merged(r).fingerprint = r.copy.fingerprint
<1>1. r.copy \in Documents /\ r.kind \in Kinds /\ r.host \in Hosts \cup {Nobody}
      /\ r.stamp \in Times \cup {Never}
  BY DEF CallRecords
<1>2. CASE r.kind = "heartbeat"
  BY <1>1, <1>2 DEF Merged, Documents
<1>3. CASE r.kind = "stop"
  BY <1>1, <1>3 DEF Merged, Documents, Statuses
<1>4. CASE r.kind = "terminate"
  BY <1>1, <1>4 DEF Merged, Documents, Statuses
<1>5. CASE r.kind = "register"
  BY <1>1, <1>5 DEF Merged, Documents, Statuses
<1>6. CASE r.kind \notin {"heartbeat", "stop", "terminate", "register"}
  BY <1>1, <1>6 DEF Merged
<1> QED BY <1>2, <1>3, <1>4, <1>5, <1>6

LEMMA StepCases ==
  ASSUME IInv, NEW c \in Goroutines, Step(c)
  PROVE  /\ clock' = clock
         /\ docs' \in [Operators -> Documents]
         /\ \E q \in CallRecords :
              Moved(c, q) /\ (Reads(c, q) \/ Claims(c, q) \/ Loads(c, q) \/ Writes(c, q))
<1> DEFINE r == call[c]
<1>0. /\ r \in CallRecords /\ docs \in [Operators -> Documents] /\ r.op \in Operators
      /\ r.pending \in SUBSET Operators /\ clock \in Times
      /\ call \in [Goroutines -> CallRecords]
  BY DEF IInv, TypeOK, CallRecords
<1>a. \A o \in Operators : StatusOnly(docs[o], docs[o])
  BY DEF StatusOnly
<1>1. CASE ScanStale(c)
  <2> DEFINE found == {o \in Scope(r) : Silent(docs[o])}
             q == Reconciling(r, found)
  <2>1. found \in SUBSET Operators
    BY <1>0 DEF Scope
  <2>2. docs' = docs /\ clock' = clock /\ Moved(c, q) /\ r.pc = "scan"
    BY <1>1 DEF ScanStale, Moved
  <2> HIDE DEF found
  <2>3. q \in CallRecords /\ Reads(c, q)
    BY <1>0, <1>a, <2>1, <2>2, ReconcilingResult DEF Reads
  <2> QED BY <1>0, <2>2, <2>3
<1>2. ASSUME NEW o \in Operators, MarkStale(c, o)
      PROVE  /\ clock' = clock
             /\ docs' \in [Operators -> Documents]
             /\ \E q \in CallRecords : Moved(c, q) /\ Reads(c, q)
  <2> DEFINE found == r.pending \ {o}
             q == Reconciling(r, found)
  <2>1. found \in SUBSET Operators
    BY <1>0
  <2>2. /\ docs' = [docs EXCEPT ![o].status = IF @ = "active" THEN "stale" ELSE @]
        /\ clock' = clock /\ Moved(c, q) /\ r.pc = "mark"
    BY <1>2 DEF MarkStale, Moved, ConditionalUpdate
  <2>3. docs' \in [Operators -> Documents] /\ \A p \in Operators : StatusOnly(docs[p], docs'[p])
    BY <1>0, <2>2 DEF StatusOnly, Documents, Statuses
  <2> HIDE DEF found
  <2>4. q \in CallRecords /\ Reads(c, q)
    BY <1>0, <2>1, <2>2, <2>3, ReconcilingResult DEF Reads
  <2> QED BY <2>2, <2>3, <2>4
<1>3. CASE CheckStop(c)
  <2>0. docs' = docs /\ clock' = clock /\ r.kind = "stop"
    BY <1>3 DEF CheckStop, At
  <2>1. CASE Done(c)
    <3>1. Moved(c, Idle) /\ Reads(c, Idle)
      BY <1>a, <2>0, <2>1 DEF Done, Moved, Reads
    <3> QED BY <1>0, <2>0, <3>1, Constants
  <2>2. CASE /\ docs[r.op].status = "active"
             /\ call' = [call EXCEPT ![c].pc = "scan", ![c].ret = "read"]
    <3> DEFINE q == [r EXCEPT !.pc = "scan", !.ret = "read"]
    <3>1. q \in CallRecords /\ Moved(c, q)
      BY <1>0, <2>2 DEF CallRecords, Positions, Moved
    <3>2. Reads(c, q)
      BY <1>0, <1>a, <2>0, <2>2 DEF Reads, CallRecords
    <3> QED BY <1>0, <2>0, <3>1, <3>2
  <2> QED BY <1>3, <2>1, <2>2 DEF CheckStop
<1>4. CASE CheckTerminate(c)
  <2>0. docs' = docs /\ clock' = clock /\ r.kind = "terminate"
    BY <1>4 DEF CheckTerminate, At
  <2>1. CASE Done(c)
    <3>1. Moved(c, Idle) /\ Reads(c, Idle)
      BY <1>a, <2>0, <2>1 DEF Done, Moved, Reads
    <3> QED BY <1>0, <2>0, <3>1, Constants
  <2>2. CASE Goto(c, "read")
    <3> DEFINE q == [r EXCEPT !.pc = "read"]
    <3>1. q \in CallRecords /\ Moved(c, q)
      BY <1>0, <2>2 DEF CallRecords, Positions, Moved, Goto
    <3>2. Reads(c, q)
      BY <1>0, <1>a, <2>0 DEF Reads, CallRecords
    <3> QED BY <1>0, <2>0, <3>1, <3>2
  <2> QED BY <1>4, <2>1, <2>2 DEF CheckTerminate
<1>5. CASE MatchFingerprint(c)
  <2>0. docs' = docs /\ clock' = clock /\ r.kind = "register"
    BY <1>5 DEF MatchFingerprint, At
  <2>1. ASSUME NEW o \in Match(r.host), call' = [call EXCEPT ![c].op = o, ![c].pc = "sign"]
        PROVE  \E q \in CallRecords : Moved(c, q) /\ Claims(c, q)
    <3> DEFINE q == [r EXCEPT !.op = o, !.pc = "sign"]
    <3>1. o \in Operators /\ docs[o].fingerprint = r.host /\ docs[o].status # "terminated"
      BY DEF Match
    <3>2. q \in CallRecords /\ Moved(c, q)
      BY <1>0, <2>1, <3>1 DEF CallRecords, Positions, Moved
    <3>3. Claims(c, q)
      BY <1>0, <2>0, <3>1 DEF Claims, CallRecords
    <3> QED BY <3>2, <3>3
  <2>2. CASE call' = [call EXCEPT ![c].pc = "scan", ![c].ret = "offline"]
    <3> DEFINE q == [r EXCEPT !.pc = "scan", !.ret = "offline"]
    <3>1. q \in CallRecords /\ Moved(c, q)
      BY <1>0, <2>2 DEF CallRecords, Positions, Moved
    <3>2. Reads(c, q)
      BY <1>0, <1>a, <2>0 DEF Reads, CallRecords
    <3> QED BY <1>0, <2>0, <3>1, <3>2
  <2> QED BY <1>0, <1>5, <2>0, <2>1, <2>2 DEF MatchFingerprint
<1>6. CASE MatchOffline(c)
  <2>0. docs' = docs /\ clock' = clock /\ r.kind = "register"
    BY <1>6 DEF MatchOffline, At
  <2>1. ASSUME NEW o \in FreeSlots, call' = [call EXCEPT ![c].op = o, ![c].pc = "sign"]
        PROVE  \E q \in CallRecords : Moved(c, q) /\ Claims(c, q)
    <3> DEFINE q == [r EXCEPT !.op = o, !.pc = "sign"]
    <3>1. o \in Operators /\ docs[o].status = "offline"
      BY DEF FreeSlots
    <3>2. q \in CallRecords /\ Moved(c, q)
      BY <1>0, <2>1, <3>1 DEF CallRecords, Positions, Moved
    <3>3. Claims(c, q)
      BY <1>0, <2>0, <3>1 DEF Claims, CallRecords
    <3> QED BY <3>2, <3>3
  <2>2. CASE call' = [call EXCEPT ![c].pc = "scan", ![c].ret = "create"]
    <3> DEFINE q == [r EXCEPT !.pc = "scan", !.ret = "create"]
    <3>1. q \in CallRecords /\ Moved(c, q)
      BY <1>0, <2>2 DEF CallRecords, Positions, Moved
    <3>2. Reads(c, q)
      BY <1>0, <1>a, <2>0 DEF Reads, CallRecords
    <3> QED BY <1>0, <2>0, <3>1, <3>2
  <2> QED BY <1>0, <1>6, <2>0, <2>1, <2>2 DEF MatchOffline
<1>7. CASE CreateSlot(c)
  <2>1. PICK o \in Operators :
          /\ docs[o].status = "absent"
          /\ docs' = [docs EXCEPT ![o] = Slot]
          /\ call' = [call EXCEPT ![c].op = o, ![c].pc = "sign"]
    BY <1>7 DEF CreateSlot
  <2> DEFINE q == [r EXCEPT !.op = o, !.pc = "sign"]
  <2>2. clock' = clock /\ r.kind = "register" /\ docs' \in [Operators -> Documents]
    BY <1>0, <1>7, <2>1, Constants DEF CreateSlot, At
  <2>3. q \in CallRecords /\ Moved(c, q)
    BY <1>0, <2>1 DEF CallRecords, Positions, Moved
  <2>4. Claims(c, q)
    BY <1>0, <2>1, <2>2 DEF Claims, CallRecords
  <2> QED BY <2>2, <2>3, <2>4
<1>8. CASE SignCSR(c)
  <2>0. docs' = docs /\ clock' = clock /\ r.kind = "register" /\ r.pc = "sign"
    BY <1>8 DEF SignCSR, At
  <2>1. CASE Done(c)
    <3>1. Moved(c, Idle) /\ Reads(c, Idle)
      BY <1>a, <2>0, <2>1 DEF Done, Moved, Reads
    <3> QED BY <1>0, <2>0, <3>1, Constants
  <2>2. CASE call' = [call EXCEPT ![c].pc = "read", ![c].stamp = clock]
    <3> DEFINE q == [r EXCEPT !.pc = "read", !.stamp = clock]
    <3>1. q \in CallRecords /\ Moved(c, q)
      BY <1>0, <2>2 DEF CallRecords, Positions, Moved
    <3>2. Claims(c, q)
      BY <1>0, <2>0 DEF Claims, CallRecords
    <3> QED BY <1>0, <2>0, <3>1, <3>2
  <2> QED BY <1>8, <2>1, <2>2 DEF SignCSR
<1>9. CASE ReadDocument(c)
  <2> DEFINE q == [r EXCEPT !.copy = docs[r.op], !.pc = "write"]
  <2>1. docs' = docs /\ clock' = clock /\ r.pc = "read"
    BY <1>9 DEF ReadDocument
  <2>2. q \in CallRecords /\ Moved(c, q)
    BY <1>0, <1>9 DEF CallRecords, Positions, Moved, ReadDocument
  <2>3. Loads(c, q)
    BY <1>0, <2>1 DEF Loads, CallRecords
  <2> QED BY <1>0, <2>1, <2>2, <2>3
<1>10. CASE WriteDocument(c)
  <2>1. /\ clock' = clock /\ r.pc = "write"
        /\ docs' = [docs EXCEPT ![r.op] = Merged(r)]
    BY <1>10 DEF WriteDocument
  <2>2. docs' \in [Operators -> Documents]
    BY <1>0, <2>1, MergedResult
  <2>3. CASE Done(c)
    <3>1. Moved(c, Idle) /\ Writes(c, Idle)
      BY <2>1, <2>3 DEF Done, Moved, Writes
    <3> QED BY <2>1, <2>2, <3>1, Constants
  <2>4. CASE r.kind = "heartbeat" /\ Goto(c, "restore")
    <3> DEFINE q == [r EXCEPT !.pc = "restore"]
    <3>1. q \in CallRecords /\ Moved(c, q)
      BY <1>0, <2>4 DEF CallRecords, Positions, Moved, Goto
    <3>2. Writes(c, q)
      BY <1>0, <2>1, <2>4 DEF Writes, CallRecords
    <3> QED BY <2>1, <2>2, <3>1, <3>2
  <2> QED BY <1>10, <2>3, <2>4 DEF WriteDocument
<1>11. CASE Restore(c)
  <2>0. /\ docs' = [docs EXCEPT ![r.op].status = IF @ = "stale" THEN "active" ELSE @]
        /\ clock' = clock /\ r.kind = "heartbeat"
    BY <1>11 DEF Restore, At, ConditionalUpdate
  <2>a. docs' \in [Operators -> Documents] /\ \A p \in Operators : StatusOnly(docs[p], docs'[p])
    BY <1>0, <2>0 DEF StatusOnly, Documents, Statuses
  <2>1. CASE Done(c)
    <3>1. Moved(c, Idle) /\ Reads(c, Idle)
      BY <2>a, <2>1 DEF Done, Moved, Reads
    <3> QED BY <2>0, <2>a, <3>1, Constants
  <2>2. CASE call' = [call EXCEPT ![c].pc = "scan", ![c].ret = "idle"]
    <3> DEFINE q == [r EXCEPT !.pc = "scan", !.ret = "idle"]
    <3>1. q \in CallRecords /\ Moved(c, q)
      BY <1>0, <2>2 DEF CallRecords, Positions, Moved
    <3>2. Reads(c, q)
      BY <1>0, <2>0, <2>a DEF Reads, CallRecords
    <3> QED BY <2>0, <2>a, <3>1, <3>2
  <2> QED BY <1>11, <2>1, <2>2 DEF Restore
<1> HIDE DEF r
<1> QED BY <1>1, <1>2, <1>3, <1>4, <1>5, <1>6, <1>7, <1>8, <1>9, <1>10, <1>11 DEF Step

-----------------------------------------------------------------------------
(***************************************************************************)
(* The inductive invariant.                                                *)
(***************************************************************************)
LEMMA ArrivesIInv ==
  ASSUME IInv, NEW c \in Goroutines, NEW q \in CallRecords, Arrives(c, q) PROVE IInv'
<1>1. TypeOK'
  BY DEF IInv, TypeOK, Arrives
<1>2. PathInv'
  BY Constants DEF IInv, TypeOK, PathInv, Arrives, Fresh
<1>3. EmptyInv'
  BY Constants DEF IInv, TypeOK, EmptyInv, Arrives, Fresh
<1> QED BY <1>1, <1>2, <1>3 DEF IInv

LEMMA StepIInv ==
  ASSUME IInv, NEW c \in Goroutines, Step(c) PROVE IInv'
<1>1. PICK q \in CallRecords :
        Moved(c, q) /\ (Reads(c, q) \/ Claims(c, q) \/ Loads(c, q) \/ Writes(c, q))
  BY StepCases
<1>0. /\ docs \in [Operators -> Documents] /\ call \in [Goroutines -> CallRecords]
      /\ docs' \in [Operators -> Documents] /\ clock' = clock
      /\ call[c] \in CallRecords /\ call[c].op \in Operators /\ q.op \in Operators
  BY StepCases DEF IInv, TypeOK, CallRecords
<1>a. TypeOK'
  BY <1>0, <1>1 DEF IInv, TypeOK, Moved
<1>b. call' = [call EXCEPT ![c] = q]
  BY <1>1 DEF Moved
<1>c. PathInv'
  <2>1. /\ q.ret # "write"
        /\ q.ret = "read" => q.kind \in {"annotate", "stop"}
        /\ q.pc \in {"read", "write"} =>
             q.kind \in {"heartbeat", "annotate", "stop", "terminate", "register"}
        /\ q.kind = "register" /\ q.pc \in {"scan", "mark"} =>
             q.ret \in {"match", "offline", "create"}
    <3>0. /\ call[c].ret # "write"
          /\ call[c].ret = "read" => call[c].kind \in {"annotate", "stop"}
          /\ call[c].pc \in {"read", "write"} =>
               call[c].kind \in {"heartbeat", "annotate", "stop", "terminate", "register"}
          /\ call[c].kind = "register" /\ call[c].pc \in {"scan", "mark"} =>
               call[c].ret \in {"match", "offline", "create"}
      BY DEF IInv, PathInv
    <3>1. CASE Reads(c, q)
      BY <3>0, <3>1, Constants DEF Reads
    <3>2. CASE Claims(c, q)
      BY <3>0, <3>2 DEF Claims
    <3>3. CASE Loads(c, q)
      BY <3>0, <3>3 DEF Loads
    <3>4. CASE Writes(c, q)
      BY <3>0, <3>4, Constants DEF Writes
    <3> QED BY <1>1, <3>1, <3>2, <3>3, <3>4
  <2> QED BY <1>0, <1>b, <2>1 DEF IInv, PathInv
<1>d. EmptyInv'
  <2>0. /\ \A o \in Operators : docs[o].status = "absent" => docs[o].fingerprint = Nobody
        /\ \A d \in Goroutines : call[d].copy.status = "absent" => call[d].copy.fingerprint = Nobody
    BY DEF IInv, EmptyInv
  <2>1. q.copy.status = "absent" => q.copy.fingerprint = Nobody
    <3>1. CASE Loads(c, q)
      BY <1>0, <2>0, <3>1 DEF Loads
    <3>2. CASE q = Idle \/ q.copy = call[c].copy
      BY <2>0, <3>2, Constants
    <3> QED BY <1>1, <3>1, <3>2 DEF Reads, Claims, Writes
  <2>2. ASSUME NEW o \in Operators, docs'[o].status = "absent"
        PROVE  docs'[o].fingerprint = Nobody
    <3>1. CASE Reads(c, q)
      BY <2>0, <2>2, <3>1 DEF Reads, StatusOnly
    <3>2. CASE Claims(c, q)
      BY <1>0, <2>0, <2>2, <3>2, Constants DEF Claims
    <3>3. CASE Loads(c, q)
      BY <2>0, <2>2, <3>3 DEF Loads
    <3>4. CASE Writes(c, q)
      <4>1. CASE o = call[c].op
        BY <1>0, <2>0, <2>2, <3>4, <4>1, MergedResult DEF Writes
      <4>2. CASE o # call[c].op
        BY <1>0, <2>0, <2>2, <3>4, <4>2 DEF Writes
      <4> QED BY <4>1, <4>2
    <3> QED BY <1>1, <3>1, <3>2, <3>3, <3>4
  <2> QED BY <1>0, <1>b, <2>0, <2>1, <2>2 DEF EmptyInv
<1> QED BY <1>a, <1>c, <1>d DEF IInv

LEMMA NextCases ==
  ASSUME IInv, [Next]_vars
  PROVE  \/ docs' = docs /\ call' = call
         \/ \E c \in Goroutines, q \in CallRecords :
              Moved(c, q) /\ (\/ Arrives(c, q) \/ Reads(c, q) \/ Claims(c, q)
                              \/ Loads(c, q) \/ Writes(c, q))
<1>1. ASSUME NEW c \in Calls, Arrive(c)
      PROVE  \E q \in CallRecords : Moved(c, q) /\ Arrives(c, q)
  BY <1>1, ArriveCases DEF IInv, Arrives, Moved
<1>2. ASSUME StartSweep PROVE \E q \in CallRecords : Moved(Sweeper, q) /\ Arrives(Sweeper, q)
  BY <1>2, SweepCases DEF IInv, Arrives, Moved
<1>3. ASSUME NEW c \in Goroutines, Step(c)
      PROVE  \E q \in CallRecords :
               Moved(c, q) /\ (Reads(c, q) \/ Claims(c, q) \/ Loads(c, q) \/ Writes(c, q))
  BY <1>3, StepCases
<1>4. CASE Tick \/ UNCHANGED vars
  BY <1>4 DEF Tick, vars
<1>5. Calls \subseteq Goroutines /\ Sweeper \in Goroutines
  BY DEF Goroutines
<1> QED BY <1>1, <1>2, <1>3, <1>4, <1>5 DEF Next

LEMMA SpecIInv == Spec => []IInv
<1>1. ASSUME IInv, [Next]_vars PROVE IInv'
  <2>0. Calls \subseteq Goroutines /\ Sweeper \in Goroutines /\ TypeOK
    BY <1>1 DEF Goroutines, IInv
  <2>1. ASSUME NEW c \in Calls, Arrive(c) PROVE IInv'
    BY <1>1, <2>0, <2>1, ArriveCases, ArrivesIInv
  <2>2. CASE StartSweep
    BY <1>1, <2>0, <2>2, SweepCases, ArrivesIInv
  <2>3. ASSUME NEW c \in Goroutines, Step(c) PROVE IInv'
    BY <1>1, <2>3, StepIInv
  <2>4. CASE Tick
    BY <1>1, <2>4, RegistryAssumption DEF Tick, IInv, TypeOK, PathInv, EmptyInv, Times
  <2>5. CASE UNCHANGED vars
    BY <1>1, <2>5 DEF vars, IInv, TypeOK, PathInv, EmptyInv
  <2> QED BY <1>1, <2>1, <2>2, <2>3, <2>4, <2>5 DEF Next
<1> QED BY <1>1, InitIInv, PTL DEF Spec

(***************************************************************************)
(* Documents and goroutines keep their types: in particular a merged       *)
(* document has a status that every reader knows.                          *)
(***************************************************************************)
THEOREM RegistryTypeCorrect == Spec => []TypeOK
<1>1. IInv => TypeOK
  BY DEF IInv
<1> QED BY <1>1, SpecIInv, PTL

-----------------------------------------------------------------------------
LEMMA TerminationStep ==
  ASSUME IInv, [Next]_vars, NEW o \in Operators, TerminationSettled(o)
  PROVE  TerminationSettled(o)'
<1>1. CASE docs' = docs /\ call' = call
  BY <1>1 DEF TerminationSettled, ThreatensTermination, StopPending, ClaimPending
<1>2. ASSUME NEW c \in Goroutines, NEW q \in CallRecords, Moved(c, q),
             Arrives(c, q) \/ Reads(c, q) \/ Claims(c, q) \/ Loads(c, q) \/ Writes(c, q)
      PROVE  TerminationSettled(o)'
  <2> DEFINE r == call[c]
  <2>0. /\ docs \in [Operators -> Documents] /\ call \in [Goroutines -> CallRecords]
        /\ r \in CallRecords /\ r.op \in Operators /\ q.op \in Operators
        /\ docs[o].status = "terminated"
        /\ call' = [call EXCEPT ![c] = q]
    BY <1>2 DEF IInv, TypeOK, CallRecords, TerminationSettled, Moved
  <2>1. r.op = o =>
          /\ ~(r.kind = "stop" /\ (r.ret = "read" \/ r.pc \in {"read", "write"}))
          /\ ~(r.kind = "register" /\ r.pc \in {"sign", "read", "write"})
          /\ r.kind \in {"heartbeat", "annotate"} /\ r.pc = "write" => r.copy.status = "terminated"
    BY DEF TerminationSettled, ThreatensTermination, StopPending, ClaimPending
  <2>2. /\ r.ret # "write" /\ (r.ret = "read" => r.kind \in {"annotate", "stop"})
        /\ r.pc \in {"read", "write"} =>
             r.kind \in {"heartbeat", "annotate", "stop", "terminate", "register"}
        /\ r.kind = "register" /\ r.pc \in {"scan", "mark"} =>
             r.ret \in {"match", "offline", "create"}
    BY DEF IInv, PathInv
  <2>3. docs'[o].status = "terminated"
    <3>1. CASE Arrives(c, q) \/ Loads(c, q)
      BY <2>0, <3>1 DEF Arrives, Loads
    <3>2. CASE Reads(c, q)
      BY <2>0, <3>2 DEF Reads, StatusOnly
    <3>3. CASE Claims(c, q)
      BY <2>0, <3>3 DEF Claims
    <3>4. CASE Writes(c, q)
      BY <2>0, <2>1, <2>2, <3>4, MergedResult DEF Writes
    <3> QED BY <1>2, <3>1, <3>2, <3>3, <3>4
  <2> HIDE DEF r
  <2>4. q.op = o =>
          /\ ~(q.kind = "stop" /\ (q.ret = "read" \/ q.pc \in {"read", "write"}))
          /\ ~(q.kind = "register" /\ q.pc \in {"sign", "read", "write"})
          /\ ~(q.kind \in {"heartbeat", "annotate"} /\ q.pc = "write"
               /\ q.copy.status # "terminated")
    <3>1. CASE Arrives(c, q)
      BY <3>1, Constants DEF Arrives, Fresh
    <3>2. CASE Reads(c, q)
      BY <2>0, <2>1, <2>2, <3>2, Constants DEF Reads, r
    <3>3. CASE Claims(c, q)
      BY <2>0, <2>1, <3>3 DEF Claims, r
    <3>4. CASE Loads(c, q)
      BY <2>0, <2>1, <3>4 DEF Loads, r
    <3>5. CASE Writes(c, q)
      BY <2>1, <3>5, Constants DEF Writes, r
    <3> QED BY <1>2, <3>1, <3>2, <3>3, <3>4, <3>5
  <2>5. ASSUME NEW d \in Goroutines PROVE ~ThreatensTermination(d, o)'
    <3>1. CASE d = c
      BY <2>0, <2>4, <3>1 DEF ThreatensTermination, StopPending, ClaimPending
    <3>2. CASE d # c
      <4>1. call'[d] = call[d] /\ ~ThreatensTermination(d, o)
        BY <2>0, <3>2 DEF TerminationSettled
      <4> QED BY <4>1 DEF ThreatensTermination, StopPending, ClaimPending
    <3> QED BY <3>1, <3>2
  <2> QED BY <2>3, <2>5 DEF TerminationSettled
<1> QED BY <1>1, <1>2, NextCases

(***************************************************************************)
(* For every set of Operators, hosts and goroutines: once the requests     *)
(* decided before a termination have ended, no interleaving of heartbeats, *)
(* sweeps, stops, bindings and registrations undoes it.                    *)
(***************************************************************************)
THEOREM RegistryTerminationFinal == Spec => TerminationFinal
<1>1. ASSUME IInv, [Next]_vars
      PROVE  [\A o \in Operators : TerminationSettled(o) => TerminationSettled(o)']_vars
  BY <1>1, TerminationStep
<1> QED BY <1>1, SpecIInv, PTL DEF Spec, TerminationFinal

-----------------------------------------------------------------------------
LEMMA ClaimStep ==
  ASSUME IInv, [Next]_vars, NEW o \in Operators, NEW h \in Hosts, ClaimSettled(o, h)
  PROVE  ClaimSettled(o, h)'
<1>1. CASE docs' = docs /\ call' = call
  BY <1>1 DEF ClaimSettled, ThreatensClaim, ClaimPending
<1>2. ASSUME NEW c \in Goroutines, NEW q \in CallRecords, Moved(c, q),
             Arrives(c, q) \/ Reads(c, q) \/ Claims(c, q) \/ Loads(c, q) \/ Writes(c, q)
      PROVE  ClaimSettled(o, h)'
  <2> DEFINE r == call[c]
  <2>0. /\ docs \in [Operators -> Documents] /\ call \in [Goroutines -> CallRecords]
        /\ r \in CallRecords /\ r.op \in Operators /\ q.op \in Operators
        /\ docs[o].fingerprint = h /\ docs[o].status # "offline"
        /\ docs[o].status # "absent"
        /\ call' = [call EXCEPT ![c] = q]
    BY <1>2, RegistryAssumption DEF IInv, TypeOK, CallRecords, ClaimSettled, Moved, EmptyInv
  <2>1. r.op = o =>
          /\ r.kind = "register" /\ r.pc \in {"sign", "read", "write"} => r.host = h
          /\ r.kind # "register" /\ r.pc = "write" =>
               r.copy.fingerprint = h /\ r.copy.status # "offline"
    BY DEF ClaimSettled, ThreatensClaim, ClaimPending
  <2>2. /\ r.ret # "write" /\ (r.ret = "read" => r.kind \in {"annotate", "stop"})
        /\ r.kind = "register" /\ r.pc \in {"scan", "mark"} =>
             r.ret \in {"match", "offline", "create"}
    BY DEF IInv, PathInv
  <2>3. docs'[o].fingerprint = h /\ docs'[o].status # "offline"
    <3>1. CASE Arrives(c, q) \/ Loads(c, q)
      BY <2>0, <3>1 DEF Arrives, Loads
    <3>2. CASE Reads(c, q)
      BY <2>0, <3>2 DEF Reads, StatusOnly
    <3>3. CASE Claims(c, q)
      BY <2>0, <3>3 DEF Claims
    <3>4. CASE Writes(c, q)
      BY <2>0, <2>1, <3>4, MergedResult DEF Writes
    <3> QED BY <1>2, <3>1, <3>2, <3>3, <3>4
  <2> HIDE DEF r
  <2>4. q.op = o =>
          /\ q.kind = "register" /\ q.pc \in {"sign", "read", "write"} => q.host = h
          /\ q.kind # "register" /\ q.pc = "write" =>
               q.copy.fingerprint = h /\ q.copy.status # "offline"
    <3>1. CASE Arrives(c, q)
      BY <3>1, Constants DEF Arrives, Fresh
    <3>2. CASE Reads(c, q)
      BY <2>0, <2>1, <2>2, <3>2, Constants DEF Reads, r
    <3>3. CASE Claims(c, q)
      BY <2>0, <2>1, <3>3 DEF Claims, r
    <3>4. CASE Loads(c, q)
      BY <2>0, <2>1, <3>4 DEF Loads, r
    <3>5. CASE Writes(c, q)
      BY <2>1, <3>5, Constants DEF Writes, r
    <3> QED BY <1>2, <3>1, <3>2, <3>3, <3>4, <3>5
  <2>5. ASSUME NEW d \in Goroutines
        PROVE  /\ ~ThreatensClaim(d, o, h)'
               /\ call'[d].op = o /\ call'[d].pc = "write" /\ call'[d].kind # "register"
                    => call'[d].copy.status # "offline"
    <3>1. CASE d = c
      BY <2>0, <2>4, <3>1 DEF ThreatensClaim, ClaimPending
    <3>2. CASE d # c
      <4>1. /\ call'[d] = call[d] /\ ~ThreatensClaim(d, o, h)
            /\ call[d].op = o /\ call[d].pc = "write" /\ call[d].kind # "register"
                 => call[d].copy.status # "offline"
        BY <2>0, <3>2 DEF ClaimSettled
      <4> QED BY <4>1 DEF ThreatensClaim, ClaimPending
    <3> QED BY <3>1, <3>2
  <2> QED BY <2>3, <2>5 DEF ClaimSettled
<1> QED BY <1>1, <1>2, NextCases

(***************************************************************************)
(* For every set of Operators, hosts and goroutines: a document that a     *)
(* host has claimed stays that host's once the requests under way have     *)
(* ended.                                                                  *)
(***************************************************************************)
THEOREM RegistryClaimFinal == Spec => ClaimFinal
<1>1. ASSUME IInv, [Next]_vars
      PROVE  [\A o \in Operators, h \in Hosts :
                ClaimSettled(o, h) => ClaimSettled(o, h)']_vars
  BY <1>1, ClaimStep
<1> QED BY <1>1, SpecIInv, PTL DEF Spec, ClaimFinal

=============================================================================
