----------------------------- MODULE AuditIngest -----------------------------
(***************************************************************************)
(* Ingestion of audit records: a Gateway request publishes a record on the *)
(* audit channel of an Operator session and waits for an acknowledgement   *)
(* on the results channel; the Operator's listener looks the record up by  *)
(* its idempotency key, appends it to the audit chain and acknowledges.    *)
(*                                                                         *)
(* The transport is the Gateway's pub/sub broker: a bounded buffer per     *)
(* connection that drops its oldest message, connections that break with   *)
(* messages in them, and no redelivery.  Callers time out and retry with   *)
(* the same key, so a record may be in flight several times.               *)
(***************************************************************************)
EXTENDS Naturals, Sequences

CONSTANTS
    Caller,         \* calls of Ingest, retries included
    Key,            \* idempotency keys
    Cap             \* capacity of the connection's buffer

ASSUME IngestAssumption == Cap \in Nat \ {0}

VARIABLES
    pc,             \* where each call of Ingest is
    keyOf,          \* its idempotency key
    slot,           \* its ackCh: the acknowledged sequence number, 0 if none
    connected,      \* whether the Operator is subscribed
    buffer,         \* records on their way to the Operator, as the calls that sent them
    listener,       \* the records being handled
    acks,           \* acknowledgements on their way to the Gateway, equal ones merged
    log,            \* the Operator's audit chain, as the keys of its rows
    lost            \* the calls whose record was dropped on its way (observed only)

vars == <<pc, keyOf, slot, connected, buffer, listener, acks, log, lost>>
calls == <<pc, keyOf, slot>>

Returned == {"ok", "timeout", "noDelivery"}
Waiting  == {"registered", "wait"}
Steps    == {"lookup", "append", "ack"}
Acks     == [key : Key, seq : Nat]

TypeOK ==
    /\ pc \in [Caller -> {"idle"} \cup Waiting \cup Returned]
    /\ keyOf \in [Caller -> Key]
    /\ slot \in [Caller -> Nat]
    /\ connected \in BOOLEAN
    /\ buffer \in Seq(Caller) /\ Len(buffer) <= Cap
    /\ listener \subseteq [from : Caller, at : Steps, seq : Nat]
    /\ acks \subseteq Acks
    /\ log \in Seq(Key)
    /\ lost \subseteq Caller

Init ==
    /\ pc = [c \in Caller |-> "idle"]
    /\ keyOf \in [Caller -> Key]
    /\ slot = [c \in Caller |-> 0]
    /\ connected = TRUE
    /\ buffer = <<>>
    /\ listener = {}
    /\ acks = {}
    /\ log = <<>>
    /\ lost = {}

(***************************************************************************)
(* The Gateway: Ingest.                                                    *)
(***************************************************************************)

(* The handler is registered before the record is published. *)
Register(c) ==
    /\ pc[c] = "idle"
    /\ pc' = [pc EXCEPT ![c] = "registered"]
    /\ UNCHANGED <<keyOf, slot, connected, buffer, listener, acks, log, lost>>

(* Mutant: a full buffer overflows. *)
EnqueueUnbounded(c) == Append(buffer, c)

(* dropOldestBuf.send. *)
Enqueue(c) ==
    IF Len(buffer) < Cap THEN Append(buffer, c) ELSE Append(Tail(buffer), c)

PublishRecord(c) ==
    /\ pc[c] = "registered"
    /\ \/ /\ connected
          /\ buffer' = Enqueue(c)
          /\ lost' = lost \cup (IF Len(buffer) < Cap THEN {} ELSE {Head(buffer)})
          /\ pc' = [pc EXCEPT ![c] = "wait"]
       \/ /\ ~connected
          /\ pc' = [pc EXCEPT ![c] = "noDelivery"]
          /\ UNCHANGED <<buffer, lost>>
    /\ UNCHANGED <<keyOf, slot, connected, listener, acks, log>>

(* The select of Ingest: the acknowledgement or ten seconds. *)
ReturnAck(c) ==
    /\ pc[c] = "wait"
    /\ slot[c] # 0
    /\ pc' = [pc EXCEPT ![c] = "ok"]
    /\ UNCHANGED <<keyOf, slot, connected, buffer, listener, acks, log, lost>>

Timeout(c) ==
    /\ pc[c] = "wait"
    /\ pc' = [pc EXCEPT ![c] = "timeout"]
    /\ UNCHANGED <<keyOf, slot, connected, buffer, listener, acks, log, lost>>

(* Mutant: the handler takes any acknowledgement of the channel. *)
AcceptsAny(c, a) == pc[c] \in Waiting /\ slot[c] = 0

(* The handler each call has registered: its own key, the first one only. *)
Accepts(c, a) == pc[c] \in Waiting /\ slot[c] = 0 /\ keyOf[c] = a.key

(* A publish whose write fails is repeated on a new connection, so the same  *)
(* acknowledgement may arrive again.                                         *)
DeliverAck(a) ==
    /\ a \in acks
    /\ acks' \in {acks, acks \ {a}}
    /\ slot' = [c \in Caller |-> IF Accepts(c, a) THEN a.seq ELSE slot[c]]
    /\ UNCHANGED <<pc, keyOf, connected, buffer, listener, log, lost>>

(***************************************************************************)
(* The Operator: listenForAuditRecords and HandleAuditRecord.              *)
(***************************************************************************)

(* Mutant: a goroutine per record. *)
ListenerFreeAlways == TRUE

(* The loop handles one record at a time. *)
ListenerFree == listener = {}

ReceiveRecord ==
    /\ buffer # <<>>
    /\ ListenerFree
    /\ listener' = listener \cup {[from |-> Head(buffer), at |-> "lookup", seq |-> 0]}
    /\ buffer' = Tail(buffer)
    /\ UNCHANGED <<calls, connected, acks, log, lost>>

RowsOf(k) == {i \in DOMAIN log : log[i] = k}

Latest(rows) == CHOOSE i \in rows : \A j \in rows : j <= i

Move(h, step, seq) ==
    listener' = (listener \ {h}) \cup {[from |-> h.from, at |-> step, seq |-> seq]}

(* Mutant: a record that is not found ends the handling. *)
LookupRecordMutant(h) ==
    /\ h.at = "lookup"
    /\ LET rows == RowsOf(keyOf[h.from]) IN
          \/ rows # {} /\ Move(h, "ack", Latest(rows))
          \/ rows = {} /\ listener' = listener \ {h}
    /\ UNCHANGED <<calls, connected, buffer, acks, log, lost>>

(* GetEventChainMetaByTransactionID. *)
LookupRecord(h) ==
    /\ h.at = "lookup"
    /\ LET rows == RowsOf(keyOf[h.from]) IN
          \/ rows # {} /\ Move(h, "ack", Latest(rows))
          \/ rows = {} /\ Move(h, "append", 0)
    /\ UNCHANGED <<calls, connected, buffer, acks, log, lost>>

(* RecordEventChained. *)
AppendRecord(h) ==
    /\ h.at = "append"
    /\ log' = Append(log, keyOf[h.from])
    /\ Move(h, "ack", Len(log'))
    /\ UNCHANGED <<calls, connected, buffer, acks, lost>>

(* publishAuditAck. *)
PublishAck(h) ==
    /\ h.at = "ack"
    /\ acks' = acks \cup {[key |-> keyOf[h.from], seq |-> h.seq]}
    /\ listener' = listener \ {h}
    /\ UNCHANGED <<calls, connected, buffer, log, lost>>

(* Mutant: a record whose acknowledgement fails is taken back. *)
HandlerFailsMutant(h) ==
    /\ listener' = listener \ {h}
    /\ lost' = lost \cup {h.from}
    /\ log' = SelectSeq(log, LAMBDA k : h.at # "ack" \/ k # keyOf[h.from])
    /\ UNCHANGED <<calls, connected, buffer, acks>>

(* Any of the three returned an error, which the loop logs. *)
HandlerFails(h) ==
    /\ listener' = listener \ {h}
    /\ lost' = lost \cup {h.from}
    /\ UNCHANGED <<calls, connected, buffer, acks, log>>

(***************************************************************************)
(* Failures of the transport and of the Operator process.                  *)
(***************************************************************************)

(* The connection breaks; the records already read from it are kept. *)
Disconnect ==
    /\ connected
    /\ connected' = FALSE
    /\ \E n \in 0 .. Len(buffer) :
          /\ buffer' = SubSeq(buffer, 1, n)
          /\ lost' = lost \cup {buffer[i] : i \in (n + 1) .. Len(buffer)}
    /\ UNCHANGED <<calls, listener, acks, log>>

Reconnect ==
    /\ ~connected
    /\ connected' = TRUE
    /\ UNCHANGED <<calls, buffer, listener, acks, log, lost>>

LoseAck(a) ==
    /\ a \in acks
    /\ acks' = acks \ {a}
    /\ UNCHANGED <<calls, connected, buffer, listener, log, lost>>

RestartOperator ==
    /\ connected' = FALSE
    /\ buffer' = <<>>
    /\ listener' = {}
    /\ lost' = lost \cup {buffer[i] : i \in DOMAIN buffer} \cup {h.from : h \in listener}
    /\ UNCHANGED <<calls, acks, log>>

Handle(h) == LookupRecord(h) \/ AppendRecord(h) \/ PublishAck(h)

Listen == ReceiveRecord \/ \E h \in listener : Handle(h)

Ingest(c) == Register(c) \/ PublishRecord(c) \/ ReturnAck(c) \/ Timeout(c)

Next ==
    \/ \E c \in Caller : Ingest(c)
    \/ \E a \in acks : DeliverAck(a) \/ LoseAck(a)
    \/ Listen
    \/ \E h \in listener : HandlerFails(h)
    \/ Disconnect
    \/ Reconnect
    \/ RestartOperator

Spec == Init /\ [][Next]_vars

(* The listener's loop is a goroutine of its own and waits for nothing but  *)
(* its next record.                                                         *)
FairSpec == Spec /\ WF_vars(Listen)

(***************************************************************************)
(* Properties.                                                             *)
(***************************************************************************)

(* However often a record is published, retried or handled again after a     *)
(* lost acknowledgement, the chain holds it once.  The lookup and the append *)
(* are separate statements: what makes this true is the serial listener.     *)
ExactlyOnce == \A i, j \in DOMAIN log : log[i] = log[j] => i = j

(* What Ingest returns is the row of the caller's own record, also when the  *)
(* acknowledgement answers an earlier attempt that timed out.                *)
AckTruthful ==
    \A c \in Caller :
        pc[c] = "ok" => slot[c] \in DOMAIN log /\ log[slot[c]] = keyOf[c]

(* A published record reaches the chain, even if its caller has stopped      *)
(* waiting, unless this record was itself dropped: by a full buffer, with    *)
(* its connection, by an error of the handler or with the Operator process.  *)
PublishedIsRecorded ==
    \A c \in Caller :
        pc[c] = "wait" ~> c \in lost \/ \E i \in DOMAIN log : log[i] = keyOf[c]

StatusOf(step) ==
    CASE step = "idle"     -> "new"
      [] step \in Waiting  -> "open"
      [] step = "ok"       -> "ok"
      [] OTHER             -> "failed"

Statuses == [c \in Caller |-> StatusOf(pc[c])]

ToldRows == [c \in Caller |-> IF pc[c] = "ok" THEN slot[c] ELSE 0]

Promise == INSTANCE RecordOnce WITH status <- Statuses, row <- ToldRows, chain <- log

(* Ingest, the broker and HandleAuditRecord together record a submitted     *)
(* record at most once per key, also when its caller has timed out, never   *)
(* touch a row again, and answer a call once, with the row of its record.   *)
ImplementsRecordOnce == Promise!RSpec
=============================================================================
