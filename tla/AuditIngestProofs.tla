-------------------------- MODULE AuditIngestProofs --------------------------
(***************************************************************************)
(* Audit ingestion stores a record once and answers with its row, for      *)
(* every number of callers, keys and retries.                              *)
(*                                                                         *)
(* ExactlyOnce is not inductive: a handler between its lookup and its      *)
(* append carries a decision taken on an older chain.  IInv says that this *)
(* decision is still right, which needs that no other handler is under     *)
(* way, and follows a sequence number from the handler through the         *)
(* acknowledgement to the caller.                                          *)
(***************************************************************************)
EXTENDS AuditIngest, TLAPS

IsRowOf(seq, key) == seq \in DOMAIN log /\ log[seq] = key

(* The serial loop. *)
SerialInv == \A h1, h2 \in listener : h1 = h2

(* What a handler has found out still holds. *)
HandlerInv ==
    \A h \in listener :
        /\ h.at = "append" => \A i \in DOMAIN log : log[i] # keyOf[h.from]
        /\ h.at = "ack" => IsRowOf(h.seq, keyOf[h.from])

AnswerInv ==
    /\ \A a \in acks : IsRowOf(a.seq, a.key)
    /\ \A c \in Caller : slot[c] # 0 => IsRowOf(slot[c], keyOf[c])
    /\ \A c \in Caller : pc[c] = "ok" => slot[c] # 0

IInv == TypeOK /\ SerialInv /\ HandlerInv /\ AnswerInv /\ ExactlyOnce

(* GetEventChainMetaByTransactionID returns a row of the key it is asked for. *)
LEMMA LatestIsRow ==
  ASSUME TypeOK, ExactlyOnce, NEW k \in Key, RowsOf(k) # {}
  PROVE  IsRowOf(Latest(RowsOf(k)), k) /\ Latest(RowsOf(k)) \in Nat
<1>1. PICK i \in DOMAIN log : log[i] = k
  BY DEF RowsOf
<1>2. i \in Nat /\ RowsOf(k) = {i}
  BY <1>1 DEF RowsOf, ExactlyOnce, TypeOK
<1>3. i \in RowsOf(k) /\ \A j \in RowsOf(k) : j <= i
  BY <1>2
<1>4. Latest(RowsOf(k)) = i
  BY <1>2, <1>3 DEF Latest
<1> QED BY <1>1, <1>2, <1>4 DEF IsRowOf

(* Every step keeps the types; the buffer never exceeds its capacity. *)
LEMMA TypeStep == TypeOK /\ ExactlyOnce /\ [Next]_vars => TypeOK'
<1> SUFFICES ASSUME TypeOK, ExactlyOnce, [Next]_vars PROVE TypeOK'
  OBVIOUS
<1> USE DEF TypeOK
<1>1. ASSUME NEW c \in Caller, Ingest(c) PROVE TypeOK'
  <2>1. CASE Register(c)
    BY <2>1 DEF Register, Waiting
  <2>2. CASE PublishRecord(c)
    <3>1. CASE connected
      <4>1. Enqueue(c) \in Seq(Caller) /\ Len(Enqueue(c)) <= Cap
        BY IngestAssumption DEF Enqueue
      <4>2. Len(buffer) >= Cap => Head(buffer) \in Caller
        BY IngestAssumption
      <4>3. lost' \subseteq Caller
        BY <4>2, <3>1, <2>2, IngestAssumption DEF PublishRecord
      <4> QED BY <4>1, <4>3, <3>1, <2>2 DEF PublishRecord, Waiting, Returned
    <3>2. CASE ~connected
      BY <3>2, <2>2 DEF PublishRecord, Returned
    <3> QED BY <3>1, <3>2
  <2>3. CASE ReturnAck(c) \/ Timeout(c)
    BY <2>3 DEF ReturnAck, Timeout, Returned
  <2> QED BY <1>1, <2>1, <2>2, <2>3 DEF Ingest
<1>2. ASSUME NEW a \in acks, DeliverAck(a) \/ LoseAck(a) PROVE TypeOK'
  BY <1>2 DEF DeliverAck, LoseAck, calls, Acks
<1>3. CASE ReceiveRecord
  <2>1. Head(buffer) \in Caller /\ Tail(buffer) \in Seq(Caller)
        /\ Len(Tail(buffer)) <= Cap
    BY <1>3, IngestAssumption DEF ReceiveRecord
  <2> QED BY <1>3, <2>1 DEF ReceiveRecord, calls, Steps
<1>4. ASSUME NEW h \in listener, Handle(h) PROVE TypeOK'
  <2>1. ASSUME NEW step \in Steps, NEW seq \in Nat, Move(h, step, seq)
        PROVE  listener' \subseteq [from : Caller, at : Steps, seq : Nat]
    BY <2>1 DEF Move
  <2>2. CASE LookupRecord(h)
    <3> DEFINE rows == RowsOf(keyOf[h.from])
    <3>1. rows # {} => Latest(rows) \in Nat
      BY LatestIsRow DEF IsRowOf
    <3>2. listener' \subseteq [from : Caller, at : Steps, seq : Nat]
      BY <3>1, <2>1, <2>2 DEF LookupRecord, Steps
    <3> QED BY <3>2, <2>2 DEF LookupRecord, calls
  <2>3. CASE AppendRecord(h)
    <3>1. log' \in Seq(Key) /\ Len(log') \in Nat
      BY <2>3 DEF AppendRecord
    <3>2. listener' \subseteq [from : Caller, at : Steps, seq : Nat]
      BY <3>1, <2>1, <2>3 DEF AppendRecord, Steps
    <3> QED BY <3>1, <3>2, <2>3 DEF AppendRecord, calls
  <2>4. CASE PublishAck(h)
    BY <2>4 DEF PublishAck, calls, Acks
  <2> QED BY <1>4, <2>2, <2>3, <2>4 DEF Handle
<1>5. ASSUME NEW h \in listener, HandlerFails(h) PROVE TypeOK'
  BY <1>5 DEF HandlerFails, calls
<1>6. CASE Disconnect
  <2>1. PICK n \in 0 .. Len(buffer) :
               /\ buffer' = SubSeq(buffer, 1, n)
               /\ lost' = lost \cup {buffer[i] : i \in (n + 1) .. Len(buffer)}
    BY <1>6 DEF Disconnect
  <2>2. buffer' \in Seq(Caller) /\ Len(buffer') <= Cap
    BY <2>1, IngestAssumption
  <2>3. \A i \in (n + 1) .. Len(buffer) : buffer[i] \in Caller
    BY <2>1
  <2>4. lost' \subseteq Caller
    BY <2>1, <2>3
  <2>5. UNCHANGED <<pc, keyOf, slot, listener, acks, log>> /\ connected' = FALSE
    BY <1>6 DEF Disconnect, calls
  <2> QED BY <2>2, <2>4, <2>5
<1>7. CASE Reconnect
  BY <1>7 DEF Reconnect, calls
<1>8. CASE RestartOperator
  <2>1. buffer' = <<>> /\ buffer' \in Seq(Caller) /\ Len(buffer') = 0
    BY <1>8 DEF RestartOperator
  <2>2. Len(buffer') <= Cap
    BY <2>1, IngestAssumption
  <2>3. lost' \subseteq Caller
    BY <1>8 DEF RestartOperator
  <2> QED BY <1>8, <2>1, <2>2, <2>3 DEF RestartOperator, calls
<1>9. CASE UNCHANGED vars
  BY <1>9 DEF vars
<1> QED BY <1>1, <1>2, <1>3, <1>4, <1>5, <1>6, <1>7, <1>8, <1>9
        DEF Next, Listen

(* One handler at a time: a record is taken only when none is under way. *)
LEMMA SerialStep == SerialInv /\ [Next]_vars => SerialInv'
<1> SUFFICES ASSUME SerialInv, [Next]_vars PROVE SerialInv'
  OBVIOUS
<1> USE DEF SerialInv
<1>1. ASSUME NEW c \in Caller, Ingest(c) PROVE SerialInv'
  BY <1>1 DEF Ingest, Register, PublishRecord, ReturnAck, Timeout
<1>2. ASSUME NEW a \in acks, DeliverAck(a) \/ LoseAck(a) PROVE SerialInv'
  BY <1>2 DEF DeliverAck, LoseAck
<1>3. CASE ReceiveRecord
  BY <1>3 DEF ReceiveRecord, ListenerFree
<1>4. ASSUME NEW h \in listener, Handle(h) PROVE SerialInv'
  <2>1. ASSUME NEW step, NEW seq, Move(h, step, seq) PROVE SerialInv'
    BY <2>1 DEF Move
  <2>2. CASE LookupRecord(h)
    BY <2>1, <2>2 DEF LookupRecord
  <2>3. CASE AppendRecord(h)
    BY <2>1, <2>3 DEF AppendRecord
  <2>4. CASE PublishAck(h)
    BY <2>4 DEF PublishAck
  <2> QED BY <1>4, <2>2, <2>3, <2>4 DEF Handle
<1>5. ASSUME NEW h \in listener, HandlerFails(h) PROVE SerialInv'
  BY <1>5 DEF HandlerFails
<1>6. CASE Disconnect \/ Reconnect \/ RestartOperator
  BY <1>6 DEF Disconnect, Reconnect, RestartOperator
<1>7. CASE UNCHANGED vars
  BY <1>7 DEF vars
<1> QED BY <1>1, <1>2, <1>3, <1>4, <1>5, <1>6, <1>7 DEF Next, Listen

(* Only the append extends the chain, and rows stay where they are. *)
LEMMA AppendKeepsRows ==
  ASSUME TypeOK, NEW key \in Key, log' = Append(log, key)
  PROVE  /\ Len(log') \in Nat /\ Len(log') # 0 /\ IsRowOf(Len(log), key)'
         /\ \A s, k : IsRowOf(s, k) => IsRowOf(s, k)'
         /\ \A i \in DOMAIN log' : i \in DOMAIN log \/ i = Len(log')
         /\ \A i \in DOMAIN log : log'[i] = log[i]
<1>1. log \in Seq(Key) /\ Len(log) \in Nat /\ DOMAIN log = 1 .. Len(log)
  BY DEF TypeOK
<1>2. /\ Len(log') = Len(log) + 1
      /\ DOMAIN log' = 1 .. (Len(log) + 1)
      /\ log'[Len(log) + 1] = key
      /\ \A i \in 1 .. Len(log) : log'[i] = log[i]
  BY <1>1
<1>3. IsRowOf(Len(log), key)'
  BY <1>1, <1>2 DEF IsRowOf
<1>4. \A s, k : IsRowOf(s, k) => IsRowOf(s, k)'
  BY <1>1, <1>2 DEF IsRowOf
<1> QED BY <1>1, <1>2, <1>3, <1>4

(* A handler's decision is still right when it acts on it. *)
LEMMA HandlerStep == IInv /\ [Next]_vars => HandlerInv'
<1> SUFFICES ASSUME IInv, [Next]_vars PROVE HandlerInv'
  OBVIOUS
<1> USE DEF IInv
<1>1. ASSUME NEW c \in Caller, Ingest(c) PROVE HandlerInv'
  BY <1>1 DEF Ingest, Register, PublishRecord, ReturnAck, Timeout, HandlerInv, IsRowOf
<1>2. ASSUME NEW a \in acks, DeliverAck(a) \/ LoseAck(a) PROVE HandlerInv'
  BY <1>2 DEF DeliverAck, LoseAck, calls, HandlerInv, IsRowOf
<1>3. CASE ReceiveRecord
  BY <1>3 DEF ReceiveRecord, ListenerFree, calls, HandlerInv, IsRowOf
<1>4. ASSUME NEW h \in listener, Handle(h) PROVE HandlerInv'
  <2>0. h.from \in Caller /\ keyOf[h.from] \in Key /\ listener = {h}
    BY DEF TypeOK, SerialInv
  <2>1. ASSUME NEW step, NEW seq, Move(h, step, seq)
        PROVE  listener' = {[from |-> h.from, at |-> step, seq |-> seq]}
    BY <2>0, <2>1 DEF Move
  <2>2. CASE LookupRecord(h)
    <3> DEFINE rows == RowsOf(keyOf[h.from])
    <3>1. CASE rows # {}
      <4>1. IsRowOf(Latest(rows), keyOf[h.from])
        BY <3>1, <2>0, LatestIsRow
      <4>2. Move(h, "ack", Latest(rows))
        BY <3>1, <2>2 DEF LookupRecord
      <4>3. listener' = {[from |-> h.from, at |-> "ack", seq |-> Latest(rows)]}
        BY <4>2, <2>1
      <4> HIDE DEF rows
      <4> QED BY <4>1, <4>3, <2>2 DEF LookupRecord, calls, HandlerInv, IsRowOf
    <3>2. CASE rows = {}
      <4>1. \A i \in DOMAIN log : log[i] # keyOf[h.from]
        BY <3>2 DEF RowsOf
      <4>2. listener' = {[from |-> h.from, at |-> "append", seq |-> 0]}
        BY <3>2, <2>1, <2>2 DEF LookupRecord
      <4> QED BY <4>1, <4>2, <2>2 DEF LookupRecord, calls, HandlerInv
    <3> QED BY <3>1, <3>2
  <2>3. CASE AppendRecord(h)
    <3>1. log' = Append(log, keyOf[h.from]) /\ keyOf' = keyOf
      BY <2>3 DEF AppendRecord, calls
    <3>2. listener' = {[from |-> h.from, at |-> "ack", seq |-> Len(log')]}
      BY <2>1, <2>3 DEF AppendRecord
    <3>3. log'[Len(log')] = keyOf[h.from] /\ Len(log') \in DOMAIN log'
      BY <3>1, <2>0, AppendKeepsRows DEF IsRowOf
    <3> QED BY <3>1, <3>2, <3>3 DEF HandlerInv, IsRowOf
  <2>4. CASE PublishAck(h)
    BY <2>4, <2>0 DEF PublishAck, HandlerInv
  <2> QED BY <1>4, <2>2, <2>3, <2>4 DEF Handle
<1>5. ASSUME NEW h \in listener, HandlerFails(h) PROVE HandlerInv'
  BY <1>5 DEF HandlerFails, calls, HandlerInv, IsRowOf
<1>6. CASE Disconnect \/ Reconnect \/ RestartOperator
  BY <1>6 DEF Disconnect, Reconnect, RestartOperator, calls, HandlerInv, IsRowOf
<1>7. CASE UNCHANGED vars
  BY <1>7 DEF vars, HandlerInv, IsRowOf
<1> QED BY <1>1, <1>2, <1>3, <1>4, <1>5, <1>6, <1>7 DEF Next, Listen

(* Acknowledgements and the answers taken from them name rows of their key. *)
LEMMA AnswerStep == IInv /\ [Next]_vars => AnswerInv'
<1> SUFFICES ASSUME IInv, [Next]_vars PROVE AnswerInv'
  OBVIOUS
<1> USE DEF IInv
<1>1. ASSUME NEW c \in Caller, Ingest(c) PROVE AnswerInv'
  BY <1>1 DEF Ingest, Register, PublishRecord, ReturnAck, Timeout, AnswerInv,
              IsRowOf, TypeOK
<1>2. ASSUME NEW a \in acks, DeliverAck(a) PROVE AnswerInv'
  BY <1>2 DEF DeliverAck, AnswerInv, IsRowOf, TypeOK, Accepts, Waiting
<1>3. ASSUME NEW a \in acks, LoseAck(a) PROVE AnswerInv'
  BY <1>3 DEF LoseAck, calls, AnswerInv, IsRowOf
<1>4. ASSUME NEW h \in listener, Handle(h) PROVE AnswerInv'
  <2>0. h.from \in Caller /\ keyOf[h.from] \in Key
    BY DEF TypeOK
  <2>1. CASE LookupRecord(h)
    BY <2>1 DEF LookupRecord, calls, AnswerInv, IsRowOf
  <2>2. CASE AppendRecord(h)
    <3>1. log' = Append(log, keyOf[h.from]) /\ UNCHANGED <<pc, keyOf, slot, acks>>
      BY <2>2 DEF AppendRecord, calls
    <3>2. \A s, k : IsRowOf(s, k) => s \in DOMAIN log' /\ log'[s] = k
      BY <3>1, <2>0, AppendKeepsRows DEF IsRowOf
    <3> QED BY <3>1, <3>2 DEF AnswerInv, IsRowOf
  <2>3. CASE PublishAck(h)
    BY <2>3 DEF PublishAck, calls, AnswerInv, IsRowOf, HandlerInv
  <2> QED BY <1>4, <2>1, <2>2, <2>3 DEF Handle
<1>5. ASSUME NEW h \in listener, HandlerFails(h) PROVE AnswerInv'
  BY <1>5 DEF HandlerFails, calls, AnswerInv, IsRowOf
<1>6. CASE ReceiveRecord \/ Disconnect \/ Reconnect \/ RestartOperator
  BY <1>6 DEF ReceiveRecord, Disconnect, Reconnect, RestartOperator, calls,
              AnswerInv, IsRowOf
<1>7. CASE UNCHANGED vars
  BY <1>7 DEF vars, AnswerInv, IsRowOf
<1> QED BY <1>1, <1>2, <1>3, <1>4, <1>5, <1>6, <1>7 DEF Next, Listen

(* The append is of a key the chain does not hold. *)
LEMMA OnceStep == IInv /\ [Next]_vars => ExactlyOnce'
<1> SUFFICES ASSUME IInv, [Next]_vars PROVE ExactlyOnce'
  OBVIOUS
<1> USE DEF IInv
<1>1. ASSUME NEW h \in listener, AppendRecord(h) PROVE ExactlyOnce'
  <2>0. h.from \in Caller /\ keyOf[h.from] \in Key
    BY DEF TypeOK
  <2>1. log' = Append(log, keyOf[h.from])
    BY <1>1 DEF AppendRecord
  <2>2. \A i \in DOMAIN log : log[i] # keyOf[h.from]
    BY <1>1 DEF AppendRecord, HandlerInv
  <2>3. /\ log'[Len(log')] = keyOf[h.from]
        /\ \A i \in DOMAIN log' : i \in DOMAIN log \/ i = Len(log')
        /\ \A i \in DOMAIN log : log'[i] = log[i]
    BY <2>0, <2>1, AppendKeepsRows DEF IsRowOf
  <2> QED BY <2>2, <2>3 DEF ExactlyOnce
<1>2. CASE UNCHANGED log
  BY <1>2 DEF ExactlyOnce
<1>3. UNCHANGED log \/ \E h \in listener : AppendRecord(h)
  BY DEF Next, Listen, Handle, Ingest, Register, PublishRecord, ReturnAck, Timeout,
         DeliverAck, LoseAck, ReceiveRecord, LookupRecord, PublishAck, HandlerFails,
         Disconnect, Reconnect, RestartOperator, vars
<1> QED BY <1>1, <1>2, <1>3

(* Every reachable state satisfies the inductive invariant. *)
THEOREM IngestInvariant == Spec => []IInv
<1>1. Init => IInv
  <2> SUFFICES ASSUME Init PROVE IInv
    OBVIOUS
  <2>1. TypeOK
    BY IngestAssumption DEF Init, TypeOK
  <2>2. DOMAIN log = {}
    BY DEF Init
  <2>3. SerialInv /\ HandlerInv /\ AnswerInv /\ ExactlyOnce
    BY <2>2 DEF Init, SerialInv, HandlerInv, AnswerInv, ExactlyOnce
  <2> QED BY <2>1, <2>3 DEF IInv
<1>2. IInv /\ [Next]_vars => IInv'
  BY TypeStep, SerialStep, HandlerStep, AnswerStep, OnceStep DEF IInv
<1> QED BY <1>1, <1>2, PTL DEF Spec

(* TypeOK, with the bound on the connection's buffer, always holds. *)
THEOREM IngestTypeCorrect == Spec => []TypeOK
<1>1. IInv => TypeOK
  BY DEF IInv
<1> QED BY <1>1, IngestInvariant, PTL

(* HandleAuditRecord stores a record once, whatever is lost or retried. *)
THEOREM StoredOnce == Spec => []ExactlyOnce
<1>1. IInv => ExactlyOnce
  BY DEF IInv
<1> QED BY <1>1, IngestInvariant, PTL

(* Ingest answers with the row of the record it was called with. *)
THEOREM AnswersTruthful == Spec => []AckTruthful
<1>1. IInv => AckTruthful
  BY DEF IInv, AnswerInv, AckTruthful, IsRowOf
<1> QED BY <1>1, IngestInvariant, PTL

(***************************************************************************)
(* Refinement of RecordOnce.  What IInv lacks is that a record under way   *)
(* was submitted: its call has left "idle", which it never enters again.   *)
(***************************************************************************)
SentInv ==
    /\ \A i \in DOMAIN buffer : pc[buffer[i]] # "idle"
    /\ \A h \in listener : pc[h.from] # "idle"

(* No call goes back to "idle". *)
LEMMA SubmittedStays ==
  ASSUME TypeOK, [Next]_vars, NEW c \in Caller, pc[c] # "idle"
  PROVE  pc'[c] # "idle"
<1> USE DEF TypeOK
<1>1. ASSUME NEW d \in Caller, Ingest(d) PROVE pc'[c] # "idle"
  BY <1>1 DEF Ingest, Register, PublishRecord, ReturnAck, Timeout
<1>2. CASE UNCHANGED pc
  BY <1>2
<1>3. UNCHANGED pc \/ \E d \in Caller : Ingest(d)
  BY DEF Next, Listen, Handle, LookupRecord, AppendRecord, DeliverAck, LoseAck,
         ReceiveRecord, PublishAck, HandlerFails, Disconnect, Reconnect,
         RestartOperator, calls, vars
<1> QED BY <1>1, <1>2, <1>3

(* The buffer gains only the record of a call that is publishing it. *)
LEMMA BufferStep ==
  ASSUME TypeOK, [Next]_vars, NEW i \in DOMAIN buffer'
  PROVE  \/ \E j \in DOMAIN buffer : buffer'[i] = buffer[j]
         \/ buffer'[i] \in Caller /\ pc'[buffer'[i]] # "idle"
<1> USE DEF TypeOK
<1>1. ASSUME NEW c \in Caller, PublishRecord(c), connected
      PROVE  (\E j \in DOMAIN buffer : buffer'[i] = buffer[j]) \/ buffer'[i] = c
  <2>1. buffer' = Enqueue(c)
    BY <1>1 DEF PublishRecord
  <2>2. CASE Len(buffer) < Cap
    <3>1. buffer' = Append(buffer, c)
      BY <2>1, <2>2 DEF Enqueue
    <3> QED BY <3>1
  <2>3. CASE ~(Len(buffer) < Cap)
    <3>1. buffer' = Append(Tail(buffer), c)
      BY <2>1, <2>3 DEF Enqueue
    <3>2. buffer # <<>> /\ Tail(buffer) \in Seq(Caller)
      BY <2>3, IngestAssumption
    <3>3. i \in DOMAIN Tail(buffer) \/ buffer'[i] = c
      BY <3>1, <3>2
    <3>4. CASE i \in DOMAIN Tail(buffer)
      <4>1. i + 1 \in DOMAIN buffer /\ buffer'[i] = buffer[i + 1]
        BY <3>1, <3>2, <3>4
      <4> QED BY <4>1
    <3> QED BY <3>3, <3>4
  <2> QED BY <2>2, <2>3
<1>2. ASSUME NEW c \in Caller, PublishRecord(c), connected
      PROVE  pc'[c] # "idle"
  BY <1>2 DEF PublishRecord
<1>3. CASE ReceiveRecord
  BY <1>3 DEF ReceiveRecord
<1>4. CASE Disconnect
  <2>1. PICK n \in 0 .. Len(buffer) : buffer' = SubSeq(buffer, 1, n)
    BY <1>4 DEF Disconnect
  <2> QED BY <2>1
<1>5. CASE RestartOperator
  <2>1. buffer' = <<>> /\ DOMAIN buffer' = {}
    BY <1>5 DEF RestartOperator
  <2> QED BY <2>1
<1>6. CASE UNCHANGED buffer
  BY <1>6
<1>7. \/ UNCHANGED buffer \/ ReceiveRecord \/ Disconnect \/ RestartOperator
      \/ \E c \in Caller : PublishRecord(c) /\ connected
  BY DEF Next, Listen, Handle, Ingest, Register, PublishRecord, ReturnAck, Timeout,
         LookupRecord, AppendRecord, DeliverAck, LoseAck, PublishAck, HandlerFails,
         Reconnect, vars
<1> QED BY <1>1, <1>2, <1>3, <1>4, <1>5, <1>6, <1>7

(* The listener takes its records from the buffer. *)
LEMMA ListenerStep ==
  ASSUME TypeOK, [Next]_vars, NEW h \in listener'
  PROVE  \/ \E g \in listener : h.from = g.from
         \/ \E i \in DOMAIN buffer : h.from = buffer[i]
<1> USE DEF TypeOK
<1>1. CASE ReceiveRecord
  <2>1. 1 \in DOMAIN buffer /\ Head(buffer) = buffer[1]
    BY <1>1 DEF ReceiveRecord
  <2> QED BY <1>1, <2>1 DEF ReceiveRecord
<1>2. ASSUME NEW g \in listener, Handle(g) \/ HandlerFails(g)
      PROVE  \E f \in listener : h.from = f.from
  BY <1>2 DEF Handle, LookupRecord, AppendRecord, PublishAck, Move, HandlerFails
<1>3. CASE listener' \subseteq listener
  BY <1>3
<1>4. \/ listener' \subseteq listener \/ ReceiveRecord
      \/ \E g \in listener : Handle(g) \/ HandlerFails(g)
  BY DEF Next, Listen, Ingest, Register, PublishRecord, ReturnAck, Timeout, DeliverAck,
         LoseAck, Disconnect, Reconnect, RestartOperator, vars
<1> QED BY <1>1, <1>2, <1>3, <1>4

(* Only submitted records are under way. *)
LEMMA SentStep == TypeOK /\ SentInv /\ [Next]_vars => SentInv'
<1> SUFFICES ASSUME TypeOK, SentInv, [Next]_vars PROVE SentInv'
  OBVIOUS
<1>1. /\ \A j \in DOMAIN buffer : buffer[j] \in Caller /\ pc[buffer[j]] # "idle"
      /\ \A g \in listener : g.from \in Caller /\ pc[g.from] # "idle"
  BY DEF TypeOK, SentInv
<1>2. ASSUME NEW i \in DOMAIN buffer' PROVE pc'[buffer'[i]] # "idle"
  BY <1>1, <1>2, BufferStep, SubmittedStays
<1>3. ASSUME NEW h \in listener' PROVE pc'[h.from] # "idle"
  BY <1>1, <1>3, ListenerStep, SubmittedStays
<1> QED BY <1>2, <1>3 DEF SentInv

(* A caller's step is a submission, an answer or nothing new. *)
LEMMA CallerPromise ==
  ASSUME TypeOK, AnswerInv, NEW c \in Caller, Ingest(c)
  PROVE  [Promise!RNext]_(Promise!rvars)
<1> USE DEF TypeOK
<1>1. keyOf' = keyOf /\ log' = log /\ slot' = slot
  BY DEF Ingest, Register, PublishRecord, ReturnAck, Timeout
<1>2. CASE Register(c)
  <2>1. Statuses[c] = "new" /\ Statuses' = [Statuses EXCEPT ![c] = "open"]
    BY <1>2 DEF Register, Statuses, StatusOf, Waiting
  <2>2. ToldRows' = ToldRows
    BY <1>1, <1>2 DEF Register, ToldRows
  <2>3. Promise!Submit(c)
    BY <1>1, <2>1, <2>2 DEF Promise!Submit
  <2> QED BY <2>3 DEF Promise!RNext
<1>3. CASE pc[c] \in Waiting /\ pc' = [pc EXCEPT ![c] = "wait"]
  <2>1. Statuses' = Statuses
    BY <1>3 DEF Statuses, StatusOf, Waiting
  <2>2. ToldRows' = ToldRows
    BY <1>1, <1>3 DEF ToldRows, Waiting
  <2> QED BY <1>1, <2>1, <2>2 DEF Promise!rvars
<1>4. ASSUME NEW r \in {"timeout", "noDelivery"}, pc[c] \in Waiting,
             pc' = [pc EXCEPT ![c] = r]
      PROVE  Promise!RNext
  <2>1. Statuses[c] = "open" /\ Statuses' = [Statuses EXCEPT ![c] = "failed"]
    BY <1>4 DEF Statuses, StatusOf, Waiting
  <2>2. ToldRows' = ToldRows
    BY <1>1, <1>4 DEF ToldRows, Waiting
  <2>3. Promise!Fail(c)
    BY <1>1, <2>1, <2>2 DEF Promise!Fail
  <2> QED BY <2>3 DEF Promise!RNext
<1>5. CASE ReturnAck(c)
  <2>1. Statuses[c] = "open" /\ Statuses' = [Statuses EXCEPT ![c] = "ok"]
    BY <1>5 DEF ReturnAck, Statuses, StatusOf, Waiting
  <2>2. slot[c] \in DOMAIN log /\ log[slot[c]] = keyOf[c]
    BY <1>5 DEF ReturnAck, AnswerInv, IsRowOf
  <2>3. ToldRows' = [ToldRows EXCEPT ![c] = slot[c]]
    BY <1>1, <1>5 DEF ReturnAck, ToldRows
  <2>4. Promise!Confirm(c, slot[c])
    BY <1>1, <2>1, <2>2, <2>3 DEF Promise!Confirm
  <2> QED BY <2>2, <2>4 DEF Promise!RNext
<1>6. CASE PublishRecord(c)
  BY <1>3, <1>4, <1>6 DEF PublishRecord, Waiting
<1>7. CASE Timeout(c)
  BY <1>4, <1>7 DEF Timeout, Waiting
<1> QED BY <1>2, <1>5, <1>6, <1>7 DEF Ingest

(* The append is the recording of a submitted key that has no row yet. *)
LEMMA AppendPromise ==
  ASSUME TypeOK, HandlerInv, SentInv, NEW h \in listener, AppendRecord(h)
  PROVE  Promise!RNext
<1> DEFINE c == h.from
<1>1. c \in Caller /\ pc[c] # "idle" /\ pc[c] \in {"idle"} \cup Waiting \cup Returned
  BY DEF TypeOK, SentInv
<1>2. Statuses[c] # "new"
  BY <1>1 DEF Statuses, StatusOf
<1>3. /\ log' = Append(log, keyOf[c])
      /\ UNCHANGED <<pc, keyOf, slot>>
      /\ \A i \in DOMAIN log : log[i] # keyOf[c]
  BY DEF AppendRecord, HandlerInv, calls
<1>4. UNCHANGED <<Statuses, ToldRows>>
  BY <1>3 DEF Statuses, ToldRows
<1>5. Promise!Record(c)
  BY <1>2, <1>3, <1>4 DEF Promise!Record, Promise!Recorded
<1> QED BY <1>1, <1>5 DEF Promise!RNext

(* Every step is a step of the promise, or none that it sees. *)
LEMMA PromiseStep ==
  ASSUME IInv, SentInv, [Next]_vars
  PROVE  [Promise!RNext]_(Promise!rvars)
<1>0. TypeOK /\ HandlerInv /\ AnswerInv
  BY DEF IInv
<1>1. ASSUME NEW c \in Caller, Ingest(c) PROVE [Promise!RNext]_(Promise!rvars)
  BY <1>0, <1>1, CallerPromise
<1>2. ASSUME NEW h \in listener, AppendRecord(h) PROVE Promise!RNext
  BY <1>0, <1>2, AppendPromise
<1>3. ASSUME NEW a \in acks, DeliverAck(a) PROVE UNCHANGED Promise!rvars
  <2>1. UNCHANGED <<pc, keyOf, log>>
    BY <1>3 DEF DeliverAck
  <2>2. \A c \in Caller : pc[c] = "ok" => slot'[c] = slot[c]
    BY <1>0, <1>3 DEF DeliverAck, Accepts, Waiting
  <2>3. Statuses' = Statuses /\ ToldRows' = ToldRows
    BY <2>1, <2>2 DEF Statuses, ToldRows
  <2> QED BY <2>1, <2>3 DEF Promise!rvars
<1>4. CASE UNCHANGED <<pc, keyOf, slot, log>>
  BY <1>4 DEF Promise!rvars, Statuses, ToldRows
<1>5. \/ UNCHANGED <<pc, keyOf, slot, log>>
      \/ \E c \in Caller : Ingest(c)
      \/ \E h \in listener : AppendRecord(h)
      \/ \E a \in acks : DeliverAck(a)
  BY DEF Next, Listen, Handle, LoseAck, ReceiveRecord, LookupRecord, PublishAck,
         HandlerFails, Disconnect, Reconnect, RestartOperator, calls, vars
<1> QED BY <1>1, <1>2, <1>3, <1>4, <1>5

(* Audit ingestion keeps the promise of RecordOnce: a submitted key is       *)
(* recorded once, rows are never touched again, and a call is answered once, *)
(* with the row of its own record.                                           *)
THEOREM IngestImplementsRecordOnce == Spec => ImplementsRecordOnce
<1>1. Init => SentInv
  <2> SUFFICES ASSUME Init PROVE SentInv
    OBVIOUS
  <2>1. DOMAIN buffer = {} /\ listener = {}
    BY DEF Init
  <2> QED BY <2>1 DEF SentInv
<1>2. Init => Promise!RInit
  <2>1. StatusOf("idle") = "new"
    BY DEF StatusOf, Waiting
  <2>2. Init => Statuses = [c \in Caller |-> "new"]
    BY <2>1 DEF Init, Statuses
  <2>3. Init => ToldRows = [c \in Caller |-> 0]
    BY DEF Init, ToldRows
  <2> QED BY <2>2, <2>3 DEF Init, Promise!RInit
<1>3. IInv /\ SentInv /\ [Next]_vars => SentInv'
  BY SentStep DEF IInv
<1>4. IInv /\ SentInv /\ [Next]_vars => [Promise!RNext]_(Promise!rvars)
  BY PromiseStep
<1> QED BY <1>1, <1>2, <1>3, <1>4, IngestInvariant, PTL
        DEF Spec, ImplementsRecordOnce, Promise!RSpec
=============================================================================
