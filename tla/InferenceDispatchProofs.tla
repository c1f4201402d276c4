----------------------- MODULE InferenceDispatchProofs -----------------------
(***************************************************************************)
(* Proofs about InferenceDispatch, for any number of calls and attempts,   *)
(* any answer length, buffer size and number of reconnects.                *)
(***************************************************************************)
EXTENDS InferenceDispatch, SequenceTheorems, TLAPS

-----------------------------------------------------------------------------
(* Types *)

CallStates == [pc : {"idle", "waiting", "done"}, attempt : Attempts,
               queue : Seq(Messages), overflow : BOOLEAN,
               seen : Seq(1 .. MaxParts), answer : Answers]

RunStates == [pc : RunPcs, parts : 0 .. MaxParts, reporting : BOOLEAN,
              copy : Records, ok : BOOLEAN]

\* A progress event carries the number of a provider's event.
MsgType(m) == m \in Messages /\ (m.type = "progress" => m.n \in 1 .. MaxParts)

\* Messages on their way and in a call's queue are of the call they are for.
NetType ==
    /\ \A p \in net : MsgType(p.msg)
    /\ \A c \in Calls : \A i \in 1 .. Len(calls[c].queue) :
          MsgType(calls[c].queue[i]) /\ calls[c].queue[i].call = c

TypeInv == TypeOK /\ NetType

\* The values that stand for nothing have the types of what they stand for.
LEMMA NothingType ==
    /\ NoOutput \in Outputs
    /\ NoRecord \in Records
    /\ AnyAttempt \in Attempts
    /\ NoCall \in CallStates
    /\ NoRun \in RunStates
<1>1. (CHOOSE c \in Calls : TRUE) \in Calls
  BY DispatchAssumption
<1>2. 0 \in 0 .. MaxParts
  BY DispatchAssumption
<1>3. NoOutput \in Outputs
  BY <1>1, <1>2 DEF NoOutput, Outputs
<1>4. NoOutput.call \in Calls
  BY <1>1 DEF NoOutput
<1>5. NoRecord \in Records
  BY <1>3, <1>4 DEF NoRecord, Records
<1>6. AnyAttempt \in Attempts
  BY DispatchAssumption DEF AnyAttempt
<1>7. <<>> \in Seq(Messages) /\ <<>> \in Seq(1 .. MaxParts)
  OBVIOUS
<1>8. NoCall \in CallStates
  BY <1>6, <1>7 DEF NoCall, CallStates, Answers
<1>9. NoRun \in RunStates
  BY <1>2, <1>5 DEF NoRun, RunStates, RunPcs
<1> QED BY <1>3, <1>5, <1>6, <1>8, <1>9

\* A call keeps its type when its fields are given values of theirs, one lemma per update.
LEMMA QueueUpdate ==
    ASSUME NEW f \in [Calls -> CallStates], NEW c \in Calls,
           NEW q \in Seq(Messages)
    PROVE  [f EXCEPT ![c].queue = q]
               \in [Calls -> CallStates]
<1> DEFINE r == [f[c] EXCEPT !.queue = q]
<1>1. f[c] \in CallStates
  OBVIOUS
<1>2. r \in CallStates
  BY <1>1 DEF CallStates
<1> HIDE DEF r
<1>3. [f EXCEPT ![c] = r] \in [Calls -> CallStates]
  BY <1>2
<1> QED BY <1>3 DEF r

LEMMA OverflowUpdate ==
    ASSUME NEW f \in [Calls -> CallStates], NEW c \in Calls,
           NEW o \in BOOLEAN
    PROVE  [f EXCEPT ![c].overflow = o]
               \in [Calls -> CallStates]
<1> DEFINE r == [f[c] EXCEPT !.overflow = o]
<1>1. f[c] \in CallStates
  OBVIOUS
<1>2. r \in CallStates
  BY <1>1 DEF CallStates
<1> HIDE DEF r
<1>3. [f EXCEPT ![c] = r] \in [Calls -> CallStates]
  BY <1>2
<1> QED BY <1>3 DEF r

LEMMA ProgressUpdate ==
    ASSUME NEW f \in [Calls -> CallStates], NEW c \in Calls,
           NEW q \in Seq(Messages), NEW s \in Seq(1 .. MaxParts)
    PROVE  [f EXCEPT ![c].queue = q, ![c].seen = s]
               \in [Calls -> CallStates]
<1> DEFINE r == [f[c] EXCEPT !.queue = q, !.seen = s]
<1>1. f[c] \in CallStates
  OBVIOUS
<1>2. r \in CallStates
  BY <1>1 DEF CallStates
<1> HIDE DEF r
<1>3. [f EXCEPT ![c] = r] \in [Calls -> CallStates]
  BY <1>2
<1> QED BY <1>3 DEF r

LEMMA RefuseUpdate ==
    ASSUME NEW f \in [Calls -> CallStates], NEW c \in Calls,
           NEW answer \in Answers
    PROVE  [f EXCEPT ![c].pc = "done", ![c].answer = answer]
               \in [Calls -> CallStates]
<1> DEFINE r == [f[c] EXCEPT !.pc = "done", !.answer = answer]
<1>1. f[c] \in CallStates
  OBVIOUS
<1>2. r \in CallStates
  BY <1>1 DEF CallStates
<1> HIDE DEF r
<1>3. [f EXCEPT ![c] = r] \in [Calls -> CallStates]
  BY <1>2
<1> QED BY <1>3 DEF r

LEMMA WaitUpdate ==
    ASSUME NEW f \in [Calls -> CallStates], NEW c \in Calls,
           NEW a \in Attempts
    PROVE  [f EXCEPT ![c].pc = "waiting", ![c].attempt = a]
               \in [Calls -> CallStates]
<1> DEFINE r == [f[c] EXCEPT !.pc = "waiting", !.attempt = a]
<1>1. f[c] \in CallStates
  OBVIOUS
<1>2. r \in CallStates
  BY <1>1 DEF CallStates
<1> HIDE DEF r
<1>3. [f EXCEPT ![c] = r] \in [Calls -> CallStates]
  BY <1>2
<1> QED BY <1>3 DEF r

\* A message the broker hands to the handler leaves the call's type and buffer bound intact.
LEMMA HandlerType ==
    ASSUME TypeInv, NEW c \in Calls, NEW m, MsgType(m), m.call = c,
           calls' = Handler(c, m)
    PROVE  /\ calls' \in [Calls -> CallStates]
           /\ \A d \in Calls : Len(calls'[d].queue) <= Capacity(d)
           /\ \A d \in Calls : \A i \in 1 .. Len(calls'[d].queue) :
                 MsgType(calls'[d].queue[i]) /\ calls'[d].queue[i].call = d
           /\ \A d \in Calls : /\ calls'[d].pc = calls[d].pc
                               /\ calls'[d].attempt = calls[d].attempt
                               /\ calls'[d].seen = calls[d].seen
                               /\ calls'[d].answer = calls[d].answer
           /\ \A d \in Calls : \A i \in 1 .. Len(calls'[d].queue) :
                 \/ i \in 1 .. Len(calls[d].queue) /\ calls'[d].queue[i] = calls[d].queue[i]
                 \/ d = c /\ calls'[d].queue[i] = m
<1> USE DEF Capacity
<1>1. calls \in [Calls -> CallStates]
  BY DEF TypeInv, TypeOK, CallStates
<1>2. calls[c].queue \in Seq(Messages) /\ m \in Messages
  BY <1>1 DEF CallStates, MsgType
<1>3. \A d \in Calls : Len(calls[d].queue) <= Capacity(d)
  BY DEF TypeInv, TypeOK
<1>4. CASE Len(calls[c].queue) < Capacity(c)
  <2> DEFINE q == Append(calls[c].queue, m)
  <2>1. calls' = [calls EXCEPT ![c].queue = q]
    BY <1>4 DEF Handler
  <2>2. /\ q \in Seq(Messages) /\ Len(q) = Len(calls[c].queue) + 1
        /\ \A i \in 1 .. Len(calls[c].queue) : q[i] = calls[c].queue[i]
        /\ q[Len(q)] = m
    BY <1>2
  <2> HIDE DEF q
  <2>3. calls' \in [Calls -> CallStates]
    <3>1. \A x \in Seq(Messages) : [calls EXCEPT ![c].queue = x] \in [Calls -> CallStates]
      BY <1>1, QueueUpdate
    <3> QED BY <2>1, <2>2, <3>1
  <2>4. calls'[c].queue = q /\ \A d \in Calls : d # c => calls'[d] = calls[d]
    BY <2>1, <1>1 DEF CallStates
  <2>5. Len(q) \in Nat /\ Len(calls[c].queue) \in Nat
    BY <2>2, <1>2
  <2>6. Len(q) <= Capacity(c)
    BY <2>2, <2>5, <1>4, DispatchAssumption
  <2>7. \A d \in Calls : /\ calls'[d].pc = calls[d].pc
                         /\ calls'[d].attempt = calls[d].attempt
                         /\ calls'[d].seen = calls[d].seen
                         /\ calls'[d].answer = calls[d].answer
    BY <2>1, <1>1 DEF CallStates
  <2>8. \A i \in 1 .. Len(q) : i \in 1 .. Len(calls[c].queue) \/ i = Len(q)
    BY <2>2, <2>5
  <2>9. \A i \in 1 .. Len(q) : \/ i \in 1 .. Len(calls[c].queue) /\ q[i] = calls[c].queue[i]
                               \/ q[i] = m
    BY <2>8, <2>2
  <2>10. \A d \in Calls : \A i \in 1 .. Len(calls'[d].queue) :
                 \/ i \in 1 .. Len(calls[d].queue) /\ calls'[d].queue[i] = calls[d].queue[i]
                 \/ d = c /\ calls'[d].queue[i] = m
    BY <2>4, <2>9
  <2>11. \A d \in Calls : Len(calls'[d].queue) <= Capacity(d)
    BY <2>4, <2>6, <1>3
  <2> QED BY <2>3, <2>7, <2>10, <2>11 DEF TypeInv, NetType
<1>5. CASE ~(Len(calls[c].queue) < Capacity(c))
  <2>1. calls' = [calls EXCEPT ![c].overflow = @ \/ c \in Streaming]
    BY <1>5 DEF Handler
  <2>2. calls' \in [Calls -> CallStates]
    <3>1. \A x \in BOOLEAN : [calls EXCEPT ![c].overflow = x] \in [Calls -> CallStates]
      BY <1>1, OverflowUpdate
    <3> DEFINE o == calls[c].overflow \/ c \in Streaming
    <3>2. o \in BOOLEAN
      OBVIOUS
    <3>3. calls' = [calls EXCEPT ![c].overflow = o]
      BY <2>1
    <3> HIDE DEF o
    <3> QED BY <3>1, <3>2, <3>3
  <2>3. \A d \in Calls : /\ calls'[d].pc = calls[d].pc
                         /\ calls'[d].attempt = calls[d].attempt
                         /\ calls'[d].queue = calls[d].queue
                         /\ calls'[d].seen = calls[d].seen
                         /\ calls'[d].answer = calls[d].answer
    BY <2>1, <1>1 DEF CallStates
  <2> QED BY <2>2, <2>3, <1>3 DEF TypeInv, NetType
<1> QED BY <1>4, <1>5

\* What Return leaves: the call is done with its answer, and nothing is on its way to it.
LEMMA ReturnType ==
    ASSUME TypeInv, NEW c \in Calls, NEW answer \in Answers, Return(c, answer)
    PROVE  /\ calls' \in [Calls -> CallStates]
           /\ calls'[c].pc = "done" /\ calls'[c].answer = answer
           /\ calls'[c].attempt = calls[c].attempt
           /\ calls'[c].queue = <<>>
           /\ answer = "success" => calls'[c].seen = calls[c].seen
           /\ \A d \in Calls \ {c} : calls'[d] = calls[d]
           /\ net' \subseteq net
           /\ \A p \in net' : p.msg.call # c
<1>1. calls \in [Calls -> CallStates]
  BY DEF TypeInv, TypeOK, CallStates
<1>2. <<>> \in Seq(Messages) /\ <<>> \in Seq(1 .. MaxParts)
  OBVIOUS
<1> DEFINE s == IF answer = "success" THEN calls[c].seen ELSE <<>>
<1>3. s \in Seq(1 .. MaxParts)
  BY <1>1, <1>2 DEF CallStates
<1>4. calls' = [calls EXCEPT ![c].pc = "done", ![c].queue = <<>>, ![c].overflow = FALSE,
                             ![c].seen = s, ![c].answer = answer]
  BY DEF Return
<1>5. answer = "success" => s = calls[c].seen
  OBVIOUS
<1> HIDE DEF s
<1>6. calls' \in [Calls -> CallStates]
  <2> DEFINE r == [calls[c] EXCEPT !.pc = "done", !.queue = <<>>, !.overflow = FALSE,
                                   !.seen = s, !.answer = answer]
  <2>1. r \in CallStates
    <3>1. calls[c] \in CallStates
      BY <1>1
    <3> QED BY <1>2, <1>3, <3>1 DEF CallStates
  <2>2. calls' = [calls EXCEPT ![c] = r]
    BY <1>4
  <2> HIDE DEF r
  <2> QED BY <1>1, <2>1, <2>2
<1>7. /\ calls'[c].pc = "done" /\ calls'[c].answer = answer
      /\ calls'[c].attempt = calls[c].attempt
      /\ calls'[c].queue = <<>>
      /\ calls'[c].seen = s
      /\ \A d \in Calls \ {c} : calls'[d] = calls[d]
  BY <1>1, <1>4 DEF CallStates
<1> QED BY <1>5, <1>6, <1>7 DEF Return

\* The messages Publish may add.
LEMMA PublishType ==
    ASSUME NEW m, MsgType(m), NetType, TypeOK, Publish(m)
    PROVE  /\ net' \subseteq [msg : Messages, copy : {1, 2}]
           /\ \A p \in net' : p \in net \/ (p.msg = m /\ calls[m.call].pc = "waiting")
           /\ \A p \in net' : MsgType(p.msg)
           /\ reconnects' \in 0 .. MaxReconnects
<1>1. m \in Messages
  BY DEF MsgType
<1> DEFINE first == [msg |-> m, copy |-> 1]
           again == [msg |-> m, copy |-> 2]
<1>2. \A p \in net' : p \in net \/ (p \in {first, again} /\ calls[m.call].pc = "waiting")
  BY Zenon DEF Publish
<1>3. net \subseteq [msg : Messages, copy : {1, 2}]
  BY DEF TypeOK
<1>4. reconnects' \in 0 .. MaxReconnects
  BY DispatchAssumption DEF Publish, TypeOK
<1>5. \A p \in net' : p \in [msg : Messages, copy : {1, 2}]
  BY <1>1, <1>2, <1>3
<1>6. \A p \in net' : p \in net \/ (p.msg = m /\ calls[m.call].pc = "waiting")
  BY <1>2
<1> QED BY <1>4, <1>5, <1>6 DEF NetType

-----------------------------------------------------------------------------
(* The Operator's steps *)

OpStep(c) ==
    \/ Govern(c) \/ BeginRead(c) \/ BeginWrite(c) \/ CallProvider(c)
    \/ StreamEvent(c) \/ StreamEnds(c) \/ SaveResult(c)
    \/ CompleteRead(c) \/ CompleteWrite(c) \/ FailRead(c) \/ FailWrite(c) \/ Finish(c)

\* A run that keeps all but its position, and possibly its copy of the record.
Moved(c, pc) ==
    /\ runs'[c].pc = pc
    /\ runs'[c].parts = runs[c].parts
    /\ runs'[c].ok = runs[c].ok

\* A run that has ended keeps the length of the answer only.
RunEnds(c) ==
    /\ runs'[c].pc = "ended"
    /\ runs'[c].parts = runs[c].parts
    /\ runs'[c].ok = FALSE

OthersKeep(c) ==
    /\ runs' \in [Calls -> RunStates]
    /\ \A d \in Calls \ {c} : runs'[d] = runs[d]

\* What the forms of an update of runs do.
LEMMA RunUpdate ==
    ASSUME TypeInv, NEW c \in Calls
    PROVE  /\ \A pc \in RunPcs : Goto(c, pc) => OthersKeep(c) /\ Moved(c, pc) /\ runs'[c].copy = runs[c].copy
           /\ runs' = [runs EXCEPT ![c] = Ended(c)] => OthersKeep(c) /\ RunEnds(c)
           /\ \A pc \in RunPcs, r \in Records :
                 runs' = [runs EXCEPT ![c].pc = pc, ![c].copy = r] =>
                    OthersKeep(c) /\ Moved(c, pc) /\ runs'[c].copy = r
           /\ \A pc \in RunPcs :
                 runs' = [runs EXCEPT ![c].pc = pc, ![c].reporting = FALSE] =>
                    OthersKeep(c) /\ Moved(c, pc)
<1>1. runs \in [Calls -> RunStates] /\ runs[c] \in RunStates
  BY DEF TypeInv, TypeOK, RunStates
<1>2. \A r \in RunStates : [runs EXCEPT ![c] = r] \in [Calls -> RunStates]
  BY <1>1
<1>3. ASSUME NEW pc \in RunPcs, Goto(c, pc)
      PROVE  OthersKeep(c) /\ Moved(c, pc) /\ runs'[c].copy = runs[c].copy
  <2>1. [runs[c] EXCEPT !.pc = pc] \in RunStates
    BY <1>1 DEF RunStates
  <2>2. runs' = [runs EXCEPT ![c] = [runs[c] EXCEPT !.pc = pc]]
    BY <1>3 DEF Goto
  <2>3. runs' \in [Calls -> RunStates]
    BY <1>2, <2>1, <2>2
  <2> QED BY <2>2, <2>3, <1>1 DEF OthersKeep, Moved, RunStates
<1>4. ASSUME runs' = [runs EXCEPT ![c] = Ended(c)] PROVE OthersKeep(c) /\ RunEnds(c)
  <2>1. Ended(c) \in RunStates
    BY <1>1, NothingType DEF RunStates, Ended, RunPcs
  <2>2. runs' \in [Calls -> RunStates] /\ runs'[c] = Ended(c)
    BY <1>1, <1>2, <2>1, <1>4
  <2>3. Ended(c).pc = "ended" /\ Ended(c).parts = runs[c].parts /\ Ended(c).ok = FALSE
    BY DEF Ended, NoRun
  <2> QED BY <2>2, <2>3, <1>1, <1>4 DEF OthersKeep, RunEnds
<1>5. ASSUME NEW pc \in RunPcs, NEW r \in Records,
             runs' = [runs EXCEPT ![c].pc = pc, ![c].copy = r]
      PROVE  OthersKeep(c) /\ Moved(c, pc) /\ runs'[c].copy = r
  <2>1. [runs[c] EXCEPT !.pc = pc, !.copy = r] \in RunStates
    BY <1>1 DEF RunStates
  <2>2. runs' = [runs EXCEPT ![c] = [runs[c] EXCEPT !.pc = pc, !.copy = r]]
    BY <1>5, <1>1 DEF RunStates
  <2>3. runs' \in [Calls -> RunStates]
    BY <1>2, <2>1, <2>2
  <2> QED BY <2>2, <2>3, <1>1 DEF OthersKeep, Moved, RunStates
<1>6. ASSUME NEW pc \in RunPcs, runs' = [runs EXCEPT ![c].pc = pc, ![c].reporting = FALSE]
      PROVE  OthersKeep(c) /\ Moved(c, pc)
  <2> DEFINE r == [runs[c] EXCEPT !.pc = pc, !.reporting = FALSE]
  <2>1. r \in RunStates
    BY <1>1 DEF RunStates
  <2>2. runs' = [runs EXCEPT ![c] = r]
    BY <1>6, <1>1 DEF RunStates
  <2>3. r.pc = pc /\ r.parts = runs[c].parts /\ r.ok = runs[c].ok
    BY <1>1 DEF RunStates
  <2> HIDE DEF r
  <2>4. runs' \in [Calls -> RunStates] /\ runs'[c] = r
    BY <1>1, <1>2, <2>1, <2>2
  <2> QED BY <1>1, <2>2, <2>3, <2>4 DEF OthersKeep, Moved
<1> QED BY <1>3, <1>4, <1>5, <1>6

\* The steps of a run, without the rest of its state.  A step that only goes on:
QuietEdge(c) ==
    /\ \/ runs[c].pc = "command" /\ Moved(c, "beginRead")
       \/ runs[c].pc \in {"beginRead", "beginWrite", "completeRead", "failRead",
                          "completeWrite", "failWrite"} /\ Moved(c, "finish")
       \/ runs[c].pc \in {"call", "stream", "saveResult"} /\ Moved(c, "failRead")
       \/ runs[c].pc = "stream" /\ Moved(c, "saveResult")
    /\ UNCHANGED <<net, records, results, receipts, reconnects, called, raced>>

\* Steps that publish:
GovernEdge(c) ==
    /\ runs[c].pc = "command"
    /\ RunEnds(c)
    /\ \/ UNCHANGED <<net, reconnects, receipts>>
       \/ /\ receipts' = [receipts EXCEPT ![c] = "rejected"]
          /\ Publish(Completion(c, "rejected", TRUE, 0))
    /\ UNCHANGED <<records, results, called, raced>>

EventEdge(c) ==
    /\ runs[c].pc = "stream"
    /\ runs[c].parts + 1 \in 1 .. MaxParts
    /\ runs'[c].pc = "stream"
    /\ runs'[c].ok = runs[c].ok
    /\ Publish(Progress(c, runs[c].parts + 1)) \/ UNCHANGED <<net, reconnects>>
    /\ UNCHANGED <<records, results, receipts, called, raced>>

FinishEdge(c) ==
    LET status == IF runs[c].ok THEN "completed" ELSE "failed" IN
    /\ runs[c].pc = "finish"
    /\ RunEnds(c)
    /\ \E attested \in BOOLEAN, stored \in {receipts[c], status} :
          /\ attested => stored = status
          /\ receipts' = [receipts EXCEPT ![c] = stored]
          /\ Publish(Completion(c, status, attested, runs[c].parts))
    /\ UNCHANGED <<records, results, called, raced>>

\* Steps that touch the attempt's files or the provider:
BeginReadEdge(c) ==
    /\ runs[c].pc = "beginRead"
    /\ records[Attempt(c)].status = "none"
    /\ Moved(c, "beginWrite")
    /\ NoteRace(c)
    /\ UNCHANGED <<net, records, results, receipts, reconnects, called>>

BeginWriteEdge(c) ==
    /\ runs[c].pc = "beginWrite"
    /\ Moved(c, "call")
    /\ records' = [records EXCEPT ![Attempt(c)] =
                     [status |-> "inProgress", call |-> c, output |-> NoOutput]]
    /\ UNCHANGED <<net, results, receipts, reconnects, called, raced>>

CallEdge(c) ==
    /\ runs[c].pc = "call"
    /\ Moved(c, "stream")
    /\ called' = called \cup {c}
    /\ UNCHANGED <<net, records, results, receipts, reconnects, raced>>

SaveEdge(c) ==
    /\ runs[c].pc = "saveResult"
    /\ Moved(c, "completeRead")
    /\ results' = [results EXCEPT ![Attempt(c)] = Output(c)]
    /\ UNCHANGED <<net, records, receipts, reconnects, called, raced>>

LoadEdge(c) ==
    /\ \/ runs[c].pc = "completeRead" /\ Moved(c, "completeWrite")
       \/ runs[c].pc = "failRead" /\ Moved(c, "failWrite")
    /\ records[Attempt(c)].status = "inProgress"
    /\ runs'[c].copy = records[Attempt(c)]
    /\ UNCHANGED <<net, records, results, receipts, reconnects, called, raced>>

CompleteEdge(c) ==
    /\ runs[c].pc = "completeWrite"
    /\ runs'[c].pc = "finish"
    /\ runs'[c].parts = runs[c].parts
    /\ runs'[c].ok = TRUE
    /\ records' = [records EXCEPT ![Attempt(c)] =
                     [runs[c].copy EXCEPT !.status = "completed", !.output = Output(c)]]
    /\ UNCHANGED <<net, results, receipts, reconnects, called, raced>>

FailEdge(c) ==
    /\ runs[c].pc = "failWrite"
    /\ Moved(c, "finish")
    /\ records' = [records EXCEPT ![Attempt(c)] = [runs[c].copy EXCEPT !.status = "failed"]]
    /\ UNCHANGED <<net, results, receipts, reconnects, called, raced>>

OpEdge(c) ==
    \/ QuietEdge(c) \/ GovernEdge(c) \/ EventEdge(c) \/ FinishEdge(c)
    \/ BeginReadEdge(c) \/ BeginWriteEdge(c) \/ CallEdge(c) \/ SaveEdge(c)
    \/ LoadEdge(c) \/ CompleteEdge(c) \/ FailEdge(c)

\* Every step of the Operator for a command is one of these.
LEMMA OpEdges ==
    ASSUME TypeInv, NEW c \in Calls, OpStep(c)
    PROVE  OthersKeep(c) /\ calls' = calls /\ OpEdge(c)
<1> USE RunUpdate
<1>0. /\ runs \in [Calls -> RunStates] /\ runs[c] \in RunStates
      /\ Attempt(c) \in Attempts
      /\ records[Attempt(c)] \in Records
  BY DEF TypeInv, TypeOK, RunStates, CallStates, Attempt
<1>1. {"beginRead", "beginWrite", "call", "stream", "saveResult", "completeRead",
       "completeWrite", "failRead", "failWrite", "finish"} \subseteq RunPcs
  BY DEF RunPcs
<1>2. CASE Govern(c)
  <2>1. CASE Goto(c, "beginRead") /\ UNCHANGED <<net, reconnects, receipts>>
    BY <1>1, <1>2, <2>1 DEF Govern, OpEdge, QuietEdge
  <2>2. CASE runs' = [runs EXCEPT ![c] = Ended(c)]
    BY <1>2, <2>2 DEF Govern, OpEdge, GovernEdge
  <2> QED BY <1>2, <2>1, <2>2 DEF Govern
<1>3. CASE BeginRead(c)
  BY <1>1, <1>3 DEF BeginRead, OpEdge, QuietEdge, BeginReadEdge
<1>4. CASE BeginWrite(c)
  BY <1>1, <1>4 DEF BeginWrite, OpEdge, QuietEdge, BeginWriteEdge
<1>5. CASE CallProvider(c)
  <2>1. CASE Goto(c, "stream") /\ called' = called \cup {c}
    BY <1>1, <1>5, <2>1 DEF CallProvider, OpEdge, CallEdge
  <2>2. CASE /\ runs' = [runs EXCEPT ![c].pc = "failRead", ![c].reporting = FALSE]
             /\ UNCHANGED called
    BY <1>1, <1>5, <2>2 DEF CallProvider, OpEdge, QuietEdge
  <2> QED BY <1>5, <2>1, <2>2 DEF CallProvider
<1>6. CASE StreamEvent(c)
  <2>1. PICK reporting \in {FALSE, runs[c].reporting} :
            runs' = [runs EXCEPT ![c].parts = @ + 1, ![c].reporting = reporting]
    BY <1>6 DEF StreamEvent
  <2>2. reporting \in BOOLEAN
    BY <1>0 DEF RunStates
  <2>3. runs[c].parts + 1 \in 1 .. MaxParts
    <3>1. runs[c].parts \in 0 .. MaxParts
      BY <1>0 DEF RunStates
    <3>2. runs[c].parts < MaxParts
      BY <1>6 DEF StreamEvent
    <3> QED BY <3>1, <3>2, DispatchAssumption
  <2>4. runs[c].parts + 1 \in 0 .. MaxParts
    BY <2>3, DispatchAssumption
  <2> DEFINE r == [runs[c] EXCEPT !.parts = runs[c].parts + 1, !.reporting = reporting]
  <2>5. r \in RunStates
    BY <1>0, <2>2, <2>4 DEF RunStates
  <2>6. r.pc = runs[c].pc /\ r.ok = runs[c].ok
    BY <1>0 DEF RunStates
  <2>7. runs' = [runs EXCEPT ![c] = r]
    BY <2>1, <1>0 DEF RunStates
  <2> HIDE DEF r
  <2>8. OthersKeep(c) /\ runs'[c].pc = runs[c].pc /\ runs'[c].ok = runs[c].ok
    BY <1>0, <2>5, <2>6, <2>7 DEF OthersKeep
  <2> QED BY <1>6, <2>3, <2>8 DEF StreamEvent, OpEdge, EventEdge
<1>7. CASE StreamEnds(c)
  <2>1. PICK next \in {"failRead", "saveResult"} :
            runs' = [runs EXCEPT ![c].pc = next, ![c].reporting = FALSE]
    BY <1>7 DEF StreamEnds
  <2>2. OthersKeep(c) /\ Moved(c, next)
    BY <1>1, <2>1
  <2> QED BY <1>7, <2>2 DEF StreamEnds, OpEdge, QuietEdge
<1>8. CASE SaveResult(c)
  BY <1>1, <1>8 DEF SaveResult, OpEdge, QuietEdge, SaveEdge
<1>9. CASE CompleteRead(c)
  BY <1>0, <1>1, <1>9 DEF CompleteRead, LoadRecord, OpEdge, QuietEdge, LoadEdge
<1>10. CASE CompleteWrite(c)
  <2>1. CASE runs' = [runs EXCEPT ![c].pc = "finish", ![c].copy = NoRecord] /\ UNCHANGED records
    BY <1>1, <1>10, <2>1, NothingType DEF CompleteWrite, OpEdge, QuietEdge
  <2>2. CASE runs' = [runs EXCEPT ![c].pc = "finish", ![c].copy = NoRecord, ![c].ok = TRUE]
    <3> DEFINE r == [runs[c] EXCEPT !.pc = "finish", !.copy = NoRecord, !.ok = TRUE]
    <3>1. r \in RunStates
      BY <1>0, <1>1, NothingType DEF RunStates
    <3>2. r.pc = "finish" /\ r.ok = TRUE /\ r.parts = runs[c].parts
      BY <1>0 DEF RunStates
    <3>3. runs' = [runs EXCEPT ![c] = r]
      BY <2>2, <1>0 DEF RunStates
    <3> HIDE DEF r
    <3>4. OthersKeep(c) /\ runs'[c] = r
      BY <1>0, <3>1, <3>3 DEF OthersKeep
    <3> QED
      BY <1>10, <2>1, <2>2, <3>2, <3>4 DEF CompleteWrite, OpEdge, CompleteEdge
  <2> QED BY <1>10, <2>1, <2>2 DEF CompleteWrite
<1>11. CASE FailRead(c)
  BY <1>0, <1>1, <1>11 DEF FailRead, LoadRecord, OpEdge, QuietEdge, LoadEdge
<1>12. CASE FailWrite(c)
  BY <1>1, <1>12, NothingType DEF FailWrite, OpEdge, QuietEdge, FailEdge
<1>13. CASE Finish(c)
  BY <1>13 DEF Finish, OpEdge, FinishEdge
<1> QED BY <1>2, <1>3, <1>4, <1>5, <1>6, <1>7, <1>8, <1>9, <1>10, <1>11, <1>12, <1>13 DEF OpStep

\* The messages of the Operator.
LEMMA PublishedType ==
    ASSUME NEW c \in Calls
    PROVE  /\ \A n \in 1 .. MaxParts : MsgType(Progress(c, n)) /\ Progress(c, n).call = c
           /\ \A status \in Statuses, attested \in BOOLEAN, n \in 0 .. MaxParts :
                 /\ MsgType(Completion(c, status, attested, n))
                 /\ Completion(c, status, attested, n).call = c
<1>1. \A n \in 1 .. MaxParts : n \in 0 .. MaxParts
  BY DispatchAssumption
<1> QED BY <1>1 DEF MsgType, Messages, Progress, Completion, Statuses

\* The Operator's steps keep the types; what they add to the network is published.
LEMMA OpType ==
    ASSUME TypeInv, NEW c \in Calls, OthersKeep(c), calls' = calls, OpEdge(c)
    PROVE  TypeInv'
<1>0. /\ runs[c] \in RunStates /\ runs[c].parts \in 0 .. MaxParts /\ runs[c].copy \in Records
      /\ Attempt(c) \in Attempts
      /\ records \in [Attempts -> Records] /\ results \in [Attempts -> Outputs]
      /\ receipts \in [Calls -> Statuses \cup {"none"}]
      /\ called \subseteq Calls /\ raced \subseteq Attempts
      /\ TypeOK /\ NetType
  BY DEF TypeInv, TypeOK, RunStates, CallStates, Attempt
<1>1. runs' \in [Calls -> RunStates]
  BY DEF OthersKeep
<1>2. Output(c) \in Outputs
  BY <1>0 DEF Output, Outputs
<1>3. records' \in [Attempts -> Records] /\ results' \in [Attempts -> Outputs]
  <2>1. CASE BeginWriteEdge(c)
    <3>1. [status |-> "inProgress", call |-> c, output |-> NoOutput] \in Records
      BY NothingType DEF Records
    <3> QED BY <2>1, <3>1, <1>0 DEF BeginWriteEdge
  <2>2. CASE SaveEdge(c)
    BY <2>2, <1>0, <1>2 DEF SaveEdge
  <2>3. CASE CompleteEdge(c)
    <3>1. [runs[c].copy EXCEPT !.status = "completed", !.output = Output(c)] \in Records
      BY <1>0, <1>2 DEF Records
    <3> QED BY <2>3, <3>1, <1>0 DEF CompleteEdge
  <2>4. CASE FailEdge(c)
    <3>1. [runs[c].copy EXCEPT !.status = "failed"] \in Records
      BY <1>0 DEF Records
    <3> QED BY <2>4, <3>1, <1>0 DEF FailEdge
  <2>5. CASE UNCHANGED <<records, results>>
    BY <2>5, <1>0
  <2> QED BY <2>1, <2>2, <2>3, <2>4, <2>5 DEF OpEdge, QuietEdge, GovernEdge, EventEdge,
             FinishEdge, BeginReadEdge, CallEdge, LoadEdge
<1>4. called' \subseteq Calls /\ raced' \subseteq Attempts
  BY <1>0 DEF OpEdge, QuietEdge, GovernEdge, EventEdge, FinishEdge, BeginReadEdge, NoteRace,
     BeginWriteEdge, CallEdge, SaveEdge, LoadEdge, CompleteEdge, FailEdge
<1>5. /\ receipts' \in [Calls -> Statuses \cup {"none"}]
      /\ net' \subseteq [msg : Messages, copy : {1, 2}]
      /\ \A p \in net' : MsgType(p.msg)
      /\ reconnects' \in 0 .. MaxReconnects
  <2>1. CASE UNCHANGED <<net, reconnects, receipts>>
    BY <2>1, <1>0 DEF TypeOK, NetType
  <2>2. CASE GovernEdge(c)
    <3>1. MsgType(Completion(c, "rejected", TRUE, 0))
      <4>1. 0 \in 0 .. MaxParts /\ TRUE \in BOOLEAN /\ "rejected" \in Statuses
        BY DispatchAssumption DEF Statuses
      <4> QED BY <4>1, PublishedType
    <3>2. CASE UNCHANGED <<net, reconnects, receipts>>
      BY <2>1, <3>2
    <3>3. CASE /\ receipts' = [receipts EXCEPT ![c] = "rejected"]
               /\ Publish(Completion(c, "rejected", TRUE, 0))
      <4>1. receipts' \in [Calls -> Statuses \cup {"none"}]
        BY <1>0, <3>3 DEF TypeOK, Statuses
      <4> QED BY <1>0, <3>1, <3>3, <4>1, PublishType
    <3> QED BY <2>2, <3>2, <3>3 DEF GovernEdge
  <2>3. CASE EventEdge(c)
    <3>1. MsgType(Progress(c, runs[c].parts + 1))
      BY <2>3, PublishedType DEF EventEdge
    <3> QED BY <2>1, <2>3, <3>1, <1>0, PublishType DEF EventEdge
  <2>4. CASE FinishEdge(c)
    <3>0. PICK status : /\ status = (IF runs[c].ok THEN "completed" ELSE "failed")
                        /\ \E attested \in BOOLEAN, stored \in {receipts[c], status} :
                              /\ receipts' = [receipts EXCEPT ![c] = stored]
                              /\ Publish(Completion(c, status, attested, runs[c].parts))
      BY <2>4 DEF FinishEdge
    <3>1. status \in Statuses
      BY <3>0 DEF Statuses
    <3>2. PICK attested \in BOOLEAN, stored \in {receipts[c], status} :
             /\ receipts' = [receipts EXCEPT ![c] = stored]
             /\ Publish(Completion(c, status, attested, runs[c].parts))
      BY <3>0
    <3>3. MsgType(Completion(c, status, attested, runs[c].parts))
      BY <3>1, <1>0, PublishedType
    <3>4. stored \in Statuses \cup {"none"}
      BY <3>1, <1>0
    <3> QED BY <3>2, <3>3, <3>4, <1>0, PublishType
  <2> QED BY <2>1, <2>2, <2>3, <2>4 DEF OpEdge, QuietEdge, BeginReadEdge, BeginWriteEdge,
             CallEdge, SaveEdge, LoadEdge, CompleteEdge, FailEdge
<1>6. NetType'
  BY <1>0, <1>5 DEF NetType, MsgType
<1> QED BY <1>0, <1>1, <1>3, <1>4, <1>5, <1>6 DEF TypeInv, TypeOK, RunStates

GatewayStep(c) ==
    \/ \E a \in Attempts : Dispatch(c, a)
    \/ TakeResult(c) \/ TakeOverflow(c) \/ Expire(c)

\* What a call answers to a completion.
LEMMA VerdictType ==
    ASSUME NEW c \in Calls, NEW m \in Messages
    PROVE  /\ Verdict(c, m) \in {"success", "failed", "rejected", "unusable"}
           /\ Verdict(c, m) \in Answers
           /\ Verdict(c, m) = "success" =>
                 /\ m.attested /\ m.status = "completed"
                 /\ c \in Streaming => Reconciles(calls[c].seen, m.n)
           /\ Verdict(c, m) \in {"failed", "rejected"} => m.attested /\ m.status = Verdict(c, m)
<1>1. m.status \in Statuses /\ m.attested \in BOOLEAN
  BY DEF Messages
<1>2. CASE ~m.attested
  BY <1>2 DEF Verdict, Answers
<1>3. CASE m.attested /\ m.status # "completed"
  BY <1>1, <1>3 DEF Verdict, Answers, Statuses
<1>4. CASE m.attested /\ m.status = "completed"
  BY <1>4 DEF Verdict, Answers
<1> QED BY <1>1, <1>2, <1>3, <1>4

\* The type of the calls, in the form the lemmas above give it.
LEMMA CallTypes ==
    ASSUME TypeInv, NEW c \in Calls
    PROVE  /\ calls \in [Calls -> CallStates] /\ calls[c] \in CallStates
           /\ calls[c].queue \in Seq(Messages)
           /\ calls[c].queue # <<>> =>
                 /\ Head(calls[c].queue) = calls[c].queue[1]
                 /\ MsgType(Head(calls[c].queue)) /\ Head(calls[c].queue).call = c
                 /\ Tail(calls[c].queue) \in Seq(Messages)
                 /\ Len(Tail(calls[c].queue)) <= Len(calls[c].queue)
                 /\ \A i \in 1 .. Len(Tail(calls[c].queue)) :
                       /\ i + 1 \in 1 .. Len(calls[c].queue)
                       /\ Tail(calls[c].queue)[i] = calls[c].queue[i + 1]
<1>1. calls \in [Calls -> CallStates] /\ calls[c] \in CallStates
  BY DEF TypeInv, TypeOK, CallStates
<1>2. calls[c].queue \in Seq(Messages)
  BY <1>1 DEF CallStates
<1> DEFINE q == calls[c].queue
<1>3. ASSUME q # <<>>
      PROVE /\ Head(q) = q[1] /\ 1 \in 1 .. Len(q)
            /\ Tail(q) \in Seq(Messages)
            /\ Len(Tail(q)) <= Len(q)
            /\ \A i \in 1 .. Len(Tail(q)) : i + 1 \in 1 .. Len(q) /\ Tail(q)[i] = q[i + 1]
  <2> HIDE DEF q
  <2>1. q \in Seq(Messages)
    BY <1>2 DEF q
  <2>2. Len(q) \in Nat /\ Len(q) # 0
    BY <1>3, <2>1
  <2>3. Tail(q) \in Seq(Messages) /\ Len(Tail(q)) = Len(q) - 1
    BY <1>3, <2>1
  <2> QED BY <1>3, <2>1, <2>2, <2>3
<1> QED BY <1>1, <1>2, <1>3 DEF TypeInv, NetType

\* The Gateway's steps for a call: it starts, or takes a progress event, or returns.
Started(c) ==
    /\ calls[c].pc = "idle"
    /\ \/ UNCHANGED runs /\ calls'[c].pc = "done" /\ calls'[c].answer = "refused"
       \/ /\ calls'[c].pc = "waiting"
          /\ runs'[c].pc = "command"
          /\ runs'[c].ok = runs[c].ok
    /\ calls'[c].answer \in {calls[c].answer, "refused"}
    /\ calls'[c].pc = "waiting" => calls'[c].answer = calls[c].answer
    /\ calls'[c].queue = calls[c].queue
    /\ UNCHANGED net

Progressed(c) ==
    /\ calls[c].pc = "waiting"
    /\ calls'[c].pc = "waiting"
    /\ calls'[c].attempt = calls[c].attempt
    /\ calls'[c].answer = calls[c].answer
    /\ \A i \in 1 .. Len(calls'[c].queue) :
          i + 1 \in 1 .. Len(calls[c].queue) /\ calls'[c].queue[i] = calls[c].queue[i + 1]
    /\ UNCHANGED <<net, runs>>

Returned(c) ==
    /\ calls[c].pc = "waiting"
    /\ calls'[c].pc = "done"
    /\ calls'[c].attempt = calls[c].attempt
    /\ calls'[c].queue = <<>>
    /\ net' \subseteq net
    /\ UNCHANGED runs
    /\ \/ calls'[c].answer \in {"overflow", "unknown", "unusable"}
       \/ /\ 1 \in 1 .. Len(calls[c].queue)
          /\ calls[c].queue[1].type = "completion"
          /\ calls'[c].answer = Verdict(c, calls[c].queue[1])
          /\ calls'[c].answer = "success" => calls'[c].seen = calls[c].seen

\* Every step of the Gateway for a call is one of these and keeps the types.
LEMMA GatewayEdges ==
    ASSUME TypeInv, NEW c \in Calls, GatewayStep(c)
    PROVE  /\ TypeInv'
           /\ \A d \in Calls \ {c} : calls'[d] = calls[d] /\ runs'[d] = runs[d]
           /\ UNCHANGED <<records, results, receipts, reconnects, called, raced>>
           /\ Started(c) \/ Progressed(c) \/ Returned(c)
<1>0. /\ calls \in [Calls -> CallStates] /\ calls[c] \in CallStates
      /\ runs \in [Calls -> RunStates] /\ runs[c] \in RunStates
      /\ \A d \in Calls : Len(calls[d].queue) <= Capacity(d)
      /\ TypeOK /\ NetType
  BY CallTypes DEF TypeInv, TypeOK, RunStates, Capacity
<1>1. ASSUME calls' \in [Calls -> CallStates], runs' \in [Calls -> RunStates],
             net' \subseteq net, \A d \in Calls \ {c} : calls'[d] = calls[d],
             Len(calls'[c].queue) <= Capacity(c),
             \A i \in 1 .. Len(calls'[c].queue) :
                 MsgType(calls'[c].queue[i]) /\ calls'[c].queue[i].call = c,
             UNCHANGED <<records, results, receipts, reconnects, called, raced>>
      PROVE  TypeInv'
  <2>1. \A d \in Calls : Len(calls'[d].queue) <= Capacity(d)
    BY <1>0, <1>1
  <2>2. NetType'
    <3>1. \A p \in net' : MsgType(p.msg)
      BY <1>0, <1>1 DEF NetType
    <3>2. ASSUME NEW d \in Calls, NEW i \in 1 .. Len(calls'[d].queue)
          PROVE  MsgType(calls'[d].queue[i]) /\ calls'[d].queue[i].call = d
      <4>1. CASE d = c
        BY <1>1, <4>1
      <4>2. CASE d # c
        <5>1. calls'[d] = calls[d]
          BY <1>1, <4>2
        <5> QED BY <1>0, <5>1 DEF NetType
      <4> QED BY <4>1, <4>2
    <3> QED BY <3>1, <3>2 DEF NetType, MsgType
  <2>3. net' \subseteq [msg : Messages, copy : {1, 2}]
    BY <1>0, <1>1 DEF TypeOK
  <2>4. TypeOK'
    <3>1. /\ calls' \in [Calls -> CallStates] /\ runs' \in [Calls -> RunStates]
          /\ UNCHANGED <<records, results, receipts, reconnects, called, raced>>
      BY <1>1
    <3> QED BY <1>0, <2>1, <2>3, <3>1 DEF TypeOK, RunStates, CallStates, Capacity
  <2> QED BY <2>2, <2>4 DEF TypeInv
<1>2. ASSUME NEW a \in Attempts, Dispatch(c, a)
      PROVE  TypeInv' /\ Started(c) /\ \A d \in Calls \ {c} : calls'[d] = calls[d] /\ runs'[d] = runs[d]
  <2>1. CASE /\ calls' = [calls EXCEPT ![c].pc = "done", ![c].answer = "refused"]
             /\ UNCHANGED runs
    <3>1. \A x \in Answers : [calls EXCEPT ![c].pc = "done", ![c].answer = x] \in [Calls -> CallStates]
      BY <1>0, RefuseUpdate
    <3>2. "refused" \in Answers
      BY DEF Answers
    <3>3. calls' \in [Calls -> CallStates]
      BY <2>1, <3>1, <3>2
    <3>4. /\ calls'[c].queue = calls[c].queue /\ calls'[c].pc = "done"
          /\ calls'[c].answer = "refused"
          /\ \A d \in Calls \ {c} : calls'[d] = calls[d]
      BY <2>1, <1>0 DEF CallStates
    <3> QED BY <1>0, <1>1, <1>2, <2>1, <3>3, <3>4 DEF Dispatch, Started, NetType
  <2>2. CASE /\ calls' = [calls EXCEPT ![c].pc = "waiting", ![c].attempt = a]
             /\ runs' = [runs EXCEPT ![c].pc = "command", ![c].reporting = c \in Streaming]
    <3>1. calls' \in [Calls -> CallStates]
      <4>1. \A x \in Attempts : [calls EXCEPT ![c].pc = "waiting", ![c].attempt = x] \in [Calls -> CallStates]
        BY <1>0, WaitUpdate
      <4> QED BY <2>2, <4>1
    <3>2. /\ calls'[c].queue = calls[c].queue /\ calls'[c].pc = "waiting"
          /\ calls'[c].answer = calls[c].answer
          /\ \A d \in Calls \ {c} : calls'[d] = calls[d]
      BY <2>2, <1>0 DEF CallStates
    <3> DEFINE reporting == c \in Streaming
               r == [runs[c] EXCEPT !.pc = "command", !.reporting = reporting]
    <3>3. reporting \in BOOLEAN
      OBVIOUS
    <3>4. runs' = [runs EXCEPT ![c] = r]
      BY <2>2, <1>0 DEF RunStates
    <3> HIDE DEF reporting
    <3>5. r \in RunStates
      BY <1>0, <3>3 DEF RunStates, RunPcs
    <3>6. r.pc = "command" /\ r.ok = runs[c].ok
      BY <1>0 DEF RunStates
    <3> HIDE DEF r
    <3>7. /\ runs' \in [Calls -> RunStates] /\ runs'[c] = r
          /\ \A d \in Calls \ {c} : runs'[d] = runs[d]
      BY <1>0, <3>4, <3>5
    <3> QED BY <1>0, <1>1, <1>2, <3>1, <3>2, <3>6, <3>7 DEF Dispatch, Started, NetType
  <2> QED BY <1>2, <2>1, <2>2 DEF Dispatch
<1>3. ASSUME NEW answer \in Answers, Return(c, answer), calls[c].pc = "waiting",
             UNCHANGED <<runs, records, results, receipts, reconnects, called, raced>>,
             \/ answer \in {"overflow", "unknown", "unusable"}
             \/ /\ 1 \in 1 .. Len(calls[c].queue)
                /\ calls[c].queue[1].type = "completion"
                /\ answer = Verdict(c, calls[c].queue[1])
      PROVE  TypeInv' /\ Returned(c) /\ \A d \in Calls \ {c} : calls'[d] = calls[d]
  <2>1. Len(calls'[c].queue) = 0 /\ 0 <= Capacity(c)
    BY <1>3, ReturnType, DispatchAssumption DEF Capacity
  <2>2. TypeInv'
    BY <1>0, <1>1, <1>3, <2>1, ReturnType
  <2> QED BY <1>3, <2>2, ReturnType DEF Returned
<1>4. ASSUME TakeOverflow(c)
      PROVE  TypeInv' /\ Returned(c) /\ \A d \in Calls \ {c} : calls'[d] = calls[d]
  BY <1>3, <1>4 DEF TakeOverflow, Answers
<1>5. ASSUME Expire(c)
      PROVE  TypeInv' /\ Returned(c) /\ \A d \in Calls \ {c} : calls'[d] = calls[d]
  BY <1>3, <1>5 DEF Expire, Answers
<1>6. ASSUME TakeResult(c)
      PROVE  /\ TypeInv'
             /\ Progressed(c) \/ Returned(c)
             /\ \A d \in Calls \ {c} : calls'[d] = calls[d]
  <2> DEFINE q == calls[c].queue
             m == Head(q)
  <2>1. /\ calls[c].pc = "waiting" /\ q # <<>>
        /\ UNCHANGED <<runs, records, results, receipts, reconnects, called, raced>>
    BY <1>6 DEF TakeResult
  <2>2. /\ m = q[1] /\ MsgType(m) /\ m.call = c
        /\ Tail(q) \in Seq(Messages) /\ q \in Seq(Messages)
        /\ Len(Tail(q)) <= Len(q)
        /\ \A i \in 1 .. Len(Tail(q)) : i + 1 \in 1 .. Len(q) /\ Tail(q)[i] = q[i + 1]
    BY <2>1, CallTypes
  <2>3. 1 \in 1 .. Len(q)
    BY <2>1, <2>2
  <2>4. CASE /\ m.type = "progress"
             /\ calls' = [calls EXCEPT ![c].queue = Tail(@), ![c].seen = Append(@, m.n)]
             /\ UNCHANGED net
    <3> DEFINE t == Tail(q)
               s == Append(calls[c].seen, m.n)
    <3>1. s \in Seq(1 .. MaxParts)
      BY <2>2, <2>4, <1>0 DEF MsgType, CallStates
    <3>2. calls' = [calls EXCEPT ![c].queue = t, ![c].seen = s]
      BY <2>4
    <3>3. t \in Seq(Messages) /\ Len(t) <= Len(q) /\ Len(q) \in Nat /\ Len(t) \in Nat
      BY <2>2
    <3> HIDE DEF t, s
    <3>4. \A x \in Seq(Messages), y \in Seq(1 .. MaxParts) :
              [calls EXCEPT ![c].queue = x, ![c].seen = y] \in [Calls -> CallStates]
      BY <1>0, ProgressUpdate
    <3>5. calls' \in [Calls -> CallStates]
      BY <3>1, <3>2, <3>3, <3>4
    <3>6. /\ calls'[c].pc = calls[c].pc /\ calls'[c].attempt = calls[c].attempt
          /\ calls'[c].answer = calls[c].answer /\ calls'[c].queue = t
          /\ \A d \in Calls \ {c} : calls'[d] = calls[d]
      BY <3>2, <1>0 DEF CallStates
    <3>7. \A i \in 1 .. Len(t) : i + 1 \in 1 .. Len(q) /\ t[i] = q[i + 1]
      BY <2>2 DEF t
    <3>8. Len(t) <= Capacity(c)
      BY <3>3, <1>0, DispatchAssumption DEF Capacity
    <3>9. \A i \in 1 .. Len(t) : MsgType(t[i]) /\ t[i].call = c
      BY <3>7, <1>0 DEF NetType
    <3>10. TypeInv'
      BY <1>0, <1>1, <2>1, <2>4, <3>5, <3>6, <3>8, <3>9
    <3> QED BY <2>1, <2>4, <3>6, <3>7, <3>10 DEF Progressed
  <2>5. CASE m.type = "completion" /\ Return(c, Verdict(c, m))
    <3>1. Verdict(c, m) \in Answers
      BY <2>2, VerdictType DEF MsgType
    <3> QED BY <1>3, <2>1, <2>2, <2>3, <2>5, <3>1
  <2>6. CASE Return(c, "unusable")
    BY <1>3, <2>1, <2>6 DEF Answers
  <2> QED BY <1>6, <2>4, <2>5, <2>6 DEF TakeResult
<1>7. UNCHANGED <<records, results, receipts, reconnects, called, raced>>
  BY DEF GatewayStep, Dispatch, TakeResult, TakeOverflow, Expire
<1>8. ASSUME ~\E a \in Attempts : Dispatch(c, a) PROVE UNCHANGED runs
  BY <1>8 DEF GatewayStep, TakeResult, TakeOverflow, Expire
<1>9. CASE \E a \in Attempts : Dispatch(c, a)
  BY <1>2, <1>7, <1>9
<1>10. CASE ~\E a \in Attempts : Dispatch(c, a)
  <2>1. UNCHANGED runs
    BY <1>8, <1>10
  <2>2. TakeResult(c) \/ TakeOverflow(c) \/ Expire(c)
    BY <1>10 DEF GatewayStep
  <2> QED BY <1>4, <1>5, <1>6, <1>7, <2>1, <2>2
<1> QED BY <1>9, <1>10

\* The broker hands a message over.
Received(p) ==
    /\ p \in net /\ net' \subseteq net
    /\ \A d \in Calls :
          /\ calls'[d].pc = calls[d].pc
          /\ calls'[d].attempt = calls[d].attempt
          /\ calls'[d].seen = calls[d].seen
          /\ calls'[d].answer = calls[d].answer
          /\ \A i \in 1 .. Len(calls'[d].queue) :
                \/ i \in 1 .. Len(calls[d].queue) /\ calls'[d].queue[i] = calls[d].queue[i]
                \/ d = p.msg.call /\ calls'[d].queue[i] = p.msg
    /\ UNCHANGED <<runs, records, results, receipts, reconnects, called, raced>>

LEMMA ReceiveEdges ==
    ASSUME TypeInv, NEW p \in net, Receive(p)
    PROVE  TypeInv' /\ Received(p)
<1>1. MsgType(p.msg) /\ p.msg.call \in Calls
  BY DEF TypeInv, NetType, MsgType, Messages
<1>2. calls' = Handler(p.msg.call, p.msg)
  BY DEF Receive
<1> DEFINE c == p.msg.call
           m == p.msg
<1>3. c \in Calls /\ MsgType(m) /\ m.call = c /\ calls' = Handler(c, m)
  BY <1>1, <1>2
<1> HIDE DEF c, m
<1>4. /\ calls' \in [Calls -> CallStates]
      /\ \A d \in Calls : Len(calls'[d].queue) <= Capacity(d)
      /\ \A d \in Calls : \A i \in 1 .. Len(calls'[d].queue) :
            MsgType(calls'[d].queue[i]) /\ calls'[d].queue[i].call = d
      /\ \A d \in Calls : /\ calls'[d].pc = calls[d].pc
                          /\ calls'[d].attempt = calls[d].attempt
                          /\ calls'[d].seen = calls[d].seen
                          /\ calls'[d].answer = calls[d].answer
      /\ \A d \in Calls : \A i \in 1 .. Len(calls'[d].queue) :
            \/ i \in 1 .. Len(calls[d].queue) /\ calls'[d].queue[i] = calls[d].queue[i]
            \/ d = c /\ calls'[d].queue[i] = m
  BY <1>3, HandlerType
<1>5. /\ net' \subseteq net
      /\ UNCHANGED <<runs, records, results, receipts, reconnects, called, raced>>
  BY DEF Receive
<1>6. Received(p)
  BY <1>4, <1>5 DEF Received, c, m
<1>7. NetType'
  BY <1>4, <1>5 DEF TypeInv, NetType, MsgType
<1>8. TypeOK'
  BY <1>4, <1>5 DEF TypeInv, TypeOK, CallStates, Capacity
<1> QED BY <1>6, <1>7, <1>8 DEF TypeInv

\* The Operator stops.
Stopped ==
    /\ \A d \in Calls : /\ runs'[d].parts = runs[d].parts
                        /\ \/ runs[d].pc = "none" /\ runs'[d] = runs[d]
                           \/ runs[d].pc # "none" /\ RunEnds(d)
    /\ UNCHANGED <<calls, net, records, results, receipts, reconnects, called, raced>>

LEMMA RestartEdges ==
    ASSUME TypeInv, Restart
    PROVE  TypeInv' /\ Stopped
<1>1. runs \in [Calls -> RunStates]
  BY DEF TypeInv, TypeOK, RunStates
<1>2. \A d \in Calls : Ended(d) \in RunStates
  BY <1>1, NothingType DEF RunStates, Ended, RunPcs
<1>3. \A d \in Calls : /\ Ended(d).pc = "ended"
                       /\ Ended(d).parts = runs[d].parts /\ Ended(d).ok = FALSE
  BY DEF Ended, NoRun
<1>4. \A d \in Calls : runs'[d] = IF runs[d].pc = "none" THEN runs[d] ELSE Ended(d)
  BY DEF Restart
<1>5. runs' \in [Calls -> RunStates]
  BY <1>1, <1>2 DEF Restart
<1>6. Stopped
  BY <1>3, <1>4 DEF Stopped, RunEnds, Restart
<1>7. NetType'
  BY DEF TypeInv, NetType, MsgType, Restart
<1> QED BY <1>5, <1>6, <1>7 DEF TypeInv, TypeOK, RunStates, Restart

\* The four kinds of steps.
LEMMA NextEdges ==
    ASSUME TypeInv, Next
    PROVE  /\ TypeInv'
           /\ \/ \E c \in Calls : OthersKeep(c) /\ calls' = calls /\ OpEdge(c)
              \/ \E c \in Calls : GatewayStep(c)
              \/ \E p \in net : Received(p)
              \/ Stopped
<1>1. ASSUME NEW c \in Calls, Step(c) PROVE OpStep(c) \/ GatewayStep(c)
  BY <1>1 DEF Step, OpStep, GatewayStep
<1>2. ASSUME NEW c \in Calls, OpStep(c)
      PROVE  TypeInv' /\ OthersKeep(c) /\ calls' = calls /\ OpEdge(c)
  BY <1>2, OpEdges, OpType
<1>3. ASSUME NEW c \in Calls, GatewayStep(c) PROVE TypeInv'
  BY <1>3, GatewayEdges
<1> QED BY <1>1, <1>2, <1>3, ReceiveEdges, RestartEdges DEF Next

LEMMA TypeInit ==
    ASSUME Init
    PROVE  TypeInv
<1>1. /\ calls \in [Calls -> CallStates] /\ runs \in [Calls -> RunStates]
      /\ records \in [Attempts -> Records] /\ results \in [Attempts -> Outputs]
  BY NothingType DEF Init
<1>2. \A c \in Calls : calls[c].queue = <<>>
  BY DEF Init, NoCall
<1>3. \A c \in Calls : Len(calls[c].queue) <= Capacity(c)
  BY <1>2, DispatchAssumption DEF Capacity
<1>4. net = {} /\ reconnects \in 0 .. MaxReconnects
  BY DispatchAssumption DEF Init
<1>5. TypeOK
  BY <1>1, <1>3, <1>4 DEF Init, TypeOK, CallStates, RunStates, Capacity, Statuses
<1>6. NetType
  BY <1>2, <1>4 DEF NetType
<1> QED BY <1>5, <1>6 DEF TypeInv

LEMMA TypeStutter ==
    ASSUME TypeInv, UNCHANGED vars
    PROVE  TypeInv'
BY DEF TypeInv, TypeOK, NetType, MsgType, vars

\* The variables keep their types and the call's buffer its bound, for every instance.
THEOREM DispatchTypeCorrect == Spec => []TypeOK
<1>1. Init => TypeInv
  BY TypeInit
<1>2. TypeInv /\ [Next]_vars => TypeInv'
  BY NextEdges, TypeStutter
<1>3. TypeInv => TypeOK
  BY DEF TypeInv
<1> QED BY <1>1, <1>2, <1>3, PTL DEF Spec

-----------------------------------------------------------------------------
(* Answers *)

\* Where a run is says whether the provider was called and whether there is a receipt.
RunInv ==
    \A c \in Calls :
        /\ runs[c].pc \in {"none", "command", "beginRead", "beginWrite", "call"} => c \notin called
        /\ runs[c].pc \in {"stream", "saveResult", "completeRead", "completeWrite"} => c \in called
        /\ runs[c].ok => c \in called
        /\ runs[c].pc # "ended" => receipts[c] = "none"
        /\ calls[c].pc = "idle" => runs[c].pc = "none"

\* A completion with an attestation is about a run that has ended as its receipt says.
MsgTrue(m, run, receipt, reached) ==
    m.type = "completion" /\ m.attested =>
        /\ run[m.call].pc = "ended"
        /\ receipt[m.call] = m.status
        /\ m.status = "completed" => m.call \in reached /\ m.n = run[m.call].parts
        /\ m.status = "rejected" => m.call \notin reached

MsgInv(m) == MsgTrue(m, runs, receipts, called)

MsgNext(m) == MsgTrue(m, runs', receipts', called')

MsgsInv ==
    /\ \A p \in net : MsgInv(p.msg)
    /\ \A c \in Calls : \A i \in 1 .. Len(calls[c].queue) : MsgInv(calls[c].queue[i])

\* A call that has an answer from the Operator has it about a run that has ended.
AnswerInv ==
    /\ \A c \in Calls : calls[c].pc # "done" => calls[c].answer = "none"
    /\ \A c \in Calls : calls[c].answer \in {"success", "failed", "rejected"} =>
          runs[c].pc = "ended"
    /\ AnswerTruthful

AnswersInv == TypeInv /\ RunInv /\ MsgsInv /\ AnswerInv

\* A run that has ended has its last receipt, and the provider is not called for it any more.
EndedStays ==
    \A d \in Calls : runs[d].pc = "ended" =>
        /\ runs'[d].pc = "ended"
        /\ runs'[d].parts = runs[d].parts
        /\ receipts'[d] = receipts[d]
        /\ d \in called' <=> d \in called

\* What the Operator's steps do to the receipts and the calls of the provider.
LEMMA OpRunInv ==
    ASSUME TypeInv, RunInv, NEW c \in Calls, OthersKeep(c), calls' = calls, OpEdge(c)
    PROVE  RunInv' /\ EndedStays
<1>0. runs[c] \in RunStates /\ receipts \in [Calls -> Statuses \cup {"none"}]
  BY DEF TypeInv, TypeOK, RunStates
<1>1. /\ \A d \in Calls \ {c} : runs'[d] = runs[d]
      /\ \A d \in Calls : calls'[d] = calls[d]
  BY DEF OthersKeep
<1>2. /\ \A d \in Calls \ {c} : receipts'[d] = receipts[d]
      /\ runs'[c].pc # "ended" => receipts'[c] = receipts[c]
  BY <1>0 DEF OpEdge, QuietEdge, GovernEdge, EventEdge, FinishEdge, BeginReadEdge,
     BeginWriteEdge, CallEdge, SaveEdge, LoadEdge, CompleteEdge, FailEdge, RunEnds
<1>3. /\ \A d \in Calls \ {c} : d \in called' <=> d \in called
      /\ runs[c].pc \notin {"none", "ended"}
      /\ runs'[c].pc # "none"
  BY DEF OpEdge, QuietEdge, GovernEdge, EventEdge, FinishEdge, BeginReadEdge,
     BeginWriteEdge, CallEdge, SaveEdge, LoadEdge, CompleteEdge, FailEdge, RunEnds, Moved
<1>4. /\ runs'[c].pc \in {"none", "command", "beginRead", "beginWrite", "call"} => c \notin called'
      /\ runs'[c].pc \in {"stream", "saveResult", "completeRead", "completeWrite"} => c \in called'
      /\ runs'[c].ok => c \in called'
  <2>1. /\ runs[c].pc \in {"none", "command", "beginRead", "beginWrite", "call"} => c \notin called
        /\ runs[c].pc \in {"stream", "saveResult", "completeRead", "completeWrite"} => c \in called
        /\ runs[c].ok => c \in called
    BY DEF RunInv
  <2>2. CASE CallEdge(c)
    BY <2>1, <2>2 DEF CallEdge, Moved
  <2>3. CASE called' = called
    BY <2>1, <2>3 DEF OpEdge, QuietEdge, GovernEdge, EventEdge, FinishEdge, BeginReadEdge,
       BeginWriteEdge, CallEdge, SaveEdge, LoadEdge, CompleteEdge, FailEdge, RunEnds, Moved
  <2> QED BY <2>2, <2>3 DEF OpEdge, QuietEdge, GovernEdge, EventEdge, FinishEdge, BeginReadEdge,
       BeginWriteEdge, SaveEdge, LoadEdge, CompleteEdge, FailEdge
<1>5. calls[c].pc # "idle"
  BY <1>3 DEF RunInv
<1>6. RunInv'
  <2> SUFFICES ASSUME NEW d \in Calls
               PROVE  /\ runs'[d].pc \in {"none", "command", "beginRead", "beginWrite", "call"}
                            => d \notin called'
                      /\ runs'[d].pc \in {"stream", "saveResult", "completeRead", "completeWrite"}
                            => d \in called'
                      /\ runs'[d].ok => d \in called'
                      /\ runs'[d].pc # "ended" => receipts'[d] = "none"
                      /\ calls'[d].pc = "idle" => runs'[d].pc = "none"
    BY DEF RunInv
  <2>1. CASE d = c
    BY <1>1, <1>2, <1>3, <1>4, <1>5, <2>1 DEF RunInv
  <2>2. CASE d # c
    BY <1>1, <1>2, <1>3, <2>2 DEF RunInv
  <2> QED BY <2>1, <2>2
<1>7. EndedStays
  BY <1>1, <1>2, <1>3 DEF EndedStays
<1> QED BY <1>6, <1>7

\* The same for the other steps, which do not move a run on.
LEMMA OtherRunInv ==
    ASSUME TypeInv, RunInv,
           \/ \E c \in Calls : GatewayStep(c)
           \/ \E p \in net : Received(p)
           \/ Stopped
    PROVE  RunInv' /\ EndedStays
<1>1. CASE \E c \in Calls : GatewayStep(c)
  <2>1. PICK c \in Calls : GatewayStep(c)
    BY <1>1
  <2>2. /\ \A d \in Calls \ {c} : calls'[d] = calls[d] /\ runs'[d] = runs[d]
        /\ UNCHANGED <<receipts, called>>
        /\ Started(c) \/ Progressed(c) \/ Returned(c)
    BY <2>1, GatewayEdges
  <2>3. CASE Started(c)
    BY <2>2, <2>3 DEF Started, RunInv, EndedStays
  <2>4. CASE Progressed(c) \/ Returned(c)
    BY <2>2, <2>4 DEF Progressed, Returned, RunInv, EndedStays
  <2> QED BY <2>2, <2>3, <2>4
<1>2. CASE \E p \in net : Received(p)
  BY <1>2 DEF Received, RunInv, EndedStays
<1>3. CASE Stopped
  BY <1>3 DEF Stopped, RunEnds, RunInv, EndedStays
<1> QED BY <1>1, <1>2, <1>3

\* What was true of an attested completion stays true.
LEMMA MsgStays ==
    ASSUME EndedStays, NEW m \in Messages, MsgInv(m)
    PROVE  MsgNext(m)
<1>1. m.call \in Calls
  BY DEF Messages
<1> QED BY <1>1 DEF MsgInv, MsgNext, MsgTrue, EndedStays

\* What the Operator publishes is true.
LEMMA PublishedTrue ==
    ASSUME TypeInv, RunInv, MsgsInv, EndedStays, NEW c \in Calls, OthersKeep(c), calls' = calls,
           OpEdge(c)
    PROVE  MsgsInv'
<1>0. /\ receipts \in [Calls -> Statuses \cup {"none"}] /\ runs[c] \in RunStates
      /\ TypeOK /\ NetType /\ runs[c].parts \in 0 .. MaxParts
      /\ \A p \in net : p.msg \in Messages
      /\ \A d \in Calls : \A i \in 1 .. Len(calls[d].queue) : calls[d].queue[i] \in Messages
  BY DEF TypeInv, TypeOK, NetType, MsgType, RunStates
<1>1. \A p \in net : MsgNext(p.msg)
  BY <1>0, MsgStays DEF MsgsInv
<1>2. \A d \in Calls : \A i \in 1 .. Len(calls'[d].queue) : MsgNext(calls'[d].queue[i])
  BY <1>0, MsgStays DEF MsgsInv
<1>3. CASE net' = net
  BY <1>1, <1>2, <1>3 DEF MsgsInv, MsgInv, MsgNext
<1>4. ASSUME NEW m, MsgType(m), Publish(m), MsgNext(m) PROVE MsgsInv'
  <2>1. \A p \in net' : p \in net \/ p.msg = m
    BY <1>0, <1>4, PublishType
  <2> QED BY <1>1, <1>2, <1>4, <2>1 DEF MsgsInv, MsgInv, MsgNext
<1>5. CASE GovernEdge(c) /\ net' # net
  <2> DEFINE m == Completion(c, "rejected", TRUE, 0)
  <2>1. 0 \in 0 .. MaxParts /\ TRUE \in BOOLEAN /\ "rejected" \in Statuses
    BY DispatchAssumption DEF Statuses
  <2>2. MsgType(m) /\ m.call = c /\ m.status = "rejected"
    BY <2>1, PublishedType DEF Completion
  <2>3. Publish(m) /\ receipts' = [receipts EXCEPT ![c] = "rejected"] /\ called' = called
        /\ runs'[c].pc = "ended" /\ runs[c].pc = "command"
    BY <1>5 DEF GovernEdge, RunEnds
  <2>4. c \notin called /\ receipts'[c] = "rejected"
    BY <1>0, <2>3 DEF RunInv
  <2> HIDE DEF m
  <2>5. MsgNext(m)
    BY <2>2, <2>3, <2>4 DEF MsgNext, MsgTrue
  <2> QED BY <1>4, <2>2, <2>3, <2>5
<1>6. CASE EventEdge(c) /\ net' # net
  <2> DEFINE m == Progress(c, runs[c].parts + 1)
  <2>1. MsgType(m) /\ m.type = "progress"
    BY <1>6, PublishedType DEF EventEdge, Progress
  <2>2. Publish(m)
    BY <1>6 DEF EventEdge
  <2> HIDE DEF m
  <2>3. MsgNext(m)
    BY <2>1 DEF MsgNext, MsgTrue
  <2> QED BY <1>4, <2>1, <2>2, <2>3
<1>7. CASE FinishEdge(c)
  <2>0. PICK status : /\ status = (IF runs[c].ok THEN "completed" ELSE "failed")
                      /\ \E attested \in BOOLEAN, stored \in {receipts[c], status} :
                            /\ attested => stored = status
                            /\ receipts' = [receipts EXCEPT ![c] = stored]
                            /\ Publish(Completion(c, status, attested, runs[c].parts))
    BY <1>7 DEF FinishEdge
  <2>1. status \in Statuses /\ status # "rejected" /\ (status = "completed" => c \in called)
    BY <2>0 DEF Statuses, RunInv
  <2>2. PICK attested \in BOOLEAN, stored \in {receipts[c], status} :
             /\ attested => stored = status
             /\ receipts' = [receipts EXCEPT ![c] = stored]
             /\ Publish(Completion(c, status, attested, runs[c].parts))
    BY <2>0
  <2> DEFINE m == Completion(c, status, attested, runs[c].parts)
  <2>3. MsgType(m) /\ m.call = c
    BY <1>0, <2>1, PublishedType
  <2>4. m.status = status /\ m.attested = attested /\ m.n = runs[c].parts
    BY DEF Completion
  <2>5. Publish(m)
    BY <2>2
  <2>6. /\ runs'[c].pc = "ended" /\ runs'[c].parts = runs[c].parts /\ called' = called
        /\ receipts'[c] = stored
    BY <1>0, <1>7, <2>2 DEF FinishEdge, RunEnds
  <2> HIDE DEF m
  <2>7. MsgNext(m)
    BY <2>1, <2>2, <2>3, <2>4, <2>6 DEF MsgNext, MsgTrue
  <2> QED BY <1>4, <2>3, <2>5, <2>7
<1> QED BY <1>3, <1>5, <1>6, <1>7 DEF OpEdge, QuietEdge, BeginReadEdge, BeginWriteEdge,
             CallEdge, SaveEdge, LoadEdge, CompleteEdge, FailEdge

\* The other steps publish nothing.
LEMMA OtherMsgsInv ==
    ASSUME TypeInv, MsgsInv, EndedStays,
           \/ \E c \in Calls : GatewayStep(c)
           \/ \E p \in net : Received(p)
           \/ Stopped
    PROVE  MsgsInv'
<1>0. /\ \A p \in net : p.msg \in Messages
      /\ \A d \in Calls : \A i \in 1 .. Len(calls[d].queue) : calls[d].queue[i] \in Messages
  BY DEF TypeInv, NetType, MsgType
<1>1. \A p \in net : MsgNext(p.msg)
  BY <1>0, MsgStays DEF MsgsInv
<1>2. ASSUME NEW d \in Calls, NEW m, \E i \in 1 .. Len(calls[d].queue) : m = calls[d].queue[i]
      PROVE  MsgNext(m)
  BY <1>0, <1>2, MsgStays DEF MsgsInv
<1>3. SUFFICES /\ \A p \in net' : p \in net
               /\ \A d \in Calls : \A i \in 1 .. Len(calls'[d].queue) :
                     \/ \E k \in 1 .. Len(calls[d].queue) : calls'[d].queue[i] = calls[d].queue[k]
                     \/ \E p \in net : calls'[d].queue[i] = p.msg
  BY <1>1, <1>2 DEF MsgsInv, MsgInv, MsgNext
<1>4. CASE \E c \in Calls : GatewayStep(c)
  <2>1. PICK c \in Calls : GatewayStep(c)
    BY <1>4
  <2>2. /\ \A d \in Calls \ {c} : calls'[d] = calls[d]
        /\ Started(c) \/ Progressed(c) \/ Returned(c)
    BY <2>1, GatewayEdges
  <2>3. CASE Started(c)
    BY <2>2, <2>3 DEF Started
  <2>4. CASE Progressed(c)
    BY <2>2, <2>4 DEF Progressed
  <2>5. CASE Returned(c)
    <3>1. Len(calls'[c].queue) = 0
      BY <2>5 DEF Returned
    <3>2. 1 .. Len(calls'[c].queue) = {}
      BY <3>1
    <3> QED BY <2>2, <2>5, <3>2 DEF Returned
  <2> QED BY <2>2, <2>3, <2>4, <2>5
<1>5. CASE \E p \in net : Received(p)
  BY <1>5 DEF Received
<1>6. CASE Stopped
  BY <1>6 DEF Stopped
<1> QED BY <1>4, <1>5, <1>6

\* The answer of one call, in a state and in the next.
TruthOf(call, run, receipt, reached, c) ==
    /\ call.pc # "done" => call.answer = "none"
    /\ call.answer \in {"success", "failed", "rejected"} => run.pc = "ended"
    /\ call.answer = "success" =>
          /\ receipt = "completed"
          /\ reached
          /\ c \in Streaming => call.seen = [i \in 1 .. run.parts |-> i]
    /\ call.answer = "failed" => receipt = "failed"
    /\ call.answer = "rejected" => receipt = "rejected" /\ ~reached

LEMMA AnswerForm ==
    /\ AnswerInv <=> \A c \in Calls : TruthOf(calls[c], runs[c], receipts[c], c \in called, c)
    /\ AnswerInv' <=> \A c \in Calls : TruthOf(calls'[c], runs'[c], receipts'[c], c \in called', c)
<1>1. AnswerInv <=> \A c \in Calls : TruthOf(calls[c], runs[c], receipts[c], c \in called, c)
  BY Zenon DEF AnswerInv, AnswerTruthful, TruthOf
<1>2. AnswerInv' <=> \A c \in Calls : TruthOf(calls'[c], runs'[c], receipts'[c], c \in called', c)
  BY Zenon DEF AnswerInv, AnswerTruthful, TruthOf
<1> QED BY <1>1, <1>2

\* A call that a step leaves alone keeps a true answer.
LEMMA AnswerStays ==
    ASSUME EndedStays, NEW d \in Calls,
           TruthOf(calls[d], runs[d], receipts[d], d \in called, d),
           calls'[d].pc = calls[d].pc, calls'[d].answer = calls[d].answer,
           calls'[d].answer = "success" => calls'[d].seen = calls[d].seen
    PROVE  TruthOf(calls'[d], runs'[d], receipts'[d], d \in called', d)
<1>1. CASE calls[d].answer \in {"success", "failed", "rejected"}
  <2>1. /\ runs'[d].pc = "ended" /\ runs'[d].parts = runs[d].parts
        /\ receipts'[d] = receipts[d] /\ (d \in called' <=> d \in called)
    BY <1>1 DEF TruthOf, EndedStays
  <2> QED BY <2>1 DEF TruthOf
<1>2. CASE calls[d].answer \notin {"success", "failed", "rejected"}
  BY <1>2 DEF TruthOf
<1> QED BY <1>1, <1>2

\* Events with the numbers from 1 are all of them, if they are as many.
LEMMA ReconciledSeen ==
    ASSUME NEW seen \in Seq(1 .. MaxParts), NEW n, Reconciles(seen, n)
    PROVE  seen = [i \in 1 .. n |-> i]
<1>1. Len(seen) = n /\ \A i \in 1 .. Len(seen) : seen[i] = i
  BY DEF Reconciles
<1>2. seen = [i \in 1 .. Len(seen) |-> seen[i]]
  OBVIOUS
<1> QED BY <1>1, <1>2

\* A call that returns does so with a true answer.
LEMMA ReturnedTrue ==
    ASSUME TypeInv, MsgsInv, NEW c \in Calls, Returned(c), UNCHANGED <<receipts, called>>
    PROVE  TruthOf(calls'[c], runs'[c], receipts'[c], c \in called', c)
<1>1. CASE calls'[c].answer \in {"overflow", "unknown", "unusable"}
  BY <1>1 DEF Returned, TruthOf
<1>2. CASE /\ 1 \in 1 .. Len(calls[c].queue)
           /\ calls[c].queue[1].type = "completion"
           /\ calls'[c].answer = Verdict(c, calls[c].queue[1])
           /\ calls'[c].answer = "success" => calls'[c].seen = calls[c].seen
  <2>0. PICK m : m = calls[c].queue[1]
    OBVIOUS
  <2>1. m \in Messages /\ m.call = c /\ MsgInv(m) /\ m.type = "completion"
    BY <1>2, <2>0 DEF TypeInv, NetType, MsgType, MsgsInv
  <2>2. calls[c].seen \in Seq(1 .. MaxParts)
    BY CallTypes DEF CallStates
  <2>3. calls'[c].pc = "done" /\ runs' = runs
    BY DEF Returned
  <2>4. CASE Verdict(c, m) = "success"
    <3>1. m.attested /\ m.status = "completed" /\ (c \in Streaming => Reconciles(calls[c].seen, m.n))
      BY <2>1, <2>4, VerdictType
    <3>2. runs[c].pc = "ended" /\ receipts[c] = "completed" /\ c \in called /\ m.n = runs[c].parts
      BY <2>1, <3>1 DEF MsgInv, MsgTrue
    <3>3. c \in Streaming => calls[c].seen = [i \in 1 .. runs[c].parts |-> i]
      BY <2>2, <3>1, <3>2, ReconciledSeen
    <3>4. calls'[c].answer = "success" /\ calls'[c].seen = calls[c].seen
      BY <1>2, <2>0, <2>4
    <3> QED BY <2>3, <3>2, <3>3, <3>4 DEF TruthOf
  <2>5. CASE Verdict(c, m) \in {"failed", "rejected"}
    <3>1. m.attested /\ m.status = Verdict(c, m)
      BY <2>1, <2>5, VerdictType
    <3>2. /\ runs[c].pc = "ended" /\ receipts[c] = Verdict(c, m)
          /\ Verdict(c, m) = "rejected" => c \notin called
      BY <2>1, <3>1 DEF MsgInv, MsgTrue
    <3>3. calls'[c].answer = Verdict(c, m)
      BY <1>2, <2>0
    <3> QED BY <2>3, <2>5, <3>2, <3>3 DEF TruthOf
  <2>6. CASE Verdict(c, m) \notin {"success", "failed", "rejected"}
    BY <1>2, <2>0, <2>3, <2>6 DEF TruthOf
  <2> QED BY <2>4, <2>5, <2>6
<1> QED BY <1>1, <1>2 DEF Returned

\* The answers of a call that returns.
LEMMA ReturnedAnswer ==
    ASSUME TypeInv, NEW c \in Calls, Returned(c)
    PROVE  calls'[c].answer \in {"success", "failed", "rejected", "overflow", "unknown", "unusable"}
<1>1. CASE calls'[c].answer \in {"overflow", "unknown", "unusable"}
  BY <1>1
<1>2. CASE /\ 1 \in 1 .. Len(calls[c].queue)
           /\ calls'[c].answer = Verdict(c, calls[c].queue[1])
  <2>1. calls[c].queue[1] \in Messages
    BY <1>2 DEF TypeInv, NetType, MsgType
  <2> QED BY <1>2, <2>1, VerdictType
<1> QED BY <1>1, <1>2 DEF Returned

LEMMA AnswerStep ==
    ASSUME TypeInv, MsgsInv, AnswerInv, EndedStays,
           \/ calls' = calls
           \/ \E c \in Calls : GatewayStep(c)
           \/ \E p \in net : Received(p)
    PROVE  AnswerInv'
<1>0. \A d \in Calls : TruthOf(calls[d], runs[d], receipts[d], d \in called, d)
  BY AnswerForm
<1>1. SUFFICES ASSUME NEW d \in Calls
               PROVE  TruthOf(calls'[d], runs'[d], receipts'[d], d \in called', d)
  BY AnswerForm
<1>2. CASE calls' = calls
  BY <1>0, <1>2, AnswerStays
<1>3. CASE \E p \in net : Received(p)
  BY <1>0, <1>3, AnswerStays DEF Received
<1>4. CASE \E c \in Calls : GatewayStep(c)
  <2>1. PICK c \in Calls : GatewayStep(c)
    BY <1>4
  <2>2. /\ \A e \in Calls \ {c} : calls'[e] = calls[e]
        /\ UNCHANGED <<receipts, called>>
        /\ Started(c) \/ Progressed(c) \/ Returned(c)
    BY <2>1, GatewayEdges
  <2>3. CASE d # c
    BY <1>0, <2>2, <2>3, AnswerStays
  <2>4. CASE d = c /\ Returned(c)
    BY <2>2, <2>4, ReturnedTrue
  <2>5. CASE d = c /\ Progressed(c)
    <3>1. calls[c].answer = "none"
      BY <1>0, <2>5 DEF Progressed, TruthOf
    <3> QED BY <2>5, <3>1 DEF Progressed, TruthOf
  <2>6. CASE d = c /\ Started(c)
    <3>1. calls[c].answer = "none"
      BY <1>0, <2>6 DEF Started, TruthOf
    <3> QED BY <2>6, <3>1 DEF Started, TruthOf
  <2> QED BY <2>2, <2>3, <2>4, <2>5, <2>6
<1> QED BY <1>2, <1>3, <1>4

LEMMA AnswersInit ==
    ASSUME Init
    PROVE  AnswersInv
<1>1. TypeInv
  BY TypeInit
<1>2. RunInv
  BY DEF Init, RunInv, NoRun, NoCall
<1>3. \A c \in Calls : calls[c].queue = <<>> /\ calls[c].answer = "none"
  BY DEF Init, NoCall
<1>4. MsgsInv
  BY <1>3 DEF Init, MsgsInv
<1>5. AnswerInv
  BY <1>3 DEF AnswerInv, AnswerTruthful
<1> QED BY <1>1, <1>2, <1>4, <1>5 DEF AnswersInv

LEMMA AnswersStep ==
    ASSUME AnswersInv, Next
    PROVE  AnswersInv' /\ EndedStays
<1>0. TypeInv /\ RunInv /\ MsgsInv /\ AnswerInv
  BY DEF AnswersInv
<1>1. TypeInv'
  BY <1>0, NextEdges
<1>2. CASE \E c \in Calls : OthersKeep(c) /\ calls' = calls /\ OpEdge(c)
  <2>1. PICK c \in Calls : OthersKeep(c) /\ calls' = calls /\ OpEdge(c)
    BY <1>2
  <2>2. RunInv' /\ EndedStays
    BY <1>0, <2>1, OpRunInv
  <2>3. MsgsInv'
    BY <1>0, <2>1, <2>2, PublishedTrue
  <2>4. AnswerInv'
    BY <1>0, <2>1, <2>2, AnswerStep
  <2> QED BY <1>1, <2>2, <2>3, <2>4 DEF AnswersInv
<1>3. CASE \/ \E c \in Calls : GatewayStep(c)
           \/ \E p \in net : Received(p)
           \/ Stopped
  <2>1. RunInv' /\ EndedStays
    BY <1>0, <1>3, OtherRunInv
  <2>2. MsgsInv'
    BY <1>0, <1>3, <2>1, OtherMsgsInv
  <2>3. AnswerInv'
    BY <1>0, <1>3, <2>1, AnswerStep DEF Stopped
  <2> QED BY <1>1, <2>1, <2>2, <2>3 DEF AnswersInv
<1> QED BY <1>0, <1>2, <1>3, NextEdges

LEMMA AnswersStutter ==
    ASSUME AnswersInv, UNCHANGED vars
    PROVE  AnswersInv'
<1>1. TypeInv'
  BY TypeStutter DEF AnswersInv
<1>2. UNCHANGED <<calls, runs, receipts, called, net>>
  BY DEF vars
<1>3. RunInv'
  BY <1>2 DEF AnswersInv, RunInv
<1>4. MsgsInv'
  BY <1>2 DEF AnswersInv, MsgsInv, MsgInv, MsgTrue
<1>5. AnswerInv'
  BY <1>2 DEF AnswersInv, AnswerInv, AnswerTruthful
<1> QED BY <1>1, <1>3, <1>4, <1>5 DEF AnswersInv

\* Whatever is lost, doubled, reordered or restarted: a success has its COMPLETED receipt in
\* the audit chain and its whole stream at the caller; a failure or a rejection has its
\* receipt, and the provider was not called for what was rejected.
THEOREM DispatchAnswersTruthful == Spec => []AnswerTruthful
<1>1. Init => AnswersInv
  BY AnswersInit
<1>2. AnswersInv /\ [Next]_vars => AnswersInv'
  BY AnswersStep, AnswersStutter
<1>3. AnswersInv => AnswerTruthful
  BY DEF AnswersInv, AnswerInv
<1> QED BY <1>1, <1>2, <1>3, PTL DEF Spec
-----------------------------------------------------------------------------
(* Attempts *)

ActivePcs == {"call", "stream", "saveResult", "completeRead", "completeWrite", "failRead",
              "failWrite"}

\* The call has written the record of its attempt.
Begun(c) == c \in called \/ runs[c].pc \in ActivePcs

\* A call about to write the record is the only one, and there is none yet.
WriteInv ==
    \A c \in Calls : runs[c].pc = "beginWrite" /\ Attempt(c) \notin raced =>
        /\ records[Attempt(c)].status = "none"
        /\ \A d \in Calls : runs[d].pc = "beginWrite" /\ Attempt(d) = Attempt(c) => d = c

\* A call that has begun has a record, and it is the only one.
BegunInv ==
    \A c \in Calls : Begun(c) =>
        /\ records[Attempt(c)].status # "none"
        /\ \A d \in Calls : Begun(d) /\ Attempt(d) = Attempt(c) /\ Attempt(c) \notin raced => d = c

\* The record of a call that is not over is its own and in progress, and so is the copy.
OwnFiles(c) ==
    /\ records[Attempt(c)].status = "inProgress" /\ records[Attempt(c)].call = c
    /\ runs[c].pc \in {"completeRead", "completeWrite"} => results[Attempt(c)] = Output(c)
    /\ runs[c].pc \in {"completeWrite", "failWrite"} => runs[c].copy.call = c

OwnInv ==
    \A c \in Calls : runs[c].pc \in ActivePcs /\ Attempt(c) \notin raced => OwnFiles(c)

\* The digest of a completed record is that of the stored result.
DigestInv ==
    \A a \in Attempts \ raced : records[a].status = "completed" =>
        results[a] = records[a].output /\ results[a].call = records[a].call

FilesInv == WriteInv /\ BegunInv /\ OwnInv /\ DigestInv

\* A call that does not move, or moves without its files:
Rests(d) ==
    /\ Begun(d)' => Begun(d)
    /\ runs'[d].pc \in ActivePcs => runs[d].pc \in ActivePcs
    /\ runs'[d].pc = "beginWrite" => runs[d].pc = "beginWrite"
    /\ runs'[d].pc \in {"completeRead", "completeWrite", "failWrite"} => runs'[d] = runs[d]
    /\ Begun(d)' \/ runs'[d].pc = "beginWrite" => calls'[d].attempt = calls[d].attempt

LEMMA FilesRest ==
    ASSUME FilesInv, \A d \in Calls : Rests(d), UNCHANGED <<records, results, raced>>
    PROVE  FilesInv'
<1>1. WriteInv'
  BY DEF FilesInv, WriteInv, Rests, Attempt
<1>2. BegunInv'
  BY DEF FilesInv, BegunInv, Rests, Attempt
<1>3. OwnInv'
  <2> SUFFICES ASSUME NEW c \in Calls, runs'[c].pc \in ActivePcs, Attempt(c)' \notin raced
               PROVE  OwnFiles(c)'
    BY DEF OwnInv
  <2>1. runs[c].pc \in ActivePcs /\ Attempt(c)' = Attempt(c)
    BY DEF Rests, Attempt, Begun
  <2>2. OwnFiles(c)
    BY <2>1 DEF FilesInv, OwnInv, OwnFiles
  <2>3. runs'[c].pc \in {"completeRead", "completeWrite", "failWrite"} => runs'[c] = runs[c]
    BY DEF Rests
  <2> QED BY <2>1, <2>2, <2>3 DEF OwnFiles, Output
<1>4. DigestInv'
  BY DEF FilesInv, DigestInv
<1> QED BY <1>1, <1>2, <1>3, <1>4 DEF FilesInv

\* The Operator's steps for one call keep the files of every call in order.
LEMMA OpFiles ==
    ASSUME TypeInv, RunInv, FilesInv, NEW c \in Calls, OthersKeep(c), calls' = calls, OpEdge(c)
    PROVE  FilesInv'
<1> DEFINE a == Attempt(c)
<1>0. /\ runs \in [Calls -> RunStates] /\ a \in Attempts
      /\ records \in [Attempts -> Records] /\ results \in [Attempts -> Outputs]
      /\ \A d \in Calls : Attempt(d) \in Attempts
  BY DEF TypeInv, TypeOK, RunStates, Attempt
<1>1. /\ \A d \in Calls \ {c} : runs'[d] = runs[d]
      /\ \A d \in Calls : Attempt(d)' = Attempt(d)
  BY DEF OthersKeep, Attempt
<1>2. ASSUME Rests(c), called' \subseteq called \cup {c}, UNCHANGED <<records, results, raced>>
      PROVE  FilesInv'
  <2>1. \A d \in Calls \ {c} : Rests(d)
    BY <1>1, <1>2 DEF Rests, Begun
  <2> QED BY <1>2, <2>1, FilesRest
<1>3. CASE QuietEdge(c) \/ GovernEdge(c) \/ EventEdge(c) \/ FinishEdge(c) \/ CallEdge(c)
  <2>1. UNCHANGED <<records, results, raced>> /\ called' \subseteq called \cup {c}
    BY <1>3 DEF QuietEdge, GovernEdge, EventEdge, FinishEdge, CallEdge
  <2>2. Rests(c)
    BY <1>3 DEF QuietEdge, GovernEdge, EventEdge, FinishEdge, CallEdge, Rests, Begun, Moved,
       RunEnds, ActivePcs
  <2> QED BY <1>2, <2>1, <2>2
<1> HIDE DEF a
<1>4. CASE BeginReadEdge(c)
  <2>1. /\ runs[c].pc = "beginRead" /\ runs'[c].pc = "beginWrite" /\ c \notin called
        /\ UNCHANGED <<records, results, called>> /\ records[a].status = "none"
    BY <1>4 DEF BeginReadEdge, Moved, RunInv, a
  <2>2. /\ raced \subseteq raced'
        /\ a \notin raced' => \A d \in Calls : runs[d].pc = "beginWrite" /\ Attempt(d) = a => d = c
    BY <1>4 DEF BeginReadEdge, NoteRace, a
  <2>3. \A d \in Calls : Begun(d)' <=> Begun(d)
    BY <1>1, <2>1 DEF Begun, ActivePcs
  <2>4. WriteInv'
    BY <1>1, <2>1, <2>2 DEF FilesInv, WriteInv, a
  <2>5. BegunInv'
    BY <1>1, <2>1, <2>2, <2>3 DEF FilesInv, BegunInv
  <2>6. OwnInv'
    BY <1>1, <2>1, <2>2 DEF FilesInv, OwnInv, OwnFiles, ActivePcs, Output
  <2>7. DigestInv'
    BY <2>1, <2>2 DEF FilesInv, DigestInv
  <2> QED BY <2>4, <2>5, <2>6, <2>7 DEF FilesInv
<1>5. CASE BeginWriteEdge(c)
  <2>1. /\ runs[c].pc = "beginWrite" /\ runs'[c].pc = "call"
        /\ UNCHANGED <<results, called, raced>>
        /\ records'[a].status = "inProgress" /\ records'[a].call = c
        /\ \A b \in Attempts \ {a} : records'[b] = records[b]
    BY <1>0, <1>5 DEF BeginWriteEdge, Moved, a
  <2>2. a \notin raced => \A d \in Calls : Begun(d) => Attempt(d) # a
    BY <1>0, <2>1 DEF FilesInv, WriteInv, BegunInv, a
  <2>3. /\ \A d \in Calls \ {c} : Begun(d)' <=> Begun(d)
        /\ \A d \in Calls : runs[d].pc \in ActivePcs => Begun(d)
    BY <1>1, <2>1 DEF Begun
  <2>4. WriteInv'
    BY <1>0, <1>1, <2>1 DEF FilesInv, WriteInv, a
  <2>5. BegunInv'
    BY <1>0, <1>1, <2>1, <2>2, <2>3 DEF FilesInv, BegunInv, a
  <2>6. OwnInv'
    <3> SUFFICES ASSUME NEW d \in Calls, runs'[d].pc \in ActivePcs, Attempt(d)' \notin raced'
                 PROVE  OwnFiles(d)'
      BY DEF OwnInv
    <3>1. CASE d = c
      BY <1>1, <2>1, <3>1 DEF OwnFiles, a
    <3>2. CASE d # c
      BY <1>0, <1>1, <2>1, <2>2, <2>3, <3>2 DEF FilesInv, OwnInv, OwnFiles, Output
    <3> QED BY <3>1, <3>2
  <2>7. DigestInv'
    BY <1>0, <2>1 DEF FilesInv, DigestInv
  <2> QED BY <2>4, <2>5, <2>6, <2>7 DEF FilesInv
<1>6. CASE SaveEdge(c)
  <2>1. /\ runs[c].pc = "saveResult" /\ runs'[c].pc = "completeRead" /\ Output(c)' = Output(c)
        /\ UNCHANGED <<records, called, raced>>
        /\ results'[a] = Output(c)
        /\ \A b \in Attempts \ {a} : results'[b] = results[b]
    BY <1>0, <1>6 DEF SaveEdge, Moved, Output, a
  <2>2. \A d \in Calls : Begun(d)' <=> Begun(d)
    BY <1>1, <2>1 DEF Begun, ActivePcs
  <2>3. a \notin raced => /\ \A d \in Calls : Begun(d) /\ Attempt(d) = a => d = c
                          /\ records[a].status = "inProgress" /\ records[a].call = c
    BY <2>1 DEF FilesInv, BegunInv, OwnInv, OwnFiles, Begun, ActivePcs, a
  <2>4. WriteInv'
    BY <1>1, <2>1 DEF FilesInv, WriteInv
  <2>5. BegunInv'
    BY <1>1, <2>1, <2>2 DEF FilesInv, BegunInv
  <2>6. OwnInv'
    <3> SUFFICES ASSUME NEW d \in Calls, runs'[d].pc \in ActivePcs, Attempt(d)' \notin raced'
                 PROVE  OwnFiles(d)'
      BY DEF OwnInv
    <3>1. CASE d = c
      BY <1>1, <2>1, <2>3, <3>1 DEF OwnFiles, a
    <3>2. CASE d # c
      <4>1. Begun(d) /\ runs'[d] = runs[d] /\ Attempt(d)' = Attempt(d)
        BY <1>1, <3>2 DEF Begun
      <4>2. Attempt(d) # a
        BY <2>1, <2>3, <3>2, <4>1
      <4> QED BY <1>0, <2>1, <4>1, <4>2 DEF FilesInv, OwnInv, OwnFiles, Output
    <3> QED BY <3>1, <3>2
  <2>7. DigestInv'
    BY <1>0, <2>1, <2>3 DEF FilesInv, DigestInv
  <2> QED BY <2>4, <2>5, <2>6, <2>7 DEF FilesInv
<1>7. CASE LoadEdge(c)
  <2>1. /\ runs[c].pc \in ActivePcs /\ runs'[c].pc \in {"completeWrite", "failWrite"}
        /\ runs'[c].pc = "completeWrite" => runs[c].pc = "completeRead"
        /\ Output(c)' = Output(c) /\ runs'[c].copy = records[a]
        /\ UNCHANGED <<records, results, called, raced>>
    BY <1>7 DEF LoadEdge, Moved, Output, ActivePcs, a
  <2>2. \A d \in Calls : Begun(d)' <=> Begun(d)
    BY <1>1, <2>1 DEF Begun, ActivePcs
  <2>3. WriteInv'
    BY <1>1, <2>1 DEF FilesInv, WriteInv
  <2>4. BegunInv'
    BY <1>1, <2>1, <2>2 DEF FilesInv, BegunInv
  <2>5. OwnInv'
    <3> SUFFICES ASSUME NEW d \in Calls, runs'[d].pc \in ActivePcs, Attempt(d)' \notin raced'
                 PROVE  OwnFiles(d)'
      BY DEF OwnInv
    <3>1. CASE d = c
      BY <1>1, <2>1, <3>1 DEF FilesInv, OwnInv, OwnFiles, a
    <3>2. CASE d # c
      BY <1>1, <2>1, <3>2 DEF FilesInv, OwnInv, OwnFiles, Output
    <3> QED BY <3>1, <3>2
  <2>6. DigestInv'
    BY <2>1 DEF FilesInv, DigestInv
  <2> QED BY <2>3, <2>4, <2>5, <2>6 DEF FilesInv
<1>8. CASE CompleteEdge(c) \/ FailEdge(c)
  <2>1. /\ runs[c].pc \in {"completeWrite", "failWrite"} /\ runs'[c].pc = "finish"
        /\ UNCHANGED <<results, called, raced>>
        /\ \A b \in Attempts \ {a} : records'[b] = records[b]
    BY <1>0, <1>8 DEF CompleteEdge, FailEdge, Moved, a
  <2>2. runs[c].copy \in Records
    BY <1>0 DEF RunStates
  <2>3. /\ records'[a].status \in {"completed", "failed"}
        /\ records'[a].status = "completed" =>
              /\ runs[c].pc = "completeWrite"
              /\ records'[a].output = Output(c) /\ records'[a].call = runs[c].copy.call
    <3>1. CASE CompleteEdge(c)
      <4> DEFINE r == [runs[c].copy EXCEPT !.status = "completed", !.output = Output(c)]
      <4>1. r.status = "completed" /\ r.output = Output(c) /\ r.call = runs[c].copy.call
        BY <2>2 DEF Records
      <4>2. runs[c].pc = "completeWrite" /\ records' = [records EXCEPT ![a] = r]
        BY <3>1 DEF CompleteEdge, a
      <4> HIDE DEF r
      <4>3. records'[a] = r
        BY <4>2, <1>0
      <4> QED BY <4>1, <4>2, <4>3
    <3>2. CASE FailEdge(c)
      <4> DEFINE r == [runs[c].copy EXCEPT !.status = "failed"]
      <4>1. r.status = "failed"
        BY <2>2 DEF Records
      <4>2. records' = [records EXCEPT ![a] = r]
        BY <3>2 DEF FailEdge, a
      <4> HIDE DEF r
      <4>3. records'[a] = r
        BY <4>2, <1>0
      <4> QED BY <4>1, <4>3
    <3> QED BY <1>8, <3>1, <3>2
  <2>4. /\ \A d \in Calls : Begun(d)' => Begun(d)
        /\ Begun(c) /\ runs[c].pc \in ActivePcs
    BY <1>1, <2>1 DEF Begun, ActivePcs
  <2>5. a \notin raced => /\ \A d \in Calls : Begun(d) /\ Attempt(d) = a => d = c
                          /\ runs[c].copy.call = c
                          /\ runs[c].pc = "completeWrite" => results[a] = Output(c)
    BY <2>1, <2>4 DEF FilesInv, BegunInv, OwnInv, OwnFiles, a
  <2>6. WriteInv'
    BY <1>0, <1>1, <2>1, <2>4 DEF FilesInv, WriteInv, BegunInv, a
  <2>7. BegunInv'
    BY <1>0, <1>1, <2>1, <2>3, <2>4 DEF FilesInv, BegunInv
  <2>8. OwnInv'
    <3> SUFFICES ASSUME NEW d \in Calls, runs'[d].pc \in ActivePcs, Attempt(d)' \notin raced'
                 PROVE  OwnFiles(d)'
      BY DEF OwnInv
    <3>1. d # c
      BY <2>1 DEF ActivePcs
    <3>2. Begun(d) /\ runs'[d] = runs[d] /\ Attempt(d)' = Attempt(d)
      BY <1>1, <3>1 DEF Begun
    <3>3. Attempt(d) # a
      BY <2>1, <2>5, <3>1, <3>2
    <3> QED BY <1>0, <2>1, <3>2, <3>3 DEF FilesInv, OwnInv, OwnFiles, Output
  <2>9. DigestInv'
    <3>1. Output(c).call = c
      BY DEF Output
    <3> QED BY <1>0, <2>1, <2>3, <2>5, <3>1 DEF FilesInv, DigestInv
  <2> QED BY <2>6, <2>7, <2>8, <2>9 DEF FilesInv
<1> QED BY <1>3, <1>4, <1>5, <1>6, <1>7, <1>8 DEF OpEdge

LEMMA FilesStep ==
    ASSUME TypeInv, RunInv, FilesInv, Next
    PROVE  FilesInv'
<1>1. CASE \E c \in Calls : OthersKeep(c) /\ calls' = calls /\ OpEdge(c)
  BY <1>1, OpFiles
<1>2. CASE \E c \in Calls : GatewayStep(c)
  <2>1. PICK c \in Calls : GatewayStep(c)
    BY <1>2
  <2>2. /\ \A d \in Calls \ {c} : calls'[d] = calls[d] /\ runs'[d] = runs[d]
        /\ UNCHANGED <<records, results, called, raced>>
        /\ Started(c) \/ Progressed(c) \/ Returned(c)
    BY <2>1, GatewayEdges
  <2>3. CASE Started(c)
    <3>1. runs[c].pc = "none" /\ c \notin called /\ runs'[c].pc \in {"none", "command"}
      BY <2>3 DEF Started, RunInv
    <3>2. \A d \in Calls : Rests(d)
      BY <2>2, <3>1 DEF Rests, Begun, ActivePcs
    <3> QED BY <2>2, <3>2, FilesRest
  <2>4. CASE Progressed(c) \/ Returned(c)
    <3>1. runs' = runs /\ calls'[c].attempt = calls[c].attempt
      BY <2>4 DEF Progressed, Returned
    <3>2. \A d \in Calls : Rests(d)
      BY <2>2, <3>1 DEF Rests, Begun
    <3> QED BY <2>2, <3>2, FilesRest
  <2> QED BY <2>2, <2>3, <2>4
<1>3. CASE \E p \in net : Received(p)
  <2>1. \A d \in Calls : Rests(d)
    BY <1>3 DEF Received, Rests, Begun
  <2> QED BY <1>3, <2>1, FilesRest DEF Received
<1>4. CASE Stopped
  <2>1. \A d \in Calls : Rests(d)
    BY <1>4 DEF Stopped, RunEnds, Rests, Begun, ActivePcs
  <2> QED BY <1>4, <2>1, FilesRest DEF Stopped
<1> QED BY <1>1, <1>2, <1>3, <1>4, NextEdges

LEMMA FilesInit ==
    ASSUME Init
    PROVE  FilesInv
<1>1. \A c \in Calls : runs[c].pc = "none" /\ ~Begun(c)
  BY DEF Init, NoRun, Begun, ActivePcs
<1>2. \A a \in Attempts : records[a].status = "none"
  BY DEF Init, NoRecord
<1> QED BY <1>1, <1>2 DEF FilesInv, WriteInv, BegunInv, OwnInv, DigestInv, ActivePcs

\* Whatever fails, stops or is lost: unless two calls with the same attempt id read between
\* each other's read and write in Begin, an attempt id reaches the provider at most once and
\* the digest of a completed attempt record is that of the stored result.
THEOREM DispatchAttemptBound == Spec => []AttemptBound
<1>1. Init => AnswersInv /\ FilesInv
  BY AnswersInit, FilesInit
<1>2. AnswersInv /\ FilesInv /\ [Next]_vars => AnswersInv' /\ FilesInv'
  <2>1. ASSUME AnswersInv, FilesInv, Next PROVE AnswersInv' /\ FilesInv'
    BY <2>1, AnswersStep, FilesStep DEF AnswersInv
  <2>2. ASSUME AnswersInv, FilesInv, UNCHANGED vars PROVE AnswersInv' /\ FilesInv'
    <3>1. \A d \in Calls : Rests(d)
      BY <2>2 DEF Rests, Begun, vars
    <3> QED BY <2>2, <3>1, AnswersStutter, FilesRest DEF vars
  <2> QED BY <2>1, <2>2
<1>3. AnswersInv /\ FilesInv => AttemptBound
  <2> SUFFICES ASSUME AnswersInv, FilesInv, NEW a \in Attempts \ raced
               PROVE  /\ \A c, d \in called : Attempt(c) = a /\ Attempt(d) = a => c = d
                      /\ records[a].status = "completed" =>
                            results[a] = records[a].output /\ results[a].call = records[a].call
    BY DEF AttemptBound
  <2>1. called \subseteq Calls
    BY DEF AnswersInv, TypeInv, TypeOK
  <2> QED BY <2>1 DEF FilesInv, BegunInv, DigestInv, Begun
<1> QED BY <1>1, <1>2, <1>3, PTL DEF Spec
-----------------------------------------------------------------------------
(* The promise of a governed call *)

\* A call that was refused has no run.
RefusedInv == \A c \in Calls : calls[c].answer = "refused" => runs[c].pc = "none"

LEMMA RefusedStep ==
    ASSUME AnswersInv, RefusedInv, Next
    PROVE  RefusedInv'
<1>0. TypeInv /\ RunInv /\ \A c \in Calls : calls[c].pc # "done" => calls[c].answer = "none"
  BY DEF AnswersInv, AnswerInv
<1>1. CASE \E c \in Calls : OthersKeep(c) /\ calls' = calls /\ OpEdge(c)
  <2>1. PICK c \in Calls : OthersKeep(c) /\ calls' = calls /\ OpEdge(c)
    BY <1>1
  <2>2. runs[c].pc # "none"
    BY <2>1 DEF OpEdge, QuietEdge, GovernEdge, EventEdge, FinishEdge, BeginReadEdge,
       BeginWriteEdge, CallEdge, SaveEdge, LoadEdge, CompleteEdge, FailEdge
  <2>3. \A d \in Calls \ {c} : runs'[d] = runs[d]
    BY <2>1 DEF OthersKeep
  <2> QED BY <2>1, <2>2, <2>3 DEF RefusedInv
<1>2. CASE \E c \in Calls : GatewayStep(c)
  <2>1. PICK c \in Calls : GatewayStep(c)
    BY <1>2
  <2>2. /\ \A d \in Calls \ {c} : calls'[d] = calls[d] /\ runs'[d] = runs[d]
        /\ Started(c) \/ Progressed(c) \/ Returned(c)
    BY <1>0, <2>1, GatewayEdges
  <2>3. calls'[c].answer = "refused" => runs'[c].pc = "none"
    <3>1. CASE Started(c)
      BY <1>0, <3>1 DEF Started, RunInv
    <3>2. CASE Progressed(c)
      BY <1>0, <3>2 DEF Progressed
    <3>3. CASE Returned(c)
      BY <1>0, <3>3, ReturnedAnswer
    <3> QED BY <2>2, <3>1, <3>2, <3>3
  <2> QED BY <2>2, <2>3 DEF RefusedInv
<1>3. CASE \E p \in net : Received(p)
  BY <1>3 DEF Received, RefusedInv
<1>4. CASE Stopped
  BY <1>4 DEF Stopped, RefusedInv
<1> QED BY <1>0, <1>1, <1>2, <1>3, <1>4, NextEdges

Promised == [Promise!GNext]_(Promise!gvars)

\* Where a call stands is where it stood, unless it is the call of a step of the Gateway.
LEMMA StandingOf ==
    /\ \A c \in Calls : Standing[c] = IF calls[c].pc = "done" THEN calls[c].answer ELSE calls[c].pc
    /\ \A c \in Calls :
          (\A d \in Calls \ {c} : calls'[d].pc = calls[d].pc /\ calls'[d].answer = calls[d].answer)
             => Standing' = [Standing EXCEPT ![c] =
                                IF calls'[c].pc = "done" THEN calls'[c].answer ELSE calls'[c].pc]
    /\ (\A d \in Calls : calls'[d].pc = calls[d].pc /\ calls'[d].answer = calls[d].answer)
          => Standing' = Standing
BY DEF Standing

LEMMA QuietPromised ==
    ASSUME Standing' = Standing, UNCHANGED <<called, receipts>>
    PROVE  Promised
BY DEF Promised, Promise!gvars

\* A call whose run is under way was accepted, and has no receipt yet.
LEMMA UnderWay ==
    ASSUME AnswersInv, RefusedInv, NEW c \in Calls, runs[c].pc \notin {"none", "ended"}
    PROVE  Promise!Accepted(c) /\ receipts[c] = "none"
<1>1. calls[c].pc # "idle" /\ calls[c].answer # "refused" /\ receipts[c] = "none"
  BY DEF AnswersInv, RunInv, RefusedInv
<1>2. calls[c].pc \in {"idle", "waiting", "done"} /\ calls[c].answer \in Answers
  BY CallTypes DEF AnswersInv, CallStates
<1>3. Standing[c] \notin {"idle", "refused"}
  BY <1>1, <1>2, StandingOf DEF Answers
<1> QED BY <1>1, <1>3 DEF Promise!Accepted

\* The Operator's steps call the provider, or settle the call, or do not show.
LEMMA OpPromised ==
    ASSUME AnswersInv, RefusedInv, NEW c \in Calls, calls' = calls, OpEdge(c)
    PROVE  Promised
<1>0. /\ Standing' = Standing /\ receipts \in [Calls -> Statuses \cup {"none"}]
      /\ RunInv
  BY DEF AnswersInv, TypeInv, TypeOK, Standing
<1>1. CASE CallEdge(c)
  <2>1. runs[c].pc = "call" /\ called' = called \cup {c} /\ receipts' = receipts
    BY <1>1 DEF CallEdge
  <2>2. c \notin called
    BY <1>0, <2>1 DEF RunInv
  <2>3. Promise!Accepted(c) /\ receipts[c] = "none"
    BY <2>1, UnderWay
  <2>4. Promise!Reach(c)
    BY <1>0, <2>1, <2>2, <2>3 DEF Promise!Reach
  <2> QED BY <2>4 DEF Promised, Promise!GNext
<1>2. CASE UNCHANGED <<called, receipts>>
  BY <1>0, <1>2, QuietPromised
<1>3. CASE GovernEdge(c) /\ receipts' # receipts
  <2>1. runs[c].pc = "command" /\ receipts' = [receipts EXCEPT ![c] = "rejected"] /\ called' = called
    BY <1>3 DEF GovernEdge
  <2>2. c \notin called
    BY <1>0, <2>1 DEF RunInv
  <2>3. Promise!Accepted(c) /\ receipts[c] = "none"
    BY <2>1, UnderWay
  <2>4. Promise!Settle(c)
    BY <1>0, <2>1, <2>2, <2>3 DEF Promise!Settle
  <2> QED BY <2>4 DEF Promised, Promise!GNext
<1>4. CASE FinishEdge(c) /\ receipts' # receipts
  <2>1. runs[c].pc = "finish" /\ called' = called
    BY <1>4 DEF FinishEdge
  <2>2. PICK stored \in {receipts[c], IF runs[c].ok THEN "completed" ELSE "failed"} :
            receipts' = [receipts EXCEPT ![c] = stored]
    BY <1>4 DEF FinishEdge
  <2>3. stored = IF runs[c].ok THEN "completed" ELSE "failed"
    BY <1>0, <1>4, <2>2
  <2>4. stored \in {"failed"} \cup (IF c \in called THEN {"completed"} ELSE {"rejected"})
    BY <1>0, <2>3 DEF RunInv
  <2>5. Promise!Accepted(c) /\ receipts[c] = "none"
    BY <2>1, UnderWay
  <2>6. Promise!Settle(c)
    BY <1>0, <2>1, <2>2, <2>4, <2>5 DEF Promise!Settle
  <2> QED BY <2>6 DEF Promised, Promise!GNext
<1> QED BY <1>1, <1>2, <1>3, <1>4 DEF OpEdge, QuietEdge, GovernEdge, EventEdge, FinishEdge,
             BeginReadEdge, BeginWriteEdge, SaveEdge, LoadEdge, CompleteEdge, FailEdge

\* The Gateway's steps open the call, or answer it as its receipt says, or do not show.
LEMMA GatewayPromised ==
    ASSUME AnswersInv, AnswersInv', NEW c \in Calls, GatewayStep(c)
    PROVE  Promised
<1>0. /\ \A d \in Calls \ {c} : calls'[d] = calls[d]
      /\ UNCHANGED <<receipts, called>>
      /\ Started(c) \/ Progressed(c) \/ Returned(c)
      /\ TypeInv
  BY GatewayEdges DEF AnswersInv
<1> DEFINE s == IF calls'[c].pc = "done" THEN calls'[c].answer ELSE calls'[c].pc
<1>1. /\ Standing' = [Standing EXCEPT ![c] = s]
      /\ Standing[c] = IF calls[c].pc = "done" THEN calls[c].answer ELSE calls[c].pc
  BY <1>0, StandingOf
<1>2. CASE Started(c)
  <2>1. Standing[c] = "idle" /\ s \in {"waiting", "refused"}
    BY <1>1, <1>2 DEF Started
  <2> HIDE DEF s
  <2>2. Promise!Open(c)
    BY <1>0, <1>1, <2>1 DEF Promise!Open
  <2> QED BY <2>2 DEF Promised, Promise!GNext
<1>3. CASE Progressed(c)
  <2>1. s = Standing[c]
    BY <1>1, <1>3 DEF Progressed
  <2>2. Standing' = Standing
    BY <1>1, <2>1 DEF Standing
  <2> QED BY <1>0, <2>2, QuietPromised
<1>4. CASE Returned(c)
  <2>1. Standing[c] = "waiting" /\ s = calls'[c].answer
    BY <1>1, <1>4 DEF Returned
  <2>2. s \in {"success", "failed", "rejected", "overflow", "unknown", "unusable"}
    BY <1>0, <1>4, <2>1, ReturnedAnswer
  <2>3. TruthOf(calls'[c], runs'[c], receipts'[c], c \in called', c)
    BY AnswerForm DEF AnswersInv
  <2>4. /\ s = "success" => receipts[c] = "completed"
        /\ s \in {"failed", "rejected"} => receipts[c] = s
    BY <1>0, <2>1, <2>3 DEF TruthOf
  <2> HIDE DEF s
  <2>5. s \in Promise!Told(receipts[c])
    <3>1. CASE s \in {"overflow", "unknown", "unusable"}
      BY <3>1 DEF Promise!Told
    <3>2. CASE s = "success"
      BY <2>4, <3>2 DEF Promise!Told
    <3>3. CASE s = "failed"
      BY <2>4, <3>3 DEF Promise!Told
    <3>4. CASE s = "rejected"
      BY <2>4, <3>4 DEF Promise!Told
    <3> QED BY <2>2, <3>1, <3>2, <3>3, <3>4
  <2>6. Promise!Answer(c)
    BY <1>0, <1>1, <2>1, <2>5 DEF Promise!Answer
  <2> QED BY <2>6 DEF Promised, Promise!GNext
<1> QED BY <1>0, <1>2, <1>3, <1>4

LEMMA NextPromised ==
    ASSUME AnswersInv, AnswersInv', RefusedInv, [Next]_vars
    PROVE  Promised
<1>0. TypeInv
  BY DEF AnswersInv
<1>1. CASE \E c \in Calls : OthersKeep(c) /\ calls' = calls /\ OpEdge(c)
  BY <1>1, OpPromised
<1>2. CASE \E c \in Calls : GatewayStep(c)
  BY <1>2, GatewayPromised
<1>3. CASE \E p \in net : Received(p)
  <2>1. /\ \A d \in Calls : calls'[d].pc = calls[d].pc /\ calls'[d].answer = calls[d].answer
        /\ UNCHANGED <<called, receipts>>
    BY <1>3 DEF Received
  <2> QED BY <2>1, StandingOf, QuietPromised
<1>4. CASE Stopped \/ UNCHANGED vars
  <2>1. UNCHANGED <<calls, called, receipts>>
    BY <1>4 DEF Stopped, vars
  <2> QED BY <2>1, QuietPromised DEF Standing
<1> QED BY <1>0, <1>1, <1>2, <1>3, <1>4, NextEdges

\* A governed inference keeps the promise of GovernedCall, for any number of calls, lost,
\* doubled and reordered messages, timeouts and restarts: the provider is reached at most once
\* and before the receipt, the receipt is final, and a definite answer is that of the receipt.
THEOREM DispatchImplementsGovernedCall == Spec => ImplementsGovernedCall
<1>1. Init => AnswersInv /\ RefusedInv /\ Promise!GInit
  <2> SUFFICES ASSUME Init PROVE AnswersInv /\ RefusedInv /\ Promise!GInit
    OBVIOUS
  <2>1. \A c \in Calls : calls[c].pc = "idle" /\ calls[c].answer = "none"
    BY DEF Init, NoCall
  <2>2. Standing = [c \in Calls |-> "idle"]
    BY <2>1 DEF Standing
  <2> QED BY <2>1, <2>2, AnswersInit DEF Init, RefusedInv, Promise!GInit
<1>2. AnswersInv /\ RefusedInv /\ [Next]_vars => AnswersInv' /\ RefusedInv'
  <2>1. ASSUME RefusedInv, UNCHANGED vars PROVE RefusedInv'
    BY <2>1 DEF RefusedInv, vars
  <2> QED BY <2>1, AnswersStep, AnswersStutter, RefusedStep
<1>3. AnswersInv /\ AnswersInv' /\ RefusedInv /\ [Next]_vars => [Promise!GNext]_(Promise!gvars)
  BY NextPromised DEF Promised
<1> QED BY <1>1, <1>2, <1>3, PTL DEF Spec, ImplementsGovernedCall, Promise!GSpec
=============================================================================
