-------------------------- MODULE InferenceDispatch --------------------------
(***************************************************************************)
(* A governed inference: the Gateway publishes the command and waits on    *)
(* the Operator's results channel; the Operator executes it against the    *)
(* provider, keeps a record of the provider attempt in files, writes the   *)
(* final receipt and publishes progress events and one completion.         *)
(*                                                                         *)
(* The Operator's publish connection may break and be opened again.  What  *)
(* it carried is then lost, or read by the Gateway's old read loop while   *)
(* the new one is already running, and the client writes the message it    *)
(* was sending a second time: messages are lost, doubled and reordered.    *)
(* The Gateway must not take such a stream for the whole answer, nor an    *)
(* answer whose receipt was not stored for a governed one.                 *)
(*                                                                         *)
(* Every call builds an envelope of its own, so a call is a transaction.   *)
(* The provider attempt id is the caller's, who may use it again.          *)
(***************************************************************************)
EXTENDS Integers, Sequences, FiniteSets

CONSTANTS Calls,            \* calls of DispatchInference
          Streaming,        \* the calls with a progress callback
          Attempts,         \* provider attempt ids
          MaxParts,         \* bound on the events of a provider's answer
          ProgressBuffer,   \* InferenceProgressResultBuffer
          MaxReconnects     \* bound on messages that are written twice

ASSUME DispatchAssumption ==
    /\ Calls # {}
    /\ Streaming \subseteq Calls
    /\ Attempts # {}
    /\ MaxParts \in Nat
    /\ ProgressBuffer \in Nat \ {0}
    /\ MaxReconnects \in Nat

VARIABLES calls,      \* what each call of Dispatch is doing
          runs,       \* what the Operator is doing with its command
          net,        \* messages on their way to the Gateway
          records,    \* the attempt records, by attempt
          results,    \* the processed results, by attempt
          receipts,   \* the final receipt of each transaction in the audit chain
          reconnects, \* how often a message was written again on a new connection
          called,     \* history: the calls that reached the provider
          raced       \* history: attempts that two calls began at the same time

vars == <<calls, runs, net, records, results, receipts, reconnects, called, raced>>

Statuses == {"completed", "failed", "rejected"}

\* What a call returns: nothing was published; the outcome of a verified completion; the
\* buffer was full; the outcome is unknown; or something arrived that cannot be passed on.
Answers == {"none", "refused", "success", "failed", "rejected", "overflow", "unknown",
            "unusable"}

\* An answer of the provider: whose call it was for, and how many events it had.
Outputs == [call : Calls, parts : 0 .. MaxParts]

\* No answer is stored without parts.
NoOutput == [call |-> CHOOSE c \in Calls : TRUE, parts |-> 0]

Completion(c, status, attested, parts) ==
    [type |-> "completion", call |-> c, n |-> parts, status |-> status, attested |-> attested]

Progress(c, n) ==
    [type |-> "progress", call |-> c, n |-> n, status |-> "completed", attested |-> FALSE]

Messages == [type : {"completion", "progress"}, call : Calls, n : 0 .. MaxParts,
             status : Statuses, attested : BOOLEAN]

NoRecord == [status |-> "none", call |-> NoOutput.call, output |-> NoOutput]

Records == [status : {"none", "inProgress", "completed", "failed"},
            call : Calls, output : Outputs]

AnyAttempt == CHOOSE a \in Attempts : TRUE

NoCall == [pc |-> "idle", attempt |-> AnyAttempt, queue |-> <<>>, overflow |-> FALSE,
           seen |-> <<>>, answer |-> "none"]

NoRun == [pc |-> "none", parts |-> 0, reporting |-> FALSE, copy |-> NoRecord, ok |-> FALSE]

RunPcs == {"none", "command", "beginRead", "beginWrite", "call", "stream", "saveResult",
           "completeRead", "completeWrite", "failRead", "failWrite", "finish", "ended"}

TypeOK ==
    /\ calls \in [Calls -> [pc : {"idle", "waiting", "done"}, attempt : Attempts,
                            queue : Seq(Messages), overflow : BOOLEAN,
                            seen : Seq(1 .. MaxParts), answer : Answers]]
    /\ \A c \in Calls : Len(calls[c].queue) <= IF c \in Streaming THEN ProgressBuffer ELSE 1
    /\ runs \in [Calls -> [pc : RunPcs, parts : 0 .. MaxParts, reporting : BOOLEAN,
                           copy : Records, ok : BOOLEAN]]
    /\ net \subseteq [msg : Messages, copy : {1, 2}]
    /\ records \in [Attempts -> Records]
    /\ results \in [Attempts -> Outputs]
    /\ receipts \in [Calls -> Statuses \cup {"none"}]
    /\ reconnects \in 0 .. MaxReconnects
    /\ called \subseteq Calls
    /\ raced \subseteq Attempts

Init ==
    /\ calls = [c \in Calls |-> NoCall]
    /\ runs = [c \in Calls |-> NoRun]
    /\ net = {}
    /\ records = [a \in Attempts |-> NoRecord]
    /\ results = [a \in Attempts |-> NoOutput]
    /\ receipts = [c \in Calls |-> "none"]
    /\ reconnects = 0
    /\ called = {}
    /\ raced = {}

Attempt(c) == calls[c].attempt

Output(c) == [call |-> c, parts |-> runs[c].parts]

-----------------------------------------------------------------------------
(* The Gateway: one goroutine per call. *)

\* DispatchInference and Dispatch up to the publication: the request, the target and the
\* envelope are checked, the handler is registered, the command is published.  The controller,
\* the one caller, passes a callback for the progress exactly when the request streams.
Dispatch(c, a) ==
    /\ calls[c].pc = "idle"
    /\ \/ /\ calls' = [calls EXCEPT ![c].pc = "done", ![c].answer = "refused"]
          /\ UNCHANGED runs
       \/ /\ calls' = [calls EXCEPT ![c].pc = "waiting", ![c].attempt = a]
          /\ runs' = [runs EXCEPT ![c].pc = "command", ![c].reporting = c \in Streaming]
    /\ UNCHANGED <<net, records, results, receipts, reconnects, called, raced>>

Capacity(c) == IF c \in Streaming THEN ProgressBuffer ELSE 1

\* The in-process handler, which the broker calls for each message of the channel.
Handler(c, m) ==
    IF Len(calls[c].queue) < Capacity(c)
    THEN [calls EXCEPT ![c].queue = Append(@, m)]
    ELSE [calls EXCEPT ![c].overflow = @ \/ c \in Streaming]

Receive(p) ==
    /\ p \in net
    /\ net' = net \ {p}
    /\ calls' = Handler(p.msg.call, p.msg)
    /\ UNCHANGED <<runs, records, results, receipts, reconnects, called, raced>>

\* The call returns and unregisters its handler: what still arrives for it finds none.
Return(c, answer) ==
    /\ calls' = [calls EXCEPT ![c].pc = "done", ![c].queue = <<>>, ![c].overflow = FALSE,
                              ![c].seen = IF answer = "success" THEN @ ELSE <<>>,
                              ![c].answer = answer]
    /\ net' = {p \in net : p.msg.call # c}

\* ReconcileInferenceProgress: the sequence numbers, and the hash over the parts.
Reconciles(seen, parts) ==
    /\ \A i \in DOMAIN seen : seen[i] = i
    /\ Len(seen) = parts

\* Mutant: the persistence attestation is not required.
VerdictMutant(c, m) ==
    CASE m.status # "completed" -> m.status
      [] m.status = "completed" ->
            IF c \in Streaming => Reconciles(calls[c].seen, m.n) THEN "success" ELSE "unusable"

\* verifyInferenceCompletion, and the comparison with what was streamed.
Verdict(c, m) ==
    CASE ~m.attested -> "unusable"
      [] m.attested /\ m.status # "completed" -> m.status
      [] m.attested /\ m.status = "completed" ->
            IF c \in Streaming => Reconciles(calls[c].seen, m.n) THEN "success" ELSE "unusable"

\* The select loop takes a message: progress goes to the caller, a completion ends the call.
\* The caller's callback, the lookup of the signer or the report to the observers may fail.
TakeResult(c) ==
    /\ calls[c].pc = "waiting"
    /\ calls[c].queue # <<>>
    /\ LET m == Head(calls[c].queue) IN
          \/ /\ m.type = "progress"
             /\ calls' = [calls EXCEPT ![c].queue = Tail(@), ![c].seen = Append(@, m.n)]
             /\ UNCHANGED net
          \/ m.type = "completion" /\ Return(c, Verdict(c, m))
          \/ Return(c, "unusable")
    /\ UNCHANGED <<runs, records, results, receipts, reconnects, called, raced>>

\* The other cases of the select: a full buffer, the deadline, the caller's context.
TakeOverflow(c) ==
    /\ calls[c].pc = "waiting"
    /\ calls[c].overflow
    /\ Return(c, "overflow")
    /\ UNCHANGED <<runs, records, results, receipts, reconnects, called, raced>>

Expire(c) ==
    /\ calls[c].pc = "waiting"
    /\ Return(c, "unknown")
    /\ UNCHANGED <<runs, records, results, receipts, reconnects, called, raced>>

-----------------------------------------------------------------------------
(* The Operator: one goroutine per command. *)

\* The client's Publish: a message is on its way to the call's handler, or, written again
\* after the connection was opened anew, is so twice.  One that is lost is never received.
Publish(m) ==
    \/ calls[m.call].pc # "waiting" /\ UNCHANGED <<net, reconnects>>
    \/ /\ calls[m.call].pc = "waiting"
       /\ net' = net \cup {[msg |-> m, copy |-> 1]}
       /\ UNCHANGED reconnects
    \/ /\ calls[m.call].pc = "waiting"
       /\ reconnects < MaxReconnects
       /\ net' = net \cup {[msg |-> m, copy |-> 1], [msg |-> m, copy |-> 2]}
       /\ reconnects' = reconnects + 1

Goto(c, pc) == runs' = [runs EXCEPT ![c].pc = pc]

Ended(c) == [NoRun EXCEPT !.pc = "ended", !.parts = runs[c].parts]

\* Mutant: a rejection is recorded, and the command goes on.
GovernMutant(c) ==
    /\ runs[c].pc = "command"
    /\ Goto(c, "beginRead")
    /\ \/ UNCHANGED <<net, reconnects, receipts>>
       \/ /\ receipts' = [receipts EXCEPT ![c] = "rejected"]
          /\ Publish(Completion(c, "rejected", TRUE, 0))
    /\ UNCHANGED <<calls, records, results, called, raced>>

\* The Warden and the Actuator up to the handler.  A rejection is recorded and published as
\* a completion; a store that fails ends the command without one.  A command is delivered once:
\* the rejection of a second delivery, which is published too, is left out.
Govern(c) ==
    /\ runs[c].pc = "command"
    /\ \/ Goto(c, "beginRead") /\ UNCHANGED <<net, reconnects, receipts>>
       \/ /\ runs' = [runs EXCEPT ![c] = Ended(c)]
          /\ receipts' = [receipts EXCEPT ![c] = "rejected"]
          /\ Publish(Completion(c, "rejected", TRUE, 0))
       \/ runs' = [runs EXCEPT ![c] = Ended(c)] /\ UNCHANGED <<net, reconnects, receipts>>
    /\ UNCHANGED <<calls, records, results, called, raced>>

\* A second call with this attempt id reads before the first has written its record.
NoteRace(c) ==
    raced' = IF \E d \in Calls \ {c} : runs[d].pc = "beginWrite" /\ Attempt(d) = Attempt(c)
             THEN raced \cup {Attempt(c)} ELSE raced

\* Mutant: an attempt that failed may be begun again.
BeginReadMutant(c) ==
    /\ runs[c].pc = "beginRead"
    /\ \/ records[Attempt(c)].status \in {"none", "failed"} /\ Goto(c, "beginWrite") /\ NoteRace(c)
       \/ Goto(c, "finish") /\ UNCHANGED raced
    /\ UNCHANGED <<calls, net, records, results, receipts, reconnects, called>>

\* Begin: an attempt that has a record in any state is refused ...
BeginRead(c) ==
    /\ runs[c].pc = "beginRead"
    /\ \/ records[Attempt(c)].status = "none" /\ Goto(c, "beginWrite") /\ NoteRace(c)
       \/ Goto(c, "finish") /\ UNCHANGED raced
    /\ UNCHANGED <<calls, net, records, results, receipts, reconnects, called>>

\* ... and the record of one that has none is written.
BeginWrite(c) ==
    /\ runs[c].pc = "beginWrite"
    /\ \/ /\ records' = [records EXCEPT ![Attempt(c)] =
                           [status |-> "inProgress", call |-> c, output |-> NoOutput]]
          /\ Goto(c, "call")
       \/ Goto(c, "finish") /\ UNCHANGED records
    /\ UNCHANGED <<calls, net, results, receipts, reconnects, called, raced>>

\* ExecuteInference: the request is normalised and authorised, the provider is called.
CallProvider(c) ==
    /\ runs[c].pc = "call"
    /\ \/ Goto(c, "stream") /\ called' = called \cup {c}
       \/ /\ runs' = [runs EXCEPT ![c].pc = "failRead", ![c].reporting = FALSE]
          /\ UNCHANGED called
    /\ UNCHANGED <<calls, net, records, results, receipts, reconnects, raced>>

\* decodeChatStream: one event of the provider.  The reporter is given up when it reports
\* an error, whether or not its message arrives.
StreamEvent(c) ==
    /\ runs[c].pc = "stream"
    /\ runs[c].parts < MaxParts
    /\ \E reporting \in {FALSE, runs[c].reporting} :
          runs' = [runs EXCEPT ![c].parts = @ + 1, ![c].reporting = reporting]
    /\ IF runs[c].reporting
       THEN Publish(Progress(c, runs[c].parts + 1))
       ELSE UNCHANGED <<net, reconnects>>
    /\ UNCHANGED <<calls, records, results, receipts, called, raced>>

\* The end of the stream, and of the reporter.  An answer without parts, a transport error or a
\* response that cannot be saved is a failure.
StreamEnds(c) ==
    /\ runs[c].pc = "stream"
    /\ \E next \in {"failRead"} \cup IF runs[c].parts > 0 THEN {"saveResult"} ELSE {} :
          runs' = [runs EXCEPT ![c].pc = next, ![c].reporting = FALSE]
    /\ UNCHANGED <<calls, net, records, results, receipts, reconnects, called, raced>>

SaveResult(c) ==
    /\ runs[c].pc = "saveResult"
    /\ \/ results' = [results EXCEPT ![Attempt(c)] = Output(c)] /\ Goto(c, "completeRead")
       \/ Goto(c, "failRead") /\ UNCHANGED results
    /\ UNCHANGED <<calls, net, records, receipts, reconnects, called, raced>>

\* Complete and Fail read the record, which must be in progress, and write all of it back.
LoadRecord(c, next) ==
    \/ /\ records[Attempt(c)].status = "inProgress"
       /\ runs' = [runs EXCEPT ![c].pc = next, ![c].copy = records[Attempt(c)]]
    \/ Goto(c, "finish")

CompleteRead(c) ==
    /\ runs[c].pc = "completeRead"
    /\ LoadRecord(c, "completeWrite")
    /\ UNCHANGED <<calls, net, records, results, receipts, reconnects, called, raced>>

CompleteWrite(c) ==
    /\ runs[c].pc = "completeWrite"
    /\ \/ /\ records' = [records EXCEPT ![Attempt(c)] =
                           [runs[c].copy EXCEPT !.status = "completed", !.output = Output(c)]]
          /\ runs' = [runs EXCEPT ![c].pc = "finish", ![c].copy = NoRecord, ![c].ok = TRUE]
       \/ runs' = [runs EXCEPT ![c].pc = "finish", ![c].copy = NoRecord] /\ UNCHANGED records
    /\ UNCHANGED <<calls, net, results, receipts, reconnects, called, raced>>

FailRead(c) ==
    /\ runs[c].pc = "failRead"
    /\ LoadRecord(c, "failWrite")
    /\ UNCHANGED <<calls, net, records, results, receipts, reconnects, called, raced>>

FailWrite(c) ==
    /\ runs[c].pc = "failWrite"
    /\ \/ records' = [records EXCEPT ![Attempt(c)] = [runs[c].copy EXCEPT !.status = "failed"]]
       \/ UNCHANGED records
    /\ runs' = [runs EXCEPT ![c].pc = "finish", ![c].copy = NoRecord]
    /\ UNCHANGED <<calls, net, results, receipts, reconnects, called, raced>>

\* The final receipt is logged, attested and logged again.  Whether or not that succeeds the
\* receipt is published, with the attestation only if the first log succeeded.
Finish(c) ==
    LET status == IF runs[c].ok THEN "completed" ELSE "failed" IN
    /\ runs[c].pc = "finish"
    /\ \E attested \in BOOLEAN, stored \in {receipts[c], status} :
          /\ attested => stored = status
          /\ receipts' = [receipts EXCEPT ![c] = stored]
          /\ Publish(Completion(c, status, attested, runs[c].parts))
    /\ runs' = [runs EXCEPT ![c] = Ended(c)]
    /\ UNCHANGED <<calls, records, results, called, raced>>

\* The Operator's process stops; the files and the audit store stay.
Restart ==
    /\ \E c \in Calls : runs[c].pc \notin {"none", "ended"}
    /\ runs' = [c \in Calls |-> IF runs[c].pc = "none" THEN runs[c] ELSE Ended(c)]
    /\ UNCHANGED <<calls, net, records, results, receipts, reconnects, called, raced>>

Step(c) ==
    \/ \E a \in Attempts : Dispatch(c, a)
    \/ TakeResult(c)
    \/ TakeOverflow(c)
    \/ Expire(c)
    \/ Govern(c)
    \/ BeginRead(c)
    \/ BeginWrite(c)
    \/ CallProvider(c)
    \/ StreamEvent(c)
    \/ StreamEnds(c)
    \/ SaveResult(c)
    \/ CompleteRead(c)
    \/ CompleteWrite(c)
    \/ FailRead(c)
    \/ FailWrite(c)
    \/ Finish(c)

Next ==
    \/ \E c \in Calls : Step(c)
    \/ \E p \in net : Receive(p)
    \/ Restart

Spec == Init /\ [][Next]_vars

-----------------------------------------------------------------------------
(* Properties *)

\* A call that succeeds has its COMPLETED receipt in the Operator's audit chain, and a
\* streaming caller was given every event of the provider's answer, once and in order.  A
\* call that reports a failure or a rejection has that receipt in the chain, and what was
\* rejected never reached the provider.
AnswerTruthful ==
    \A c \in Calls :
        /\ calls[c].answer = "success" =>
              /\ receipts[c] = "completed"
              /\ c \in called
              /\ c \in Streaming => calls[c].seen = [i \in 1 .. runs[c].parts |-> i]
        /\ calls[c].answer = "failed" => receipts[c] = "failed"
        /\ calls[c].answer = "rejected" => receipts[c] = "rejected" /\ c \notin called

\* An attempt id reaches the provider at most once, and the digest of a completed record is
\* that of the stored result, unless two calls with this id began between each other's read
\* and write.
AttemptBound ==
    \A a \in Attempts \ raced :
        /\ \A c, d \in called : Attempt(c) = a /\ Attempt(d) = a => c = d
        /\ records[a].status = "completed" =>
              /\ results[a] = records[a].output
              /\ results[a].call = records[a].call

Standing == [c \in Calls |-> IF calls[c].pc = "done" THEN calls[c].answer ELSE calls[c].pc]

Promise == INSTANCE GovernedCall WITH
    Call <- Calls, Vague <- {"overflow", "unknown", "unusable"},
    standing <- Standing, reached <- called, receipt <- receipts

\* The lost, doubled and reordered messages, the timeouts and the restarts of the Operator do
\* not show: a call reaches the provider at most once and before its receipt, which is final,
\* a refused or rejected call never does, and a definite answer is that of the receipt.
ImplementsGovernedCall == Promise!GSpec
=============================================================================
