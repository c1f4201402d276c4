------------------------------ MODULE AuditStore ------------------------------
(***************************************************************************)
(* The SQLite audit store: the hash-chained events table, the receipts     *)
(* projection, the file mutation log, the sessions they refer to, the      *)
(* background pruner and the chain verifier.                               *)
(*                                                                         *)
(* Appends and the pruning of the chain each run in one BEGIN IMMEDIATE    *)
(* transaction and are therefore single steps.  What is not atomic is what *)
(* the module is about: a writer stamps its record before it waits for the *)
(* write lock, so sequence order and timestamp order differ; the pruner    *)
(* fixes its cutoff and then runs four transactions; the verifier looks up *)
(* where to start and only then reads the rows.                            *)
(*                                                                         *)
(* Foreign keys do not bind the tables together: OpenDB runs its PRAGMA    *)
(* once on a pool of connections, and SQLite enforces them only on the     *)
(* connection that ran it.  Where a statement would break one, it fails or *)
(* goes through, whichever connection it gets.                             *)
(***************************************************************************)
EXTENDS Integers, FiniteSetsExt

CONSTANTS
    Writer,         \* goroutines that record events, receipts and mutations
    Session,        \* operator sessions
    Tx,             \* transaction ids of receipts
    Kind,           \* the records each writer stores: of Kinds
    Request,        \* the sequence numbers verifications are asked to start from
    Genesis,        \* the previous hash of the first row
    Hash(_, _, _),  \* of a sequence number, a previous hash and a row's body
    Retention,      \* the retention period
    MaxNow,         \* bound on the clock
    MaxSeq          \* bound on the length of the chain

Kinds == {"event", "fileEdit", "receipt"}

ASSUME AuditAssumption ==
    /\ Kind \in [Writer -> SUBSET Kinds]
    /\ Request \subseteq Nat
    /\ Retention \in Nat
    /\ MaxNow \in Nat
    /\ MaxSeq \in Nat

VARIABLES
    now,            \* the clock
    pending,        \* per writer, the record it has stamped and not yet stored
    sessions,       \* the sessions table
    events,         \* the events table
    checkpoints,    \* the audit_chain_checkpoints table
    receipts,       \* the receipts table, per transaction
    mutations,      \* the file_mutation_log table: the event a row refers to, and
                    \* whether the row came too late for the prune (history)
    pruner,         \* the pruner's next step and its cutoff
    horizon,        \* the latest cutoff the chain was pruned to (history)
    verifier,       \* the verifier's next step and what it has looked up
    verdict         \* what the last verification reported

tables == <<sessions, events, checkpoints, receipts, mutations>>
vars   == <<now, pending, sessions, events, checkpoints, receipts, mutations,
            pruner, horizon, verifier, verdict>>

NoSession == "none"
NoTx      == "none"
NoRow     == [ts |-> -1, session |-> NoSession]

Bodies == [type : Kinds \cup {"checkpoint"}, session : Session \cup {NoSession},
           ts : Nat, tx : Tx \cup {NoTx}]

Idle == [at |-> "idle"]

PrunerIdle == [at |-> "idle", cutoff |-> 0]

VerifierIdle ==
    [at |-> "idle", start |-> 0, expected |-> Genesis, raced |-> FALSE, inRange |-> TRUE]

Init ==
    /\ now = 0
    /\ pending = [w \in Writer |-> Idle]
    /\ sessions = {}
    /\ events = {}
    /\ checkpoints = {}
    /\ receipts = [t \in Tx |-> NoRow]
    /\ mutations = {}
    /\ pruner = PrunerIdle
    /\ horizon = 0
    /\ verifier = VerifierIdle
    /\ verdict = "none"

(***************************************************************************)
(* The chain.                                                              *)
(***************************************************************************)

Last(rows) == CHOOSE r \in rows : \A q \in rows : q.seq <= r.seq

(* Mutant: the head is the newest row, ORDER BY timestamp DESC. *)
HeadByTimestamp ==
    IF events # {}
      THEN LET r == CHOOSE e \in events : \A q \in events : q.body.ts <= e.body.ts
           IN  [seq |-> r.seq, hash |-> r.hash]
      ELSE [seq |-> 0, hash |-> Genesis]

(* loadAuditChainHeadConn.  With no rows left it would count from zero      *)
(* again, on top of the last pruned hash.                                   *)
Head ==
    IF events # {} THEN [seq |-> Last(events).seq, hash |-> Last(events).hash]
    ELSE IF checkpoints # {} THEN [seq |-> 0, hash |-> Last(checkpoints).hash]
    ELSE [seq |-> 0, hash |-> Genesis]

(* AppendPreparedAuditEvent: the row that follows the head. *)
NextRow(body) ==
    [seq |-> Head.seq + 1, prev |-> Head.hash, body |-> body,
     hash |-> Hash(Head.seq + 1, Head.hash, body)]

(***************************************************************************)
(* Writers.                                                                *)
(***************************************************************************)

(* The caller builds its record, time.Now() included, and then waits for    *)
(* the write lock.                                                          *)
Stamp(w, kind, s, t) ==
    /\ pending[w] = Idle
    /\ pending' = [pending EXCEPT ![w] =
          [at |-> "record",
           body |-> [type |-> kind, session |-> s, ts |-> now, tx |-> t]]]
    /\ UNCHANGED <<now, tables, pruner, horizon, verifier, verdict>>

InsertRow(body) ==
    /\ Head.seq < MaxSeq
    /\ sessions' = sessions \cup {body.session}
    /\ events' = events \cup {NextRow(body)}

(* RecordEvent and RecordEventChained.  The file service goes on to record  *)
(* the mutation of the event it has just stored.                            *)
RecordEvent(w) ==
    LET p == pending[w] IN
    /\ p.at = "record"
    /\ p.body.type # "receipt"
    /\ InsertRow(p.body)
    /\ pending' = [pending EXCEPT ![w] =
          IF p.body.type = "fileEdit" THEN [at |-> "mutation", event |-> Head.seq + 1]
                                      ELSE Idle]
    /\ UNCHANGED <<now, checkpoints, receipts, mutations, pruner, horizon,
                   verifier, verdict>>

(* ON CONFLICT(transaction_id) leaves operator_session_id as it is. *)
Upsert(row, body) ==
    [ts |-> body.ts, session |-> IF row = NoRow THEN body.session ELSE row.session]

(* Mutant: the projection is stamped when it is written. *)
RecordActionReceiptRestamped(w) ==
    LET p == pending[w] IN
    /\ p.at = "record"
    /\ p.body.type = "receipt"
    /\ InsertRow(p.body)
    /\ receipts' = [receipts EXCEPT ![p.body.tx] = Upsert(@, [p.body EXCEPT !.ts = now])]
    /\ pending' = [pending EXCEPT ![w] = Idle]
    /\ UNCHANGED <<now, checkpoints, mutations, pruner, horizon, verifier, verdict>>

(* RecordActionReceipt: the upsert of the projection and the chained fact,   *)
(* both with the record's timestamp.                                        *)
RecordActionReceipt(w) ==
    LET p == pending[w] IN
    /\ p.at = "record"
    /\ p.body.type = "receipt"
    /\ InsertRow(p.body)
    /\ receipts' = [receipts EXCEPT ![p.body.tx] = Upsert(@, p.body)]
    /\ pending' = [pending EXCEPT ![w] = Idle]
    /\ UNCHANGED <<now, checkpoints, mutations, pruner, horizon, verifier, verdict>>

(* The transaction was rolled back: the caller logs the error. *)
RecordFails(w) ==
    /\ pending[w] # Idle
    /\ pending' = [pending EXCEPT ![w] = Idle]
    /\ UNCHANGED <<now, tables, pruner, horizon, verifier, verdict>>

Stored(seq) == \E r \in events : r.seq = seq

Old(r) == r.body.ts < pruner.cutoff

(* The event is pruned already, or the pass is past the step that deletes    *)
(* the mutations of the events it is about to prune.                        *)
TooLate(seq) ==
    \/ ~Stored(seq)
    \/ pruner.at = "chain" /\ \E r \in events : r.seq = seq /\ Old(r)

(* RecordFileMutation.  For an event that is gone a connection that enforces *)
(* the foreign key refuses the row (RecordFails); any other stores it.       *)
RecordFileMutation(w) ==
    /\ pending[w].at = "mutation"
    /\ mutations' = mutations \cup
          {[event |-> pending[w].event, late |-> TooLate(pending[w].event)]}
    /\ pending' = [pending EXCEPT ![w] = Idle]
    /\ UNCHANGED <<now, sessions, events, checkpoints, receipts, pruner, horizon,
                   verifier, verdict>>

(***************************************************************************)
(* The pruner: auditStorePrune.  An error of one of the first three steps  *)
(* ends the pass; the ticker starts another one later.                     *)
(***************************************************************************)

StartPrune ==
    /\ pruner.at = "idle"
    /\ now >= Retention
    /\ pruner' = [at |-> "mutations", cutoff |-> now - Retention]
    /\ UNCHANGED <<now, pending, tables, horizon, verifier, verdict>>

(* Mutant: the rows are left to the deletion of their events. *)
PruneMutationsSkipped ==
    /\ pruner.at = "mutations"
    /\ pruner' = [pruner EXCEPT !.at = "chain"]
    /\ UNCHANGED <<now, pending, tables, horizon, verifier, verdict>>

PruneMutations ==
    /\ pruner.at = "mutations"
    /\ mutations' = {m \in mutations : \A r \in events : r.seq = m.event => ~Old(r)}
    /\ pruner' = [pruner EXCEPT !.at = "chain"]
    /\ UNCHANGED <<now, pending, sessions, events, checkpoints, receipts, horizon,
                   verifier, verdict>>

Prunable == {r \in events : Old(r) /\ r.body.type # "checkpoint"}

CheckpointBody ==
    [type |-> "checkpoint", session |-> NoSession, ts |-> now, tx |-> NoTx]

(* Mutant: the pruned range is taken to be the whole prefix of the chain. *)
PruneCountThrough == Last(Prunable).seq

PruneCount == Cardinality(Prunable)

Checkpoint ==
    [seq |-> Last(Prunable).seq, hash |-> Last(Prunable).hash, count |-> PruneCount]

(* Mutant: the pruner deletes the rows and then appends the checkpoint. *)
RowsAfterPruneDeleteFirst ==
    LET kept == events \ Prunable
        head == IF kept # {} THEN [seq |-> Last(kept).seq, hash |-> Last(kept).hash]
                ELSE [seq |-> 0, hash |-> Checkpoint.hash]
    IN  kept \cup {[seq |-> head.seq + 1, prev |-> head.hash, body |-> CheckpointBody,
                    hash |-> Hash(head.seq + 1, head.hash, CheckpointBody)]}

(* The checkpoint event is appended first and the old rows deleted second. *)
RowsAfterPrune == (events \cup {NextRow(CheckpointBody)}) \ Prunable

(* PruneChainedAuditEvents, one transaction.  When a mutation was recorded   *)
(* after the first step for one of these events, a connection that enforces  *)
(* the foreign key rolls the transaction back (PruneFails) and any other     *)
(* deletes the event under it.                                               *)
PruneChain ==
    /\ pruner.at = "chain"
    /\ Prunable # {}
    /\ Head.seq < MaxSeq
    /\ checkpoints' = checkpoints \cup {Checkpoint}
    /\ events' = RowsAfterPrune
    /\ horizon' = IF pruner.cutoff > horizon THEN pruner.cutoff ELSE horizon
    /\ verifier' = [verifier EXCEPT !.raced = @ \/ verifier.at \in {"lookup", "walk"}]
    /\ pruner' = [pruner EXCEPT !.at = "receipts"]
    /\ UNCHANGED <<now, pending, sessions, receipts, mutations, verdict>>

(* pruneCount == 0. *)
PruneNothing ==
    /\ pruner.at = "chain"
    /\ Prunable = {}
    /\ pruner' = [pruner EXCEPT !.at = "receipts"]
    /\ UNCHANGED <<now, pending, tables, horizon, verifier, verdict>>

PruneReceipts ==
    /\ pruner.at = "receipts"
    /\ receipts' = [t \in Tx |-> IF receipts[t].ts < pruner.cutoff THEN NoRow ELSE receipts[t]]
    /\ pruner' = [pruner EXCEPT !.at = "sessions"]
    /\ UNCHANGED <<now, pending, sessions, events, checkpoints, mutations, horizon,
                   verifier, verdict>>

PruneFails ==
    /\ pruner.at # "idle"
    /\ pruner' = PrunerIdle
    /\ UNCHANGED <<now, pending, tables, horizon, verifier, verdict>>

PruneSessions ==
    /\ pruner.at = "sessions"
    /\ sessions' = {s \in sessions : \/ \E r \in events : r.body.session = s
                                     \/ \E t \in Tx : receipts[t].session = s}
    /\ pruner' = PrunerIdle
    /\ UNCHANGED <<now, pending, events, checkpoints, receipts, mutations, horizon,
                   verifier, verdict>>

(***************************************************************************)
(* The verifier: VerifyChain(fromSeq), of the HTTP handler and of the CLI. *)
(* Its queries are separate statements, so a prune may commit between any  *)
(* two of them (`raced').                                                  *)
(***************************************************************************)

(* The latest checkpoint, or the beginning of the chain. *)
Anchor ==
    IF checkpoints = {} THEN [seq |-> 0, hash |-> Genesis]
    ELSE [seq |-> Last(checkpoints).seq, hash |-> Last(checkpoints).hash]

(* The request is for rows that are all still there. *)
InRange(from) == from = 0 \/ (Anchor.seq < from /\ from <= Head.seq + 1)

Begin(step, from, start, expected) ==
    [at |-> step, start |-> start, expected |-> expected, raced |-> FALSE,
     inRange |-> InRange(from)]

(* The first query, if there is one: none for fromSeq = 1, the predecessor   *)
(* for a later row, the latest checkpoint for fromSeq = 0.                   *)
StartVerify(from) ==
    /\ verifier.at = "idle"
    /\ \/ /\ from = 0
          /\ verifier' = Begin("walk", from, Anchor.seq + 1, Anchor.hash)
       \/ /\ from = 1
          /\ verifier' = Begin("walk", from, 1, Genesis)
       \/ /\ from > 1
          /\ \E r \in events : /\ r.seq = from - 1
                               /\ verifier' = Begin("walk", from, from, r.hash)
       \/ /\ from > 1
          /\ ~Stored(from - 1)
          /\ verifier' = Begin("lookup", from, from, Genesis)
    /\ verdict' = "none"
    /\ UNCHANGED <<now, pending, tables, pruner, horizon>>

Report(v) ==
    /\ verdict' = v
    /\ verifier' = [verifier EXCEPT !.at = "idle", !.start = 0, !.expected = Genesis]

(* Mutant: a missing predecessor is reported without a look at the checkpoints. *)
LookupCheckpointSkipped ==
    /\ verifier.at = "lookup"
    /\ Report("broken")
    /\ UNCHANGED <<now, pending, tables, pruner, horizon>>

(* The predecessor is gone: a checkpoint must end exactly there. *)
LookupCheckpoint ==
    LET before == {c \in checkpoints : c.seq < verifier.start} IN
    /\ verifier.at = "lookup"
    /\ \/ /\ before # {} /\ Last(before).seq = verifier.start - 1
          /\ verifier' = [verifier EXCEPT !.at = "walk", !.expected = Last(before).hash]
          /\ UNCHANGED verdict
       \/ /\ ~(before # {} /\ Last(before).seq = verifier.start - 1)
          /\ Report("broken")
    /\ UNCHANGED <<now, pending, tables, pruner, horizon>>

(* The loop of VerifyChain: every row is hashed correctly and follows the   *)
(* row before it, the first one what was looked up.                         *)
ChainOK(start, expected) ==
    \A r \in events : r.seq >= start =>
        LET before == {q \in events : q.seq >= start /\ q.seq < r.seq} IN
        /\ r.hash = Hash(r.seq, r.prev, r.body)
        /\ r.prev = IF before = {} THEN expected ELSE Last(before).hash

WalkRows ==
    /\ verifier.at = "walk"
    /\ Report(IF ChainOK(verifier.start, verifier.expected) THEN "ok" ELSE "broken")
    /\ UNCHANGED <<now, pending, tables, pruner, horizon>>

(***************************************************************************)
(* The rest.                                                               *)
(***************************************************************************)

Tick ==
    /\ now < MaxNow
    /\ now' = now + 1
    /\ UNCHANGED <<pending, tables, pruner, horizon, verifier, verdict>>

(* The process dies and NewSQLAuditStore opens the same file: the tables     *)
(* stay, every row has its sequence number and there is nothing to backfill. *)
Restart ==
    /\ pending' = [w \in Writer |-> Idle]
    /\ pruner' = PrunerIdle
    /\ verifier' = VerifierIdle
    /\ verdict' = "none"
    /\ UNCHANGED <<now, tables, horizon>>

Write(w) ==
    \/ \E kind \in Kind[w], s \in Session, t \in Tx : Stamp(w, kind, s, t)
    \/ RecordEvent(w)
    \/ RecordActionReceipt(w)
    \/ RecordFileMutation(w)
    \/ RecordFails(w)

Prune ==
    \/ StartPrune
    \/ PruneMutations
    \/ PruneChain
    \/ PruneNothing
    \/ PruneReceipts
    \/ PruneSessions
    \/ PruneFails

Verify ==
    \/ \E from \in Request : StartVerify(from)
    \/ LookupCheckpoint
    \/ WalkRows

Next ==
    \/ \E w \in Writer : Write(w)
    \/ Prune
    \/ Verify
    \/ Tick
    \/ Restart

Spec == Init /\ [][Next]_vars

(***************************************************************************)
(* Properties.                                                             *)
(***************************************************************************)

TypeOK ==
    /\ now \in Nat
    /\ \A w \in Writer : pending[w].at \in {"idle", "record", "mutation"}
    /\ \A r \in events : r.seq \in Nat \ {0} /\ r.body \in Bodies
    /\ \A c \in checkpoints : c.seq \in Nat
    /\ pruner.at \in {"idle", "mutations", "chain", "receipts", "sessions"}
    /\ pruner.cutoff \in Nat
    /\ verifier.at \in {"idle", "lookup", "walk"}
    /\ verdict \in {"none", "ok", "broken"}

(* Whatever was appended and pruned, in whatever timestamp order, the rows    *)
(* after the latest checkpoint form an intact chain: VerifyChain(0) succeeds  *)
(* on every committed state of the database.                                 *)
AlwaysVerifiable == ChainOK(Anchor.seq + 1, Anchor.hash)

(* The chain only grows: the head never moves back and a new row goes after   *)
(* it, so no sequence number is used twice, not even when a prune deletes     *)
(* every event.                                                              *)
AppendOnly ==
    [][/\ Head'.seq >= Head.seq
       /\ \A r \in events' \ events : r.seq > Head.seq]_vars

(* Nothing leaves the chain unrecorded: the rows that are left and the pruned *)
(* counts of the checkpoints add up to the number of appends.                *)
PruningAccounted ==
    Head.seq = Cardinality(events) + MapThenSumSet(LAMBDA c : c.count, checkpoints)

(* A receipt of the projection that is within retention has its fact in the   *)
(* chain, although the two tables are pruned in separate transactions.       *)
ReceiptBacked ==
    \A t \in Tx : receipts[t].ts >= horizon =>
        \E r \in events : /\ r.body.type = "receipt"
                          /\ r.body.tx = t
                          /\ r.body.ts = receipts[t].ts

SessionsHold ==
    /\ \A r \in events : r.body.type # "checkpoint" => r.body.session \in sessions
    /\ \A t \in Tx : receipts[t] # NoRow => receipts[t].session \in sessions

MutationsHold == \A m \in mutations : Stored(m.event) \/ m.late

(* The tables refer to each other soundly without the help of foreign keys,   *)
(* wherever a pass of the pruner was interrupted: no event and no receipt     *)
(* refers to a session that is gone, and a file mutation outlives its event   *)
(* only if it was recorded after the event was pruned, or between the step    *)
(* of the pass that deletes such mutations and the one that prunes the event. *)
ReferencesHold == SessionsHold /\ MutationsHold

(* The verifier calls an intact chain broken only when a prune committed      *)
(* between two of its queries or it was asked to start among pruned rows.    *)
AlarmOnlyOnRace ==
    verdict = "broken" => verifier.raced \/ ~verifier.inRange
=============================================================================
