------------------------------ MODULE RecordOnce ------------------------------
(***************************************************************************)
(* What audit ingestion promises, without connections, buffers or retries. *)
(*                                                                         *)
(* A call submits a record under its key.  From then on, also after the    *)
(* call has given up, the record may be added to the chain, once for each  *)
(* key; rows are never changed.  A call that succeeds names the row of its *)
(* own record, and a call that has ended has ended.                        *)
(***************************************************************************)
EXTENDS Naturals, Sequences

CONSTANTS Caller, Key

VARIABLES
    keyOf,      \* the key of each call
    status,     \* "new", "open", "ok" or "failed"
    row,        \* the row a successful call was told, 0 otherwise
    chain       \* the keys of the recorded rows

rvars == <<keyOf, status, row, chain>>

RInit ==
    /\ keyOf \in [Caller -> Key]
    /\ status = [c \in Caller |-> "new"]
    /\ row = [c \in Caller |-> 0]
    /\ chain = <<>>

Recorded(k) == \E i \in DOMAIN chain : chain[i] = k

Submit(c) ==
    /\ status[c] = "new"
    /\ status' = [status EXCEPT ![c] = "open"]
    /\ UNCHANGED <<keyOf, row, chain>>

Record(c) ==
    /\ status[c] # "new"
    /\ ~Recorded(keyOf[c])
    /\ chain' = Append(chain, keyOf[c])
    /\ UNCHANGED <<keyOf, status, row>>

Confirm(c, i) ==
    /\ status[c] = "open"
    /\ chain[i] = keyOf[c]
    /\ status' = [status EXCEPT ![c] = "ok"]
    /\ row' = [row EXCEPT ![c] = i]
    /\ UNCHANGED <<keyOf, chain>>

Fail(c) ==
    /\ status[c] = "open"
    /\ status' = [status EXCEPT ![c] = "failed"]
    /\ UNCHANGED <<keyOf, row, chain>>

RNext ==
    \E c \in Caller :
        Submit(c) \/ Record(c) \/ Fail(c) \/ \E i \in DOMAIN chain : Confirm(c, i)

RSpec == RInit /\ [][RNext]_rvars
=============================================================================
