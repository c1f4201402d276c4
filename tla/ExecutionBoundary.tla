-------------------------- MODULE ExecutionBoundary --------------------------
(***************************************************************************)
(* What the pipeline promises about side effects, without saying how.      *)
(*                                                                         *)
(* An attempt to execute a transaction first leaves a durable intent, then *)
(* a commitment, and only then runs.  It runs once, and as long as the     *)
(* transaction is open no second attempt at it runs.  An outcome is        *)
(* recorded only for an attempt that ran.  Attempts may stop anywhere.     *)
(***************************************************************************)
CONSTANTS Attempt, Transaction

VARIABLES
    txOf,       \* the transaction of each attempt
    closed,     \* transactions past their expiry
    intents,    \* attempts with a durable intent
    committed,  \* attempts in the commitment ledger
    ran,        \* attempts whose side effect happened
    settled     \* attempts whose outcome is recorded

bvars == <<txOf, closed, intents, committed, ran, settled>>

BInit ==
    /\ closed = {}
    /\ intents = {}
    /\ committed = {}
    /\ ran = {}
    /\ settled = {}

(* An attempt is bound to its transaction before it leaves any trace. *)
Bind(a, t) ==
    /\ a \notin intents \cup ran
    /\ txOf' = [txOf EXCEPT ![a] = t]
    /\ UNCHANGED <<closed, intents, committed, ran, settled>>

Close(T) ==
    /\ closed' = closed \cup T
    /\ UNCHANGED <<txOf, intents, committed, ran, settled>>

Intend(a) ==
    /\ intents' = intents \cup {a}
    /\ UNCHANGED <<txOf, closed, committed, ran, settled>>

Commit(a) ==
    /\ a \in intents
    /\ committed' = committed \cup {a}
    /\ UNCHANGED <<txOf, closed, intents, ran, settled>>

Run(a) ==
    /\ a \in intents \cap committed
    /\ a \notin ran
    /\ \A b \in ran : txOf[b] = txOf[a] => txOf[a] \in closed
    /\ ran' = ran \cup {a}
    /\ UNCHANGED <<txOf, closed, intents, committed, settled>>

Settle(a) ==
    /\ a \in ran
    /\ settled' = settled \cup {a}
    /\ UNCHANGED <<txOf, closed, intents, committed, ran>>

BNext ==
    \/ \E a \in Attempt, t \in Transaction : Bind(a, t)
    \/ \E T \in SUBSET Transaction : Close(T)
    \/ \E a \in Attempt : Intend(a) \/ Commit(a) \/ Run(a) \/ Settle(a)

BSpec == BInit /\ [][BNext]_bvars
=============================================================================
