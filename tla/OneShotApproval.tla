--------------------------- MODULE OneShotApproval ---------------------------
(***************************************************************************)
(* What suspension and approval promise, without rows, nonces or clocks.   *)
(*                                                                         *)
(* A transaction is suspended once.  It is then open, or it could not be   *)
(* stored.  While it is open it may run, and until its envelope lapses     *)
(* only once; it is closed by a denial, by its deadline, by a prune, by    *)
(* its lapse or by having run, and what is closed stays closed and does    *)
(* not run.  What runs when its envelope lapses may still finish a second  *)
(* run, since the memory of the first is kept no longer than that.         *)
(***************************************************************************)
EXTENDS Naturals

CONSTANT Transaction

VARIABLES
    suspended,  \* transactions that were suspended at some time
    open,       \* those that can still run
    lapsed,     \* those whose envelope has expired
    runs        \* how often each has run

ovars == <<suspended, open, lapsed, runs>>

OInit ==
    /\ suspended = {}
    /\ open = {}
    /\ lapsed = {}
    /\ runs = [t \in Transaction |-> 0]

Suspend(t) ==
    /\ t \notin suspended
    /\ suspended' = suspended \cup {t}
    /\ open' \in {open, open \cup {t}}
    /\ lapsed' \in {lapsed, lapsed \cup {t}}
    /\ UNCHANGED runs

\* Time passes or a row is deleted: some transactions lapse, some close.
Close(T, L) ==
    /\ T \subseteq open
    /\ open' = open \ T
    /\ L \subseteq suspended
    /\ lapsed' = lapsed \cup L
    /\ UNCHANGED <<suspended, runs>>

Run(t) ==
    /\ t \in open
    /\ runs[t] = 0 \/ t \in lapsed
    /\ runs' = [runs EXCEPT ![t] = @ + 1]
    /\ open' \in {open, open \ {t}}
    /\ UNCHANGED <<suspended, lapsed>>

ONext ==
    \/ \E t \in Transaction : Suspend(t) \/ Run(t)
    \/ \E T, L \in SUBSET Transaction : Close(T, L)

OSpec == OInit /\ [][ONext]_ovars
=============================================================================
