----------------------------- MODULE GovernedCall -----------------------------
(***************************************************************************)
(* What a governed inference promises, without commands, files or          *)
(* messages.                                                               *)
(*                                                                         *)
(* A call is refused, or it is opened.  An opened call reaches the         *)
(* provider at most once, and not after it was settled.  It is settled by  *)
(* one receipt, which is never replaced: "rejected" if it did not reach    *)
(* the provider, "completed" only if it did.  The caller is answered once, *)
(* and an answer that tells the outcome agrees with the receipt; a caller  *)
(* that gives up does not end the call.                                    *)
(***************************************************************************)
CONSTANTS
    Call,
    Vague       \* the answers that leave the outcome open

VARIABLES
    standing,   \* "idle", "waiting", "refused" or the answer given
    reached,    \* the calls that reached the provider
    receipt     \* the receipt of each, "none" while it is not settled

gvars == <<standing, reached, receipt>>

GInit ==
    /\ standing = [c \in Call |-> "idle"]
    /\ reached = {}
    /\ receipt = [c \in Call |-> "none"]

Accepted(c) == standing[c] \notin {"idle", "refused"}

Open(c) ==
    /\ standing[c] = "idle"
    /\ \E s \in {"waiting", "refused"} : standing' = [standing EXCEPT ![c] = s]
    /\ UNCHANGED <<reached, receipt>>

Reach(c) ==
    /\ Accepted(c)
    /\ receipt[c] = "none"
    /\ c \notin reached
    /\ reached' = reached \cup {c}
    /\ UNCHANGED <<standing, receipt>>

Settle(c) ==
    /\ Accepted(c)
    /\ receipt[c] = "none"
    /\ \E status \in {"failed"} \cup (IF c \in reached THEN {"completed"} ELSE {"rejected"}) :
          receipt' = [receipt EXCEPT ![c] = status]
    /\ UNCHANGED <<standing, reached>>

\* What a call may be answered when its receipt is r.
Told(r) == Vague \cup (CASE r = "none"      -> {}
                         [] r = "completed" -> {"success"}
                         [] OTHER           -> {r})

Answer(c) ==
    /\ standing[c] = "waiting"
    /\ \E answer \in Told(receipt[c]) : standing' = [standing EXCEPT ![c] = answer]
    /\ UNCHANGED <<reached, receipt>>

\* Most steps of an implementation do not show; they are told first.
GNext ==
    \/ UNCHANGED gvars
    \/ \E c \in Call : Open(c) \/ Reach(c) \/ Settle(c) \/ Answer(c)

GSpec == GInit /\ [][GNext]_gvars
=============================================================================
