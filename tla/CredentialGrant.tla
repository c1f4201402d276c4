--------------------------- MODULE CredentialGrant ---------------------------
(***************************************************************************)
(* What platform enrollment promises, without leases, certificates,        *)
(* Operator documents or retries.                                          *)
(*                                                                         *)
(* A request is asked for, and then approved or refused; an approved one   *)
(* may still be refused, but never has to be approved again.  Only an      *)
(* approved request is granted a credential, one that no other request     *)
(* has, and only once.  Its requester may be told that credential, however *)
(* often, and no other.  A request is revoked after its credential has     *)
(* been withdrawn, and a credential that was withdrawn stays withdrawn.    *)
(***************************************************************************)
CONSTANTS Request, Credential, NoCredential

VARIABLES
    phase,      \* "none", "asked", "approved", "granted", "refused" or "revoked"
    grant,      \* the credential of each request
    told,       \* the credentials its requester has been given
    withdrawn   \* the requests whose credential authenticates nobody any more

cvars == <<phase, grant, told, withdrawn>>

CInit ==
    /\ phase = [r \in Request |-> "none"]
    /\ grant = [r \in Request |-> NoCredential]
    /\ told = [r \in Request |-> {}]
    /\ withdrawn = {}

Turn(r, from, to) ==
    /\ phase[r] \in from
    /\ phase' = [phase EXCEPT ![r] = to]

Ask(r)     == Turn(r, {"none"}, "asked") /\ UNCHANGED <<grant, told, withdrawn>>
Approve(r) == Turn(r, {"asked"}, "approved") /\ UNCHANGED <<grant, told, withdrawn>>
Refuse(r)  == Turn(r, {"asked", "approved"}, "refused") /\ UNCHANGED <<grant, told, withdrawn>>

Grant(r, i) ==
    /\ Turn(r, {"approved"}, "granted")
    /\ \A s \in Request : grant[s] # i
    /\ grant' = [grant EXCEPT ![r] = i]
    /\ UNCHANGED <<told, withdrawn>>

Tell(r) ==
    /\ phase[r] \in {"granted", "revoked"}
    /\ told' = [told EXCEPT ![r] = {grant[r]}]
    /\ UNCHANGED <<phase, grant, withdrawn>>

Withdraw(r) ==
    /\ phase[r] = "granted"
    /\ withdrawn' = withdrawn \cup {r}
    /\ UNCHANGED <<phase, grant, told>>

Revoke(r) ==
    /\ r \in withdrawn
    /\ Turn(r, {"granted"}, "revoked")
    /\ UNCHANGED <<grant, told, withdrawn>>

CNext ==
    \E r \in Request :
        \/ Ask(r) \/ Approve(r) \/ Refuse(r)
        \/ \E i \in Credential : Grant(r, i)
        \/ Tell(r) \/ Withdraw(r) \/ Revoke(r)

CSpec == CInit /\ [][CNext]_cvars
=============================================================================
