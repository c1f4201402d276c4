----------------------------- MODULE L2Consensus -----------------------------
(***************************************************************************)
(* Machine consensus: the trusted signers, the consensus policy, the       *)
(* tribunal that signs votes on an envelope, and the L4 Warden's count of  *)
(* those votes.                                                            *)
(*                                                                         *)
(* The Warden loads the policy once, and then asks the signer store anew   *)
(* for every vote, so signers and policy may change while it counts.       *)
(* Administrators' AddConsensus calls check the signers one by one, then   *)
(* whether the policy exists, and write the policy in a last step.         *)
(***************************************************************************)
EXTENDS Integers, Sequences, FiniteSets

CONSTANTS Keys,        \* signer key ids
          SelfKeys,    \* the key ids that are themselves a hex public key
          Tribunal,    \* the members whose private keys the consensus service holds, in order
          Envelopes,   \* the vote lists that other clients attach to an envelope
          Proposals,   \* the policies that administrators submit
          Admins,      \* concurrent AddConsensus calls
          NoPolicy     \* no policy document

Votes == [signer : Keys, decision : BOOLEAN, genuine : BOOLEAN]

Policies == [members : SUBSET Keys, quorum : Int, distinct : BOOLEAN, enabled : BOOLEAN]

ASSUME ConsensusAssumption ==
    /\ IsFiniteSet(Keys)
    /\ SelfKeys \subseteq Keys
    /\ Tribunal \in Seq(Keys)
    /\ Envelopes \subseteq Seq(Votes)
    /\ Proposals \subseteq Policies
    /\ NoPolicy \notin Policies

VARIABLES signers,      \* the trusted_signers collection
          policy,       \* the consensus document
          adds,         \* the AddConsensus calls
          verdict,      \* "idle", "counting", or how verifyL2Posture ended
          votes,        \* the votes of the envelope being verified
          origin,       \* who attached them: the tribunal, by its judgement, or a client
          used,         \* the policy that the verification loaded
          pos,          \* the vote it looks at
          trustedAt,    \* for each vote it has passed: was the signer's key found then
          seen,         \* as in the code
          affirmative   \* as in the code

storeVars == <<signers, policy, adds>>
verifyVars == <<verdict, votes, origin, used, pos, trustedAt, seen, affirmative>>
vars == <<signers, policy, adds, verdict, votes, origin, used, pos, trustedAt, seen, affirmative>>

NoAdd == [pc |-> "idle", policy |-> NoPolicy, pending |-> {}]

TypeOK ==
    /\ signers \in [Keys -> {"none", "enabled", "disabled"}]
    /\ policy \in Policies \cup {NoPolicy}
    /\ adds \in [Admins -> [pc : {"idle", "signers", "existing", "write"},
                            policy : Policies \cup {NoPolicy}, pending : SUBSET Keys]]
    /\ verdict \in {"idle", "counting", "valid", "invalid"}
    /\ votes \in Seq(Votes)
    /\ origin \in {"safe", "unsafe", "client"}
    /\ used \in Policies \cup {NoPolicy}
    /\ pos \in 1 .. Len(votes) + 1
    /\ trustedAt \in [1 .. Len(votes) -> BOOLEAN]
    /\ seen \subseteq Keys
    /\ affirmative \in Nat

Init ==
    /\ signers = [k \in Keys |-> "none"]
    /\ policy = NoPolicy
    /\ adds = [a \in Admins |-> NoAdd]
    /\ verdict = "idle"
    /\ votes = <<>>
    /\ origin = "client"
    /\ used = NoPolicy
    /\ pos = 1
    /\ trustedAt = [j \in 1 .. 0 |-> FALSE]
    /\ seen = {}
    /\ affirmative = 0

-----------------------------------------------------------------------------
(***************************************************************************)
(* The signer store.                                                       *)
(***************************************************************************)

\* GetTrustedSigner finds a key: the document is enabled, or there is none and the id is
\* itself a public key.
Trusted(k) == signers[k] = "enabled" \/ (signers[k] = "none" /\ k \in SelfKeys)

AddTrustedSigner(k) ==
    /\ \E status \in {"enabled", "disabled"} : signers' = [signers EXCEPT ![k] = status]
    /\ UNCHANGED <<policy, adds, verifyVars>>

DeleteTrustedSigner(k) ==
    /\ signers[k] # "none"
    /\ signers' = [signers EXCEPT ![k] = "none"]
    /\ UNCHANGED <<policy, adds, verifyVars>>

-----------------------------------------------------------------------------
(***************************************************************************)
(* The policy store.                                                       *)
(***************************************************************************)

\* Mutant: a quorum of zero is accepted.
WellFormedMutant(p) ==
    /\ p.members # {}
    /\ p.quorum \in 0 .. Cardinality(p.members)

\* The checks on the policy alone.  The members are a set here: a list with an empty or a
\* repeated id is refused as well.
WellFormed(p) ==
    /\ p.members # {}
    /\ p.quorum \in 1 .. Cardinality(p.members)

\* A call with a malformed policy returns at once and changes nothing.
AddConsensus(a, p) ==
    /\ adds[a].pc = "idle"
    /\ WellFormed(p)
    /\ adds' = [adds EXCEPT ![a] = [pc |-> "signers", policy |-> p, pending |-> p.members]]
    /\ UNCHANGED <<signers, policy, verifyVars>>

EndAdd(a) == adds' = [adds EXCEPT ![a] = NoAdd]

\* The loop over the members: the first that is not trusted, or whose lookup fails, ends it.
ResolveMember(a, k) ==
    /\ adds[a].pc = "signers"
    /\ k \in adds[a].pending
    /\ \/ /\ Trusted(k)
          /\ adds' = [adds EXCEPT ![a].pending = @ \ {k},
                                  ![a].pc = IF adds[a].pending = {k} THEN "existing" ELSE @]
       \/ EndAdd(a)
    /\ UNCHANGED <<signers, policy, verifyVars>>

\* Mutant: an existing policy may be replaced by an enabled one.
ReplaceableMutant(p) == p.enabled \/ policy # NoPolicy

\* A new policy must be enabled, and an existing one can only be replaced by a disabled one.
Replaceable(p) == p.enabled <=> policy = NoPolicy

CheckExisting(a) ==
    /\ adds[a].pc = "existing"
    /\ IF Replaceable(adds[a].policy)
       THEN adds' = [adds EXCEPT ![a].pc = "write"]
       ELSE EndAdd(a)
    /\ UNCHANGED <<signers, policy, verifyVars>>

\* DocSet, unconditional; it may fail.
WritePolicy(a) ==
    /\ adds[a].pc = "write"
    /\ \/ policy' = adds[a].policy
       \/ UNCHANGED policy
    /\ EndAdd(a)
    /\ UNCHANGED <<signers, verifyVars>>

DeleteConsensus ==
    /\ policy # NoPolicy
    /\ policy' = NoPolicy
    /\ UNCHANGED <<signers, adds, verifyVars>>

-----------------------------------------------------------------------------
(***************************************************************************)
(* Votes.                                                                  *)
(***************************************************************************)

\* Every member of the tribunal evaluates the same payload with the same doctrine and signs
\* its judgement with its own key.
Deliberate(isSafe) ==
    [n \in 1 .. Len(Tribunal) |-> [signer |-> Tribunal[n], decision |-> isSafe, genuine |-> TRUE]]

\* verifyL2Posture up to the loop: no votes, no store, no policy or a disabled one end it.
Verify(list, who) ==
    /\ verdict = "idle"
    /\ votes' = list
    /\ origin' = who
    /\ pos' = 1
    /\ trustedAt' = [j \in 1 .. Len(list) |-> FALSE]
    /\ seen' = {}
    /\ affirmative' = 0
    /\ \/ /\ Len(list) > 0
          /\ policy # NoPolicy
          /\ policy.enabled
          /\ verdict' = "counting"
          /\ used' = policy
       \/ /\ verdict' = "invalid"
          /\ used' = NoPolicy
    /\ UNCHANGED storeVars

VerifyDeliberated(isSafe) ==
    /\ Len(Tribunal) > 0
    /\ Verify(Deliberate(isSafe), IF isSafe THEN "safe" ELSE "unsafe")

VerifyClient(list) == Verify(list, "client")

\* The vote is skipped: not a member's, or its key is not found, or its signature is bad.
Skip ==
    /\ pos' = pos + 1
    /\ UNCHANGED <<verdict, seen, affirmative>>

\* Mutant: a signer counts as seen only when it votes yes.
CountVoteMutant(vote) ==
    /\ pos' = pos + 1
    /\ seen' = IF vote.decision THEN seen \cup {vote.signer} ELSE seen
    /\ affirmative' = affirmative + (IF vote.decision THEN 1 ELSE 0)
    /\ UNCHANGED verdict

CountVote(vote) ==
    /\ pos' = pos + 1
    /\ seen' = seen \cup {vote.signer}
    /\ affirmative' = affirmative + (IF vote.decision THEN 1 ELSE 0)
    /\ UNCHANGED verdict

\* A second vote of a member whose vote has been counted.
RepeatVote ==
    IF used.distinct
    THEN verdict' = "invalid" /\ UNCHANGED <<pos, seen, affirmative>>
    ELSE Skip

\* One round of the loop; found is what the lookup of the signer's key returns, or would
\* return where the code does not look.  A lookup may also fail.
CheckVote(found) ==
    /\ verdict = "counting"
    /\ pos <= Len(votes)
    /\ found \in {Trusted(votes[pos].signer), FALSE}
    /\ trustedAt' = [trustedAt EXCEPT ![pos] = found]
    /\ CASE votes[pos].signer \notin used.members -> Skip
         [] votes[pos].signer \in used.members /\ votes[pos].signer \in seen -> RepeatVote
         [] OTHER -> IF found /\ votes[pos].genuine THEN CountVote(votes[pos]) ELSE Skip
    /\ UNCHANGED <<storeVars, votes, origin, used>>

Decide ==
    /\ verdict = "counting"
    /\ pos > Len(votes)
    /\ verdict' = IF affirmative < used.quorum THEN "invalid" ELSE "valid"
    /\ UNCHANGED <<storeVars, votes, origin, used, pos, trustedAt, seen, affirmative>>

\* The call has returned to the Warden, and its local state is gone.
Return ==
    /\ verdict \in {"valid", "invalid"}
    /\ verdict' = "idle"
    /\ votes' = <<>>
    /\ origin' = "client"
    /\ used' = NoPolicy
    /\ pos' = 1
    /\ trustedAt' = [j \in 1 .. 0 |-> FALSE]
    /\ seen' = {}
    /\ affirmative' = 0
    /\ UNCHANGED storeVars

-----------------------------------------------------------------------------
Next ==
    \/ \E k \in Keys : AddTrustedSigner(k) \/ DeleteTrustedSigner(k)
    \/ \E a \in Admins :
         \/ \E p \in Proposals : AddConsensus(a, p)
         \/ \E k \in Keys : ResolveMember(a, k)
         \/ CheckExisting(a)
         \/ WritePolicy(a)
    \/ DeleteConsensus
    \/ \E isSafe \in BOOLEAN : VerifyDeliberated(isSafe)
    \/ \E list \in Envelopes : VerifyClient(list)
    \/ \E found \in BOOLEAN : CheckVote(found)
    \/ Decide
    \/ Return

Spec == Init /\ [][Next]_vars

-----------------------------------------------------------------------------
(***************************************************************************)
(* Properties.                                                             *)
(***************************************************************************)

\* Vote j is a member's, its key was found when the loop got to it, and it verifies.
Verified(j) ==
    /\ j < pos
    /\ votes[j].signer \in used.members
    /\ votes[j].genuine
    /\ trustedAt[j]

\* Vote j is the vote that counts for its signer.
FirstVerified(j) ==
    /\ Verified(j)
    /\ \A i \in 1 .. j - 1 : ~(Verified(i) /\ votes[i].signer = votes[j].signer)

Positions == 1 .. Len(votes)

\* The members whose vote counts and is a yes.
Affirmed == {k \in Keys : \E j \in Positions :
                /\ FirstVerified(j)
                /\ votes[j].signer = k
                /\ votes[j].decision}

\* Some member votes again after a vote of its that verified.
Repeated == \E j \in Positions : \E i \in Positions :
                /\ Verified(i)
                /\ i < j
                /\ votes[i].signer = votes[j].signer

(***************************************************************************)
(* What verifyL2Posture decides, once it has a policy: consensus holds     *)
(* exactly when the members that said yes in the first of their votes to   *)
(* verify reach the quorum, and no member repeats itself under             *)
(* RequireDistinct.  A member never counts twice, whatever the order of    *)
(* the votes and however signers and policies change between them.         *)
(***************************************************************************)
QuorumExact ==
    verdict \in {"valid", "invalid"} /\ used # NoPolicy =>
        (verdict = "valid" <=>
            /\ Cardinality(Affirmed) >= used.quorum
            /\ ~(used.distinct /\ Repeated))

(***************************************************************************)
(* An envelope that the tribunal judged unsafe (ConsensusService.          *)
(* Deliberate) is never taken for consensus, whatever policy is in force:  *)
(* this needs AddConsensus to refuse a quorum of zero.                     *)
(***************************************************************************)
UnsafeNeverValid == origin = "unsafe" => verdict # "valid"

\* An enabled policy is in force, and no call that would replace it by another enabled one
\* is past the existence check.
InForce(p) ==
    /\ policy = p
    /\ p # NoPolicy /\ p.enabled
    /\ \A a \in Admins : adds[a].pc = "write" => ~adds[a].policy.enabled

(***************************************************************************)
(* AddConsensus's existence check prevents silent overwrites: once the     *)
(* calls that passed the check before the policy existed have ended, an    *)
(* enabled policy keeps its members and its quorum until it is disabled or *)
(* deleted, whatever further calls interleave.                             *)
(***************************************************************************)
NoSilentOverwrite ==
    [][InForce(policy) => \/ InForce(policy)' /\ policy' = policy
                          \/ policy' = NoPolicy
                          \/ ~policy'.enabled]_vars

=============================================================================
