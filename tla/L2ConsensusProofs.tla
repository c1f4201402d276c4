-------------------------- MODULE L2ConsensusProofs --------------------------
(***************************************************************************)
(* The Warden's count of votes is exact, for every set of keys, every list *)
(* of votes and every interleaving with the signer and policy stores.      *)
(*                                                                         *)
(* CountInv ties the two local variables of the loop to the votes passed:  *)
(* seen is the set of signers with a verified vote, affirmative the number *)
(* of members whose first verified vote is a yes.  QuorumExact follows     *)
(* from it at the end of the loop, and where a repetition ends it early.   *)
(***************************************************************************)
EXTENDS L2Consensus, FiniteSetTheorems, TLAPS

\* The policies that are stored or on their way there have passed the checks.
PolicyInv ==
    /\ policy # NoPolicy => policy.quorum >= 1
    /\ \A a \in Admins : adds[a].pc # "idle" =>
          adds[a].policy \in Policies /\ adds[a].policy.quorum >= 1
    /\ used # NoPolicy => used.quorum >= 1

\* What the tribunal judged unsafe carries no yes.
UnsafeInv ==
    /\ origin = "unsafe" => affirmative = 0 /\ \A j \in 1 .. Len(votes) : ~votes[j].decision
    /\ verdict = "counting" => used \in Policies
    /\ verdict = "valid" => used \in Policies /\ affirmative >= used.quorum

VerifiedSigners == {k \in Keys : \E j \in Positions : Verified(j) /\ votes[j].signer = k}

RepeatedBefore(n) ==
    \E j \in Positions : \E i \in Positions :
        j < n /\ i < j /\ Verified(i) /\ votes[i].signer = votes[j].signer

\* A vote is repeated before pos only if its signer is a member, so distinct excludes it.
CountInv ==
    verdict = "counting" =>
        /\ seen = VerifiedSigners
        /\ affirmative = Cardinality(Affirmed)
        /\ used.distinct => ~RepeatedBefore(pos)

IInv == TypeOK /\ PolicyInv /\ UnsafeInv /\ CountInv /\ QuorumExact

-----------------------------------------------------------------------------
LEMMA NatOfProposals ==
  ASSUME NEW p \in Proposals, WellFormed(p) PROVE p \in Policies /\ p.quorum >= 1
<1>1. p \in Policies /\ p.members \subseteq Keys
  BY ConsensusAssumption DEF Policies
<1>2. Cardinality(p.members) \in Nat
  BY <1>1, ConsensusAssumption, FS_Subset, FS_CardinalityType
<1> QED BY <1>1, <1>2 DEF WellFormed

LEMMA InitIInv == Init => IInv
<1> SUFFICES ASSUME Init PROVE IInv
  OBVIOUS
<1>1. TypeOK
  BY ConsensusAssumption DEF Init, TypeOK, NoAdd
<1>2. PolicyInv /\ UnsafeInv
  BY DEF Init, PolicyInv, UnsafeInv, NoAdd
<1>3. CountInv /\ QuorumExact
  BY DEF Init, CountInv, QuorumExact
<1> QED BY <1>1, <1>2, <1>3 DEF IInv

-----------------------------------------------------------------------------
(* The tribunal's votes are votes, all of one mind. *)
LEMMA DeliberateType ==
  ASSUME NEW b \in BOOLEAN
  PROVE  /\ Deliberate(b) \in Seq(Votes)
         /\ Len(Deliberate(b)) = Len(Tribunal)
         /\ \A j \in 1 .. Len(Deliberate(b)) : Deliberate(b)[j].decision = b
BY ConsensusAssumption DEF Deliberate, Votes

LEMMA AddsType ==
  ASSUME TypeOK, NEW a \in Admins,
         NEW r \in [pc : {"idle", "signers", "existing", "write"},
                    policy : Policies \cup {NoPolicy}, pending : SUBSET Keys],
         adds' = [adds EXCEPT ![a] = r]
  PROVE  adds' \in [Admins -> [pc : {"idle", "signers", "existing", "write"},
                               policy : Policies \cup {NoPolicy}, pending : SUBSET Keys]]
BY DEF TypeOK

(* The stores' steps: types, and the policies that reach the store. *)
LEMMA StoreStep ==
  ASSUME TypeOK, PolicyInv,
         \/ \E k \in Keys : AddTrustedSigner(k) \/ DeleteTrustedSigner(k)
         \/ \E a \in Admins :
              \/ \E p \in Proposals : AddConsensus(a, p)
              \/ \E k \in Keys : ResolveMember(a, k)
              \/ CheckExisting(a)
              \/ WritePolicy(a)
         \/ DeleteConsensus
  PROVE  TypeOK' /\ PolicyInv' /\ UNCHANGED verifyVars
<1>1. ASSUME NEW k \in Keys, AddTrustedSigner(k) \/ DeleteTrustedSigner(k)
      PROVE  TypeOK' /\ PolicyInv' /\ UNCHANGED verifyVars
  <2>1. signers' \in [Keys -> {"none", "enabled", "disabled"}]
    BY <1>1 DEF AddTrustedSigner, DeleteTrustedSigner, TypeOK
  <2> QED BY <1>1, <2>1 DEF AddTrustedSigner, DeleteTrustedSigner, TypeOK, PolicyInv, verifyVars
<1>2. ASSUME NEW a \in Admins, NEW p \in Proposals, AddConsensus(a, p)
      PROVE  TypeOK' /\ PolicyInv' /\ UNCHANGED verifyVars
  <2> DEFINE r == [pc |-> "signers", policy |-> p, pending |-> p.members]
  <2>1. p \in Policies /\ p.quorum >= 1
    BY <1>2, NatOfProposals DEF AddConsensus
  <2>2. r \in [pc : {"idle", "signers", "existing", "write"},
               policy : Policies \cup {NoPolicy}, pending : SUBSET Keys]
    BY <2>1 DEF Policies
  <2>3. adds' = [adds EXCEPT ![a] = r] /\ UNCHANGED <<signers, policy, verifyVars>>
    BY <1>2 DEF AddConsensus
  <2>4. TypeOK'
    BY <2>2, <2>3, AddsType DEF TypeOK, verifyVars
  <2>5. PolicyInv'
    BY <2>1, <2>3 DEF PolicyInv, TypeOK, verifyVars
  <2> QED BY <2>3, <2>4, <2>5
<1>3. ASSUME NEW a \in Admins, EndAdd(a)
      PROVE  /\ adds' \in [Admins -> [pc : {"idle", "signers", "existing", "write"},
                                      policy : Policies \cup {NoPolicy}, pending : SUBSET Keys]]
             /\ \A b \in Admins : b # a => adds'[b] = adds[b]
             /\ adds'[a].pc = "idle"
  BY <1>3 DEF EndAdd, NoAdd, TypeOK
<1>4. ASSUME NEW a \in Admins, NEW k \in Keys, ResolveMember(a, k)
      PROVE  TypeOK' /\ PolicyInv' /\ UNCHANGED verifyVars
  <2>1. UNCHANGED <<signers, policy, verifyVars>> /\ adds[a].pc = "signers"
    BY <1>4 DEF ResolveMember
  <2>2. CASE EndAdd(a)
    BY <2>1, <2>2, <1>3 DEF TypeOK, PolicyInv, verifyVars
  <2>3. CASE adds' = [adds EXCEPT ![a].pending = @ \ {k},
                          ![a].pc = IF adds[a].pending = {k} THEN "existing" ELSE @]
    <3> DEFINE r == [pc |-> IF adds[a].pending = {k} THEN "existing" ELSE "signers",
                     policy |-> adds[a].policy, pending |-> adds[a].pending \ {k}]
    <3>a. adds[a] \in [pc : {"idle", "signers", "existing", "write"},
                      policy : Policies \cup {NoPolicy}, pending : SUBSET Keys]
      BY DEF TypeOK
    <3>b. r \in [pc : {"idle", "signers", "existing", "write"},
                policy : Policies \cup {NoPolicy}, pending : SUBSET Keys]
      BY <3>a
    <3>c. adds'[a] = r /\ \A b \in Admins : b # a => adds'[b] = adds[b]
      BY <3>a, <2>1, <2>3 DEF TypeOK
    <3>d. adds' = [b \in Admins |-> adds'[b]]
      BY <2>3 DEF TypeOK
    <3>1. adds' \in [Admins -> [pc : {"idle", "signers", "existing", "write"},
                               policy : Policies \cup {NoPolicy}, pending : SUBSET Keys]]
      BY <3>b, <3>c, <3>d DEF TypeOK
    <3>2. \A b \in Admins : adds'[b].policy = adds[b].policy
                            /\ (adds'[b].pc # "idle" => adds[b].pc # "idle")
      BY <2>1, <2>3 DEF TypeOK
    <3> QED BY <2>1, <3>1, <3>2 DEF TypeOK, PolicyInv, verifyVars
  <2> QED BY <1>4, <2>1, <2>2, <2>3 DEF ResolveMember
<1>5. ASSUME NEW a \in Admins, CheckExisting(a)
      PROVE  TypeOK' /\ PolicyInv' /\ UNCHANGED verifyVars
  <2>1. UNCHANGED <<signers, policy, verifyVars>> /\ adds[a].pc = "existing"
    BY <1>5 DEF CheckExisting
  <2>2. CASE EndAdd(a)
    BY <2>1, <2>2, <1>3 DEF TypeOK, PolicyInv, verifyVars
  <2>3. CASE adds' = [adds EXCEPT ![a].pc = "write"]
    <3>1. adds' \in [Admins -> [pc : {"idle", "signers", "existing", "write"},
                               policy : Policies \cup {NoPolicy}, pending : SUBSET Keys]]
      BY <2>3 DEF TypeOK
    <3>2. \A b \in Admins : adds'[b].policy = adds[b].policy
                            /\ (adds'[b].pc # "idle" => adds[b].pc # "idle")
      BY <2>1, <2>3 DEF TypeOK
    <3> QED BY <2>1, <3>1, <3>2 DEF TypeOK, PolicyInv, verifyVars
  <2> QED BY <1>5, <2>2, <2>3 DEF CheckExisting
<1>6. ASSUME NEW a \in Admins, WritePolicy(a)
      PROVE  TypeOK' /\ PolicyInv' /\ UNCHANGED verifyVars
  <2>1. /\ UNCHANGED <<signers, verifyVars>>
        /\ policy' \in {policy, adds[a].policy}
        /\ adds[a].policy \in Policies /\ adds[a].policy.quorum >= 1
        /\ EndAdd(a)
    BY <1>6 DEF WritePolicy, PolicyInv
  <2> QED BY <2>1, <1>3 DEF TypeOK, PolicyInv, verifyVars
<1>7. CASE DeleteConsensus
  BY <1>7 DEF DeleteConsensus, TypeOK, PolicyInv, verifyVars
<1> QED BY <1>1, <1>2, <1>4, <1>5, <1>6, <1>7

(* What does not touch the verification does not touch what is said of it. *)
LEMMA VerifyFrame ==
  ASSUME UnsafeInv, CountInv, QuorumExact, UNCHANGED verifyVars
  PROVE  UnsafeInv' /\ CountInv' /\ QuorumExact'
<1>1. UnsafeInv'
  BY DEF UnsafeInv, verifyVars
<1>2. VerifiedSigners' = VerifiedSigners /\ Affirmed' = Affirmed /\ (Repeated' <=> Repeated)
      /\ (RepeatedBefore(pos)' <=> RepeatedBefore(pos))
  BY DEF verifyVars, VerifiedSigners, Affirmed, Repeated, RepeatedBefore, FirstVerified, Verified,
         Positions
<1>3. CountInv'
  BY <1>2 DEF CountInv, verifyVars
<1>4. QuorumExact'
  BY <1>2 DEF QuorumExact, verifyVars
<1> QED BY <1>1, <1>3, <1>4

-----------------------------------------------------------------------------
(* The start of a verification. *)
LEMMA VerifyStep ==
  ASSUME TypeOK, PolicyInv, NEW list \in Seq(Votes), NEW who \in {"safe", "unsafe", "client"},
         who = "unsafe" => \A j \in 1 .. Len(list) : ~list[j].decision,
         Verify(list, who)
  PROVE  TypeOK' /\ PolicyInv' /\ UnsafeInv' /\ CountInv' /\ QuorumExact'
<1>1. TypeOK'
  BY DEF Verify, TypeOK, storeVars
<1>2. PolicyInv' /\ UnsafeInv'
  BY DEF Verify, PolicyInv, UnsafeInv, TypeOK, storeVars
<1>3. \A j \in 1 .. Len(votes)' : ~Verified(j)'
  BY DEF Verify, Verified
<1>4. VerifiedSigners' = {} /\ Affirmed' = {} /\ ~RepeatedBefore(pos)'
  BY <1>3 DEF VerifiedSigners, Affirmed, RepeatedBefore, FirstVerified, Positions
<1>5. CountInv'
  BY <1>4, FS_EmptySet DEF CountInv, Verify
<1>6. QuorumExact'
  BY DEF QuorumExact, Verify
<1> QED BY <1>1, <1>2, <1>5, <1>6

(* One round of the loop. *)
LEMMA CheckVoteStep ==
  ASSUME IInv, NEW found \in BOOLEAN, CheckVote(found)
  PROVE  TypeOK' /\ PolicyInv' /\ UnsafeInv' /\ CountInv' /\ QuorumExact'
<1> USE DEF IInv
<1> DEFINE v == votes[pos]
<1>0. /\ pos \in 1 .. Len(votes) /\ v \in Votes /\ v.signer \in Keys /\ used \in Policies
      /\ pos \in Nat /\ affirmative \in Nat
  <2>1. /\ pos \in 1 .. Len(votes) /\ votes \in Seq(Votes) /\ used \in Policies
        /\ pos \in Nat /\ affirmative \in Nat
    BY DEF CheckVote, TypeOK, UnsafeInv
  <2>2. votes[pos] \in Votes
    BY <2>1
  <2> QED BY <2>1, <2>2 DEF Votes
<1>n. PICK n \in Positions : n = pos
  BY <1>0 DEF Positions
<1>1. /\ UNCHANGED <<signers, policy, adds, votes, origin, used>>
      /\ trustedAt' = [trustedAt EXCEPT ![pos] = found]
      /\ verdict = "counting"
  BY DEF CheckVote, storeVars
<1>2. \/ v.signer \notin used.members /\ Skip
      \/ v.signer \in used.members /\ v.signer \in seen /\ RepeatVote
      \/ v.signer \in used.members /\ v.signer \notin seen /\ found /\ v.genuine /\ CountVote(v)
      \/ v.signer \in used.members /\ v.signer \notin seen /\ ~(found /\ v.genuine) /\ Skip
  BY DEF CheckVote
<1>3. TypeOK'
  <2>1. trustedAt' \in [1 .. Len(votes)' -> BOOLEAN]
    BY <1>0, <1>1 DEF TypeOK
  <2>2. /\ verdict' \in {"counting", "invalid"}
        /\ pos' \in {pos, pos + 1}
        /\ seen' \subseteq Keys
        /\ affirmative' \in Nat
    BY <1>0, <1>1, <1>2 DEF Skip, RepeatVote, CountVote, TypeOK
  <2> QED BY <1>0, <1>1, <2>1, <2>2 DEF TypeOK
<1>4. PolicyInv'
  BY <1>1 DEF PolicyInv
<1>5. UnsafeInv'
  <2>1. origin = "unsafe" => affirmative' = 0
    BY <1>0, <1>2 DEF UnsafeInv, Skip, RepeatVote, CountVote
  <2>2. verdict' # "valid"
    BY <1>1, <1>2 DEF Skip, RepeatVote, CountVote
  <2> QED BY <1>0, <1>1, <2>1, <2>2 DEF UnsafeInv
<1>6. ASSUME pos' = pos + 1, NEW j \in Positions
      PROVE  Verified(j)' <=> \/ Verified(j)
                              \/ j = pos /\ v.signer \in used.members /\ v.genuine /\ found
  BY <1>0, <1>1, <1>6 DEF Verified, Positions, TypeOK
<1>7. Positions' = Positions /\ \A j \in Positions : j \in Nat /\ votes[j].signer \in Keys
  <2>1. votes \in Seq(Votes) /\ Positions' = Positions
    BY <1>1 DEF Positions, TypeOK
  <2>2. \A j \in Positions : j \in Nat /\ votes[j] \in Votes
    BY <2>1 DEF Positions
  <2> QED BY <2>1, <2>2 DEF Votes
<1>8. \A j \in Positions : Verified(j) => j < pos
  BY DEF Verified
<1>9. seen = VerifiedSigners /\ affirmative = Cardinality(Affirmed)
      /\ (used.distinct => ~RepeatedBefore(pos))
  BY <1>1 DEF CountInv
<1>10. IsFiniteSet(Affirmed)
  BY ConsensusAssumption, FS_Subset DEF Affirmed
\* The vote is skipped and is not verified, or not the first of its signer.
<1>11. ASSUME Skip,
              \/ v.signer \notin used.members
              \/ v.signer \in seen /\ ~used.distinct
              \/ v.signer \notin seen /\ ~(found /\ v.genuine)
       PROVE  CountInv' /\ QuorumExact'
  <2>1. pos' = pos + 1 /\ verdict' = "counting" /\ seen' = seen /\ affirmative' = affirmative
    BY <1>1, <1>11 DEF Skip
  <2>2. VerifiedSigners' = VerifiedSigners
    BY <2>1, <1>1, <1>6, <1>7, <1>9, <1>11 DEF VerifiedSigners
  <2>3. \A j \in Positions : FirstVerified(j)' <=> FirstVerified(j)
    <3>1. ASSUME NEW j \in Positions, j # pos PROVE FirstVerified(j)' <=> FirstVerified(j)
      <4>1. \A i \in 1 .. j - 1 : i \in Positions
        BY <1>7 DEF Positions, TypeOK
      <4>2. Verified(j)' <=> Verified(j)
        BY <2>1, <1>6, <3>1
      <4>3. CASE Verified(j)
        <5>1. \A i \in 1 .. j - 1 : i # pos
          BY <4>3, <1>0, <1>7, <1>8
        <5>2. \A i \in 1 .. j - 1 : Verified(i)' <=> Verified(i)
          BY <5>1, <4>1, <2>1, <1>6
        <5> QED BY <5>2, <4>2, <1>1 DEF FirstVerified
      <4> QED BY <4>2, <4>3 DEF FirstVerified
    <3>2. ~FirstVerified(n)
      BY <1>0, <1>n, <1>8 DEF FirstVerified, Positions
    <3>3. ~FirstVerified(n)'
      <4>1. CASE ~Verified(n)'
        BY <4>1 DEF FirstVerified
      <4>2. CASE Verified(n)'
        <5>1. v.signer \in used.members /\ v.genuine /\ found
          BY <4>2, <2>1, <1>0, <1>n, <1>6, <1>8
        <5>2. v.signer \in VerifiedSigners
          BY <5>1, <1>11, <1>9
        <5>3. PICK i \in Positions : Verified(i) /\ votes[i].signer = v.signer
          BY <5>2 DEF VerifiedSigners
        <5>4. i \in 1 .. n - 1 /\ Verified(i)'
          BY <5>3, <1>0, <1>n, <1>6, <1>8, <2>1 DEF Positions
        <5> QED BY <5>3, <5>4, <1>1, <1>n DEF FirstVerified
      <4> QED BY <4>1, <4>2
    <3> QED BY <3>1, <3>2, <3>3, <1>n
  <2>4. Affirmed' = Affirmed
    BY <2>3, <1>1, <1>7 DEF Affirmed
  <2>5. used.distinct => ~RepeatedBefore(pos)'
    <3>1. SUFFICES ASSUME used.distinct, NEW j \in Positions, NEW i \in Positions,
                          j < pos', i < j, Verified(i)', votes[i].signer = votes[j].signer
                   PROVE  FALSE
      BY <1>1, <1>7 DEF RepeatedBefore
    <3>2. i < pos /\ Verified(i)
      BY <3>1, <2>1, <1>0, <1>6, <1>7
    <3>3. CASE j < pos
      BY <3>1, <3>2, <3>3, <1>9 DEF RepeatedBefore
    <3>4. CASE j = pos
      <4>1. v.signer \in seen /\ v.signer \in used.members
        BY <3>1, <3>2, <3>4, <1>7, <1>9 DEF VerifiedSigners, Verified
      <4> QED BY <4>1, <3>1, <1>11
    <3> QED BY <3>1, <3>3, <3>4, <2>1, <1>0, <1>7
  <2> QED BY <2>1, <2>2, <2>4, <2>5, <1>1, <1>9 DEF CountInv, QuorumExact
\* The vote counts.
<1>12. ASSUME v.signer \in used.members, v.signer \notin seen, found, v.genuine, CountVote(v)
       PROVE  CountInv' /\ QuorumExact'
  <2>1. /\ pos' = pos + 1 /\ verdict' = "counting" /\ seen' = seen \cup {v.signer}
        /\ affirmative' = affirmative + (IF v.decision THEN 1 ELSE 0)
    BY <1>1, <1>12 DEF CountVote
  <2>2. \A j \in Positions : Verified(j)' <=> Verified(j) \/ j = pos
    BY <2>1, <1>6, <1>12
  <2>3. VerifiedSigners' = VerifiedSigners \cup {v.signer}
    BY <2>2, <1>0, <1>1, <1>7 DEF VerifiedSigners, Positions
  <2>4. \A j \in Positions : FirstVerified(j)' <=> FirstVerified(j) \/ j = pos
    <3>1. \A i \in Positions : Verified(i) => votes[i].signer # v.signer
      BY <1>7, <1>9, <1>12 DEF VerifiedSigners
    <3>2. ASSUME NEW j \in Positions, j # pos PROVE FirstVerified(j)' <=> FirstVerified(j)
      <4>1. \A i \in 1 .. j - 1 : i \in Positions
        BY <1>7 DEF Positions, TypeOK
      <4>2. CASE Verified(j)
        <5>1. \A i \in 1 .. j - 1 : i # pos
          BY <4>2, <1>0, <1>7, <1>8
        <5> QED BY <5>1, <4>1, <4>2, <2>2, <1>1 DEF FirstVerified
      <4> QED BY <4>2, <2>2, <3>2 DEF FirstVerified
    <3>3. FirstVerified(n)'
      <4>1. \A i \in 1 .. n - 1 : i \in Positions /\ i # pos
        BY <1>0, <1>n DEF Positions, TypeOK
      <4>2. Verified(n)'
        BY <2>2, <1>n
      <4>3. \A i \in 1 .. n - 1 : Verified(i)' => Verified(i)
        BY <4>1, <2>2
      <4> QED BY <4>1, <4>2, <4>3, <3>1, <1>1, <1>n DEF FirstVerified
    <3> QED BY <3>2, <3>3, <1>n
  <2>5. v.signer \notin Affirmed
    BY <1>9, <1>12 DEF Affirmed, FirstVerified, VerifiedSigners
  <2>6. Affirmed' = IF v.decision THEN Affirmed \cup {v.signer} ELSE Affirmed
    BY <2>4, <1>0, <1>1, <1>7 DEF Affirmed, Positions
  <2>7. Cardinality(Affirmed') = affirmative'
    <3>1. Cardinality(Affirmed \cup {v.signer}) = Cardinality(Affirmed) + 1
      BY <2>5, <1>10, FS_AddElement
    <3>2. CASE v.decision
      BY <3>1, <3>2, <2>1, <2>6, <1>9
    <3>3. CASE ~v.decision
      BY <3>3, <2>1, <2>6, <1>0, <1>9
    <3> QED BY <3>2, <3>3
  <2>8. used.distinct => ~RepeatedBefore(pos)'
    <3>1. SUFFICES ASSUME used.distinct, NEW j \in Positions, NEW i \in Positions,
                          j < pos', i < j, Verified(i)', votes[i].signer = votes[j].signer
                   PROVE  FALSE
      BY <1>1, <1>7 DEF RepeatedBefore
    <3>2. i < pos /\ Verified(i)
      BY <3>1, <2>1, <2>2, <1>0, <1>7
    <3>3. CASE j < pos
      BY <3>1, <3>2, <3>3, <1>9 DEF RepeatedBefore
    <3>4. CASE j = pos
      BY <3>1, <3>2, <3>4, <1>7, <1>9, <1>12 DEF VerifiedSigners
    <3> QED BY <3>1, <3>3, <3>4, <2>1, <1>0, <1>7
  <2> QED BY <2>1, <2>3, <2>7, <2>8, <1>1, <1>9 DEF CountInv, QuorumExact
\* A repetition under RequireDistinct ends the loop.
<1>13. ASSUME v.signer \in seen, used.distinct, RepeatVote PROVE CountInv' /\ QuorumExact'
  <2>1. verdict' = "invalid" /\ pos' = pos
    BY <1>13 DEF RepeatVote
  <2>2. PICK i \in Positions : Verified(i) /\ votes[i].signer = v.signer
    BY <1>9, <1>13 DEF VerifiedSigners
  <2>3. Verified(i)' /\ i < pos /\ pos \in Positions
    BY <2>1, <2>2, <1>0, <1>1, <1>7 DEF Verified, TypeOK, Positions
  <2>4. Repeated'
    BY <2>2, <2>3, <1>1, <1>7 DEF Repeated
  <2> QED BY <2>1, <2>4, <1>1, <1>13 DEF CountInv, QuorumExact
<1>14. CountInv' /\ QuorumExact'
  <2>1. CASE v.signer \in seen /\ RepeatVote
    BY <2>1, <1>11, <1>13 DEF RepeatVote
  <2> QED BY <2>1, <1>2, <1>11, <1>12
<1> QED BY <1>3, <1>4, <1>5, <1>14

(* The end of the loop. *)
LEMMA DecideStep ==
  ASSUME IInv, Decide
  PROVE  TypeOK' /\ PolicyInv' /\ UnsafeInv' /\ CountInv' /\ QuorumExact'
<1> USE DEF IInv
<1>1. /\ verdict = "counting" /\ pos > Len(votes)
      /\ verdict' = IF affirmative < used.quorum THEN "invalid" ELSE "valid"
      /\ UNCHANGED <<signers, policy, adds, votes, origin, used, pos, trustedAt, seen, affirmative>>
      /\ used \in Policies /\ used.quorum \in Int /\ affirmative \in Nat
  BY DEF Decide, storeVars, UnsafeInv, TypeOK, Policies
<1>2. TypeOK' /\ PolicyInv' /\ UnsafeInv'
  BY <1>1 DEF TypeOK, PolicyInv, UnsafeInv
<1>3. Affirmed' = Affirmed /\ (Repeated' <=> Repeated)
  BY <1>1 DEF Affirmed, Repeated, FirstVerified, Verified, Positions
<1>4. Repeated => RepeatedBefore(pos)
  BY <1>1 DEF Repeated, RepeatedBefore, Positions, TypeOK
<1>5. affirmative = Cardinality(Affirmed) /\ (used.distinct => ~Repeated)
  BY <1>1, <1>4 DEF CountInv
<1>6. QuorumExact'
  BY <1>1, <1>3, <1>5 DEF QuorumExact
<1> QED BY <1>1, <1>2, <1>6 DEF CountInv

LEMMA ReturnStep ==
  ASSUME IInv, Return
  PROVE  TypeOK' /\ PolicyInv' /\ UnsafeInv' /\ CountInv' /\ QuorumExact'
<1>1. TypeOK'
  BY DEF IInv, Return, TypeOK, storeVars
<1> QED BY <1>1 DEF IInv, Return, PolicyInv, UnsafeInv, CountInv, QuorumExact, storeVars

LEMMA NextIInv == IInv /\ [Next]_vars => IInv'
<1> SUFFICES ASSUME IInv, [Next]_vars PROVE IInv'
  OBVIOUS
<1>1. CASE \/ \E k \in Keys : AddTrustedSigner(k) \/ DeleteTrustedSigner(k)
           \/ \E a \in Admins :
                \/ \E p \in Proposals : AddConsensus(a, p)
                \/ \E k \in Keys : ResolveMember(a, k)
                \/ CheckExisting(a)
                \/ WritePolicy(a)
           \/ DeleteConsensus
  <2>1. TypeOK' /\ PolicyInv' /\ UNCHANGED verifyVars
    BY <1>1, StoreStep DEF IInv
  <2> QED BY <2>1, VerifyFrame DEF IInv
<1>2. ASSUME NEW b \in BOOLEAN, VerifyDeliberated(b) PROVE IInv'
  BY <1>2, VerifyStep, DeliberateType DEF IInv, VerifyDeliberated
<1>3. ASSUME NEW list \in Envelopes, VerifyClient(list) PROVE IInv'
  BY <1>3, VerifyStep, ConsensusAssumption DEF IInv, VerifyClient
<1>4. ASSUME NEW found \in BOOLEAN, CheckVote(found) PROVE IInv'
  BY <1>4, CheckVoteStep DEF IInv
<1>5. CASE Decide
  BY <1>5, DecideStep DEF IInv
<1>6. CASE Return
  BY <1>6, ReturnStep DEF IInv
<1>7. CASE UNCHANGED vars
  <2>1. TypeOK' /\ PolicyInv' /\ UNCHANGED verifyVars
    BY <1>7 DEF vars, IInv, TypeOK, PolicyInv, verifyVars
  <2> QED BY <2>1, VerifyFrame DEF IInv
<1> QED BY <1>1, <1>2, <1>3, <1>4, <1>5, <1>6, <1>7 DEF Next

LEMMA SpecIInv == Spec => []IInv
BY InitIInv, NextIInv, PTL DEF Spec

(***************************************************************************)
(* The signer store, the policy store and the local state of the           *)
(* verification keep their types.                                          *)
(***************************************************************************)
THEOREM ConsensusTypeCorrect == Spec => []TypeOK
<1>1. IInv => TypeOK
  BY DEF IInv
<1> QED BY SpecIInv, <1>1, PTL

(***************************************************************************)
(* verifyL2Posture counts every member once, by its first verified vote,   *)
(* whatever the votes and however the stores change while it counts.       *)
(***************************************************************************)
THEOREM ConsensusQuorumExact == Spec => []QuorumExact
<1>1. IInv => QuorumExact
  BY DEF IInv
<1> QED BY SpecIInv, <1>1, PTL

(***************************************************************************)
(* The tribunal's unsafe judgement is never taken for consensus, under any *)
(* policy that AddConsensus lets through.                                  *)
(***************************************************************************)
THEOREM ConsensusUnsafeNeverValid == Spec => []UnsafeNeverValid
<1>1. IInv => UnsafeNeverValid
  <2>1. SUFFICES ASSUME IInv, origin = "unsafe", verdict = "valid" PROVE FALSE
    BY DEF UnsafeNeverValid
  <2>2. used \in Policies /\ used.quorum \in Int /\ 0 >= used.quorum
    BY <2>1 DEF IInv, UnsafeInv, Policies
  <2> QED BY <2>1, <2>2, ConsensusAssumption DEF IInv, PolicyInv
<1> QED BY SpecIInv, <1>1, PTL

(***************************************************************************)
(* An enabled policy in force is never silently replaced by another one.   *)
(***************************************************************************)
THEOREM ConsensusNoSilentOverwrite == Spec => NoSilentOverwrite
<1> DEFINE A == InForce(policy) => \/ InForce(policy)' /\ policy' = policy
                                   \/ policy' = NoPolicy
                                   \/ ~policy'.enabled
<1>1. IInv /\ [Next]_vars => [A]_vars
  <2>1. SUFFICES ASSUME IInv, [Next]_vars, InForce(policy)
                 PROVE  \/ InForce(policy)' /\ policy' = policy
                        \/ policy' = NoPolicy
                        \/ ~policy'.enabled
    OBVIOUS
  <2>2. ASSUME policy' = policy,
               \A a \in Admins : adds'[a].pc = "write" =>
                   (adds[a].pc = "write" /\ adds'[a].policy = adds[a].policy) \/ ~adds'[a].policy.enabled
        PROVE  InForce(policy)'
    BY <2>1, <2>2 DEF InForce
  <2>3. CASE UNCHANGED storeVars
    BY <2>2, <2>3 DEF storeVars
  <2>4. ASSUME NEW k \in Keys, AddTrustedSigner(k) \/ DeleteTrustedSigner(k)
        PROVE  InForce(policy)' /\ policy' = policy
    BY <2>2, <2>4 DEF AddTrustedSigner, DeleteTrustedSigner
  <2>5. ASSUME NEW a \in Admins, NEW p \in Proposals, AddConsensus(a, p)
        PROVE  InForce(policy)' /\ policy' = policy
    BY <2>1, <2>2, <2>5 DEF AddConsensus, IInv, TypeOK
  <2>6. ASSUME NEW a \in Admins, NEW k \in Keys, ResolveMember(a, k)
        PROVE  InForce(policy)' /\ policy' = policy
    <3>1. policy' = policy /\ adds[a].pc = "signers"
      BY <2>6 DEF ResolveMember
    <3>2. \A b \in Admins : b # a => adds'[b] = adds[b]
      BY <2>1, <2>6 DEF ResolveMember, EndAdd, IInv, TypeOK
    <3>3. adds'[a].pc # "write"
      <4>1. CASE EndAdd(a)
        BY <2>1, <4>1 DEF EndAdd, NoAdd, IInv, TypeOK
      <4>2. CASE adds' = [adds EXCEPT ![a].pending = @ \ {k},
                              ![a].pc = IF adds[a].pending = {k} THEN "existing" ELSE @]
        BY <2>1, <3>1, <4>2 DEF IInv, TypeOK
      <4> QED BY <2>6, <4>1, <4>2 DEF ResolveMember
    <3> QED BY <2>2, <3>1, <3>2, <3>3
  <2>7. ASSUME NEW a \in Admins, CheckExisting(a)
        PROVE  InForce(policy)' /\ policy' = policy
    <3>1. policy # NoPolicy
      BY <2>1 DEF InForce
    <3>2. CASE Replaceable(adds[a].policy)
      <4>1. ~adds[a].policy.enabled
        BY <3>1, <3>2, <2>1, <2>7 DEF Replaceable, CheckExisting, IInv, PolicyInv, Policies
      <4>2. adds' = [adds EXCEPT ![a].pc = "write"] /\ policy' = policy
        BY <2>7, <3>2 DEF CheckExisting
      <4>3. \A b \in Admins : /\ adds'[b].policy = adds[b].policy
                              /\ b # a => adds'[b].pc = adds[b].pc
        BY <4>2, <2>1 DEF IInv, TypeOK
      <4> QED BY <2>2, <4>1, <4>2, <4>3
    <3>3. CASE ~Replaceable(adds[a].policy)
      BY <2>1, <2>2, <2>7, <3>3 DEF CheckExisting, EndAdd, NoAdd, IInv, TypeOK
    <3> QED BY <3>2, <3>3
  <2>8. ASSUME NEW a \in Admins, WritePolicy(a)
        PROVE  (InForce(policy)' /\ policy' = policy) \/ ~policy'.enabled
    <3>1. CASE policy' = adds[a].policy
      BY <2>1, <2>8, <3>1 DEF WritePolicy, InForce
    <3>2. CASE policy' = policy
      BY <2>1, <2>2, <2>8, <3>2 DEF WritePolicy, EndAdd, NoAdd, IInv, TypeOK
    <3> QED BY <2>8, <3>1, <3>2 DEF WritePolicy
  <2>9. CASE DeleteConsensus
    BY <2>9 DEF DeleteConsensus
  <2>10. CASE \/ \E b \in BOOLEAN : VerifyDeliberated(b)
              \/ \E list \in Envelopes : VerifyClient(list)
              \/ \E found \in BOOLEAN : CheckVote(found)
              \/ Decide \/ Return \/ UNCHANGED vars
    BY <2>3, <2>10 DEF VerifyDeliberated, VerifyClient, Verify, CheckVote, Decide, Return, vars,
                       storeVars
  <2> QED BY <2>1, <2>4, <2>5, <2>6, <2>7, <2>8, <2>9, <2>10 DEF Next
<1> QED BY SpecIInv, <1>1, PTL DEF Spec, NoSilentOverwrite
=============================================================================
