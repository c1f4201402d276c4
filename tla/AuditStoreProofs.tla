--------------------------- MODULE AuditStoreProofs ---------------------------
(***************************************************************************)
(* The audit chain can always be verified, for every number of writers,    *)
(* every retention period and every hash function.                         *)
(*                                                                         *)
(* AlwaysVerifiable is not inductive: it says nothing of the head, of gaps *)
(* or of rows that outlive a checkpoint after them.  IInv adds that the    *)
(* rows after the anchor are consecutive up to the head (so that the walk  *)
(* meets each row's predecessor), that a checkpoint names a row that is    *)
(* gone and lies behind the head (so that the head is never recomputed     *)
(* from an empty table), and that what the verifier has looked up stays    *)
(* right until a prune commits.                                            *)
(***************************************************************************)
EXTENDS AuditStore, FiniteSetTheorems, WellFoundedInduction, NaturalsInduction, TLAPS

HasLast(rows) == \E r \in rows : \A q \in rows : q.seq <= r.seq

(***************************************************************************)
(* The inductive invariant.                                                *)
(***************************************************************************)

(* Sequence numbers are positive and unique, hashes are what they claim. *)
RowsInv ==
    /\ \A r \in events : /\ r.seq \in Nat \ {0}
                         /\ r.hash = Hash(r.seq, r.prev, r.body)
    /\ \A r, q \in events : r.seq = q.seq => r = q
    /\ events # {} => HasLast(events)

(* A checkpoint stands for a row that is gone and that the head has passed. *)
CheckpointsInv ==
    /\ \A c \in checkpoints : c.seq \in Nat \ {0}
    /\ \A c, d \in checkpoints : c.seq = d.seq => c = d
    /\ checkpoints # {} => events # {} /\ HasLast(checkpoints)
    /\ \A c \in checkpoints : c.seq < Head.seq
    /\ \A c \in checkpoints, r \in events : c.seq # r.seq

(* The rows after the anchor have no gap and each continues the one before. *)
ChainInv ==
    /\ \A s \in (Anchor.seq + 1) .. Head.seq : Stored(s)
    /\ \A r \in events : r.seq = Anchor.seq + 1 => r.prev = Anchor.hash
    /\ \A r, q \in events :
          Anchor.seq < q.seq /\ r.seq = q.seq + 1 => r.prev = q.hash

(* What the verifier has looked up is right as long as nothing was pruned. *)
StartsRight(start, expected) ==
    \/ start = Anchor.seq + 1 /\ expected = Anchor.hash
    \/ /\ start > Anchor.seq + 1
       /\ \E q \in events : q.seq = start - 1 /\ q.hash = expected

VerifierInv ==
    /\ verifier = [at |-> verifier.at, start |-> verifier.start,
                   expected |-> verifier.expected, raced |-> verifier.raced,
                   inRange |-> verifier.inRange]
    /\ verifier.at \in {"idle", "lookup", "walk"}
    /\ verifier.start \in Nat
    /\ verifier.raced \in BOOLEAN
    /\ ~verifier.raced /\ verifier.inRange =>
         /\ verdict # "broken"
         /\ verifier.at = "lookup" => verifier.start = Anchor.seq + 1 /\ checkpoints # {}
         /\ verifier.at = "walk" => StartsRight(verifier.start, verifier.expected)

IInv == RowsInv /\ CheckpointsInv /\ ChainInv /\ VerifierInv

(***************************************************************************)
(* Last.                                                                   *)
(***************************************************************************)

(* Last returns a row with the greatest sequence number, if there is one. *)
LEMMA LastIsLast ==
    ASSUME NEW rows, HasLast(rows)
    PROVE  Last(rows) \in rows /\ \A q \in rows : q.seq <= Last(rows).seq
  BY DEF HasLast, Last

(* A bounded non-empty set of rows has a last one. *)
LEMMA BoundedHasLast ==
    ASSUME NEW rows, rows # {}, NEW n \in Nat,
           \A r \in rows : r.seq \in Nat /\ r.seq <= n
    PROVE  HasLast(rows)
<1> DEFINE T == {n - r.seq : r \in rows}
           R == OpToRel(<, Nat)
<1>1. T \subseteq Nat /\ T # {}
  OBVIOUS
<1>2. IsWellFoundedOn(R, Nat)
  BY NatLessThanWellFounded
<1>3. PICK x \in T : \A y \in T : ~(<<y, x>> \in R)
  BY <1>1, <1>2, WFMin
<1>4. \A y \in T : ~(y < x)
  <2> SUFFICES ASSUME NEW y \in T, y < x PROVE FALSE
    OBVIOUS
  <2>1. <<y, x>> \in R
    BY <1>1 DEF OpToRel
  <2> QED BY <2>1, <1>3
<1>5. PICK r \in rows : x = n - r.seq
  OBVIOUS
<1>6. ASSUME NEW q \in rows PROVE q.seq <= r.seq
  <2>1. n - q.seq \in T
    OBVIOUS
  <2>2. ~(n - q.seq < n - r.seq)
    BY <1>4, <1>5, <2>1
  <2> HIDE DEF T, R
  <2> QED BY <2>2
<1> QED BY <1>6 DEF HasLast

(* Last returns the row that is after every other one. *)
LEMMA LastUnique ==
    ASSUME NEW rows, NEW h \in rows, h.seq \in Nat,
           \A q \in rows : q.seq \in Nat /\ (q = h \/ q.seq < h.seq)
    PROVE  Last(rows) = h
<1>1. HasLast(rows)
  BY DEF HasLast
<1>2. Last(rows) \in rows /\ h.seq <= Last(rows).seq
  BY <1>1, LastIsLast
<1> QED BY <1>2

(***************************************************************************)
(* Head and Anchor.                                                        *)
(***************************************************************************)

(* loadAuditChainHeadConn returns the row with the greatest sequence number; *)
(* its branch for an empty table is only taken before the first append.      *)
LEMMA HeadFacts ==
    ASSUME RowsInv, CheckpointsInv
    PROVE  /\ Head.seq \in Nat
           /\ events = {} => checkpoints = {} /\ Head = [seq |-> 0, hash |-> Genesis]
           /\ events # {} => \E h \in events : /\ Head.seq = h.seq
                                              /\ Head.hash = h.hash
                                              /\ h = Last(events)
           /\ \A r \in events : r.seq <= Head.seq
<1>1. CASE events = {}
  BY <1>1 DEF Head, CheckpointsInv
<1>2. CASE events # {}
  <2>1. Last(events) \in events /\ \A q \in events : q.seq <= Last(events).seq
    BY <1>2, LastIsLast DEF RowsInv
  <2>2. Head = [seq |-> Last(events).seq, hash |-> Last(events).hash]
    BY <1>2 DEF Head
  <2> QED BY <1>2, <2>1, <2>2 DEF RowsInv
<1> QED BY <1>1, <1>2

(* The latest checkpoint is behind the head, and the row it names is gone. *)
LEMMA AnchorFacts ==
    ASSUME RowsInv, CheckpointsInv
    PROVE  /\ Anchor.seq \in Nat
           /\ checkpoints = {} => Anchor = [seq |-> 0, hash |-> Genesis]
           /\ checkpoints # {} => /\ Anchor.seq # 0
                                 /\ Last(checkpoints) \in checkpoints
                                 /\ Anchor.seq = Last(checkpoints).seq
                                 /\ Anchor.hash = Last(checkpoints).hash
           /\ \A c \in checkpoints : c.seq <= Anchor.seq
           /\ \A r \in events : r.seq # Anchor.seq
           /\ Anchor.seq <= Head.seq
           /\ events # {} => Anchor.seq < Head.seq
<1>1. CASE checkpoints = {}
  <2>1. Anchor = [seq |-> 0, hash |-> Genesis]
    BY <1>1 DEF Anchor
  <2>2. events # {} => 0 < Head.seq
    BY HeadFacts DEF RowsInv
  <2> QED BY <1>1, <2>1, <2>2, HeadFacts DEF RowsInv
<1>2. CASE checkpoints # {}
  <2>1. /\ Last(checkpoints) \in checkpoints
        /\ \A q \in checkpoints : q.seq <= Last(checkpoints).seq
    BY <1>2, LastIsLast DEF CheckpointsInv
  <2>2. Anchor = [seq |-> Last(checkpoints).seq, hash |-> Last(checkpoints).hash]
    BY <1>2 DEF Anchor
  <2> QED BY <1>2, <2>1, <2>2, HeadFacts DEF CheckpointsInv
<1> QED BY <1>1, <1>2

(***************************************************************************)
(* An append.                                                              *)
(***************************************************************************)

TablesInv == RowsInv /\ CheckpointsInv /\ ChainInv

(* AppendPreparedAuditEvent keeps the chain intact and its anchor in place. *)
LEMMA AppendStep ==
    ASSUME TablesInv, NEW body,
           events' = events \cup {NextRow(body)}, checkpoints' = checkpoints
    PROVE  /\ TablesInv'
           /\ Head'.seq = Head.seq + 1
           /\ Anchor' = Anchor
<1> DEFINE n == NextRow(body)
<1>1. /\ n.seq = Head.seq + 1 /\ n.prev = Head.hash
      /\ n.hash = Hash(n.seq, n.prev, n.body)
  BY DEF NextRow
<1>2. /\ n.seq \in Nat \ {0}
      /\ \A r \in events : r.seq < n.seq /\ r.seq \in Nat
  BY <1>1, HeadFacts DEF RowsInv, TablesInv
<1> HIDE DEF n
<1>e. events' = events \cup {n}
  BY DEF n
<1>3. Last(events') = n
  <2>1. \A q \in events' : q.seq \in Nat /\ (q = n \/ q.seq < n.seq)
    BY <1>2, <1>e
  <2> QED BY <2>1, <1>2, <1>e, LastUnique
<1>4. Head' = [seq |-> n.seq, hash |-> n.hash]
  BY <1>3, <1>e DEF Head
<1>5. Anchor' = Anchor
  BY DEF Anchor
<1>6. RowsInv'
  <2>1. \A r \in events' : r.seq \in Nat \ {0} /\ r.hash = Hash(r.seq, r.prev, r.body)
    BY <1>1, <1>2, <1>e DEF RowsInv, TablesInv
  <2>2. \A r, q \in events' : r.seq = q.seq => r = q
    BY <1>2, <1>e DEF RowsInv, TablesInv
  <2>3. HasLast(events')
    BY <1>2, <1>e DEF HasLast
  <2> QED BY <2>1, <2>2, <2>3 DEF RowsInv
<1>7. CheckpointsInv'
  <2>1. \A c \in checkpoints : c.seq \in Nat \ {0} /\ c.seq < Head.seq
    BY DEF CheckpointsInv, TablesInv
  <2>2. \A c \in checkpoints : c.seq < n.seq
    BY <2>1, <1>1, HeadFacts DEF TablesInv
  <2>3. \A c \in checkpoints, r \in events' : c.seq # r.seq
    BY <2>1, <2>2, <1>2, <1>e DEF CheckpointsInv, TablesInv
  <2>4. \A c \in checkpoints : c.seq < Head'.seq
    BY <2>2, <1>4
  <2>5. checkpoints # {} => events' # {} /\ HasLast(checkpoints)
    BY <1>e DEF CheckpointsInv, TablesInv
  <2>6. \A c, d \in checkpoints : c.seq = d.seq => c = d
    BY DEF CheckpointsInv, TablesInv
  <2> QED BY <2>1, <2>3, <2>4, <2>5, <2>6 DEF CheckpointsInv
<1>8. ChainInv'
  <2> USE DEF TablesInv
  <2>1. ASSUME NEW s \in (Anchor.seq + 1) .. Head'.seq PROVE Stored(s)'
    <3>1. s = n.seq \/ s \in (Anchor.seq + 1) .. Head.seq
      BY <1>1, <1>2, <1>4, HeadFacts, AnchorFacts
    <3>2. CASE s = n.seq
      BY <3>2, <1>e DEF Stored
    <3>3. CASE s \in (Anchor.seq + 1) .. Head.seq
      BY <3>3, <1>e DEF Stored, ChainInv
    <3> QED BY <3>1, <3>2, <3>3
  <2>2. n.seq = Anchor.seq + 1 => n.prev = Anchor.hash
    <3>1. CASE events = {}
      BY <3>1, <1>1, HeadFacts, AnchorFacts
    <3>2. CASE events # {}
      BY <3>2, <1>1, HeadFacts, AnchorFacts
    <3> QED BY <3>1, <3>2
  <2>3. \A r \in events' : r.seq = Anchor.seq + 1 => r.prev = Anchor.hash
    BY <2>2, <1>e DEF ChainInv
  <2>4. ASSUME NEW r \in events', NEW q \in events',
               Anchor.seq < q.seq, r.seq = q.seq + 1
        PROVE  r.prev = q.hash
    <3>1. q \in events
      BY <2>4, <1>2, <1>e
    <3>2. CASE r \in events
      BY <3>1, <3>2, <2>4 DEF ChainInv
    <3>3. CASE r = n
      <4>1. q.seq = Head.seq
        BY <3>1, <3>3, <2>4, <1>1, <1>2, HeadFacts
      <4>2. PICK h \in events : Head.seq = h.seq /\ Head.hash = h.hash
        BY <3>1, HeadFacts
      <4>3. h = q
        BY <3>1, <4>1, <4>2 DEF RowsInv
      <4> QED BY <4>2, <4>3, <3>3, <1>1
    <3> QED BY <3>2, <3>3, <1>e
  <2> QED BY <2>1, <2>3, <2>4, <1>5 DEF ChainInv
<1> QED BY <1>1, <1>4, <1>5, <1>6, <1>7, <1>8 DEF TablesInv

(***************************************************************************)
(* A prune.                                                                *)
(***************************************************************************)

(* PruneChainedAuditEvents keeps the chain intact: the rows after the new    *)
(* anchor are exactly those that were after it before, and the checkpoint.   *)
LEMMA PruneStep ==
    ASSUME TablesInv, PruneChain
    PROVE  /\ TablesInv'
           /\ Head'.seq = Head.seq + 1
<1> DEFINE n == NextRow(CheckpointBody)
           p == Last(Prunable)
<1> USE DEF TablesInv
<1>1. /\ n.seq = Head.seq + 1 /\ n.prev = Head.hash
      /\ n.hash = Hash(n.seq, n.prev, n.body)
  BY DEF NextRow
<1>2. /\ n.seq \in Nat \ {0} /\ Head.seq \in Nat
      /\ \A r \in events : r.seq < n.seq /\ r.seq <= Head.seq /\ r.seq \in Nat \ {0}
  BY <1>1, HeadFacts DEF RowsInv
<1>3. HasLast(Prunable)
  <2>1. \A r \in Prunable : r.seq \in Nat /\ r.seq <= Head.seq
    BY <1>2 DEF Prunable
  <2>2. Prunable # {}
    BY DEF PruneChain
  <2> QED BY <2>1, <2>2, <1>2, BoundedHasLast
<1>4. /\ p \in Prunable /\ p \in events
      /\ \A r \in Prunable : r.seq <= p.seq
  <2>1. p \in Prunable /\ \A r \in Prunable : r.seq <= p.seq
    BY <1>3, LastIsLast
  <2> QED BY <2>1 DEF Prunable
<1>5. checkpoints' = checkpoints \cup {Checkpoint}
      /\ Checkpoint.seq = p.seq /\ Checkpoint.hash = p.hash
  BY DEF PruneChain, Checkpoint
<1>6. n \notin events /\ n \notin Prunable
  BY <1>2 DEF Prunable
<1>7. events' = (events \ Prunable) \cup {n}
  BY <1>6 DEF PruneChain, RowsAfterPrune
<1> HIDE DEF n, p
<1>8. Last(events') = n
  <2>1. \A q \in events' : q.seq \in Nat /\ (q = n \/ q.seq < n.seq)
    BY <1>2, <1>7
  <2> QED BY <2>1, <1>2, <1>7, LastUnique
<1>9. Head' = [seq |-> n.seq, hash |-> n.hash]
  BY <1>7, <1>8 DEF Head
<1>10. RowsInv'
  <2>1. \A r \in events' : r.seq \in Nat \ {0} /\ r.hash = Hash(r.seq, r.prev, r.body)
    BY <1>1, <1>2, <1>7 DEF RowsInv
  <2>2. \A r, q \in events' : r.seq = q.seq => r = q
    BY <1>2, <1>7 DEF RowsInv
  <2>3. HasLast(events')
    BY <1>2, <1>7 DEF HasLast
  <2> QED BY <2>1, <2>2, <2>3 DEF RowsInv
<1>11. p.seq # Anchor.seq /\ p.seq \in Nat \ {0} /\ Anchor.seq \in Nat
  BY <1>2, <1>4, AnchorFacts
(* The new anchor is the later of the old one and the last pruned row. *)
<1>12. /\ p.seq > Anchor.seq => Anchor' = [seq |-> p.seq, hash |-> p.hash]
       /\ p.seq < Anchor.seq => Anchor' = Anchor
       /\ HasLast(checkpoints')
  <2>1. \A c \in checkpoints : c.seq \in Nat /\ c.seq <= Anchor.seq
    BY AnchorFacts DEF CheckpointsInv
  <2>2. CASE p.seq > Anchor.seq
    <3>1. \A c \in checkpoints' :
             c.seq \in Nat /\ (c = Checkpoint \/ c.seq < Checkpoint.seq)
      BY <2>1, <2>2, <1>5, <1>11
    <3>2. Last(checkpoints') = Checkpoint
      BY <3>1, <1>5, <1>11, LastUnique
    <3>3. Anchor' = [seq |-> p.seq, hash |-> p.hash]
      BY <3>2, <1>5 DEF Anchor
    <3>4. HasLast(checkpoints')
      BY <3>1, <1>5, <1>11 DEF HasLast
    <3> QED BY <2>2, <3>3, <3>4, <1>11
  <2>3. CASE p.seq < Anchor.seq
    <3>1. checkpoints # {}
      BY <2>3, <1>11, AnchorFacts
    <3>2. /\ Last(checkpoints) \in checkpoints
          /\ Anchor.seq = Last(checkpoints).seq
          /\ Anchor.hash = Last(checkpoints).hash
      BY <3>1, AnchorFacts
    <3>3. HasLast(checkpoints')
      BY <2>1, <2>3, <3>2, <1>5, <1>11 DEF HasLast
    <3>4. /\ Last(checkpoints') \in checkpoints'
          /\ \A c \in checkpoints' : c.seq <= Last(checkpoints').seq
      BY <3>3, LastIsLast
    <3>5. /\ Last(checkpoints') \in checkpoints
          /\ Last(checkpoints').seq = Anchor.seq
      <4>1. Anchor.seq <= Last(checkpoints').seq
        BY <3>2, <3>4, <1>5
      <4>2. Last(checkpoints') # Checkpoint
        BY <4>1, <2>3, <1>5, <1>11
      <4>3. Last(checkpoints') \in checkpoints
        BY <3>4, <4>2, <1>5
      <4> QED BY <4>1, <4>3, <2>1, <1>11
    <3>6. Last(checkpoints') = Last(checkpoints)
      BY <3>2, <3>5 DEF CheckpointsInv
    <3>7. checkpoints' # {}
      BY <1>5
    <3>8. Anchor' = Anchor
      <4>1. Anchor = [seq |-> Last(checkpoints).seq, hash |-> Last(checkpoints).hash]
        BY <3>1 DEF Anchor
      <4>2. Anchor' = [seq |-> Last(checkpoints').seq, hash |-> Last(checkpoints').hash]
        BY <3>7 DEF Anchor
      <4> QED BY <4>1, <4>2, <3>6
    <3> QED BY <2>3, <3>3, <3>8, <1>11
  <2> QED BY <2>2, <2>3, <1>11
<1>13. CheckpointsInv'
  <2>1. \A c \in checkpoints : c.seq \in Nat \ {0} /\ c.seq < Head.seq
    BY DEF CheckpointsInv
  <2>2. \A c \in checkpoints' : c.seq \in Nat \ {0} /\ c.seq < Head'.seq
    BY <2>1, <1>1, <1>2, <1>4, <1>5, <1>9, <1>11
  <2>3. \A c, d \in checkpoints' : c.seq = d.seq => c = d
    BY <1>4, <1>5 DEF CheckpointsInv
  <2>4. \A r \in events \ Prunable : r.seq # p.seq
    BY <1>4 DEF RowsInv
  <2>5. \A c \in checkpoints', r \in events' : c.seq # r.seq
    BY <2>1, <2>2, <2>4, <1>1, <1>2, <1>4, <1>5, <1>7, <1>9 DEF CheckpointsInv
  <2>6. events' # {}
    BY <1>7
  <2> QED BY <2>2, <2>3, <2>5, <2>6, <1>12 DEF CheckpointsInv
(* What is after the new anchor was after the old one, and it was kept. *)
<1>14. /\ Anchor'.seq \in Nat
       /\ Anchor'.seq >= Anchor.seq /\ Anchor'.seq >= p.seq
       /\ Anchor'.seq <= Head.seq
  BY <1>2, <1>4, <1>11, <1>12, AnchorFacts
<1>15. \A r \in events : r.seq > Anchor'.seq => r \in events'
  <2> SUFFICES ASSUME NEW r \in events, r.seq > Anchor'.seq, r \in Prunable PROVE FALSE
    BY <1>7
  <2> QED BY <1>2, <1>4, <1>14, <1>11
<1>16. ChainInv'
  <2>1. ASSUME NEW s \in (Anchor'.seq + 1) .. Head'.seq PROVE Stored(s)'
    <3>1. s = n.seq \/ s \in (Anchor.seq + 1) .. Head.seq
      BY <1>1, <1>2, <1>9, <1>11, <1>14
    <3>2. CASE s = n.seq
      BY <3>2, <1>7 DEF Stored
    <3>3. CASE s \in (Anchor.seq + 1) .. Head.seq
      <4>1. PICK r \in events : r.seq = s
        BY <3>3 DEF ChainInv, Stored
      <4>2. r \in events'
        BY <4>1, <1>14, <1>15
      <4> QED BY <4>1, <4>2 DEF Stored
    <3> QED BY <3>1, <3>2, <3>3
  (* Any two consecutive rows of the old chain, the checkpoint included. *)
  <2>2. ASSUME NEW r \in events \cup {n}, NEW q \in events,
               Anchor.seq < q.seq, r.seq = q.seq + 1
        PROVE  r.prev = q.hash
    <3>1. CASE r \in events
      BY <3>1, <2>2 DEF ChainInv
    <3>2. CASE r = n
      <4>1. q.seq = Head.seq
        BY <3>2, <2>2, <1>1, <1>2
      <4>2. PICK h \in events : Head.seq = h.seq /\ Head.hash = h.hash
        BY HeadFacts
      <4>3. h = q
        BY <4>1, <4>2 DEF RowsInv
      <4> QED BY <4>2, <4>3, <3>2, <1>1
    <3> QED BY <3>1, <3>2
  <2>3. ASSUME NEW r \in events', r.seq = Anchor'.seq + 1
        PROVE  r.prev = Anchor'.hash
    <3>1. CASE p.seq > Anchor.seq
      <4>1. r.prev = p.hash
        BY <3>1, <2>2, <2>3, <1>4, <1>7, <1>12
      <4> QED BY <4>1, <3>1, <1>12
    <3>2. CASE p.seq < Anchor.seq
      <4>1. Anchor.seq < Head.seq
        BY <1>4, AnchorFacts
      <4>2. r # n
        BY <4>1, <3>2, <2>3, <1>1, <1>2, <1>11, <1>12
      <4> QED BY <4>2, <3>2, <2>3, <1>7, <1>12 DEF ChainInv
    <3> QED BY <3>1, <3>2, <1>11
  <2>4. ASSUME NEW r \in events', NEW q \in events',
               Anchor'.seq < q.seq, r.seq = q.seq + 1
        PROVE  r.prev = q.hash
    <3>1. q # n
      BY <2>4, <1>2, <1>7
    <3>2. q \in events /\ Anchor.seq < q.seq
      BY <3>1, <2>4, <1>2, <1>7, <1>11, <1>14
    <3> QED BY <3>2, <2>2, <2>4, <1>7
  <2> QED BY <2>1, <2>3, <2>4 DEF ChainInv
<1> QED BY <1>1, <1>9, <1>10, <1>13, <1>16

(***************************************************************************)
(* The verifier.                                                           *)
(***************************************************************************)

(* A walk that starts right finds every row in its place. *)
LEMMA WalkSucceeds ==
    ASSUME TablesInv, NEW start \in Nat, NEW expected, StartsRight(start, expected)
    PROVE  ChainOK(start, expected)
<1> USE DEF TablesInv
<1> SUFFICES ASSUME NEW r \in events, r.seq >= start,
                    NEW before, before = {q \in events : q.seq >= start /\ q.seq < r.seq}
             PROVE  /\ r.hash = Hash(r.seq, r.prev, r.body)
                    /\ r.prev = IF before = {} THEN expected ELSE Last(before).hash
  BY DEF ChainOK
<1>1. /\ r.seq \in Nat /\ r.seq <= Head.seq /\ Head.seq \in Nat
      /\ r.hash = Hash(r.seq, r.prev, r.body)
      /\ Anchor.seq \in Nat
  BY HeadFacts, AnchorFacts DEF RowsInv
<1>2. CASE r.seq = start
  <2>1. before = {}
    BY <1>1, <1>2 DEF RowsInv
  <2>2. r.prev = expected
    <3>1. CASE start = Anchor.seq + 1 /\ expected = Anchor.hash
      BY <3>1, <1>2 DEF ChainInv
    <3>2. CASE start > Anchor.seq + 1
      <4>1. PICK q \in events : q.seq = start - 1 /\ q.hash = expected
        BY <3>2, <1>1 DEF StartsRight
      <4>2. Anchor.seq < q.seq /\ r.seq = q.seq + 1
        BY <4>1, <3>2, <1>1, <1>2
      <4> QED BY <4>1, <4>2 DEF ChainInv
    <3> QED BY <3>1, <3>2 DEF StartsRight
  <2> QED BY <2>1, <2>2, <1>1
<1>3. CASE r.seq > start
  <2>1. start > Anchor.seq
    BY <1>1 DEF StartsRight
  <2>2. r.seq - 1 \in (Anchor.seq + 1) .. Head.seq
    BY <2>1, <1>1, <1>3
  <2>3. PICK q \in events : q.seq = r.seq - 1
    BY <2>2 DEF ChainInv, Stored
  <2>4. q \in before
    BY <2>3, <1>1, <1>3
  <2>5. \A b \in before : b.seq \in Nat /\ (b = q \/ b.seq < q.seq)
    BY <2>3, <1>1 DEF RowsInv
  <2>6. Last(before) = q
    BY <2>4, <2>5, LastUnique
  <2>7. r.prev = q.hash
    BY <2>1, <2>3, <1>1, <1>3 DEF ChainInv
  <2> QED BY <2>4, <2>6, <2>7, <1>1
<1> QED BY <1>1, <1>2, <1>3

(* The first query of VerifyChain finds the right place to start. *)
LEMMA StartStep ==
    ASSUME TablesInv, VerifierInv, NEW from \in Nat, StartVerify(from)
    PROVE  VerifierInv'
<1> USE DEF TablesInv
<1>1. events' = events /\ checkpoints' = checkpoints /\ verdict' = "none"
  BY DEF StartVerify, tables
<1>2. Anchor' = Anchor
  BY <1>1 DEF Anchor
<1>3. /\ Anchor.seq \in Nat /\ Head.seq \in Nat
      /\ InRange(from) => from = 0 \/ (Anchor.seq < from /\ from <= Head.seq + 1)
  BY HeadFacts, AnchorFacts DEF InRange
<1>4. ASSUME NEW step \in {"lookup", "walk"}, NEW start \in Nat, NEW expected,
             verifier' = Begin(step, from, start, expected),
             InRange(from) =>
                /\ step = "lookup" => start = Anchor.seq + 1 /\ checkpoints # {}
                /\ step = "walk" => StartsRight(start, expected)
      PROVE  VerifierInv'
  <2>1. /\ verifier'.at = step /\ verifier'.start = start
        /\ verifier'.expected = expected /\ verifier'.raced = FALSE
        /\ verifier'.inRange = InRange(from)
        /\ verifier' = [at |-> verifier'.at, start |-> verifier'.start,
                        expected |-> verifier'.expected, raced |-> verifier'.raced,
                        inRange |-> verifier'.inRange]
    BY <1>4 DEF Begin
  <2>2. StartsRight(start, expected) => StartsRight(start, expected)'
    BY <1>1, <1>2 DEF StartsRight
  <2> QED BY <2>1, <2>2, <1>1, <1>2, <1>4 DEF VerifierInv, StartsRight
<1>5. CASE from = 0 /\ verifier' = Begin("walk", from, Anchor.seq + 1, Anchor.hash)
  BY <1>3, <1>4, <1>5 DEF StartsRight
<1>6. CASE from = 1 /\ verifier' = Begin("walk", from, 1, Genesis)
  <2>1. InRange(from) => Anchor.seq = 0
    BY <1>3, <1>6
  <2>2. Anchor.seq = 0 => Anchor.hash = Genesis
    BY AnchorFacts
  <2> QED BY <2>1, <2>2, <1>4, <1>6 DEF StartsRight
<1>7. CASE from > 1 /\ \E r \in events : /\ r.seq = from - 1
                                        /\ verifier' = Begin("walk", from, from, r.hash)
  <2>1. PICK r \in events : r.seq = from - 1 /\ verifier' = Begin("walk", from, from, r.hash)
    BY <1>7
  <2>2. InRange(from) => from > Anchor.seq + 1
    <3>1. r.seq # Anchor.seq
      BY AnchorFacts
    <3> QED BY <3>1, <2>1, <1>3, <1>7
  <2> QED BY <2>1, <2>2, <1>4 DEF StartsRight
<1>8. CASE from > 1 /\ ~Stored(from - 1) /\ verifier' = Begin("lookup", from, from, Genesis)
  <2>1. InRange(from) => from = Anchor.seq + 1
    <3>1. from - 1 \notin (Anchor.seq + 1) .. Head.seq
      BY <1>8 DEF ChainInv
    <3> QED BY <3>1, <1>3, <1>8
  <2>2. InRange(from) => checkpoints # {}
    BY <2>1, <1>8, AnchorFacts
  <2> QED BY <2>1, <2>2, <1>4, <1>8
<1> QED BY <1>5, <1>6, <1>7, <1>8 DEF StartVerify

(* So does the checkpoint lookup for a predecessor that was pruned. *)
LEMMA LookupStep ==
    ASSUME TablesInv, VerifierInv, LookupCheckpoint
    PROVE  VerifierInv'
<1> USE DEF TablesInv
<1> DEFINE before == {c \in checkpoints : c.seq < verifier.start}
<1>1. events' = events /\ checkpoints' = checkpoints /\ verifier.at = "lookup"
  BY DEF LookupCheckpoint, tables
<1>2. Anchor' = Anchor
  BY <1>1 DEF Anchor
<1>3. ASSUME ~verifier.raced, verifier.inRange
      PROVE  /\ before = checkpoints /\ checkpoints # {}
             /\ verifier.start = Anchor.seq + 1
             /\ Last(before).seq = verifier.start - 1 /\ Last(before).hash = Anchor.hash
  <2>1. verifier.start = Anchor.seq + 1 /\ checkpoints # {} /\ Anchor.seq \in Nat
    BY <1>1, <1>3, AnchorFacts DEF VerifierInv
  <2>2. before = checkpoints
    BY <2>1, AnchorFacts DEF CheckpointsInv
  <2> QED BY <2>1, <2>2, AnchorFacts
<1>4. CASE /\ before # {} /\ Last(before).seq = verifier.start - 1
           /\ verifier' = [verifier EXCEPT !.at = "walk", !.expected = Last(before).hash]
           /\ UNCHANGED verdict
  <2>1. verifier' = [at |-> "walk", start |-> verifier.start,
                     expected |-> Last(before).hash, raced |-> verifier.raced,
                     inRange |-> verifier.inRange]
    BY <1>4 DEF VerifierInv
  <2>2. ~verifier.raced /\ verifier.inRange =>
           verifier'.start = Anchor'.seq + 1 /\ verifier'.expected = Anchor'.hash
    BY <2>1, <1>2, <1>3
  <2> HIDE DEF before
  <2> QED BY <2>1, <2>2, <1>4 DEF VerifierInv, StartsRight
<1>5. CASE ~(before # {} /\ Last(before).seq = verifier.start - 1) /\ Report("broken")
  <2>1. verifier' = [at |-> "idle", start |-> 0, expected |-> Genesis,
                     raced |-> verifier.raced, inRange |-> verifier.inRange]
    BY <1>5 DEF VerifierInv, Report
  <2>2. verifier.raced \/ ~verifier.inRange
    BY <1>3, <1>5
  <2> QED BY <2>1, <2>2 DEF VerifierInv
<1> QED BY <1>4, <1>5 DEF LookupCheckpoint

(* A walk that was not raced by a prune does not report a broken chain. *)
LEMMA WalkStep ==
    ASSUME TablesInv, VerifierInv, WalkRows
    PROVE  VerifierInv'
<1>1. verifier' = [at |-> "idle", start |-> 0, expected |-> Genesis,
                   raced |-> verifier.raced, inRange |-> verifier.inRange]
  BY DEF WalkRows, Report, VerifierInv
<1>2. ~verifier.raced /\ verifier.inRange => ChainOK(verifier.start, verifier.expected)
  BY WalkSucceeds DEF VerifierInv, WalkRows
<1>3. ~verifier.raced /\ verifier.inRange => verdict' # "broken"
  BY <1>2 DEF WalkRows, Report
<1> QED BY <1>1, <1>3 DEF VerifierInv

(* A step that leaves the verifier alone and only adds rows. *)
LEMMA VerifierFrame ==
    ASSUME VerifierInv, UNCHANGED <<verifier, verdict, checkpoints>>,
           events \subseteq events'
    PROVE  VerifierInv'
<1>1. Anchor' = Anchor
  BY DEF Anchor
<1>2. StartsRight(verifier.start, verifier.expected)
         => StartsRight(verifier.start, verifier.expected)'
  BY <1>1 DEF StartsRight
<1> QED BY <1>1, <1>2 DEF VerifierInv, StartsRight

(***************************************************************************)
(* Every step.                                                             *)
(***************************************************************************)

(* A step either leaves the chain alone, appends a row, or prunes. *)
LEMMA StepKinds ==
    ASSUME Next
    PROVE  \/ events' = events /\ checkpoints' = checkpoints
           \/ /\ \E body : events' = events \cup {NextRow(body)}
              /\ UNCHANGED <<checkpoints, verifier, verdict>>
           \/ PruneChain
<1>1. ASSUME NEW w \in Writer, Write(w)
      PROVE  \/ events' = events /\ checkpoints' = checkpoints
             \/ /\ \E body : events' = events \cup {NextRow(body)}
                /\ UNCHANGED <<checkpoints, verifier, verdict>>
  BY <1>1 DEF Write, Stamp, RecordEvent, RecordActionReceipt, RecordFileMutation,
              RecordFails, InsertRow, tables
<1>2. CASE Prune
  BY <1>2 DEF Prune, StartPrune, PruneMutations, PruneNothing, PruneReceipts,
              PruneSessions, PruneFails, tables
<1>3. CASE Verify
  BY <1>3 DEF Verify, StartVerify, LookupCheckpoint, WalkRows, tables
<1>4. CASE Tick \/ Restart
  BY <1>4 DEF Tick, Restart, tables
<1> QED BY <1>1, <1>2, <1>3, <1>4 DEF Next

(* No step of the store breaks the chain or moves its head back. *)
LEMMA TablesStep ==
    ASSUME TablesInv, [Next]_vars
    PROVE  TablesInv' /\ Head'.seq >= Head.seq
<1>1. CASE UNCHANGED <<events, checkpoints>>
  <2>1. Head' = Head /\ Anchor' = Anchor
    BY <1>1 DEF Head, Anchor
  <2>2. Head.seq \in Nat
    BY HeadFacts DEF TablesInv
  <2> QED BY <2>1, <2>2, <1>1 DEF TablesInv, RowsInv, CheckpointsInv, ChainInv, Stored
<1>2. ASSUME NEW body, events' = events \cup {NextRow(body)}, checkpoints' = checkpoints
      PROVE  TablesInv' /\ Head'.seq >= Head.seq
  BY <1>2, AppendStep, HeadFacts DEF TablesInv
<1>3. CASE PruneChain
  BY <1>3, PruneStep, HeadFacts DEF TablesInv
<1> QED BY <1>1, <1>2, <1>3, StepKinds DEF vars

(* No step invalidates what the verifier has looked up, other than a prune. *)
LEMMA VerifierStep ==
    ASSUME TablesInv, VerifierInv, [Next]_vars
    PROVE  VerifierInv'
<1>1. CASE /\ UNCHANGED <<verifier, verdict, checkpoints>>
           /\ events \subseteq events'
  BY <1>1, VerifierFrame
<1>2. CASE UNCHANGED vars
  BY <1>1, <1>2 DEF vars
<1>3. ASSUME NEW w \in Writer, Write(w)
      PROVE  VerifierInv'
  BY <1>1, <1>3 DEF Write, Stamp, RecordEvent, RecordActionReceipt, RecordFileMutation,
                    RecordFails, InsertRow, tables
<1>4. CASE PruneChain
  <2>1. verdict' = verdict
        /\ verifier' = [at |-> verifier.at, start |-> verifier.start,
                        expected |-> verifier.expected,
                        raced |-> verifier.raced \/ verifier.at \in {"lookup", "walk"},
                        inRange |-> verifier.inRange]
    BY <1>4 DEF PruneChain, VerifierInv
  <2> QED BY <2>1 DEF VerifierInv
<1>5. CASE Prune /\ ~PruneChain
  BY <1>1, <1>5 DEF Prune, StartPrune, PruneMutations, PruneNothing, PruneReceipts,
                    PruneSessions, PruneFails, tables
<1>6. CASE Verify
  BY <1>6, StartStep, LookupStep, WalkStep, AuditAssumption DEF Verify
<1>7. CASE Tick
  BY <1>1, <1>7 DEF Tick, tables
<1>8. CASE Restart
  BY <1>8 DEF Restart, VerifierIdle, VerifierInv
<1> QED BY <1>2, <1>3, <1>4, <1>5, <1>6, <1>7, <1>8 DEF Next

(* A new database satisfies the invariant. *)
LEMMA InitInv == Init => IInv
<1> SUFFICES ASSUME Init PROVE IInv
  OBVIOUS
<1>1. Head = [seq |-> 0, hash |-> Genesis] /\ Anchor = [seq |-> 0, hash |-> Genesis]
  BY DEF Init, Head, Anchor
<1>2. RowsInv /\ CheckpointsInv
  BY DEF Init, RowsInv, CheckpointsInv
<1>3. ChainInv
  BY <1>1 DEF Init, ChainInv
<1>4. VerifierInv
  BY DEF Init, VerifierInv, VerifierIdle
<1> QED BY <1>2, <1>3, <1>4 DEF IInv

(* The inductive invariant holds in every reachable state of the store. *)
THEOREM ChainInvariant == Spec => []IInv
<1>1. IInv /\ [Next]_vars => IInv'
  BY TablesStep, VerifierStep DEF IInv, TablesInv
<1> QED BY <1>1, InitInv, PTL DEF Spec

(* VerifyChain(0) succeeds on every committed state of the database, for    *)
(* every number of writers, every retention and every order of timestamps.  *)
THEOREM ChainAlwaysVerifiable == Spec => []AlwaysVerifiable
<1>1. IInv => AlwaysVerifiable
  <2> SUFFICES ASSUME IInv PROVE AlwaysVerifiable
    OBVIOUS
  <2>1. TablesInv
    BY DEF IInv, TablesInv
  <2>2. Anchor.seq + 1 \in Nat
    BY <2>1, AnchorFacts DEF TablesInv
  <2>3. StartsRight(Anchor.seq + 1, Anchor.hash)
    BY DEF StartsRight
  <2> QED BY <2>1, <2>2, <2>3, WalkSucceeds DEF AlwaysVerifiable
<1> QED BY <1>1, ChainInvariant, PTL

(* VerifyChain reports an intact chain as broken only when a prune commits   *)
(* between two of its queries or it is asked to start among pruned rows.    *)
THEOREM NoOtherAlarm == Spec => []AlarmOnlyOnRace
<1>1. IInv => AlarmOnlyOnRace
  BY DEF IInv, VerifierInv, AlarmOnlyOnRace
<1> QED BY <1>1, ChainInvariant, PTL

(* No step of AppendPreparedAuditEvent or PruneChainedAuditEvents moves the  *)
(* head back or reuses a sequence number.                                   *)
THEOREM SequenceNumbersGrow == Spec => AppendOnly
<1>1. IInv /\ [Next]_vars =>
         [/\ Head'.seq >= Head.seq
          /\ \A r \in events' \ events : r.seq > Head.seq]_vars
  <2> SUFFICES ASSUME IInv, [Next]_vars
               PROVE  /\ Head'.seq >= Head.seq
                      /\ \A r \in events' \ events : r.seq > Head.seq
    OBVIOUS
  <2>1. TablesInv
    BY DEF IInv, TablesInv
  <2>2. Head'.seq >= Head.seq
    BY <2>1, TablesStep
  <2>3. Head.seq \in Nat
    BY <2>1, HeadFacts DEF TablesInv
  <2>4. \A body : NextRow(body).seq > Head.seq
    BY <2>3 DEF NextRow
  <2>5. \A r \in events' \ events : \E body : r = NextRow(body)
    BY StepKinds DEF vars, PruneChain, RowsAfterPrune
  <2> QED BY <2>2, <2>4, <2>5
<1> QED BY <1>1, ChainInvariant, PTL DEF Spec, AppendOnly

(***************************************************************************)
(* Types, and the references between the tables.                           *)
(***************************************************************************)
PruneSteps == {"idle", "mutations", "chain", "receipts", "sessions"}

Rows == [ts : Int, session : Session \cup {NoSession}]

(* A writer holds nothing, a stamped record, or the event of a mutation. *)
PendingOK(p) ==
    \/ p = Idle
    \/ /\ p = [at |-> "record", body |-> p.body]
       /\ p.body \in [type : Kinds, session : Session, ts : Nat, tx : Tx]
    \/ p = [at |-> "mutation", event |-> p.event]

ValuesInv ==
    /\ now \in Nat /\ horizon \in Nat
    /\ pending = [w \in Writer |-> pending[w]]
    /\ \A w \in Writer : PendingOK(pending[w])
    /\ \A r \in events : r.body \in Bodies
    /\ receipts \in [Tx -> Rows]
    /\ pruner \in [at : PruneSteps, cutoff : Nat]
    /\ verdict \in {"none", "ok", "broken"}

Inv == ValuesInv /\ SessionsHold /\ ReceiptBacked

LEMMA InitValues == Init => Inv
<1> SUFFICES ASSUME Init PROVE Inv
  OBVIOUS
<1>1. NoRow \in Rows
  BY DEF NoRow, Rows
<1>2. ValuesInv
  BY <1>1 DEF Init, ValuesInv, PendingOK, PrunerIdle, PruneSteps
<1>3. SessionsHold /\ ReceiptBacked
  BY DEF Init, SessionsHold, ReceiptBacked, NoRow
<1> QED BY <1>2, <1>3 DEF Inv

(* What a row that is appended holds. *)
LEMMA NextRowBody == \A body : NextRow(body).body = body /\ NextRow(body).seq = Head.seq + 1
BY DEF NextRow

(* The tables are left alone. *)
LEMMA QuietTables ==
    ASSUME Inv, UNCHANGED <<tables, horizon>> PROVE SessionsHold' /\ ReceiptBacked'
BY DEF Inv, tables, SessionsHold, ReceiptBacked

(* A row is appended. *)
LEMMA AppendRefers ==
    ASSUME Inv, NEW body \in Bodies, InsertRow(body), UNCHANGED <<mutations, horizon>>,
           \/ receipts' = receipts
           \/ body.type = "receipt" /\ receipts' = [receipts EXCEPT ![body.tx] = Upsert(@, body)]
    PROVE  /\ \A r \in events' : r.body \in Bodies
           /\ receipts' \in [Tx -> Rows]
           /\ SessionsHold'
           /\ ReceiptBacked'
<1>0. /\ events' = events \cup {NextRow(body)} /\ NextRow(body).body = body
      /\ sessions' = sessions \cup {body.session}
      /\ receipts \in [Tx -> Rows]
  BY NextRowBody DEF InsertRow, Inv, ValuesInv
<1>1. \A r \in events' : r.body \in Bodies
  BY <1>0 DEF Inv, ValuesInv
<1>2. \A row \in Rows : /\ Upsert(row, body) \in Rows
                        /\ Upsert(row, body).ts = body.ts
                        /\ Upsert(row, body).session = IF row = NoRow THEN body.session ELSE row.session
  BY DEF Upsert, Rows, Bodies
<1>3. receipts' \in [Tx -> Rows]
  BY <1>0, <1>2
<1>4. SessionsHold'
  <2>1. \A r \in events' : r.body.type # "checkpoint" => r.body.session \in sessions'
    BY <1>0 DEF Inv, SessionsHold
  <2>2. \A t \in Tx : receipts'[t] # NoRow => receipts'[t].session \in sessions'
    <3> SUFFICES ASSUME NEW t \in Tx, receipts'[t] # NoRow PROVE receipts'[t].session \in sessions'
      OBVIOUS
    <3>1. CASE receipts'[t] = receipts[t]
      BY <1>0, <3>1 DEF Inv, SessionsHold
    <3>2. CASE receipts'[t] = Upsert(receipts[t], body)
      <4>1. receipts[t] \in Rows
        BY <1>0
      <4> QED BY <1>0, <1>2, <3>2, <4>1 DEF Inv, SessionsHold
    <3> QED BY <1>0, <3>1, <3>2
  <2> QED BY <2>1, <2>2 DEF SessionsHold
<1>5. ReceiptBacked'
  <2> SUFFICES ASSUME NEW t \in Tx, receipts'[t].ts >= horizon
               PROVE  \E r \in events' : /\ r.body.type = "receipt"
                                         /\ r.body.tx = t
                                         /\ r.body.ts = receipts'[t].ts
    BY DEF ReceiptBacked
  <2>1. CASE receipts'[t] = receipts[t]
    BY <1>0, <2>1 DEF Inv, ReceiptBacked
  <2>2. CASE body.type = "receipt" /\ body.tx = t /\ receipts'[t] = Upsert(receipts[t], body)
    <3>1. receipts'[t].ts = body.ts
      BY <1>0, <1>2, <2>2
    <3> QED BY <1>0, <2>2, <3>1
  <2> QED BY <1>0, <2>1, <2>2
<1> QED BY <1>1, <1>3, <1>4, <1>5

(* A writer's step. *)
LEMMA WriteValues == ASSUME Inv, NEW w \in Writer, Write(w) PROVE Inv'
<1>0. /\ ValuesInv /\ PendingOK(pending[w]) /\ pending = [v \in Writer |-> pending[v]]
  BY DEF Inv, ValuesInv
<1>1. ASSUME NEW p, PendingOK(p), pending' = [pending EXCEPT ![w] = p]
      PROVE  pending' = [v \in Writer |-> pending'[v]] /\ \A v \in Writer : PendingOK(pending'[v])
  BY <1>0, <1>1 DEF ValuesInv
<1>2. ASSUME NEW kind \in Kind[w], NEW s \in Session, NEW t \in Tx, Stamp(w, kind, s, t) PROVE Inv'
  <2>1. PICK p : p = [at |-> "record",
                      body |-> [type |-> kind, session |-> s, ts |-> now, tx |-> t]]
    OBVIOUS
  <2>2. PendingOK(p)
    BY <1>0, <2>1, AuditAssumption DEF PendingOK, ValuesInv
  <2>3. pending' = [pending EXCEPT ![w] = p] /\ UNCHANGED <<now, tables, pruner, horizon, verdict>>
    BY <1>2, <2>1 DEF Stamp
  <2> QED BY <1>0, <1>1, <2>2, <2>3, QuietTables DEF Inv, ValuesInv, tables
<1>3. CASE RecordFails(w)
  <2>1. pending' = [pending EXCEPT ![w] = Idle] /\ UNCHANGED <<now, tables, pruner, horizon, verdict>>
    BY <1>3 DEF RecordFails
  <2>2. PendingOK(Idle)
    BY DEF PendingOK
  <2> QED BY <1>0, <1>1, <2>1, <2>2, QuietTables DEF Inv, ValuesInv, tables
<1>4. pending[w].at = "record" => pending[w].body \in Bodies
  BY <1>0 DEF PendingOK, Idle, Bodies
<1>5. CASE RecordEvent(w)
  <2>1. PICK p : /\ pending' = [pending EXCEPT ![w] = p]
                 /\ p = Idle \/ p = [at |-> "mutation", event |-> Head.seq + 1]
    BY <1>5 DEF RecordEvent
  <2>2. PendingOK(p)
    BY <2>1 DEF PendingOK
  <2>3. /\ pending[w].body \in Bodies /\ InsertRow(pending[w].body)
        /\ UNCHANGED <<now, receipts, mutations, pruner, horizon, verdict>>
    BY <1>4, <1>5 DEF RecordEvent
  <2>4. (\A r \in events' : r.body \in Bodies) /\ SessionsHold' /\ ReceiptBacked'
    BY <2>3, AppendRefers
  <2> QED BY <1>0, <1>1, <2>1, <2>2, <2>3, <2>4 DEF Inv, ValuesInv
<1>6. CASE RecordActionReceipt(w)
  <2>1. /\ pending' = [pending EXCEPT ![w] = Idle] /\ PendingOK(Idle)
        /\ pending[w].body \in Bodies /\ InsertRow(pending[w].body)
        /\ pending[w].body.type = "receipt"
        /\ receipts' = [receipts EXCEPT ![pending[w].body.tx] = Upsert(@, pending[w].body)]
        /\ UNCHANGED <<now, mutations, pruner, horizon, verdict>>
    BY <1>4, <1>6 DEF RecordActionReceipt, PendingOK
  <2>2. /\ \A r \in events' : r.body \in Bodies
        /\ receipts' \in [Tx -> Rows] /\ SessionsHold' /\ ReceiptBacked'
    BY <2>1, AppendRefers
  <2> QED BY <1>0, <1>1, <2>1, <2>2 DEF Inv, ValuesInv
<1>7. CASE RecordFileMutation(w)
  <2>1. /\ pending' = [pending EXCEPT ![w] = Idle] /\ PendingOK(Idle)
        /\ UNCHANGED <<now, sessions, events, receipts, pruner, horizon, verdict>>
    BY <1>7 DEF RecordFileMutation, PendingOK
  <2>2. SessionsHold' /\ ReceiptBacked'
    BY <2>1 DEF Inv, SessionsHold, ReceiptBacked
  <2> QED BY <1>0, <1>1, <2>1, <2>2 DEF Inv, ValuesInv
<1> QED BY <1>2, <1>3, <1>5, <1>6, <1>7 DEF Write

(* A step of the pruner: its four transactions take from every table only    *)
(* what nothing left refers to.                                             *)
LEMMA PruneValues == ASSUME Inv, Prune PROVE Inv'
<1>0. /\ ValuesInv /\ SessionsHold /\ ReceiptBacked
      /\ now \in Nat /\ horizon \in Nat /\ pruner \in [at : PruneSteps, cutoff : Nat]
      /\ receipts \in [Tx -> Rows]
      /\ pruner.cutoff \in Nat
  BY DEF Inv, ValuesInv
<1>1. CASE StartPrune \/ PruneNothing \/ PruneFails
  <2>1. UNCHANGED <<now, pending, tables, horizon, verdict>>
    BY <1>1 DEF StartPrune, PruneNothing, PruneFails
  <2>2. pruner' \in [at : PruneSteps, cutoff : Nat]
    BY <1>0, <1>1, AuditAssumption DEF StartPrune, PruneNothing, PruneFails, PrunerIdle, PruneSteps
  <2> QED BY <1>0, <2>1, <2>2, QuietTables DEF Inv, ValuesInv, tables
<1>2. CASE PruneMutations
  <2>1. /\ UNCHANGED <<now, pending, sessions, events, receipts, horizon, verdict>>
        /\ mutations' \subseteq mutations
        /\ pruner' \in [at : PruneSteps, cutoff : Nat]
    BY <1>0, <1>2 DEF PruneMutations, PruneSteps
  <2>2. SessionsHold' /\ ReceiptBacked'
    BY <1>0, <2>1 DEF SessionsHold, ReceiptBacked
  <2> QED BY <1>0, <2>1, <2>2 DEF Inv, ValuesInv
<1>3. CASE PruneChain
  <2>1. /\ UNCHANGED <<now, pending, sessions, receipts, mutations, verdict>>
        /\ events' = (events \cup {NextRow(CheckpointBody)}) \ Prunable
        /\ horizon' = IF pruner.cutoff > horizon THEN pruner.cutoff ELSE horizon
        /\ pruner' \in [at : PruneSteps, cutoff : Nat]
    BY <1>0, <1>3 DEF PruneChain, PruneSteps, RowsAfterPrune
  <2>2. /\ NextRow(CheckpointBody).body = CheckpointBody /\ CheckpointBody \in Bodies
        /\ CheckpointBody.type = "checkpoint"
    BY <1>0, NextRowBody DEF CheckpointBody, Bodies
  <2>3. \A r \in events' : r.body \in Bodies
    BY <1>0, <2>1, <2>2 DEF ValuesInv
  <2>4. horizon' \in Nat /\ horizon' >= horizon /\ horizon' >= pruner.cutoff
    BY <1>0, <2>1
  <2>5. SessionsHold'
    <3>1. \A r \in events' : r.body.type # "checkpoint" => r.body.session \in sessions'
      BY <1>0, <2>1, <2>2 DEF SessionsHold
    <3>2. \A t \in Tx : receipts'[t] # NoRow => receipts'[t].session \in sessions'
      BY <1>0, <2>1 DEF SessionsHold
    <3> QED BY <3>1, <3>2 DEF SessionsHold
  <2>6. ReceiptBacked'
    <3> SUFFICES ASSUME NEW t \in Tx, receipts'[t].ts >= horizon'
                 PROVE  \E r \in events' : /\ r.body.type = "receipt"
                                           /\ r.body.tx = t
                                           /\ r.body.ts = receipts'[t].ts
      BY DEF ReceiptBacked
    <3>1. receipts[t].ts \in Int /\ receipts[t].ts >= horizon' /\ receipts' = receipts
      BY <1>0, <2>1 DEF Rows
    <3>2. receipts[t].ts >= horizon /\ ~(receipts[t].ts < pruner.cutoff)
      BY <1>0, <2>4, <3>1
    <3>3. PICK r \in events : /\ r.body.type = "receipt"
                              /\ r.body.tx = t
                              /\ r.body.ts = receipts[t].ts
      BY <1>0, <3>2 DEF ReceiptBacked
    <3>4. r \notin Prunable
      BY <3>2, <3>3 DEF Prunable, Old
    <3> QED BY <2>1, <3>1, <3>3, <3>4
  <2> QED BY <1>0, <2>1, <2>3, <2>4, <2>5, <2>6 DEF Inv, ValuesInv
<1>4. CASE PruneReceipts
  <2>1. /\ UNCHANGED <<now, pending, sessions, events, mutations, horizon, verdict>>
        /\ \A t \in Tx : receipts'[t] = NoRow \/ receipts'[t] = receipts[t]
        /\ receipts' = [t \in Tx |-> receipts'[t]]
        /\ pruner' \in [at : PruneSteps, cutoff : Nat]
    BY <1>0, <1>4 DEF PruneReceipts, PruneSteps
  <2>2. NoRow \in Rows /\ NoRow.ts = -1
    BY DEF NoRow, Rows
  <2>3. receipts' \in [Tx -> Rows]
    BY <1>0, <2>1, <2>2
  <2>4. SessionsHold'
    BY <1>0, <2>1 DEF SessionsHold
  <2>5. ReceiptBacked'
    <3>1. ~(NoRow.ts >= horizon)
      BY <1>0, <2>2
    <3> QED BY <1>0, <2>1, <3>1 DEF ReceiptBacked
  <2> QED BY <1>0, <2>1, <2>3, <2>4, <2>5 DEF Inv, ValuesInv
<1>5. CASE PruneSessions
  <2>1. /\ UNCHANGED <<now, pending, events, receipts, mutations, horizon, verdict>>
        /\ sessions' = {s \in sessions : \/ \E r \in events : r.body.session = s
                                         \/ \E t \in Tx : receipts[t].session = s}
        /\ pruner' \in [at : PruneSteps, cutoff : Nat]
    BY <1>0, <1>5 DEF PruneSessions, PrunerIdle, PruneSteps
  <2>2. SessionsHold' /\ ReceiptBacked'
    BY <1>0, <2>1 DEF SessionsHold, ReceiptBacked
  <2> QED BY <1>0, <2>1, <2>2 DEF Inv, ValuesInv
<1> QED BY <1>1, <1>2, <1>3, <1>4, <1>5 DEF Prune

LEMMA NextValues == Inv /\ [Next]_vars => Inv'
<1> SUFFICES ASSUME Inv, [Next]_vars PROVE Inv'
  OBVIOUS
<1>1. CASE Verify \/ Tick \/ UNCHANGED vars
  <2>1. /\ UNCHANGED <<pending, tables, pruner, horizon>>
        /\ verdict' \in {"none", "ok", "broken"}
    BY <1>1 DEF Verify, StartVerify, LookupCheckpoint, WalkRows, Report, Tick, vars, tables, Inv, ValuesInv
  <2>2. now' \in Nat
    BY <1>1 DEF Verify, StartVerify, LookupCheckpoint, WalkRows, Tick, vars, Inv, ValuesInv
  <2> QED BY <2>1, <2>2, QuietTables DEF Inv, ValuesInv, tables
<1>2. CASE Restart
  <2>1. /\ UNCHANGED <<now, tables, horizon>> /\ pending' = [w \in Writer |-> Idle]
        /\ pruner' \in [at : PruneSteps, cutoff : Nat] /\ verdict' = "none"
    BY <1>2 DEF Restart, PrunerIdle, PruneSteps
  <2> QED BY <2>1, QuietTables DEF Inv, ValuesInv, PendingOK, tables
<1> QED BY <1>1, <1>2, WriteValues, PruneValues DEF Next

LEMMA ValuesInvariant == Spec => []Inv
BY InitValues, NextValues, PTL DEF Spec

(* The tables, the writers and the pruner keep their types. *)
THEOREM AuditTypeCorrect == Spec => []TypeOK
<1>1. IInv /\ Inv => TypeOK
  <2> SUFFICES ASSUME IInv, Inv PROVE TypeOK
    OBVIOUS
  <2>1. \A w \in Writer : pending[w].at \in {"idle", "record", "mutation"}
    BY DEF Inv, ValuesInv, PendingOK, Idle
  <2>2. /\ \A r \in events : r.seq \in Nat \ {0} /\ r.body \in Bodies
        /\ \A c \in checkpoints : c.seq \in Nat
    BY DEF IInv, RowsInv, CheckpointsInv, Inv, ValuesInv
  <2>3. /\ pruner.at \in {"idle", "mutations", "chain", "receipts", "sessions"}
        /\ pruner.cutoff \in Nat
        /\ verifier.at \in {"idle", "lookup", "walk"}
    BY DEF Inv, ValuesInv, PruneSteps, IInv, VerifierInv
  <2> QED BY <2>1, <2>2, <2>3 DEF TypeOK, Inv, ValuesInv
<1> QED BY <1>1, ChainInvariant, ValuesInvariant, PTL

(***************************************************************************)
(* File mutations.  MutationsHold is not inductive: between the first step *)
(* of a pass and the second it needs that what the first has left and what *)
(* came since does not refer to an event the second is about to prune.     *)
(***************************************************************************)
MutationsInv ==
    /\ MutationsHold
    /\ pruner.at = "chain" =>
         \A m \in mutations : m.late \/ \A r \in events : r.seq = m.event => ~Old(r)

LEMMA MutationsStep ==
    ASSUME RowsInv, CheckpointsInv, ValuesInv, MutationsInv, [Next]_vars
    PROVE  MutationsInv'
<1> USE DEF MutationsInv, MutationsHold
<1>a. ASSUME UNCHANGED <<mutations, events>>, UNCHANGED pruner \/ pruner'.at # "chain"
      PROVE  MutationsInv'
  BY <1>a DEF Stored, Old
<1>b. ASSUME NEW body, events' = events \cup {NextRow(body)}, UNCHANGED <<mutations, pruner>>
      PROVE  MutationsInv'
  <2>1. NextRow(body).seq = Head.seq + 1
    BY NextRowBody
  <2>2. Head.seq \in Nat /\ \A r \in events : r.seq <= Head.seq
    BY HeadFacts
  <2>3. \A m \in mutations : m.late \/ m.event # NextRow(body).seq
    BY <2>1, <2>2 DEF Stored, RowsInv
  <2>4. MutationsHold'
    BY <1>b DEF Stored
  <2> QED BY <1>b, <2>3, <2>4 DEF Old
<1>1. ASSUME NEW w \in Writer, Write(w) PROVE MutationsInv'
  <2>1. ASSUME NEW kind \in Kind[w], NEW s \in Session, NEW t \in Tx, Stamp(w, kind, s, t)
        PROVE  MutationsInv'
    BY <2>1, <1>a DEF Stamp, tables
  <2>2. CASE RecordFails(w)
    BY <2>2, <1>a DEF RecordFails, tables
  <2>3. CASE RecordEvent(w) \/ RecordActionReceipt(w)
    BY <2>3, <1>b DEF RecordEvent, RecordActionReceipt, InsertRow
  <2>4. CASE RecordFileMutation(w)
    <3> DEFINE m == [event |-> pending[w].event, late |-> TooLate(pending[w].event)]
    <3>1. mutations' = mutations \cup {m} /\ UNCHANGED <<events, pruner>>
      BY <2>4 DEF RecordFileMutation
    <3>2. /\ Stored(m.event) \/ m.late
          /\ pruner.at = "chain" => m.late \/ \A r \in events : r.seq = m.event => ~Old(r)
      <4>1. m.event = pending[w].event
        OBVIOUS
      <4>2. CASE TooLate(m.event)
        <5>1. TooLate(pending[w].event) = TRUE
          BY <4>1, <4>2, Zenon
        <5>2. m.late = TRUE
          BY <5>1
        <5> QED BY <5>2
      <4>3. CASE ~TooLate(m.event)
        BY <4>3 DEF TooLate
      <4> QED BY <4>2, <4>3
    <3> HIDE DEF m
    <3> QED BY <3>1, <3>2 DEF Stored, Old
  <2> QED BY <1>1, <2>1, <2>2, <2>3, <2>4 DEF Write
<1>2. CASE Prune
  <2>0. pruner \in [at : PruneSteps, cutoff : Nat]
    BY DEF ValuesInv
  <2>1. CASE StartPrune \/ PruneNothing \/ PruneReceipts \/ PruneSessions \/ PruneFails
    <3>1. UNCHANGED <<mutations, events>> /\ pruner'.at # "chain"
      BY <2>0, <2>1 DEF StartPrune, PruneNothing, PruneReceipts, PruneSessions, PruneFails, PrunerIdle, tables
    <3> QED BY <3>1, <1>a
  <2>2. CASE PruneMutations
    <3>1. /\ mutations' = {m \in mutations : \A r \in events : r.seq = m.event => ~Old(r)}
          /\ events' = events /\ pruner'.cutoff = pruner.cutoff
      BY <2>0, <2>2 DEF PruneMutations
    <3> QED BY <3>1 DEF Stored, Old
  <2>3. CASE PruneChain
    <3>1. /\ pruner.at = "chain" /\ mutations' = mutations /\ pruner'.at # "chain"
          /\ events' = (events \cup {NextRow(CheckpointBody)}) \ Prunable
      BY <2>0, <2>3 DEF PruneChain, RowsAfterPrune
    <3>2. MutationsHold'
      BY <3>1 DEF Stored, Prunable
    <3> QED BY <3>1, <3>2
  <2> QED BY <1>2, <2>1, <2>2, <2>3 DEF Prune
<1>3. CASE Verify \/ Tick \/ UNCHANGED vars
  BY <1>3, <1>a DEF Verify, StartVerify, LookupCheckpoint, WalkRows, Tick, tables, vars
<1>4. CASE Restart
  <2>1. UNCHANGED <<mutations, events>> /\ pruner'.at # "chain"
    BY <1>4 DEF Restart, PrunerIdle, tables
  <2> QED BY <2>1, <1>a
<1> QED BY <1>1, <1>2, <1>3, <1>4 DEF Next

(* No event and no receipt refers to a session that the pruner has deleted,  *)
(* wherever a pass was interrupted, and a mutation outlives its event only   *)
(* if it came too late for the pass: no foreign key is needed for it.        *)
THEOREM ReferencesNeverDangle == Spec => []ReferencesHold
<1>1. Init => MutationsInv
  BY DEF Init, MutationsInv, MutationsHold, PrunerIdle
<1>2. IInv /\ Inv /\ MutationsInv /\ [Next]_vars => MutationsInv'
  BY MutationsStep DEF IInv, Inv
<1>3. Inv /\ MutationsInv => ReferencesHold
  BY DEF Inv, MutationsInv, ReferencesHold
<1> QED BY <1>1, <1>2, <1>3, ChainInvariant, ValuesInvariant, PTL DEF Spec

(* A receipt within retention has its fact in the chain. *)
THEOREM ReceiptsBacked == Spec => []ReceiptBacked
<1>1. Inv => ReceiptBacked
  BY DEF Inv
<1> QED BY <1>1, ValuesInvariant, PTL
(***************************************************************************)
(* Sums over the checkpoints.  MapThenSumSet is a recursive function; the   *)
(* induction over finite sets that its properties need is written as the   *)
(* choice of a smallest counterexample (SmallestSet).                      *)
(***************************************************************************)

(* The member the fold adds next. *)
Picked(s) == CHOOSE c \in s : TRUE

(* g gives every subset of S the sum of its counts, as the fold computes it. *)
SumsOf(g, S) ==
    g = [s \in SUBSET S |-> IF s = {} THEN 0 ELSE Picked(s).count + g[s \ {Picked(s)}]]

(* The rows that the checkpoints S say were pruned. *)
SumOf(S) == MapThenSumSet(LAMBDA c : c.count, S)

(* The community module's fold is a CHOOSE of such a table: that one exists is *)
(* to be proved (SumsExist).                                                  *)
LEMMA SumDef ==
    ASSUME NEW S
    PROVE  SumOf(S) = (CHOOSE g : SumsOf(g, S))[S]
BY DEF SumOf, MapThenSumSet, MapThenFoldSet, SumsOf, Picked

(* A set of finite sets has a member that contains no other one. *)
LEMMA SmallestSet ==
    ASSUME NEW S, IsFiniteSet(S), NEW D, D \subseteq SUBSET S, D # {}
    PROVE  \E s \in D : \A u \in D : ~(u \subseteq s /\ u # s)
<1>1. FiniteSubsetsOf(S) = SUBSET S
  BY FS_FiniteSubsetsOfFinite
<1>2. IsWellFoundedOn(StrictSubsetOrdering(S), SUBSET S)
  BY <1>1, FS_StrictSubsetOrderingWellFounded
<1>3. PICK s \in D : \A u \in D : ~(<<u, s>> \in StrictSubsetOrdering(S))
  BY <1>2, WFMin
<1>4. ASSUME NEW u \in D, u \subseteq s, u # s PROVE FALSE
  <2>1. <<u, s>> \in StrictSubsetOrdering(S)
    BY <1>4 DEF StrictSubsetOrdering
  <2> QED BY <2>1, <1>3
<1> QED BY <1>4

(* The fold picks a member of the set. *)
LEMMA PickedIn == ASSUME NEW s, s # {} PROVE Picked(s) \in s
BY DEF Picked

(* What the equation of a table of sums says of one entry. *)
LEMMA SumsOfAt ==
    ASSUME NEW g, NEW S, SumsOf(g, S), NEW s \in SUBSET S
    PROVE  g[s] = IF s = {} THEN 0 ELSE Picked(s).count + g[s \ {Picked(s)}]
BY DEF SumsOf

(* Two tables of sums agree where both are defined. *)
LEMMA SumsAgree ==
    ASSUME NEW S, NEW T, IsFiniteSet(S), NEW g, NEW h, SumsOf(g, S), SumsOf(h, T),
           NEW s \in SUBSET S, s \in SUBSET T
    PROVE  g[s] = h[s]
<1> DEFINE D == {u \in SUBSET S : u \in SUBSET T /\ g[u] # h[u]}
<1> SUFFICES ASSUME D # {} PROVE FALSE
  OBVIOUS
<1>1. PICK u \in D : \A v \in D : ~(v \subseteq u /\ v # u)
  <2>1. D \subseteq SUBSET S
    OBVIOUS
  <2> HIDE DEF D
  <2> QED BY <2>1, SmallestSet
<1>2. /\ g[u] = IF u = {} THEN 0 ELSE Picked(u).count + g[u \ {Picked(u)}]
      /\ h[u] = IF u = {} THEN 0 ELSE Picked(u).count + h[u \ {Picked(u)}]
  BY SumsOfAt
<1>3. u # {}
  BY <1>2
<1> DEFINE v == u \ {Picked(u)}
<1>4. v \subseteq u /\ v # u
  BY <1>3, PickedIn
<1>5. v \notin D
  BY <1>1, <1>4
<1>6. g[v] = h[v]
  BY <1>5
<1> QED BY <1>2, <1>3, <1>6

(* Every finite set has a table of its subsets' sums. *)
LEMMA SumsExist ==
    ASSUME NEW S, IsFiniteSet(S)
    PROVE  \E g : SumsOf(g, S)
<1> DEFINE D == {s \in SUBSET S : ~\E g : SumsOf(g, s)}
<1> SUFFICES ASSUME D # {} PROVE FALSE
  OBVIOUS
<1>1. PICK t \in D : \A u \in D : ~(u \subseteq t /\ u # t)
  <2>1. D \subseteq SUBSET S
    OBVIOUS
  <2> HIDE DEF D
  <2> QED BY <2>1, SmallestSet
<1> DEFINE G(u) == CHOOSE g : SumsOf(g, u)
           f == [s \in SUBSET t |-> IF s = {} THEN 0
                                    ELSE Picked(s).count + G(s \ {Picked(s)})[s \ {Picked(s)}]]
<1>2. ASSUME NEW u \in SUBSET t, u # t PROVE SumsOf(G(u), u) /\ IsFiniteSet(u)
  <2>1. u \in SUBSET S /\ u \notin D
    BY <1>1, <1>2
  <2>2. \E g : SumsOf(g, u)
    BY <2>1
  <2>3. IsFiniteSet(u)
    BY <2>1, FS_Subset
  <2> QED BY <2>2, <2>3
<1>3. ASSUME NEW u \in SUBSET t, u # t PROVE f[u] = G(u)[u]
  <2>1. G(u)[u] = IF u = {} THEN 0 ELSE Picked(u).count + G(u)[u \ {Picked(u)}]
    BY <1>2, <1>3, SumsOfAt
  <2>2. CASE u = {}
    BY <2>1, <2>2
  <2>3. CASE u # {}
    <3> DEFINE v == u \ {Picked(u)}
    <3>1. v \in SUBSET t /\ v # t /\ v \in SUBSET u /\ v \in SUBSET v
      BY <2>3, PickedIn
    <3>2. SumsOf(G(u), u) /\ SumsOf(G(v), v) /\ IsFiniteSet(u)
      BY <1>2, <1>3, <3>1
    <3> HIDE DEF G
    <3>3. G(u)[v] = G(v)[v]
      BY <3>1, <3>2, SumsAgree
    <3> QED BY <2>1, <2>3, <3>3
  <2> QED BY <2>2, <2>3
<1>4. ASSUME NEW s \in SUBSET t
      PROVE  f[s] = IF s = {} THEN 0 ELSE Picked(s).count + f[s \ {Picked(s)}]
  <2>1. CASE s = {}
    BY <2>1
  <2>2. CASE s # {}
    <3> DEFINE v == s \ {Picked(s)}
    <3>1. v \in SUBSET t /\ v # t
      BY <2>2, PickedIn
    <3>2. f[v] = G(v)[v]
      BY <1>3, <3>1
    <3> QED BY <2>2, <3>2
  <2> QED BY <2>1, <2>2
<1>5. f = [s \in SUBSET t |-> f[s]]
  OBVIOUS
<1> HIDE DEF f
<1>6. SumsOf(f, t)
  BY <1>4, <1>5 DEF SumsOf
<1> QED BY <1>1, <1>6

(* A finite set of checkpoints whose counts are numbers. *)
Counted(S) == IsFiniteSet(S) /\ \A c \in S : c.count \in Nat

(* The table the fold uses. *)
Sums(S) == CHOOSE g : SumsOf(g, S)

(* Sums are numbers. *)
LEMMA SumsNat ==
    ASSUME NEW S, Counted(S), NEW g, SumsOf(g, S), NEW s \in SUBSET S
    PROVE  g[s] \in Nat
<1> DEFINE D == {u \in SUBSET S : g[u] \notin Nat}
<1> SUFFICES ASSUME D # {} PROVE FALSE
  OBVIOUS
<1>0. IsFiniteSet(S)
  BY DEF Counted
<1>1. PICK u \in D : \A v \in D : ~(v \subseteq u /\ v # u)
  <2>1. D \subseteq SUBSET S
    OBVIOUS
  <2> HIDE DEF D
  <2> QED BY <1>0, <2>1, SmallestSet
<1>2. g[u] = IF u = {} THEN 0 ELSE Picked(u).count + g[u \ {Picked(u)}]
  BY SumsOfAt
<1>3. u # {}
  BY <1>2
<1> DEFINE v == u \ {Picked(u)}
<1>4. v \subseteq u /\ v # u /\ Picked(u) \in S
  BY <1>3, PickedIn
<1>5. g[v] \in Nat
  BY <1>1, <1>4
<1>6. Picked(u).count \in Nat
  BY <1>4 DEF Counted
<1> QED BY <1>1, <1>2, <1>3, <1>5, <1>6

(* The order in which the members are added up does not matter. *)
LEMMA SumsAny ==
    ASSUME NEW S, Counted(S), NEW g, SumsOf(g, S), NEW s \in SUBSET S, NEW c \in s
    PROVE  g[s] = c.count + g[s \ {c}]
<1> DEFINE D == {u \in SUBSET S : \E y \in u : g[u] # y.count + g[u \ {y}]}
<1> SUFFICES ASSUME D # {} PROVE FALSE
  OBVIOUS
<1>0. IsFiniteSet(S)
  BY DEF Counted
<1>1. PICK u \in D : \A v \in D : ~(v \subseteq u /\ v # u)
  <2>1. D \subseteq SUBSET S
    OBVIOUS
  <2> HIDE DEF D
  <2> QED BY <1>0, <2>1, SmallestSet
<1>2. PICK y \in u : g[u] # y.count + g[u \ {y}]
  BY <1>1
<1> DEFINE x == Picked(u)
           v == u \ {x}
           w == u \ {y}
           z == u \ {x, y}
<1>3. x \in u /\ u # {}
  BY PickedIn
<1>4. g[u] = x.count + g[v]
  BY <1>3, SumsOfAt
<1>5. x # y
  BY <1>2, <1>4
<1>6. /\ v \in SUBSET S /\ v \subseteq u /\ v # u /\ y \in v
      /\ w \in SUBSET S /\ w \subseteq u /\ w # u /\ x \in w
      /\ v \ {y} = z /\ w \ {x} = z /\ z \in SUBSET S
  BY <1>3, <1>5
<1>7. g[v] = y.count + g[z] /\ g[w] = x.count + g[z]
  <2>1. v \notin D /\ w \notin D
    BY <1>1, <1>6
  <2>2. g[v] = y.count + g[v \ {y}]
    BY <2>1, <1>6
  <2>3. g[w] = x.count + g[w \ {x}]
    BY <2>1, <1>6
  <2> QED BY <2>2, <2>3, <1>6
<1>8. g[z] \in Nat /\ x.count \in Nat /\ y.count \in Nat
  <2>1. g[z] \in Nat
    BY <1>6, SumsNat
  <2> QED BY <1>6, <2>1 DEF Counted
<1> QED BY <1>2, <1>4, <1>7, <1>8

(* The counts of no checkpoints add up to zero. *)
LEMMA SumEmpty == SumOf({}) = 0
<1>1. \E g : SumsOf(g, {})
  BY FS_EmptySet, SumsExist
<1>2. SumsOf(Sums({}), {})
  BY <1>1 DEF Sums
<1>3. Sums({})[{}] = 0
  BY <1>2, SumsOfAt
<1> QED BY <1>3, SumDef DEF Sums

(* The sum is a number, and an entry of the table. *)
LEMMA SumNat ==
    ASSUME NEW S, Counted(S)
    PROVE  SumOf(S) \in Nat /\ SumsOf(Sums(S), S) /\ SumOf(S) = Sums(S)[S]
<1>1. \E g : SumsOf(g, S)
  BY SumsExist DEF Counted
<1>2. SumsOf(Sums(S), S)
  BY <1>1 DEF Sums
<1>3. Sums(S)[S] \in Nat
  BY <1>2, SumsNat
<1> QED BY <1>2, <1>3, SumDef DEF Sums

(* One more checkpoint adds its count. *)
LEMMA SumAdd ==
    ASSUME NEW S, Counted(S), NEW c, c.count \in Nat, c \notin S
    PROVE  SumOf(S \cup {c}) = SumOf(S) + c.count
<1> DEFINE T == S \cup {c}
<1>1. Counted(T) /\ IsFiniteSet(T) /\ IsFiniteSet(S)
  BY FS_AddElement DEF Counted
<1>4. T \ {c} = S /\ S \in SUBSET T /\ c \in T /\ T \in SUBSET T /\ S \in SUBSET S
  OBVIOUS
<1> HIDE DEF T
<1>2. SumsOf(Sums(S), S) /\ SumsOf(Sums(T), T)
  BY <1>1, SumNat
<1>3. Sums(T)[T] = c.count + Sums(T)[T \ {c}]
  BY <1>1, <1>2, <1>4, SumsAny
<1>5. Sums(T)[S] = Sums(S)[S]
  BY <1>1, <1>2, <1>4, SumsAgree
<1>6. SumOf(S) = Sums(S)[S] /\ SumOf(S) \in Nat /\ SumOf(T) = Sums(T)[T]
  BY <1>1, SumNat
<1>7. SumOf(T) = SumOf(S) + c.count
  <2>1. Sums(T)[T] = c.count + Sums(T)[S]
    BY <1>3, <1>4
  <2>2. SumOf(T) = c.count + SumOf(S)
    BY <2>1, <1>5, <1>6
  <2> QED BY <1>6, <2>2
<1> QED BY <1>7 DEF T

(***************************************************************************)
(* What was pruned is accounted for.                                       *)
(***************************************************************************)

(* The tables are finite and the counts add up. *)
CountInv ==
    /\ IsFiniteSet(events)
    /\ Counted(checkpoints)
    /\ PruningAccounted

(* An append adds one row and moves the head by one. *)
LEMMA AppendCounts ==
    ASSUME TablesInv, CountInv, NEW body,
           events' = events \cup {NextRow(body)}, checkpoints' = checkpoints
    PROVE  CountInv'
<1>1. Head'.seq = Head.seq + 1 /\ Head.seq \in Nat
  BY AppendStep, HeadFacts DEF TablesInv
<1>2. NextRow(body) \notin events
  <2>1. NextRow(body).seq = Head.seq + 1
    BY DEF NextRow
  <2>2. \A r \in events : r.seq <= Head.seq /\ r.seq \in Nat
    BY HeadFacts DEF TablesInv, RowsInv
  <2> QED BY <1>1, <2>1, <2>2
<1>3. /\ IsFiniteSet(events') /\ Cardinality(events) \in Nat
      /\ Cardinality(events') = Cardinality(events) + 1
  BY <1>2, FS_AddElement, FS_CardinalityType DEF CountInv
<1>4. SumOf(checkpoints) \in Nat
  BY SumNat DEF CountInv
<1>5. Counted(checkpoints')
  BY DEF CountInv
<1>6. Head.seq = Cardinality(events) + SumOf(checkpoints)
  BY DEF CountInv, PruningAccounted, SumOf
<1>7. Head'.seq = Cardinality(events') + SumOf(checkpoints')
  BY <1>1, <1>3, <1>4, <1>6
<1>8. PruningAccounted'
  BY <1>7 DEF PruningAccounted, SumOf, MapThenSumSet, MapThenFoldSet
<1> QED BY <1>3, <1>5, <1>8 DEF CountInv

(* A prune trades the rows it deletes for a new checkpoint that counts them, *)
(* and appends one row.                                                      *)
LEMMA PruneCounts ==
    ASSUME TablesInv, CountInv, PruneChain
    PROVE  CountInv'
<1> DEFINE n == NextRow(CheckpointBody)
<1>1. Head'.seq = Head.seq + 1 /\ Head.seq \in Nat
  BY PruneStep, HeadFacts DEF TablesInv
<1>2. \A r \in events : r.seq <= Head.seq /\ r.seq \in Nat
  BY HeadFacts DEF TablesInv, RowsInv
<1>3. n \notin events
  <2>1. n.seq = Head.seq + 1
    BY DEF NextRow
  <2> QED BY <1>1, <1>2, <2>1
<1>4. Prunable \subseteq events /\ Prunable # {}
  BY DEF Prunable, PruneChain
<1>5. events' = (events \cup {n}) \ Prunable /\ checkpoints' = checkpoints \cup {Checkpoint}
  BY DEF PruneChain, RowsAfterPrune
<1> HIDE DEF n
<1>6. /\ IsFiniteSet(events) /\ IsFiniteSet(Prunable)
      /\ Cardinality(events) \in Nat /\ Cardinality(Prunable) \in Nat
  BY <1>4, FS_Subset, FS_CardinalityType DEF CountInv
<1>7. /\ IsFiniteSet(events')
      /\ Cardinality(events') = Cardinality(events) + 1 - Cardinality(Prunable)
  <2> DEFINE more == events \cup {n}
  <2>1. IsFiniteSet(more) /\ Cardinality(more) = Cardinality(events) + 1
    BY <1>3, <1>6, FS_AddElement
  <2>2. more \cap Prunable = Prunable
    BY <1>4
  <2>3. events' = more \ Prunable
    BY <1>5
  <2> HIDE DEF more
  <2>4. /\ IsFiniteSet(more \ Prunable)
        /\ Cardinality(more \ Prunable) = Cardinality(more) - Cardinality(more \cap Prunable)
    BY <2>1, FS_Difference
  <2>5. Cardinality(more \cap Prunable) = Cardinality(Prunable)
    BY <2>2
  <2>6. IsFiniteSet(events') /\ Cardinality(events') = Cardinality(more \ Prunable)
    BY <2>3, <2>4
  <2> QED BY <1>6, <2>1, <2>4, <2>5, <2>6
<1>8. Checkpoint.count = Cardinality(Prunable) /\ Checkpoint \notin checkpoints
  <2>1. Checkpoint.count = Cardinality(Prunable) /\ Checkpoint.seq = Last(Prunable).seq
    BY DEF Checkpoint, PruneCount
  <2>2. \A r \in Prunable : r.seq \in Nat /\ r.seq <= Head.seq
    BY <1>2, <1>4
  <2>3. Last(Prunable) \in events
    BY <1>1, <1>4, <2>2, BoundedHasLast, LastIsLast
  <2> QED BY <2>1, <2>3 DEF TablesInv, CheckpointsInv
<1>9. Counted(checkpoints)
  BY DEF CountInv
<1>10. Counted(checkpoints')
  <2>1. IsFiniteSet(checkpoints')
    BY <1>5, <1>9, FS_AddElement DEF Counted
  <2> QED BY <1>5, <1>6, <1>8, <1>9, <2>1 DEF Counted
<1>11. /\ SumOf(checkpoints) \in Nat
       /\ SumOf(checkpoints') = SumOf(checkpoints) + Cardinality(Prunable)
  BY <1>5, <1>6, <1>8, <1>9, SumNat, SumAdd
<1>12. Head.seq = Cardinality(events) + SumOf(checkpoints)
  BY DEF CountInv, PruningAccounted, SumOf
<1>13. Head'.seq = Cardinality(events') + SumOf(checkpoints')
  BY <1>1, <1>6, <1>7, <1>11, <1>12
<1>14. PruningAccounted'
  BY <1>13 DEF PruningAccounted, SumOf, MapThenSumSet, MapThenFoldSet
<1> QED BY <1>7, <1>10, <1>14 DEF CountInv

(* No step of the store loses count. *)
LEMMA CountsStep ==
    ASSUME TablesInv, CountInv, [Next]_vars
    PROVE  CountInv'
<1>1. CASE UNCHANGED <<events, checkpoints>>
  <2>1. Head' = Head
    BY <1>1 DEF Head
  <2> QED BY <1>1, <2>1 DEF CountInv, PruningAccounted, Counted, MapThenSumSet, MapThenFoldSet
<1>2. ASSUME NEW body, events' = events \cup {NextRow(body)}, checkpoints' = checkpoints
      PROVE  CountInv'
  BY <1>2, AppendCounts
<1>3. CASE PruneChain
  BY <1>3, PruneCounts
<1> QED BY <1>1, <1>2, <1>3, StepKinds DEF vars

(* Whatever PruneChainedAuditEvents deletes is counted by a checkpoint: the  *)
(* rows left and the pruned counts add up to the number of appends, for any  *)
(* number of prunes and any order of timestamps.                            *)
THEOREM NothingLeavesUncounted == Spec => []PruningAccounted
<1>1. Init => CountInv
  <2> SUFFICES ASSUME Init PROVE CountInv
    OBVIOUS
  <2>1. events = {} /\ checkpoints = {} /\ Head = [seq |-> 0, hash |-> Genesis]
    BY DEF Init, Head
  <2>2. Head.seq = Cardinality(events) + SumOf(checkpoints)
    BY <2>1, FS_EmptySet, SumEmpty
  <2>3. PruningAccounted
    BY <2>2 DEF PruningAccounted, SumOf, MapThenSumSet, MapThenFoldSet
  <2> QED BY <2>1, <2>3, FS_EmptySet DEF CountInv, Counted
<1>2. IInv => TablesInv
  BY DEF IInv, TablesInv
<1>3. TablesInv /\ CountInv /\ [Next]_vars => CountInv'
  BY CountsStep
<1>4. CountInv => PruningAccounted
  BY DEF CountInv
<1> QED BY <1>1, <1>2, <1>3, <1>4, ChainInvariant, PTL DEF Spec
=============================================================================
