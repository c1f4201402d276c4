-------------------------- MODULE EnrollmentProofs --------------------------
(***************************************************************************)
(* What holds of platform enrollment for every number of requests,         *)
(* handlers, issuances and restarts.                                       *)
(*                                                                         *)
(* The properties speak of the documents; what makes them inductive is     *)
(* what a handler knows from the read it started with (CallOK).  A handler *)
(* that answers or revokes carries the issuance that the request stores,   *)
(* which is never replaced because credentials are stored exactly while a  *)
(* request is completed or revoked (StateInv).  Everything a handler       *)
(* relies on only grows (Grow), so no step of another handler takes it     *)
(* away.  The proof shows of every action which effects it has (Effects)   *)
(* and of the effects that they keep the invariant.                        *)
(***************************************************************************)
EXTENDS Enrollment, TLAPS

Ended == {"completed", "revoked"}

\* The statuses of a document that has been terminated.
Terminated == {"terminated", "revived"}

\* What the record of a handler says of the documents.
CallOK(q) ==
    /\ q.id <= issues
    /\ q.pc = "expire" => q.arg \in Live
    /\ q.pc = "decide" => q.arg \in {"approved", "denied"}
    /\ q.pc \in {"supersede", "terminate", "finish"} => q.id # 0
    /\ q.pc = "terminate" => \A i \in q.todo : operators[i] # "none"
    /\ q.pc \in {"downstream", "policy", "revoke", "withdraw", "mark"} =>
         q.id # 0 /\ q.id = issued[q.req]
    /\ q.pc \in {"withdraw", "mark"} => q.id \in certs
    /\ q.pc = "mark" /\ kind[q.req] = "operator" => operators[q.id] \in Terminated

CallInv == \A c \in Calls : CallOK(calls[c])

StateInv == \A r \in Requests : /\ issued[r] <= issues
                                /\ issued[r] # 0 <=> state[r] \in Ended

GrantInv == \A i \in Issuances : i > issues => operators[i] = "none"

\* What a heartbeat has read of a document is true of its past.
CopyOK(y) ==
    y.id # 0 => /\ operators[y.id] # "none"
                /\ y.status # "none"
                /\ y.status \in Terminated => operators[y.id] \in Terminated

CopyInv == \A b \in Beats : CopyOK(copies[b])

IInv == TypeOK /\ CallInv /\ StateInv /\ GrantInv /\ CopyInv /\ RevokedIsDead /\ OneAnswer

-----------------------------------------------------------------------------
(***************************************************************************)
(* The effects of a step.                                                  *)
(***************************************************************************)
CopyType == [id : 0 .. MaxIssues, status : Statuses]

DocTypes ==
    /\ state \in [Requests -> States]
    /\ kind \in [Requests -> Kinds]
    /\ expires \in [Requests -> Times]
    /\ lease \in [Requests -> Times]
    /\ issued \in [Requests -> 0 .. MaxIssues]
    /\ reconcile \in [recover : SUBSET Requests, expire : SUBSET Requests]
    /\ clock \in Times
    /\ restarts \in 0 .. MaxRestarts
    /\ copies \in [Beats -> CopyType]

GrantTypes ==
    /\ issues \in 0 .. MaxIssues
    /\ operators \in [Issuances -> Statuses]
    /\ sessions \subseteq Issuances
    /\ certs \subseteq Issuances
    /\ policy \subseteq Requests
    /\ answers \in [Requests -> SUBSET Issuances]
    /\ raced \in BOOLEAN

\* What never shrinks.
Grow ==
    /\ issues <= issues'
    /\ kind' = kind
    /\ certs \subseteq certs'
    /\ \A i \in Issuances : /\ operators[i] # "none" => operators'[i] # "none"
                            /\ operators[i] \in Terminated => operators'[i] \in Terminated

\* How a request may move.
Moves ==
    \A r \in Requests :
        \/ state'[r] = state[r] /\ issued'[r] = issued[r]
        \/ /\ state[r] \in Live \cup {"none"}
           /\ state'[r] \in Live \cup {"denied", "expired"}
           /\ issued'[r] = issued[r]
        \/ /\ state[r] = "issuing" /\ state'[r] = "completed"
           /\ issued'[r] # 0 /\ issued'[r] <= issues
        \/ /\ state[r] = "completed" /\ state'[r] = "revoked"
           /\ issued'[r] = issued[r] /\ issued[r] \in certs
           /\ kind[r] = "operator" => operators[issued[r]] \in Terminated
        \/ /\ state[r] \in {"denied", "expired"} /\ state'[r] = "removed"
           /\ issued'[r] = issued[r]

Answers ==
    \A r \in Requests : \/ answers'[r] = answers[r]
                        \/ answers'[r] = answers[r] \cup {issued[r]} /\ issued'[r] = issued[r]

\* A heartbeat keeps what it has, or has read it now, or has nothing.
Copies == \A b \in Beats : copies'[b] = copies[b] \/ CopyOK(copies'[b])

Effects == DocTypes' /\ GrantTypes' /\ Grow /\ Moves /\ Answers /\ Copies /\ GrantInv'

\* The handler c goes on with the record q.
Continues(c, q) == calls' = [calls EXCEPT ![c] = q] /\ q \in CallType /\ CallOK(q)'

LEMMA NoCallType ==
  /\ NoCall \in CallType
  /\ NoCall.pc = "idle" /\ NoCall.id = 0
<1>1. (CHOOSE r \in Requests : TRUE) \in Requests
  BY EnrollmentAssumption
<1> QED BY <1>1, EnrollmentAssumption DEF NoCall, CallType, CallPcs, States, Live

LEMMA NoCallOK == ASSUME GrantTypes' PROVE CallOK(NoCall)'
BY NoCallType, EnrollmentAssumption DEF CallOK, GrantTypes

LEMMA InitIInv == Init => IInv
<1> SUFFICES ASSUME Init PROVE IInv
  OBVIOUS
<1> USE EnrollmentAssumption DEF Init
<1>0. 0 \in Times /\ 0 \in 0 .. MaxIssues /\ 0 \in 0 .. MaxRestarts
  BY DEF Times
<1>1. TypeOK
  <2>1. calls \in [Calls -> CallType]
    BY NoCallType
  <2>2. state \in [Requests -> States]
    BY DEF States, Live
  <2>3. operators \in [Issuances -> Statuses] /\ copies \in [Beats -> CopyType]
    BY <1>0 DEF Statuses, CopyType, NoCopy
  <2> QED BY <1>0, <2>1, <2>2, <2>3 DEF TypeOK, CopyType
<1>2. CallInv
  BY NoCallType DEF CallInv, CallOK
<1>3. StateInv /\ GrantInv /\ CopyInv /\ RevokedIsDead /\ OneAnswer
  BY DEF StateInv, GrantInv, CopyInv, CopyOK, NoCopy, RevokedIsDead, OneAnswer, Ended
<1> QED BY <1>1, <1>2, <1>3 DEF IInv

(* Stored credentials are never replaced. *)
LEMMA IssuedKept ==
  ASSUME StateInv, Moves, NEW r \in Requests, issued[r] # 0 PROVE issued'[r] = issued[r]
BY DEF StateInv, Moves, Ended, Live

(* What a handler knows survives the steps of others. *)
LEMMA CallStable ==
  ASSUME TypeOK, StateInv, DocTypes', GrantTypes', Grow, Moves,
         NEW q \in CallType, CallOK(q)
  PROVE  CallOK(q)'
<1>1. /\ issues \in Nat /\ issues' \in Nat /\ q.id \in Nat /\ q.req \in Requests
      /\ q.todo \subseteq Issuances
      /\ q.id <= MaxIssues
  BY EnrollmentAssumption DEF TypeOK, GrantTypes, CallType
<1>2. q.id # 0 => q.id \in Issuances
  BY <1>1, EnrollmentAssumption DEF Issuances
<1>3. q.id <= issues'
  BY <1>1 DEF Grow, CallOK
<1>4. issued[q.req] # 0 => issued'[q.req] = issued[q.req]
  BY <1>1, IssuedKept
<1> QED BY <1>1, <1>2, <1>3, <1>4 DEF Grow, CallOK

\* The invariant is kept, and no request moves otherwise than Moves says.
Kept == IInv' /\ Moves

(* The invariant follows from the effects of a step. *)
LEMMA EffectsIInv ==
  ASSUME IInv, Effects,
         \/ calls' = calls
         \/ calls' = [d \in Calls |-> NoCall]
         \/ \E c \in Calls : \E q \in CallType : Continues(c, q)
  PROVE  Kept
<1>0. /\ TypeOK /\ CallInv /\ StateInv /\ GrantInv /\ CopyInv /\ RevokedIsDead /\ OneAnswer
      /\ DocTypes' /\ GrantTypes' /\ Grow /\ Moves /\ Answers /\ Copies /\ GrantInv'
  BY DEF IInv, Effects
<1>1. calls' \in [Calls -> CallType] /\ CallInv'
  <2>0. calls \in [Calls -> CallType] /\ \A d \in Calls : CallOK(calls[d])
    BY <1>0 DEF TypeOK, CallInv
  <2>1. \A p \in CallType : CallOK(p) => CallOK(p)'
    BY <1>0, CallStable
  <2>2. CASE calls' = calls
    <3>1. ASSUME NEW d \in Calls PROVE CallOK(calls[d])'
      <4>1. PICK p \in CallType : p = calls[d] /\ CallOK(p) /\ CallOK(p)'
        BY <2>0, <2>1
      <4>2. p = calls'[d]
        BY <4>1, <2>2
      <4> QED BY <4>1, <4>2
    <3> QED BY <2>0, <2>2, <3>1 DEF CallInv
  <2>3. CASE calls' = [d \in Calls |-> NoCall]
    <3>1. \A d \in Calls : calls'[d] = NoCall
      BY <2>3
    <3> QED BY <1>0, <2>3, <3>1, NoCallType, NoCallOK DEF CallInv
  <2>4. ASSUME NEW c \in Calls, NEW q \in CallType, Continues(c, q)
        PROVE  calls' \in [Calls -> CallType] /\ CallInv'
    <3>0. calls' = [calls EXCEPT ![c] = q] /\ CallOK(q)'
      BY <2>4 DEF Continues
    <3>1. ASSUME NEW d \in Calls PROVE CallOK(calls[d])'
      <4>1. PICK p \in CallType : p = calls'[d] /\ CallOK(p)'
        <5>1. CASE d = c
          BY <5>1, <3>0, <2>0
        <5>2. CASE d # c
          BY <5>2, <3>0, <2>0, <2>1
        <5> QED BY <5>1, <5>2
      <4> QED BY <4>1
    <3> QED BY <2>0, <3>0, <3>1 DEF CallInv
  <2> QED BY <2>2, <2>3, <2>4
<1>2. TypeOK'
  BY <1>0, <1>1 DEF TypeOK, DocTypes, GrantTypes, CopyType
<1>3. /\ issues \in Nat /\ issues' \in Nat
      /\ \A r \in Requests : /\ issued[r] \in Nat /\ issued'[r] \in Nat
                             /\ issued[r] # 0 => issued[r] \in Issuances
                             /\ answers[r] \subseteq Issuances
      /\ 0 \notin Issuances
  BY <1>0, <1>2, EnrollmentAssumption DEF TypeOK, Issuances
<1>4. StateInv'
  BY <1>0, <1>3 DEF StateInv, Moves, Grow, Ended, Live
<1>5. RevokedIsDead'
  BY <1>0, <1>3 DEF RevokedIsDead, StateInv, Moves, Grow, Ended, Live, Terminated
<1>6. OneAnswer'
  <2>1. ASSUME NEW r \in Requests PROVE answers'[r] \subseteq {issued'[r]}
    <3>1. answers[r] \subseteq {issued[r]} /\ (issued[r] = 0 => answers[r] = {})
      BY <1>0, <1>3 DEF OneAnswer
    <3>2. issued[r] # 0 => issued'[r] = issued[r]
      BY <1>0, IssuedKept
    <3> QED BY <1>0, <3>1, <3>2 DEF Answers
  <2> QED BY <2>1 DEF OneAnswer
<1>7. CopyInv'
  <2>1. ASSUME NEW y \in CopyType, CopyOK(y) PROVE CopyOK(y)'
    <3>1. y.id # 0 => y.id \in Issuances
      BY EnrollmentAssumption DEF CopyType, Issuances
    <3> QED BY <1>0, <2>1, <3>1 DEF CopyOK, Grow
  <2>2. copies \in [Beats -> CopyType] /\ copies' \in [Beats -> CopyType]
    BY <1>0 DEF TypeOK, DocTypes, CopyType
  <2>3. ASSUME NEW b \in Beats PROVE CopyOK(copies[b])'
    <3>1. PICK y \in CopyType : y = copies'[b]
      BY <2>2
    <3>2. CopyOK(y)
      BY <1>0, <3>1 DEF Copies, CopyInv
    <3>3. CopyOK(y)'
      BY <2>1, <3>2
    <3> QED BY <3>1, <3>3
  <2> QED BY <2>3 DEF CopyInv
<1> QED BY <1>0, <1>1, <1>2, <1>4, <1>5, <1>6, <1>7 DEF IInv, Kept

-----------------------------------------------------------------------------
(***************************************************************************)
(* How a handler goes on.                                                  *)
(***************************************************************************)
LEMMA ContinueIInv ==
  ASSUME IInv, Effects, NEW c \in Calls, NEW q \in CallType,
         calls' = [calls EXCEPT ![c] = q], CallOK(q)'
  PROVE  Kept
BY EffectsIInv DEF Continues

LEMMA DoneIInv == ASSUME IInv, Effects, NEW c \in Calls, Done(c) PROVE Kept
<1>1. CallOK(NoCall)'
  BY NoCallOK DEF Effects
<1> QED BY <1>1, NoCallType, ContinueIInv DEF Done

LEMMA GotoIInv ==
  ASSUME IInv, Effects, NEW c \in Calls, NEW pc \in CallPcs, Goto(c, pc),
         \A q \in CallType : q = [calls[c] EXCEPT !.pc = pc] => CallOK(q)'
  PROVE  Kept
<1>1. calls[c] \in CallType /\ calls \in [Calls -> CallType]
  BY DEF IInv, TypeOK
<1>2. PICK q \in CallType : q = [calls[c] EXCEPT !.pc = pc]
  BY <1>1 DEF CallType
<1>3. calls' = [calls EXCEPT ![c] = q]
  BY <1>1, <1>2 DEF Goto
<1> QED BY <1>2, <1>3, ContinueIInv

(* To the positions where a handler knows nothing. *)
LEMMA GotoFreeIInv ==
  ASSUME IInv, Effects, NEW c \in Calls,
         NEW pc \in {"issue", "sign"}, Goto(c, pc)
  PROVE  Kept
<1>1. pc \in CallPcs
  BY DEF CallPcs
<1>2. ASSUME NEW q \in CallType, q = [calls[c] EXCEPT !.pc = pc] PROVE CallOK(q)'
  <2>1. calls[c] \in CallType /\ CallOK(calls[c])
    BY DEF IInv, TypeOK, CallInv
  <2>2. q.pc = pc /\ q.id = calls[c].id
    BY <1>2, <2>1 DEF CallType
  <2>3. q.id \in Nat /\ issues \in Nat /\ issues' \in Nat
    BY EnrollmentAssumption DEF CallType, IInv, TypeOK, Effects, GrantTypes
  <2>4. q.id <= issues'
    BY <2>1, <2>2, <2>3 DEF CallOK, Effects, Grow
  <2> QED BY <2>2, <2>4 DEF CallOK
<1> QED BY <1>1, <1>2, GotoIInv

LEMMA StartIInv ==
  ASSUME IInv, Effects, NEW c \in Calls, NEW r \in Requests, NEW pc \in CallPcs,
         NEW id \in 0 .. MaxIssues, NEW arg \in States, Start(c, r, pc, id, arg),
         \A q \in CallType :
            q = [pc |-> pc, req |-> r, id |-> id, arg |-> arg, todo |-> {}] => CallOK(q)'
  PROVE  Kept
<1>1. PICK q \in CallType : q = [pc |-> pc, req |-> r, id |-> id, arg |-> arg, todo |-> {}]
  BY DEF CallType
<1> QED BY <1>1, ContinueIInv DEF Start

LEMMA BackIInv ==
  ASSUME IInv, Effects, NEW c \in Calls, NEW pc \in {"unissue", "rollback", "reload"}, Back(c, pc)
  PROVE  Kept
<1>1. PICK r \in Requests : r = Req(c)
  BY DEF IInv, TypeOK, CallType, Req
<1>2. Start(c, r, pc, 0, "none") /\ pc \in CallPcs /\ "none" \in States
  BY <1>1 DEF Back, CallPcs, States
<1>3. 0 \in 0 .. MaxIssues /\ 0 <= issues'
  BY EnrollmentAssumption DEF Effects, GrantTypes
<1> QED BY <1>2, <1>3, StartIInv DEF CallOK

-----------------------------------------------------------------------------
(***************************************************************************)
(* The effects of the steps, by what they change.                          *)
(***************************************************************************)
Side ==
    /\ reconcile' \in [recover : SUBSET Requests, expire : SUBSET Requests]
    /\ clock' \in Times
    /\ restarts' \in 0 .. MaxRestarts
    /\ copies' \in [Beats -> CopyType]
    /\ Copies

LEMMA SideKept == ASSUME TypeOK, UNCHANGED <<reconcile, clock, restarts, copies>> PROVE Side
BY DEF TypeOK, Side, Copies, CopyType

LEMMA GrowRefl ==
  ASSUME TypeOK, UNCHANGED <<issues, kind, operators>>, certs \subseteq certs' PROVE Grow
<1>1. issues \in Nat
  BY EnrollmentAssumption DEF TypeOK
<1> QED BY <1>1 DEF Grow

(* Nothing but the handlers, the clock and the cleanup goroutine moves. *)
LEMMA QuietEffects ==
  ASSUME IInv, UNCHANGED <<docs, grants, answers, raced>>, Side PROVE Effects
<1>1. UNCHANGED <<state, kind, expires, lease, issued, issues, operators, sessions, certs,
                  policy, answers, raced>>
  BY DEF docs, grants
<1>2. DocTypes' /\ GrantTypes' /\ GrantInv'
  BY <1>1 DEF IInv, TypeOK, DocTypes, GrantTypes, GrantInv, Side
<1>3. Grow
  BY <1>1, GrowRefl DEF IInv
<1>4. Moves /\ Answers
  BY <1>1 DEF Moves, Answers
<1> QED BY <1>2, <1>3, <1>4 DEF Effects, Side

(* A conditional update of a state. *)
LEMMA MoveEffects ==
  ASSUME IInv, NEW r \in Requests, NEW old \in States, NEW new \in States, Move(r, old, new),
         UNCHANGED <<kind, expires, lease, issued, grants, answers, raced>>, Side,
         \/ old \in Live /\ new \in Live \cup {"denied", "expired"}
         \/ /\ old = "completed" /\ new = "revoked" /\ issued[r] \in certs
            /\ kind[r] = "operator" => operators[issued[r]] \in Terminated
         \/ old \in {"denied", "expired"} /\ new = "removed"
  PROVE  Effects
<1>1. UNCHANGED <<kind, expires, lease, issued, issues, operators, sessions, certs,
                  policy, answers, raced>>
  BY DEF grants
<1>0. state \in [Requests -> States]
  BY DEF IInv, TypeOK
<1>2. state' \in [Requests -> States]
  BY <1>0 DEF Move
<1>3. DocTypes' /\ GrantTypes' /\ GrantInv'
  BY <1>1, <1>2 DEF IInv, TypeOK, DocTypes, GrantTypes, GrantInv, Side
<1>4. Grow
  BY <1>1, GrowRefl DEF IInv
<1>5. Moves
  BY <1>0, <1>1 DEF Move, Moves
<1>6. Answers
  BY <1>1 DEF Answers
<1> QED BY <1>3, <1>4, <1>5, <1>6 DEF Effects, Side

(* Grants that change no request and lose nothing. *)
LEMMA GrantEffects ==
  ASSUME IInv, UNCHANGED docs, Side, GrantTypes', Grow, Answers, GrantInv' PROVE Effects
<1>1. UNCHANGED <<state, kind, expires, lease, issued>>
  BY DEF docs
<1>2. DocTypes'
  BY <1>1 DEF IInv, TypeOK, DocTypes, Side
<1>3. Moves
  BY <1>1 DEF Moves
<1> QED BY <1>2, <1>3 DEF Effects, Side

-----------------------------------------------------------------------------
(***************************************************************************)
(* Steps that only start, move or end a handler.                           *)
(***************************************************************************)
LEMMA ArriveIInv ==
  ASSUME IInv, NEW c \in Calls, NEW r \in Requests, Arrive(c, r) PROVE Kept
<1>0. /\ TypeOK /\ StateInv
      /\ 0 \in 0 .. MaxIssues /\ issued[r] \in 0 .. MaxIssues /\ issued[r] <= issues
      /\ "none" \in States /\ 0 <= issues
  BY EnrollmentAssumption DEF IInv, TypeOK, StateInv, States
<1>e. ASSUME UNCHANGED <<docs, grants, answers, raced, reconcile, clock, restarts, copies>>
      PROVE  Effects /\ issues' = issues /\ issued' = issued
  BY <1>e, <1>0, SideKept, QuietEffects DEF docs, grants
<1>1. CASE GetStatus(c, r)
  <2>1. Effects /\ issues' = issues /\ Start(c, r, "expire", 0, state[r]) /\ state[r] \in Live
    BY <1>1, <1>e DEF GetStatus
  <2> QED BY <2>1, <1>0, StartIInv DEF CallPcs, CallOK, States
<1>2. ASSUME NEW decision \in {"approved", "denied"}, Decide(c, r, decision) PROVE Kept
  <2>1. Effects /\ issues' = issues /\ Start(c, r, "decide", 0, decision)
    BY <1>2, <1>e DEF Decide
  <2>2. decision \in States
    BY <1>2 DEF States, Live
  <2> QED BY <2>1, <2>2, <1>0, StartIInv DEF CallPcs, CallOK
<1>3. CASE Complete(c, r)
  <2>1. Effects /\ issues' = issues /\ issued' = issued
    BY <1>3, <1>e DEF Complete
  <2>2. CASE state[r] = "completed" /\ Start(c, r, "downstream", issued[r], "none")
    <3>1. issued[r] # 0
      BY <2>2, <1>0 DEF StateInv, Ended
    <3> QED BY <2>1, <2>2, <3>1, <1>0, StartIInv DEF CallPcs, CallOK
  <2>3. CASE Start(c, r, "lease", 0, "none")
    BY <2>1, <2>3, <1>0, StartIInv DEF CallPcs, CallOK
  <2> QED BY <1>3, <2>2, <2>3 DEF Complete
<1>4. CASE Revoke(c, r)
  <2>1. Effects /\ issues' = issues /\ issued' = issued
    BY <1>4, <1>e DEF Revoke
  <2>2. state[r] = "completed" /\ Start(c, r, "revoke", issued[r], "none") /\ issued[r] # 0
    BY <1>4, <1>0 DEF Revoke, StateInv, Ended
  <2> QED BY <2>1, <2>2, <1>0, StartIInv DEF CallPcs, CallOK
<1> QED BY <1>1, <1>2, <1>3, <1>4 DEF Arrive

LEMMA QuietStepIInv ==
  ASSUME IInv, NEW c \in Calls,
         HandleIssue(c) \/ SupersedeOperatorLeases(c) \/ Reload(c)
  PROVE  Kept
<1>0. /\ TypeOK /\ StateInv /\ GrantInv /\ calls[c] \in CallType /\ CallOK(calls[c])
      /\ calls \in [Calls -> CallType]
  BY DEF IInv, TypeOK, CallInv
<1>1. UNCHANGED <<docs, grants, answers, raced, reconcile, clock, restarts, copies>>
  BY DEF HandleIssue, SupersedeOperatorLeases, Reload
<1>2. Effects /\ issues' = issues /\ issued' = issued /\ operators' = operators
  BY <1>0, <1>1, SideKept, QuietEffects DEF docs, grants
<1>3. CASE HandleIssue(c)
  BY <1>2, <1>3, GotoFreeIInv, BackIInv DEF HandleIssue
<1>4. CASE SupersedeOperatorLeases(c)
  <2> DEFINE others == {i \in Issuances \ {calls[c].id} : operators[i] \in {"active", "revived"}}
  <2>1. CASE Back(c, "unissue")
    BY <1>2, <2>1, BackIInv
  <2>2. CASE calls' = [calls EXCEPT ![c].pc = IF others = {} THEN "finish" ELSE "terminate",
                                    ![c].todo = others]
    <3>1. PICK q \in CallType :
               q = [calls[c] EXCEPT !.pc = IF others = {} THEN "finish" ELSE "terminate",
                                    !.todo = others]
      BY <1>0 DEF CallType, CallPcs
    <3>2. calls' = [calls EXCEPT ![c] = q]
      BY <1>0, <2>2, <3>1
    <3>3. q.id = calls[c].id /\ q.pc \in {"finish", "terminate"} /\ q.todo = others
      BY <1>0, <3>1 DEF CallType
    <3>4. calls[c].id <= issues /\ calls[c].id # 0
      BY <1>0, <1>4 DEF SupersedeOperatorLeases, At, CallOK
    <3>5. CallOK(q)'
      BY <1>2, <3>3, <3>4 DEF CallOK
    <3> QED BY <1>2, <3>2, <3>5, ContinueIInv
  <2> QED BY <1>4, <2>1, <2>2 DEF SupersedeOperatorLeases
<1>5. CASE Reload(c)
  <2>1. CASE Done(c)
    BY <1>2, <2>1, DoneIInv
  <2>2. CASE state[Req(c)] = "completed" /\ Start(c, Req(c), "downstream", issued[Req(c)], "none")
    <3>1. PICK r \in Requests : r = Req(c)
      BY <1>0 DEF Req, CallType
    <3>2. issued[r] # 0 /\ issued[r] <= issues /\ issued[r] \in 0 .. MaxIssues /\ "none" \in States
      BY <1>0, <2>2, <3>1 DEF StateInv, Ended, TypeOK, States
    <3>3. Start(c, r, "downstream", issued[r], "none")
      BY <2>2, <3>1
    <3> QED BY <1>2, <3>2, <3>3, StartIInv DEF CallPcs, CallOK
  <2> QED BY <1>5, <2>1, <2>2 DEF Reload
<1> QED BY <1>3, <1>4, <1>5

(***************************************************************************)
(* Steps that update a state.                                              *)
(***************************************************************************)
LEMMA MoveStepIInv ==
  ASSUME IInv, NEW c \in Calls,
         ExpireRequest(c) \/ HandleDecide(c) \/ RollbackLease(c) \/ MarkRevoked(c)
  PROVE  Kept
<1>0. /\ TypeOK /\ calls[c] \in CallType /\ CallOK(calls[c])
      /\ Req(c) \in Requests /\ calls[c].arg \in States
      /\ {"pending", "issuing", "approved", "completed", "revoked", "expired", "denied"} \subseteq States
  BY DEF IInv, TypeOK, CallInv, Req, CallType, States, Live
<1>1. /\ UNCHANGED <<kind, expires, lease, issued, grants, answers, raced>>
      /\ Side
  BY <1>0, SideKept DEF ExpireRequest, HandleDecide, RollbackLease, MarkRevoked
<1>2. CASE ExpireRequest(c)
  <2>1. calls[c].arg \in Live /\ Move(Req(c), calls[c].arg, "expired") /\ Done(c)
    BY <1>0, <1>2 DEF ExpireRequest, At, CallOK
  <2>2. Effects
    BY <1>0, <1>1, <2>1, MoveEffects
  <2> QED BY <2>1, <2>2, DoneIInv
<1>3. CASE HandleDecide(c)
  <2>1. calls[c].arg \in {"approved", "denied"} /\ Move(Req(c), "pending", calls[c].arg) /\ Done(c)
    BY <1>0, <1>3 DEF HandleDecide, At, CallOK
  <2>2. Effects
    BY <1>0, <1>1, <2>1, MoveEffects DEF Live
  <2> QED BY <2>1, <2>2, DoneIInv
<1>4. CASE RollbackLease(c)
  <2>1. Move(Req(c), "issuing", "approved") /\ (Back(c, "rollback") \/ Done(c))
    BY <1>4 DEF RollbackLease
  <2>2. Effects
    BY <1>0, <1>1, <2>1, MoveEffects DEF Live
  <2> QED BY <2>1, <2>2, DoneIInv, BackIInv
<1>5. CASE MarkRevoked(c)
  <2>1. /\ calls[c].id = issued[Req(c)] /\ calls[c].id \in certs
        /\ kind[Req(c)] = "operator" => operators[calls[c].id] \in Terminated
        /\ Move(Req(c), "completed", "revoked") /\ Done(c)
    BY <1>0, <1>5 DEF MarkRevoked, At, CallOK, Req
  <2>2. Effects
    BY <1>0, <1>1, <2>1, MoveEffects
  <2> QED BY <2>1, <2>2, DoneIInv
<1> QED BY <1>2, <1>3, <1>4, <1>5

LEMMA AcquireLeaseIInv == ASSUME IInv, NEW c \in Calls, AcquireLease(c) PROVE Kept
<1>0. /\ TypeOK /\ Req(c) \in Requests
      /\ UNCHANGED <<kind, expires, issued, grants, answers, raced, reconcile, clock, restarts, copies>>
      /\ Side
  BY SideKept DEF IInv, TypeOK, Req, CallType, AcquireLease
<1>1. CASE Done(c) /\ UNCHANGED <<state, lease>>
  <2>1. Effects
    BY <1>0, <1>1, SideKept, QuietEffects DEF docs
  <2> QED BY <1>1, <2>1, DoneIInv
<1>2. CASE /\ state[Req(c)] = "approved"
           /\ lease' = [lease EXCEPT ![Req(c)] = clock + LeaseTTL]
           /\ state' = [state EXCEPT ![Req(c)] = "issuing"]
           /\ Goto(c, "issue")
  <2>1. clock + LeaseTTL \in Times
    BY <1>0, EnrollmentAssumption DEF AcquireLease, TypeOK, Times
  <2>2. DocTypes'
    BY <1>0, <1>2, <2>1 DEF DocTypes, TypeOK, States, Live, Side
  <2>3. GrantTypes' /\ GrantInv'
    BY <1>0 DEF GrantTypes, GrantInv, TypeOK, grants, IInv
  <2>4. Grow
    BY <1>0, GrowRefl DEF grants
  <2>5. Moves /\ Answers
    BY <1>0, <1>2 DEF TypeOK, Moves, Answers, Live
  <2>6. Effects
    BY <1>0, <2>2, <2>3, <2>4, <2>5 DEF Effects, Side
  <2> QED BY <1>2, <2>6, GotoFreeIInv
<1> QED BY <1>1, <1>2 DEF AcquireLease

LEMMA FinishIssueIInv == ASSUME IInv, NEW c \in Calls, FinishIssue(c) PROVE Kept
<1>0. /\ TypeOK /\ Req(c) \in Requests /\ CallOK(calls[c]) /\ calls[c].id \in 0 .. MaxIssues
      /\ UNCHANGED <<kind, expires, lease, grants, answers, raced, reconcile, clock, restarts, copies>>
      /\ Side
  BY SideKept DEF IInv, TypeOK, CallInv, Req, CallType, FinishIssue
<1>1. CASE Back(c, "rollback") /\ UNCHANGED <<state, issued>>
  <2>1. Effects
    BY <1>0, <1>1, SideKept, QuietEffects DEF docs
  <2> QED BY <1>1, <2>1, BackIInv
<1>2. CASE /\ state[Req(c)] = "issuing"
           /\ state' = [state EXCEPT ![Req(c)] = "completed"]
           /\ issued' = [issued EXCEPT ![Req(c)] = calls[c].id]
           /\ Back(c, "reload") \/ Back(c, "rollback")
  <2>1. calls[c].id # 0 /\ calls[c].id <= issues
    BY <1>0 DEF FinishIssue, At, CallOK
  <2>2. DocTypes'
    BY <1>0, <1>2 DEF DocTypes, TypeOK, States, Side
  <2>3. GrantTypes' /\ GrantInv'
    BY <1>0 DEF GrantTypes, GrantInv, TypeOK, grants, IInv
  <2>4. Grow
    BY <1>0, GrowRefl DEF grants
  <2>5. Moves /\ Answers
    BY <1>0, <1>2, <2>1 DEF TypeOK, Moves, Answers
  <2>6. Effects
    BY <1>0, <2>2, <2>3, <2>4, <2>5 DEF Effects, Side
  <2> QED BY <1>2, <2>6, BackIInv
<1> QED BY <1>1, <1>2 DEF FinishIssue

(***************************************************************************)
(* Steps that change what has been granted.                                *)
(***************************************************************************)
LEMMA SignComponentIInv == ASSUME IInv, NEW c \in Calls, SignComponent(c) PROVE Kept
<1>0. /\ TypeOK /\ GrantInv /\ Req(c) \in Requests
      /\ UNCHANGED <<docs, answers, reconcile, clock, restarts, copies>>
      /\ Side
  BY SideKept DEF IInv, TypeOK, Req, CallType, SignComponent
<1>1. CASE Back(c, "unissue") /\ UNCHANGED <<grants, raced>>
  <2>1. Effects
    BY <1>0, <1>1, QuietEffects
  <2> QED BY <1>1, <2>1, BackIInv
<1>2. ASSUME issues < MaxIssues, issues' = issues + 1, UNCHANGED <<sessions, certs, policy>>,
             operators' \in {operators, [operators EXCEPT ![issues + 1] = "active"]},
             raced' \in BOOLEAN,
             NEW pc \in {"supersede", "finish"}, Start(c, Req(c), pc, issues + 1, "none")
      PROVE  Kept
  <2>1. /\ issues \in Nat /\ issues + 1 \in Issuances /\ issues + 1 \in 0 .. MaxIssues
        /\ operators \in [Issuances -> Statuses]
        /\ \A i \in Issuances : i \in Nat
    BY <1>0, <1>2, EnrollmentAssumption DEF TypeOK, Issuances
  <2>2. operators[issues + 1] = "none"
    BY <1>0, <2>1 DEF GrantInv
  <2>3. GrantTypes'
    BY <1>0, <1>2, <2>1 DEF GrantTypes, TypeOK, Statuses
  <2>4. GrantInv'
    BY <1>0, <1>2, <2>1 DEF GrantInv
  <2>5. Grow
    BY <1>0, <1>2, <2>1, <2>2 DEF Grow, docs, Terminated
  <2>6. Effects
    BY <1>0, <2>3, <2>4, <2>5, GrantEffects DEF Answers
  <2>7. PICK n \in 0 .. MaxIssues : n = issues + 1 /\ n # 0 /\ n <= issues'
    BY <1>2, <2>1
  <2>8. PICK r \in Requests : r = Req(c)
    BY <1>0
  <2>9. Start(c, r, pc, n, "none") /\ pc \in CallPcs /\ "none" \in States
    BY <1>2, <2>7, <2>8 DEF CallPcs, States
  <2> QED BY <1>2, <2>6, <2>7, <2>9, StartIInv DEF CallOK
<1>3. raced \in BOOLEAN
  BY <1>0 DEF TypeOK
<1> QED BY <1>1, <1>2, <1>3 DEF SignComponent

LEMMA TerminateSupersededIInv ==
  ASSUME IInv, NEW c \in Calls, NEW i \in Issuances, TerminateSuperseded(c, i) PROVE Kept
<1>0. /\ TypeOK /\ GrantInv /\ calls[c] \in CallType /\ CallOK(calls[c])
      /\ calls \in [Calls -> CallType]
      /\ UNCHANGED <<issues, certs, policy, docs, answers, raced, reconcile, clock, restarts, copies>>
      /\ Side
  BY SideKept DEF IInv, TypeOK, CallInv, TerminateSuperseded
<1>1. /\ i \in calls[c].todo /\ operators[i] # "none" /\ calls[c].id # 0 /\ calls[c].id <= issues
      /\ \A j \in calls[c].todo : operators[j] # "none"
      /\ calls[c].todo \subseteq Issuances
  BY <1>0 DEF TerminateSuperseded, At, CallOK, CallType
<1>2. operators \in [Issuances -> Statuses]
  BY <1>0 DEF TypeOK
<1>3. ASSUME operators' \in {operators, [operators EXCEPT ![i] = "terminated"]},
             sessions' \in {sessions, sessions \ {i}}
      PROVE  Effects
  <2>1. GrantTypes'
    BY <1>0, <1>2, <1>3 DEF GrantTypes, TypeOK, Statuses
  <2>2. GrantInv'
    BY <1>0, <1>1, <1>2, <1>3 DEF GrantInv
  <2>3. issues \in Nat
    BY <1>0, EnrollmentAssumption DEF TypeOK
  <2>4. Grow
    BY <1>0, <1>2, <1>3, <2>3 DEF Grow, docs, Terminated
  <2> QED BY <1>0, <2>1, <2>2, <2>4, GrantEffects DEF Answers
<1>4. CASE Back(c, "unissue") /\ UNCHANGED operators /\ sessions' \in {sessions, sessions \ {i}}
  <2>1. Effects
    BY <1>3, <1>4
  <2> QED BY <1>4, <2>1, BackIInv
<1>5. CASE /\ sessions' = sessions \ {i}
           /\ operators' = [operators EXCEPT ![i] = "terminated"]
           /\ calls' = [calls EXCEPT ![c].pc = IF calls[c].todo = {i} THEN "finish" ELSE @,
                                     ![c].todo = @ \ {i}]
  <2>1. Effects
    BY <1>3, <1>5
  <2>2. PICK q \in CallType :
             q = [calls[c] EXCEPT !.pc = IF calls[c].todo = {i} THEN "finish" ELSE @,
                                  !.todo = @ \ {i}]
    BY <1>0 DEF CallType, CallPcs
  <2>3. calls' = [calls EXCEPT ![c] = q]
    BY <1>0, <1>5, <2>2
  <2>4. q.id = calls[c].id /\ q.pc \in {"finish", "terminate"} /\ q.todo = calls[c].todo \ {i}
    BY <1>0, <2>2 DEF CallType, TerminateSuperseded, At
  <2>5. \A j \in q.todo : operators'[j] # "none"
    BY <1>1, <1>2, <1>5, <2>4
  <2>6. CallOK(q)'
    BY <1>0, <1>1, <2>4, <2>5 DEF CallOK
  <2> QED BY <2>1, <2>3, <2>6, ContinueIInv
<1> QED BY <1>4, <1>5 DEF TerminateSuperseded

(* What a handler that works on stored credentials knows. *)
LEMMA HolderKnows ==
  ASSUME IInv, NEW c \in Calls,
         calls[c].pc \in {"downstream", "policy", "revoke", "withdraw", "mark"}
  PROVE  /\ TypeOK /\ GrantInv
         /\ calls[c] \in CallType /\ calls \in [Calls -> CallType] /\ CallOK(calls[c])
         /\ Req(c) \in Requests /\ calls[c].id \in Issuances /\ calls[c].id <= issues
         /\ calls[c].id = issued[Req(c)]
         /\ issues \in Nat
<1>1. /\ TypeOK /\ GrantInv
      /\ calls[c] \in CallType /\ calls \in [Calls -> CallType] /\ CallOK(calls[c])
      /\ Req(c) \in Requests /\ calls[c].id \in 0 .. MaxIssues
      /\ issues \in Nat
  BY EnrollmentAssumption DEF IInv, TypeOK, CallInv, Req, CallType
<1>2. calls[c].id # 0 /\ calls[c].id <= issues /\ calls[c].id = issued[Req(c)]
  BY <1>1 DEF CallOK, Req
<1> QED BY <1>1, <1>2, EnrollmentAssumption DEF Issuances

LEMMA AnswerIInv ==
  ASSUME IInv, NEW c \in Calls, SubmitDownstream(c) \/ HandlePersistPolicy(c) PROVE Kept
<1>0. /\ TypeOK /\ GrantInv /\ calls[c] \in CallType /\ CallOK(calls[c])
      /\ Req(c) \in Requests /\ calls[c].id \in Issuances /\ calls[c].id <= issues
      /\ calls[c].id = issued[Req(c)]
  BY HolderKnows DEF SubmitDownstream, HandlePersistPolicy, At
<1>1. /\ UNCHANGED <<issues, operators, certs, docs, raced, reconcile, clock, restarts, copies>>
      /\ Side
  BY <1>0, SideKept DEF SubmitDownstream, HandlePersistPolicy
<1>2. issued' = issued
  BY <1>1 DEF docs
<1>3. ASSUME sessions' \in {sessions, sessions \cup {calls[c].id}},
             policy' \in {policy, {Req(c)}},
             \/ answers' = answers
             \/ answers' = [answers EXCEPT ![Req(c)] = @ \cup {calls[c].id}]
      PROVE  Effects
  <2>1. GrantTypes'
    BY <1>0, <1>1, <1>3 DEF GrantTypes, TypeOK
  <2>2. GrantInv' /\ Grow
    BY <1>0, <1>1, GrowRefl DEF GrantInv, docs
  <2>3. Answers
    BY <1>0, <1>2, <1>3 DEF Answers, TypeOK
  <2> QED BY <1>1, <2>1, <2>2, <2>3, GrantEffects
<1>4. CASE SubmitDownstream(c)
  <2>1. Effects
    BY <1>3, <1>4 DEF SubmitDownstream, Answer
  <2>2. CASE Done(c)
    BY <2>1, <2>2, DoneIInv
  <2>3. CASE Goto(c, "policy")
    <3>1. ASSUME NEW q \in CallType, q = [calls[c] EXCEPT !.pc = "policy"] PROVE CallOK(q)'
      <4>1. q.pc = "policy" /\ q.id = calls[c].id /\ q.req = Req(c)
        BY <1>0, <3>1 DEF CallType, Req
      <4>2. q.id # 0
        BY <1>0, <4>1 DEF Issuances
      <4> QED BY <1>0, <1>1, <1>2, <4>1, <4>2 DEF CallOK
    <3> QED BY <2>1, <2>3, <3>1, GotoIInv DEF CallPcs
  <2> QED BY <1>4, <2>2, <2>3 DEF SubmitDownstream, Answer
<1>5. CASE HandlePersistPolicy(c)
  <2>1. Effects
    BY <1>3, <1>5 DEF HandlePersistPolicy, Answer
  <2> QED BY <1>5, <2>1, DoneIInv DEF HandlePersistPolicy, Answer
<1> QED BY <1>4, <1>5

LEMMA RevokeCertificateIInv == ASSUME IInv, NEW c \in Calls, RevokeCertificate(c) PROVE Kept
<1>0. /\ TypeOK /\ GrantInv /\ calls[c] \in CallType /\ CallOK(calls[c])
      /\ Req(c) \in Requests /\ calls[c].id \in Issuances /\ calls[c].id <= issues
      /\ calls[c].id = issued[Req(c)]
  BY HolderKnows DEF RevokeCertificate, At
<1>1. /\ UNCHANGED <<issues, operators, sessions, policy, docs, answers, raced,
                     reconcile, clock, restarts, copies>>
      /\ Side /\ issued' = issued
      /\ certs' \in {certs, certs \cup {calls[c].id}}
  BY <1>0, SideKept DEF RevokeCertificate, docs
<1>2. Effects
  <2>1. GrantTypes'
    BY <1>0, <1>1 DEF GrantTypes, TypeOK
  <2>2. GrantInv' /\ Grow /\ Answers
    BY <1>0, <1>1, GrowRefl DEF GrantInv, docs, Answers
  <2> QED BY <1>1, <2>1, <2>2, GrantEffects
<1>3. CASE Done(c)
  BY <1>2, <1>3, DoneIInv
<1>4. CASE Goto(c, "withdraw") /\ certs' = certs \cup {calls[c].id}
  <2>1. ASSUME NEW q \in CallType, q = [calls[c] EXCEPT !.pc = "withdraw"] PROVE CallOK(q)'
    <3>1. q.pc = "withdraw" /\ q.id = calls[c].id /\ q.req = Req(c)
      BY <1>0, <2>1 DEF CallType, Req
    <3>2. q.id # 0
      BY <1>0, <3>1 DEF Issuances
    <3> QED BY <1>0, <1>1, <1>4, <3>1, <3>2 DEF CallOK
  <2> QED BY <1>2, <1>4, <2>1, GotoIInv DEF CallPcs
<1> QED BY <1>3, <1>4 DEF RevokeCertificate

LEMMA WithdrawIInv == ASSUME IInv, NEW c \in Calls, Withdraw(c) PROVE Kept
<1>0. /\ TypeOK /\ GrantInv /\ calls[c] \in CallType /\ CallOK(calls[c])
      /\ Req(c) \in Requests /\ calls[c].id \in Issuances /\ calls[c].id <= issues
      /\ calls[c].id = issued[Req(c)] /\ issues \in Nat
  BY HolderKnows DEF Withdraw, At
<1>1. /\ UNCHANGED <<issues, certs, docs, answers, raced, reconcile, clock, restarts, copies>>
      /\ Side /\ issued' = issued /\ kind' = kind
      /\ calls[c].id \in certs
  BY <1>0, SideKept DEF Withdraw, docs, At, CallOK
<1>2. operators \in [Issuances -> Statuses]
  BY <1>0 DEF TypeOK
<1>3. ASSUME operators' \in {operators, [operators EXCEPT ![calls[c].id] = "terminated"]},
             sessions' \in {sessions, sessions \ {calls[c].id}}, policy' \in {policy, {}}
      PROVE  Effects
  <2>1. GrantTypes'
    BY <1>0, <1>1, <1>2, <1>3 DEF GrantTypes, TypeOK, Statuses
  <2>2. GrantInv'
    <3>1. ASSUME NEW i \in Issuances, i > issues PROVE operators'[i] = "none"
      <4>1. i # calls[c].id
        BY <1>0, <3>1 DEF Issuances
      <4>2. operators[i] = "none"
        BY <1>0, <3>1 DEF GrantInv
      <4> QED BY <1>2, <1>3, <4>1, <4>2
    <3> QED BY <1>1, <3>1 DEF GrantInv
  <2>3. Grow
    <3>1. \A i \in Issuances : /\ operators[i] # "none" => operators'[i] # "none"
                               /\ operators[i] \in Terminated => operators'[i] \in Terminated
      BY <1>2, <1>3 DEF Terminated
    <3> QED BY <1>0, <1>1, <3>1 DEF Grow
  <2> QED BY <1>1, <2>1, <2>2, <2>3, GrantEffects DEF Answers
<1>4. Effects
  BY <1>3 DEF Withdraw
<1>5. CASE Done(c)
  BY <1>4, <1>5, DoneIInv
<1>6. CASE /\ Goto(c, "mark")
           /\ kind[Req(c)] = "operator" =>
                operators' = [operators EXCEPT ![calls[c].id] = "terminated"]
  <2>1. ASSUME NEW q \in CallType, q = [calls[c] EXCEPT !.pc = "mark"] PROVE CallOK(q)'
    <3>1. q.pc = "mark" /\ q.id = calls[c].id /\ q.req = Req(c)
      BY <1>0, <2>1 DEF CallType, Req
    <3>2. q.id # 0
      BY <1>0, <3>1 DEF Issuances
    <3>3. kind'[q.req] = "operator" => operators'[q.id] \in Terminated
      BY <1>0, <1>1, <1>2, <1>6, <3>1 DEF Terminated
    <3> QED BY <1>0, <1>1, <3>1, <3>2, <3>3 DEF CallOK
  <2> QED BY <1>4, <1>6, <2>1, GotoIInv DEF CallPcs
<1> QED BY <1>5, <1>6 DEF Withdraw

(***************************************************************************)
(* Steps of the requester, the cleanup goroutine, the clock and a crash.   *)
(***************************************************************************)
LEMMA CreateRequestIInv == ASSUME IInv, NEW r \in Requests, CreateRequest(r) PROVE Kept
<1>0. /\ TypeOK
      /\ UNCHANGED <<kind, lease, issued, grants, answers, raced, calls, reconcile, clock, restarts, copies>>
      /\ Side
  BY SideKept DEF IInv, CreateRequest
<1>1. clock + RequestTTL \in Times
  BY <1>0, EnrollmentAssumption DEF CreateRequest, TypeOK, Times
<1>2. DocTypes'
  BY <1>0, <1>1 DEF DocTypes, TypeOK, CreateRequest, States, Live, Side
<1>3. GrantTypes' /\ GrantInv'
  BY <1>0 DEF GrantTypes, GrantInv, TypeOK, grants, IInv
<1>4. Grow
  BY <1>0, GrowRefl DEF grants
<1>5. Moves /\ Answers
  BY <1>0 DEF TypeOK, Moves, Answers, CreateRequest, Live
<1> QED BY <1>0, <1>2, <1>3, <1>4, <1>5, EffectsIInv DEF Effects, Side

LEMMA OthersIInv ==
  ASSUME IInv,
         \/ \E r \in Requests : CleanupTerminalRequests(r)
         \/ Cleanup \/ Tick \/ Restart
  PROVE  Kept
<1>0. /\ TypeOK /\ {"issuing", "approved", "denied", "expired", "removed"} \subseteq States
  BY DEF IInv, States, Live
<1>1. ASSUME NEW r \in Requests, CleanupTerminalRequests(r) PROVE Kept
  <2>1. Move(r, state[r], "removed") /\ state[r] \in {"denied", "expired"}
    BY <1>1 DEF CleanupTerminalRequests, Move
  <2>2. Effects /\ calls' = calls
    BY <1>0, <1>1, <2>1, SideKept, MoveEffects DEF CleanupTerminalRequests
  <2> QED BY <2>2, EffectsIInv
<1>f. ASSUME NEW r \in Requests, ReconcileFails(r) PROVE Kept
  <2>1. Side
    BY <1>0, <1>f DEF ReconcileFails, TypeOK, Side, Copies, CopyType
  <2>2. Effects /\ calls' = calls
    BY <1>f, <2>1, QuietEffects DEF ReconcileFails
  <2> QED BY <2>2, EffectsIInv
<1>2. ASSUME NEW r \in Requests, ReconcileOne(r) PROVE Kept
  <2>1. Side
    BY <1>0, <1>2 DEF ReconcileOne, TypeOK, Side, Copies, CopyType
  <2>2. \E new \in {"approved", "expired"} : Move(r, "issuing", new)
    BY <1>2 DEF ReconcileOne
  <2>3. /\ UNCHANGED <<kind, expires, lease, issued, grants, answers, raced>>
        /\ calls' = calls
    BY <1>2 DEF ReconcileOne
  <2>4. Effects
    BY <1>0, <2>1, <2>2, <2>3, MoveEffects DEF Live
  <2> QED BY <2>3, <2>4, EffectsIInv
<1>3. CASE ReconcileList
  <2>1. Side
    BY <1>0, <1>3 DEF ReconcileList, TypeOK, Side, Overdue, Copies, CopyType
  <2>2. Effects /\ calls' = calls
    BY <1>3, <2>1, QuietEffects DEF ReconcileList
  <2> QED BY <2>2, EffectsIInv
<1>4. CASE Tick
  <2>1. Side
    BY <1>0, <1>4, EnrollmentAssumption DEF Tick, TypeOK, Side, Times, Copies, CopyType
  <2>2. Effects /\ calls' = calls
    BY <1>4, <2>1, QuietEffects DEF Tick
  <2> QED BY <2>2, EffectsIInv
<1>5. CASE Restart
  <2>1. Side
    <3>1. NoCopy \in CopyType /\ CopyOK(NoCopy)
      BY EnrollmentAssumption DEF NoCopy, CopyType, CopyOK, Statuses
    <3>2. \A b \in Beats : copies'[b] = NoCopy
      BY <1>5 DEF Restart
    <3> QED BY <1>0, <1>5, <3>1, <3>2, EnrollmentAssumption DEF Restart, TypeOK, Side, Copies
  <2>2. Effects /\ calls' = [d \in Calls |-> NoCall]
    BY <1>5, <2>1, QuietEffects DEF Restart
  <2> QED BY <2>2, EffectsIInv
<1> QED BY <1>1, <1>f, <1>2, <1>3, <1>4, <1>5 DEF Cleanup

\* No new document is written, one that was terminated is terminated or revived, and one that
\* never was stays as it is.
Written ==
    \A i \in Issuances : /\ (operators'[i] = "none") <=> (operators[i] = "none")
                         /\ operators[i] \in Terminated => operators'[i] \in Terminated
                         /\ operators[i] = "active" => operators'[i] = "active"

(* What it does when a heartbeat writes back what it has read. *)
LEMMA HeartbeatWrites ==
  ASSUME IInv, NEW b \in Beats, HeartbeatWrite(b)
  PROVE  operators' \in [Issuances -> Statuses] /\ Written
<1>0. /\ CopyOK(copies[b]) /\ copies[b] \in CopyType /\ copies[b].id # 0
      /\ operators \in [Issuances -> Statuses]
  BY DEF IInv, TypeOK, CopyInv, CopyType, HeartbeatWrite
<1>1. PICK n \in Issuances, s \in Statuses \ {"none"} : n = copies[b].id /\ s = copies[b].status
  BY <1>0, EnrollmentAssumption DEF CopyOK, CopyType, Issuances
<1>2. CASE operators' = operators
  BY <1>0, <1>2 DEF Written
<1>3. CASE operators' = [operators EXCEPT ![n] = WrittenBack(@, s)]
  <2>1. operators[n] \in Statuses \ {"none"} /\ (s \in Terminated => operators[n] \in Terminated)
    BY <1>0, <1>1 DEF CopyOK
  <2>2. /\ WrittenBack(operators[n], s) \in Statuses \ {"none"}
        /\ operators[n] \in Terminated => WrittenBack(operators[n], s) \in Terminated
        /\ operators[n] = "active" => WrittenBack(operators[n], s) = "active"
    BY <1>1, <2>1 DEF WrittenBack, Statuses, Terminated
  <2> QED BY <1>0, <1>3, <2>1, <2>2 DEF Written
<1> QED BY <1>1, <1>2, <1>3 DEF HeartbeatWrite

LEMMA HeartbeatIInv ==
  ASSUME IInv, NEW b \in Beats, HeartbeatWrite(b) \/ \E i \in Issuances : HeartbeatRead(b, i)
  PROVE  Kept
<1>0. /\ TypeOK /\ GrantInv /\ issues \in Nat
      /\ copies \in [Beats -> CopyType] /\ operators \in [Issuances -> Statuses]
      /\ NoCopy \in CopyType /\ CopyOK(NoCopy)
  BY EnrollmentAssumption DEF IInv, TypeOK, CopyType, NoCopy, CopyOK, Statuses
<1>1. ASSUME NEW i \in Issuances, HeartbeatRead(b, i) PROVE Kept
  <2>0. i \in 0 .. MaxIssues /\ operators[i] \in Statuses
    BY <1>0, EnrollmentAssumption DEF Issuances
  <2>1. PICK y \in CopyType : y = [id |-> i, status |-> operators[i]]
    BY <2>0 DEF CopyType
  <2>2. CopyOK(y)
    BY <1>1, <2>1 DEF HeartbeatRead, CopyOK
  <2>3. /\ copies' \in [Beats -> CopyType]
        /\ \A d \in Beats : copies'[d] = copies[d] \/ copies'[d] = y
    BY <1>0, <1>1, <2>1 DEF HeartbeatRead
  <2>4. Side
    BY <1>0, <1>1, <2>2, <2>3 DEF HeartbeatRead, TypeOK, Side, Copies
  <2>5. Effects /\ calls' = calls
    BY <1>1, <2>4, QuietEffects DEF HeartbeatRead
  <2> QED BY <2>5, EffectsIInv
<1>2. CASE HeartbeatWrite(b)
  <2>1. /\ copies' \in [Beats -> CopyType]
        /\ \A d \in Beats : copies'[d] = copies[d] \/ copies'[d] = NoCopy
    BY <1>0, <1>2 DEF HeartbeatWrite
  <2>2. Side
    BY <1>0, <1>2, <2>1 DEF HeartbeatWrite, TypeOK, Side, Copies
  <2>3. UNCHANGED <<docs, kind, issues, sessions, certs, policy, answers, raced, calls>>
    BY <1>2 DEF HeartbeatWrite, docs
  <2>4. GrantTypes'
    BY <1>0, <1>2, <2>3, HeartbeatWrites DEF GrantTypes, TypeOK
  <2>5. GrantInv'
    BY <1>0, <1>2, <2>3, HeartbeatWrites DEF GrantInv, Written
  <2>6. Grow
    BY <1>0, <1>2, <2>3, HeartbeatWrites DEF Grow, Written
  <2>7. Answers
    BY <2>3 DEF Answers
  <2> QED BY <2>2, <2>3, <2>4, <2>5, <2>6, <2>7, GrantEffects, EffectsIInv
<1> QED BY <1>1, <1>2

LEMMA NextKept == ASSUME IInv, [Next]_vars PROVE Kept
<1>1. CASE UNCHANGED vars
  <2>1. UNCHANGED <<docs, grants, answers, raced, calls, reconcile, clock, restarts, copies>> /\ TypeOK
    BY <1>1 DEF vars, IInv
  <2>2. Effects
    BY <2>1, SideKept, QuietEffects
  <2> QED BY <2>1, <2>2, EffectsIInv
<1>2. ASSUME NEW c \in Calls, Step(c) PROVE Kept
  BY <1>2, MoveStepIInv, QuietStepIInv, AcquireLeaseIInv, SignComponentIInv,
     TerminateSupersededIInv, FinishIssueIInv, AnswerIInv, RevokeCertificateIInv, WithdrawIInv
     DEF Step
<1> QED BY <1>1, <1>2, ArriveIInv, CreateRequestIInv, OthersIInv, HeartbeatIInv DEF Next

LEMMA SpecIInv == Spec => []IInv
<1>1. IInv /\ [Next]_vars => IInv'
  BY NextKept DEF Kept
<1> QED BY InitIInv, <1>1, PTL DEF Spec

-----------------------------------------------------------------------------
(* The documents and the handlers keep their types. *)
THEOREM EnrollmentTypeCorrect == Spec => []TypeOK
<1>1. IInv => TypeOK
  BY DEF IInv
<1> QED BY SpecIInv, <1>1, PTL

(* However often Complete is retried, every answer carries the credentials *)
(* that the request stores.                                                *)
THEOREM EnrollmentOneAnswer == Spec => []OneAnswer
<1>1. IInv => OneAnswer
  BY DEF IInv
<1> QED BY SpecIInv, <1>1, PTL

(* A revoked request has revoked certificates, and an Operator that was    *)
(* terminated before and that only a heartbeat's write can have revived.   *)
THEOREM EnrollmentRevokedIsDead == Spec => []RevokedIsDead
<1>1. IInv => RevokedIsDead
  BY DEF IInv
<1> QED BY SpecIInv, <1>1, PTL

(* Outcomes are final and stored credentials are never replaced. *)
THEOREM EnrollmentOutcomeFinal == Spec => OutcomeFinal
<1> DEFINE Final == \A r \in Requests :
          /\ state[r] \in {"denied", "expired"} => state'[r] \in {state[r], "removed"}
          /\ state[r] = "completed" => state'[r] \in {"completed", "revoked"}
          /\ state[r] \in {"revoked", "removed"} => state'[r] = state[r]
          /\ issued[r] # 0 => issued'[r] = issued[r]
<1>1. ASSUME IInv, [Next]_vars PROVE Final
  <2>1. Moves /\ StateInv
    BY <1>1, NextKept DEF Kept, IInv
  <2>2. \A r \in Requests : issued[r] # 0 => issued'[r] = issued[r]
    BY <2>1, IssuedKept
  <2> QED BY <2>1, <2>2 DEF Moves, Live
<1>2. IInv /\ [Next]_vars => [Final]_vars
  BY <1>1
<1> QED BY SpecIInv, <1>2, PTL DEF Spec, OutcomeFinal

-----------------------------------------------------------------------------
(***************************************************************************)
(* Never zero Operators.  The one to watch is the latest document written: *)
(* as long as no issuances overlap and nothing is revoked it is active,    *)
(* whoever is about to query for others is its own issuer, and no issuer   *)
(* has it among the documents to terminate.                                *)
(***************************************************************************)
Latest(i) == operators[i] # "none" /\ \A j \in Issuances : j > i => operators[j] = "none"

Spares(q, i) ==
    /\ q.pc = "supersede" => q.id = i
    /\ q.pc = "terminate" => i \notin q.todo

ZeroInv ==
    ~raced /\ certs = {} =>
        /\ (\A i \in Issuances : operators[i] = "none") \/ \E i \in Issuances : Latest(i)
        /\ \A i \in Issuances : Latest(i) =>
             operators[i] = "active" /\ \A c \in Calls : Spares(calls[c], i)

\* Whoever moved is neither about to query nor terminating.
Elsewhere ==
    \A d \in Calls : calls'[d] = calls[d] \/ calls'[d].pc \notin {"supersede", "terminate"}

LEMMA ZeroQuiet ==
  ASSUME ZeroInv, UNCHANGED <<operators, raced>>, certs \subseteq certs', Elsewhere
  PROVE  ZeroInv'
<1>1. \A i \in Issuances : Latest(i)' <=> Latest(i)
  BY DEF Latest
<1>2. ASSUME NEW i \in Issuances, NEW d \in Calls, Spares(calls[d], i) PROVE Spares(calls[d], i)'
  BY <1>2 DEF Spares, Elsewhere
<1> QED BY <1>1, <1>2 DEF ZeroInv

LEMMA MovedElsewhere ==
  ASSUME TypeOK, NEW c \in Calls
  PROVE  /\ Done(c) => Elsewhere
         /\ \A pc \in CallPcs \ {"supersede", "terminate"} :
               /\ Goto(c, pc) => Elsewhere
               /\ \A r, id, arg : Start(c, r, pc, id, arg) => Elsewhere
<1>0. calls \in [Calls -> CallType]
  BY DEF TypeOK
<1>1. Done(c) => Elsewhere
  BY <1>0, NoCallType DEF Done, Elsewhere
<1>2. ASSUME NEW pc \in CallPcs \ {"supersede", "terminate"}
      PROVE  Goto(c, pc) => Elsewhere
  BY <1>0 DEF Goto, Elsewhere, CallType
<1>3. ASSUME NEW pc \in CallPcs \ {"supersede", "terminate"}, NEW r, NEW id, NEW arg
      PROVE  Start(c, r, pc, id, arg) => Elsewhere
  BY <1>0 DEF Start, Elsewhere
<1> QED BY <1>1, <1>2, <1>3

LEMMA ZeroSign == ASSUME IInv, ZeroInv, NEW c \in Calls, SignComponent(c) PROVE ZeroInv'
<1>0. TypeOK /\ GrantInv /\ CallInv /\ calls \in [Calls -> CallType]
      /\ operators \in [Issuances -> Statuses] /\ certs' = certs
  BY DEF IInv, TypeOK, SignComponent, grants
<1>1. CASE UNCHANGED <<grants, raced>> /\ Back(c, "unissue")
  <2>1. Elsewhere
    BY <1>0, <1>1, MovedElsewhere DEF CallPcs, Back
  <2> QED BY <1>1, <2>1, ZeroQuiet DEF grants
<1>2. CASE UNCHANGED <<operators, raced>> /\ Start(c, Req(c), "finish", issues + 1, "none")
  <2>1. Elsewhere
    BY <1>0, <1>2, MovedElsewhere DEF CallPcs
  <2> QED BY <1>0, <1>2, <2>1, ZeroQuiet
<1>3. CASE /\ issues < MaxIssues /\ issues' = issues + 1
           /\ operators' = [operators EXCEPT ![issues + 1] = "active"]
           /\ raced' = (raced \/ \E d \in Calls : At(d, "supersede"))
           /\ Start(c, Req(c), "supersede", issues + 1, "none")
  <2>0. PICK n \in Issuances : n = issues + 1 /\ n \in Nat /\ issues \in Nat
    BY <1>0, <1>3, EnrollmentAssumption DEF TypeOK, Issuances
  <2>1. \A i \in Issuances : i \in Nat /\ (i > n => operators'[i] = "none") /\ (i >= n => operators[i] = "none")
    BY <1>0, <1>3, <2>0, EnrollmentAssumption DEF GrantInv, Issuances
  <2>2. operators'[n] = "active"
    BY <1>0, <1>3, <2>0
  <2>3. Latest(n)' /\ \A i \in Issuances : Latest(i)' => i = n
    BY <2>0, <2>1, <2>2 DEF Latest
  <2>4. ASSUME ~raced', NEW d \in Calls PROVE Spares(calls[d], n)'
    <3>1. CASE d = c
      <4>1. calls'[d].pc = "supersede" /\ calls'[d].id = n
        BY <1>0, <1>3, <2>0, <3>1 DEF Start
      <4> QED BY <4>1 DEF Spares
    <3>2. CASE d # c
      <4>1. calls'[d] = calls[d] /\ calls[d].pc # "supersede"
        BY <1>0, <1>3, <2>4, <3>2 DEF Start, At
      <4>2. calls[d].pc = "terminate" => n \notin calls[d].todo
        BY <1>0, <2>0, <2>1 DEF CallInv, CallOK
      <4> QED BY <4>1, <4>2 DEF Spares
    <3> QED BY <3>1, <3>2
  <2> QED BY <2>2, <2>3, <2>4 DEF ZeroInv
<1> QED BY <1>1, <1>2, <1>3 DEF SignComponent

LEMMA ZeroSupersede ==
  ASSUME IInv, ZeroInv, NEW c \in Calls, SupersedeOperatorLeases(c) PROVE ZeroInv'
<1>0. /\ TypeOK /\ calls \in [Calls -> CallType]
      /\ UNCHANGED <<operators, raced, certs>>
  BY DEF IInv, TypeOK, SupersedeOperatorLeases, grants
<1>1. CASE Back(c, "unissue")
  <2>1. Elsewhere
    BY <1>0, <1>1, MovedElsewhere DEF CallPcs, Back
  <2> QED BY <1>0, <2>1, ZeroQuiet
<1> DEFINE others == {i \in Issuances \ {calls[c].id} : operators[i] \in {"active", "revived"}}
<1>2. CASE calls' = [calls EXCEPT ![c].pc = IF others = {} THEN "finish" ELSE "terminate",
                                  ![c].todo = others]
  <2>1. \A i \in Issuances : Latest(i)' <=> Latest(i)
    BY <1>0 DEF Latest
  <2>2. ASSUME NEW i \in Issuances, NEW d \in Calls, Spares(calls[d], i) PROVE Spares(calls[d], i)'
    <3>1. CASE d # c
      <4>1. calls'[d] = calls[d]
        BY <1>0, <1>2, <3>1
      <4> QED BY <2>2, <4>1 DEF Spares
    <3>2. CASE d = c
      <4>1. calls'[c].pc # "supersede" /\ calls'[c].todo = others
        BY <1>0, <1>2 DEF CallType
      <4>2. calls[c].id = i
        BY <2>2, <3>2 DEF Spares, SupersedeOperatorLeases, At
      <4> QED BY <3>2, <4>1, <4>2 DEF Spares
    <3> QED BY <3>1, <3>2
  <2> QED BY <1>0, <2>1, <2>2 DEF ZeroInv
<1> QED BY <1>1, <1>2 DEF SupersedeOperatorLeases

LEMMA ZeroTerminate ==
  ASSUME IInv, ZeroInv, NEW c \in Calls, NEW j \in Issuances, TerminateSuperseded(c, j)
  PROVE  ZeroInv'
<1>0. /\ TypeOK /\ calls \in [Calls -> CallType]
      /\ operators \in [Issuances -> Statuses]
      /\ UNCHANGED <<raced, certs>>
      /\ At(c, "terminate") /\ j \in calls[c].todo
  BY DEF IInv, TypeOK, TerminateSuperseded
<1>1. CASE Back(c, "unissue") /\ UNCHANGED operators
  <2>1. Elsewhere
    BY <1>0, <1>1, MovedElsewhere DEF CallPcs, Back
  <2> QED BY <1>0, <1>1, <2>1, ZeroQuiet
<1>2. CASE /\ operators' = [operators EXCEPT ![j] = "terminated"]
           /\ calls' = [calls EXCEPT ![c].pc = IF calls[c].todo = {j} THEN "finish" ELSE @,
                                     ![c].todo = @ \ {j}]
  <2>0. operators[j] # "none"
    BY <1>0 DEF IInv, CallInv, CallOK, At
  <2>1. \A i \in Issuances : (operators'[i] = "none") <=> (operators[i] = "none")
    BY <1>0, <1>2, <2>0
  <2>2. \A i \in Issuances : Latest(i)' <=> Latest(i)
    BY <2>1 DEF Latest
  <2>3. ASSUME NEW i \in Issuances, NEW d \in Calls, Spares(calls[d], i) PROVE Spares(calls[d], i)'
    <3>1. CASE d # c
      <4>1. calls'[d] = calls[d]
        BY <1>0, <1>2, <3>1
      <4> QED BY <2>3, <4>1 DEF Spares
    <3>2. CASE d = c
      <4>1. calls'[c].pc \in {"finish", "terminate"} /\ calls'[c].todo = calls[c].todo \ {j}
        BY <1>0, <1>2 DEF CallType, At
      <4>2. i \notin calls[c].todo
        BY <1>0, <2>3, <3>2 DEF Spares, At
      <4> QED BY <3>2, <4>1, <4>2 DEF Spares
    <3> QED BY <3>1, <3>2
  <2>4. ASSUME NEW i \in Issuances, operators[i] = "active", Spares(calls[c], i)
        PROVE  operators'[i] = "active"
    BY <1>0, <1>2, <2>4 DEF Spares, At
  <2> QED BY <1>0, <2>1, <2>2, <2>3, <2>4 DEF ZeroInv
<1> QED BY <1>1, <1>2 DEF TerminateSuperseded

\* It comes after a revocation of certificates.
LEMMA ZeroWithdraw == ASSUME IInv, NEW c \in Calls, Withdraw(c) PROVE ZeroInv'
<1>1. calls[c].id \in certs /\ certs' = certs
  BY DEF IInv, TypeOK, CallInv, CallOK, Withdraw, At
<1> QED BY <1>1 DEF ZeroInv

\* The latest document was never terminated, so no heartbeat has read that.
LEMMA ZeroHeartbeat ==
  ASSUME IInv, ZeroInv, NEW b \in Beats,
         HeartbeatWrite(b) \/ \E i \in Issuances : HeartbeatRead(b, i)
  PROVE  ZeroInv'
<1>1. UNCHANGED <<calls, raced, certs>>
  BY DEF HeartbeatWrite, HeartbeatRead, grants
<1>2. CASE \E i \in Issuances : HeartbeatRead(b, i)
  BY <1>1, <1>2, ZeroQuiet DEF HeartbeatRead, grants, Elsewhere
<1>3. CASE HeartbeatWrite(b)
  <2>1. Written
    BY <1>3, HeartbeatWrites
  <2>2. \A i \in Issuances : Latest(i)' <=> Latest(i)
    BY <2>1 DEF Latest, Written
  <2>3. \A i \in Issuances, c \in Calls : Spares(calls[c], i)' <=> Spares(calls[c], i)
    BY <1>1 DEF Spares
  <2> QED BY <1>1, <2>1, <2>2, <2>3 DEF ZeroInv, Written
<1> QED BY <1>2, <1>3

LEMMA ZeroNext == ASSUME IInv, ZeroInv, [Next]_vars PROVE ZeroInv'
<1>0. TypeOK
  BY DEF IInv
<1>1. ASSUME NEW c \in Calls, NEW r \in Requests, Arrive(c, r) PROVE ZeroInv'
  <2>1. Elsewhere
    BY <1>0, <1>1, MovedElsewhere DEF Arrive, GetStatus, Decide, Complete, Revoke, CallPcs
  <2>2. UNCHANGED <<operators, raced, certs>>
    BY <1>1 DEF Arrive, GetStatus, Decide, Complete, Revoke, grants
  <2> QED BY <2>1, <2>2, ZeroQuiet
<1>2. ASSUME NEW c \in Calls,
             \/ ExpireRequest(c) \/ HandleDecide(c) \/ AcquireLease(c) \/ HandleIssue(c)
             \/ FinishIssue(c) \/ RollbackLease(c) \/ Reload(c) \/ SubmitDownstream(c)
             \/ HandlePersistPolicy(c) \/ RevokeCertificate(c) \/ MarkRevoked(c)
      PROVE  ZeroInv'
  <2>1. \/ Done(c)
        \/ \E pc \in {"issue", "sign", "policy", "withdraw"} : Goto(c, pc)
        \/ \E pc \in {"rollback", "reload"} : Back(c, pc)
        \/ Start(c, Req(c), "downstream", issued[Req(c)], "none")
    BY <1>2 DEF ExpireRequest, HandleDecide, AcquireLease, HandleIssue, FinishIssue, RollbackLease,
       Reload, SubmitDownstream, HandlePersistPolicy, RevokeCertificate, MarkRevoked, Answer
  <2>2. Elsewhere
    BY <1>0, <2>1, MovedElsewhere DEF CallPcs, Back
  <2>3. UNCHANGED <<operators, raced>> /\ certs \subseteq certs'
    BY <1>2 DEF ExpireRequest, HandleDecide, AcquireLease, HandleIssue, FinishIssue, RollbackLease,
       Reload, SubmitDownstream, HandlePersistPolicy, RevokeCertificate, MarkRevoked, grants
  <2> QED BY <2>2, <2>3, ZeroQuiet
<1>3. ASSUME NEW c \in Calls, Step(c) PROVE ZeroInv'
  BY <1>2, <1>3, ZeroSign, ZeroSupersede, ZeroTerminate, ZeroWithdraw DEF Step
<1>4. ASSUME UNCHANGED <<grants, raced, calls>> PROVE ZeroInv'
  BY <1>4, ZeroQuiet DEF grants, Elsewhere
<1>5. CASE \E r \in Requests : CreateRequest(r) \/ CleanupTerminalRequests(r)
  BY <1>4, <1>5 DEF CreateRequest, CleanupTerminalRequests
<1>6. CASE Cleanup \/ Tick
  BY <1>4, <1>6 DEF Cleanup, ReconcileList, ReconcileOne, ReconcileFails, Tick
<1>7. CASE Restart
  <2>1. Elsewhere
    BY <1>7, NoCallType DEF Restart, Elsewhere
  <2> QED BY <1>7, <2>1, ZeroQuiet DEF Restart, grants
<1>8. CASE UNCHANGED vars
  BY <1>4, <1>8 DEF vars
<1> QED BY <1>1, <1>3, <1>5, <1>6, <1>7, <1>8, ZeroHeartbeat DEF Next

(* However issuances fail or are cut short, once an Operator was written   *)
(* and before any revocation one is active, unless issuances overlapped.   *)
THEOREM EnrollmentNeverZero == Spec => []NeverZero
<1>1. Init => ZeroInv
  BY DEF Init, ZeroInv, Latest
<1>2. IInv /\ ZeroInv /\ [Next]_vars => ZeroInv'
  BY ZeroNext
<1>3. ZeroInv => NeverZero
  BY DEF ZeroInv, NeverZero
<1> QED BY SpecIInv, <1>1, <1>2, <1>3, PTL DEF Spec

-----------------------------------------------------------------------------
(***************************************************************************)
(* Refinement of CredentialGrant.  What IInv lacks is that an issuance has *)
(* one owner: the handler that signed it until the request stores it, and  *)
(* that request from then on.                                              *)
(***************************************************************************)
Signing(q) == q.pc \in {"supersede", "terminate", "finish"}

OwnerInv ==
    /\ \A r, s \in Requests : issued[r] # 0 /\ issued[r] = issued[s] => r = s
    /\ \A c \in Calls, r \in Requests : Signing(calls[c]) => issued[r] # calls[c].id
    /\ \A c, d \in Calls : Signing(calls[c]) /\ Signing(calls[d]) /\ calls[c].id = calls[d].id
                          => c = d
    /\ \A i \in certs : \E r \in Requests : issued[r] = i

\* No handler begins to hold an issuance.
SignersKeep ==
    \A d \in Calls :
        Signing(calls'[d]) => Signing(calls[d]) /\ calls'[d].id = calls[d].id

LEMMA OwnerQuiet ==
  ASSUME OwnerInv, SignersKeep, issued' = issued, certs' = certs PROVE OwnerInv'
<1> USE DEF OwnerInv
<1>1. \A c \in Calls, r \in Requests : Signing(calls'[c]) => issued[r] # calls'[c].id
  BY DEF SignersKeep
<1>2. \A c, d \in Calls : Signing(calls'[c]) /\ Signing(calls'[d]) /\ calls'[c].id = calls'[d].id
                         => c = d
  BY DEF SignersKeep
<1>3. (\A c \in Calls, r \in Requests : Signing(calls[c]) => issued[r] # calls[c].id)'
  BY <1>1 DEF Signing
<1>4. (\A c, d \in Calls : Signing(calls[c]) /\ Signing(calls[d]) /\ calls[c].id = calls[d].id
                         => c = d)'
  BY <1>2 DEF Signing
<1> QED BY <1>3, <1>4

LEMMA HandlersKeep ==
  ASSUME TypeOK, NEW c \in Calls
  PROVE  /\ calls' = calls => SignersKeep
         /\ Done(c) => SignersKeep
         /\ \A pc : pc \notin {"supersede", "terminate", "finish"} =>
               /\ Goto(c, pc) => SignersKeep
               /\ \A r, id, arg : Start(c, r, pc, id, arg) => SignersKeep
<1>0. calls \in [Calls -> CallType]
  BY DEF TypeOK
<1>1. calls' = calls => SignersKeep
  BY DEF SignersKeep
<1>2. Done(c) => SignersKeep
  BY <1>0, NoCallType DEF Done, SignersKeep, Signing
<1>3. ASSUME NEW pc, pc \notin {"supersede", "terminate", "finish"}, Goto(c, pc)
      PROVE  SignersKeep
  <2>1. calls'[c].pc = pc /\ \A d \in Calls \ {c} : calls'[d] = calls[d]
    BY <1>0, <1>3 DEF Goto, CallType
  <2> QED BY <1>3, <2>1 DEF SignersKeep, Signing
<1>4. ASSUME NEW pc, pc \notin {"supersede", "terminate", "finish"}, NEW r, NEW id, NEW arg,
             Start(c, r, pc, id, arg)
      PROVE  SignersKeep
  <2>1. calls'[c].pc = pc /\ \A d \in Calls \ {c} : calls'[d] = calls[d]
    BY <1>0, <1>4 DEF Start
  <2> QED BY <1>4, <2>1 DEF SignersKeep, Signing
<1> QED BY <1>1, <1>2, <1>3, <1>4

(* A new issuance is newer than all that are held. *)
LEMMA OwnerSign ==
  ASSUME IInv, OwnerInv, NEW c \in Calls, SignComponent(c) PROVE OwnerInv'
<1>0. /\ TypeOK /\ StateInv /\ CallInv /\ issued' = issued /\ issues \in Nat
      /\ calls \in [Calls -> CallType]
  BY EnrollmentAssumption DEF IInv, TypeOK, SignComponent, docs
<1>1. CASE Back(c, "unissue") /\ UNCHANGED <<grants, raced>>
  BY <1>0, <1>1, HandlersKeep, OwnerQuiet DEF grants, Back
<1>2. ASSUME NEW pc \in {"supersede", "finish"}, Start(c, Req(c), pc, issues + 1, "none"),
             certs' = certs
      PROVE  OwnerInv'
  <2>1. /\ \A r \in Requests : issued[r] # issues + 1
        /\ \A d \in Calls : calls[d].id # issues + 1
    <3>1. \A r \in Requests : issued[r] \in Nat /\ issued[r] <= issues
      BY <1>0, EnrollmentAssumption DEF StateInv, TypeOK
    <3>2. \A d \in Calls : calls[d].id \in Nat /\ calls[d].id <= issues
      BY <1>0, EnrollmentAssumption DEF CallInv, CallOK, CallType
    <3> QED BY <1>0, <3>1, <3>2
  <2>2. /\ calls'[c].id = issues + 1
        /\ \A d \in Calls \ {c} : calls'[d] = calls[d]
    BY <1>0, <1>2 DEF Start
  <2>3. \A d \in Calls, r \in Requests : Signing(calls'[d]) => issued'[r] # calls'[d].id
    BY <1>0, <2>1, <2>2 DEF OwnerInv
  <2>4. \A d, e \in Calls : Signing(calls'[d]) /\ Signing(calls'[e]) /\ calls'[d].id = calls'[e].id
                           => d = e
    BY <2>1, <2>2 DEF OwnerInv
  <2>5. (\A d \in Calls, r \in Requests : Signing(calls[d]) => issued[r] # calls[d].id)'
    BY <2>3 DEF Signing
  <2>6. (\A d, e \in Calls : Signing(calls[d]) /\ Signing(calls[e]) /\ calls[d].id = calls[e].id
                           => d = e)'
    BY <2>4 DEF Signing
  <2>7. /\ (\A r, s \in Requests : issued[r] # 0 /\ issued[r] = issued[s] => r = s)'
        /\ (\A i \in certs : \E r \in Requests : issued[r] = i)'
    BY <1>0, <1>2 DEF OwnerInv
  <2> QED BY <2>5, <2>6, <2>7 DEF OwnerInv
<1>3. \/ Back(c, "unissue") /\ UNCHANGED <<grants, raced>>
      \/ \E pc \in {"supersede", "finish"} :
            Start(c, Req(c), pc, issues + 1, "none") /\ certs' = certs
  BY DEF SignComponent
<1> QED BY <1>1, <1>2, <1>3

(* The handler hands its issuance over to the request. *)
LEMMA OwnerFinish ==
  ASSUME IInv, OwnerInv, NEW c \in Calls, FinishIssue(c) PROVE OwnerInv'
<1>0. /\ TypeOK /\ certs' = certs /\ Signing(calls[c]) /\ Req(c) \in Requests
      /\ calls \in [Calls -> CallType] /\ issued \in [Requests -> 0 .. MaxIssues]
  BY DEF IInv, TypeOK, FinishIssue, grants, Signing, At, Req, CallType
<1>1. SignersKeep /\ ~Signing(calls'[c]) /\ \A d \in Calls \ {c} : calls'[d] = calls[d]
  <2>1. Back(c, "reload") \/ Back(c, "rollback")
    BY DEF FinishIssue
  <2>2. SignersKeep
    BY <1>0, <2>1, HandlersKeep DEF Back
  <2> QED BY <1>0, <2>1, <2>2 DEF Back, Start, Signing
<1>2. CASE issued' = issued
  BY <1>0, <1>1, <1>2, OwnerQuiet
<1>3. CASE state[Req(c)] = "issuing" /\ issued' = [issued EXCEPT ![Req(c)] = calls[c].id]
  <2>0. issued[Req(c)] = 0
    BY <1>0, <1>3 DEF IInv, StateInv, Ended
  <2>1. /\ issued'[Req(c)] = calls[c].id
        /\ \A r \in Requests \ {Req(c)} : issued'[r] = issued[r]
    BY <1>0, <1>3
  <2>2. (\A r, s \in Requests : issued[r] # 0 /\ issued[r] = issued[s] => r = s)'
    BY <1>0, <2>1 DEF OwnerInv
  <2>3. \A d \in Calls : Signing(calls'[d]) => d # c /\ calls'[d] = calls[d] /\ calls[d].id # calls[c].id
    BY <1>0, <1>1 DEF OwnerInv
  <2>4. \A d \in Calls, r \in Requests : Signing(calls'[d]) => issued'[r] # calls'[d].id
    BY <1>0, <2>1, <2>3 DEF OwnerInv
  <2>5. \A d, e \in Calls : Signing(calls'[d]) /\ Signing(calls'[e]) /\ calls'[d].id = calls'[e].id
                           => d = e
    BY <2>3 DEF OwnerInv
  <2>6. (\A d \in Calls, r \in Requests : Signing(calls[d]) => issued[r] # calls[d].id)'
    BY <2>4 DEF Signing
  <2>7. (\A d, e \in Calls : Signing(calls[d]) /\ Signing(calls[e]) /\ calls[d].id = calls[e].id
                           => d = e)'
    BY <2>5 DEF Signing
  <2>8. ASSUME NEW i \in certs' PROVE \E r \in Requests : issued'[r] = i
    <3>1. i \in certs /\ i # 0
      BY <1>0, <2>8, EnrollmentAssumption DEF TypeOK, Issuances
    <3>2. PICK r \in Requests : issued[r] = i
      BY <3>1 DEF OwnerInv
    <3>3. r # Req(c)
      BY <2>0, <3>1, <3>2
    <3> QED BY <2>1, <3>2, <3>3
  <2> QED BY <2>2, <2>6, <2>7, <2>8 DEF OwnerInv
<1> QED BY <1>2, <1>3 DEF FinishIssue

LEMMA OwnerSupersede ==
  ASSUME IInv, OwnerInv, NEW c \in Calls,
         SupersedeOperatorLeases(c) \/ \E i \in Issuances : TerminateSuperseded(c, i)
  PROVE  OwnerInv'
<1>0. /\ TypeOK /\ certs' = certs /\ issued' = issued
      /\ calls \in [Calls -> CallType] /\ Signing(calls[c])
  BY DEF IInv, TypeOK, SupersedeOperatorLeases, TerminateSuperseded, grants, docs, Signing, At
<1>1. CASE Back(c, "unissue")
  BY <1>0, <1>1, HandlersKeep, OwnerQuiet DEF Back
<1>2. CASE \A d \in Calls : calls'[d].id = calls[d].id /\ (d # c => calls'[d] = calls[d])
  BY <1>0, <1>2, OwnerQuiet DEF SignersKeep
<1>3. ASSUME ~Back(c, "unissue")
      PROVE  \A d \in Calls : calls'[d].id = calls[d].id /\ (d # c => calls'[d] = calls[d])
  BY <1>0, <1>3 DEF SupersedeOperatorLeases, TerminateSuperseded, CallType
<1> QED BY <1>1, <1>2, <1>3

(* The certificates revoked are those of the credentials stored. *)
LEMMA OwnerRevoke ==
  ASSUME IInv, OwnerInv, NEW c \in Calls, RevokeCertificate(c) PROVE OwnerInv'
<1>0. /\ TypeOK /\ Req(c) \in Requests /\ calls[c].id = issued[Req(c)]
      /\ issued' = issued /\ certs' \in {certs, certs \cup {calls[c].id}}
  BY HolderKnows DEF RevokeCertificate, At, docs
<1>1. SignersKeep
  BY <1>0, HandlersKeep DEF RevokeCertificate
<1>2. \A i \in certs' : \E r \in Requests : issued[r] = i
  BY <1>0 DEF OwnerInv
<1>3. CASE certs' = certs
  BY <1>0, <1>1, <1>3, OwnerQuiet
<1>4. \A d \in Calls, r \in Requests : Signing(calls'[d]) => issued[r] # calls'[d].id
  BY <1>1 DEF SignersKeep, OwnerInv
<1>5. \A d, e \in Calls : Signing(calls'[d]) /\ Signing(calls'[e]) /\ calls'[d].id = calls'[e].id
                         => d = e
  BY <1>1 DEF SignersKeep, OwnerInv
<1>6. (\A d \in Calls, r \in Requests : Signing(calls[d]) => issued[r] # calls[d].id)'
  BY <1>0, <1>4 DEF Signing
<1>7. (\A d, e \in Calls : Signing(calls[d]) /\ Signing(calls[e]) /\ calls[d].id = calls[e].id
                         => d = e)'
  BY <1>5 DEF Signing
<1> QED BY <1>0, <1>2, <1>6, <1>7 DEF OwnerInv

LEMMA OwnerNext == ASSUME IInv, OwnerInv, [Next]_vars PROVE OwnerInv'
<1>0. TypeOK
  BY DEF IInv
<1>1. ASSUME NEW c \in Calls, NEW r \in Requests, Arrive(c, r) PROVE OwnerInv'
  <2>1. SignersKeep
    BY <1>0, <1>1, HandlersKeep DEF Arrive, GetStatus, Decide, Complete, Revoke
  <2>2. UNCHANGED <<issued, certs>>
    BY <1>1 DEF Arrive, GetStatus, Decide, Complete, Revoke, grants, docs
  <2> QED BY <2>1, <2>2, OwnerQuiet
<1>2. ASSUME NEW c \in Calls,
             \/ ExpireRequest(c) \/ HandleDecide(c) \/ AcquireLease(c) \/ HandleIssue(c)
             \/ RollbackLease(c) \/ Reload(c) \/ SubmitDownstream(c)
             \/ HandlePersistPolicy(c) \/ Withdraw(c) \/ MarkRevoked(c)
      PROVE  OwnerInv'
  <2>1. \/ Done(c)
        \/ \E pc \in {"issue", "sign", "policy", "mark"} : Goto(c, pc)
        \/ Back(c, "rollback")
        \/ Start(c, Req(c), "downstream", issued[Req(c)], "none")
    BY <1>2 DEF ExpireRequest, HandleDecide, AcquireLease, HandleIssue, RollbackLease,
       Reload, SubmitDownstream, HandlePersistPolicy, Withdraw, MarkRevoked, Answer
  <2>2. SignersKeep
    BY <1>0, <2>1, HandlersKeep DEF Back
  <2>3. UNCHANGED <<issued, certs>>
    BY <1>2 DEF ExpireRequest, HandleDecide, AcquireLease, HandleIssue, RollbackLease,
       Reload, SubmitDownstream, HandlePersistPolicy, Withdraw, MarkRevoked, grants, docs
  <2> QED BY <2>2, <2>3, OwnerQuiet
<1>3. ASSUME NEW c \in Calls, Step(c) PROVE OwnerInv'
  BY <1>2, <1>3, OwnerSign, OwnerSupersede, OwnerFinish, OwnerRevoke DEF Step
<1>4. ASSUME UNCHANGED <<issued, certs, calls>> PROVE OwnerInv'
  BY <1>4, OwnerQuiet DEF SignersKeep
<1>5. CASE \E r \in Requests : CreateRequest(r) \/ CleanupTerminalRequests(r)
  BY <1>4, <1>5 DEF CreateRequest, CleanupTerminalRequests, grants
<1>6. CASE Cleanup \/ Tick
  BY <1>4, <1>6 DEF Cleanup, ReconcileList, ReconcileOne, ReconcileFails, Tick, docs, grants
<1>7. CASE Restart
  <2>1. SignersKeep
    BY <1>7, NoCallType DEF Restart, SignersKeep, Signing
  <2> QED BY <1>7, <2>1, OwnerQuiet DEF Restart, grants, docs
<1>8. CASE UNCHANGED vars
  BY <1>4, <1>8 DEF vars, docs, grants
<1>9. CASE \E b \in Beats : HeartbeatWrite(b) \/ \E i \in Issuances : HeartbeatRead(b, i)
  BY <1>4, <1>9 DEF HeartbeatWrite, HeartbeatRead, docs, grants
<1> QED BY <1>1, <1>3, <1>5, <1>6, <1>7, <1>8, <1>9 DEF Next

-----------------------------------------------------------------------------
(***************************************************************************)
(* The steps of CredentialGrant.                                           *)
(***************************************************************************)
Promised == [Promise!CNext]_(Promise!cvars)

\* What the promise sees apart from the states.
Behind == <<issued, answers, certs>>

(* The phases of the states. *)
LEMMA PhasesOf ==
  /\ PhaseOf("none") = "none" /\ PhaseOf("pending") = "asked"
  /\ PhaseOf("approved") = "approved" /\ PhaseOf("issuing") = "approved"
  /\ PhaseOf("completed") = "granted" /\ PhaseOf("revoked") = "revoked"
  /\ PhaseOf("denied") = "refused" /\ PhaseOf("expired") = "refused"
  /\ PhaseOf("removed") = "refused"
BY DEF PhaseOf

LEMMA PhaseMoves ==
  ASSUME TypeOK, NEW r \in Requests, NEW s \in States, state' = [state EXCEPT ![r] = s]
  PROVE  Phases[r] = PhaseOf(state[r]) /\ Phases' = [Phases EXCEPT ![r] = PhaseOf(s)]
BY DEF TypeOK, Phases

LEMMA QuietPromised == ASSUME UNCHANGED <<state, Behind>> PROVE Promised
BY DEF Promised, Promise!cvars, Behind, Phases, Withdrawn

(* A request changes its state, and nothing else that the promise sees. *)
LEMMA MovePromised ==
  ASSUME TypeOK, NEW r \in Requests, NEW s \in States, state' = [state EXCEPT ![r] = s],
         UNCHANGED Behind,
         \/ state[r] = "none" /\ s = "pending"
         \/ state[r] = "pending" /\ s = "approved"
         \/ state[r] \in Live /\ s = "expired"
         \/ state[r] = "pending" /\ s = "denied"
         \/ state[r] = "approved" /\ s = "issuing"
         \/ state[r] = "issuing" /\ s = "approved"
         \/ state[r] \in {"denied", "expired"} /\ s = "removed"
         \/ state[r] = "completed" /\ s = "revoked" /\ r \in Withdrawn
  PROVE  Promised
<1>0. /\ Phases[r] = PhaseOf(state[r]) /\ Phases' = [Phases EXCEPT ![r] = PhaseOf(s)]
      /\ Withdrawn' = Withdrawn /\ issued' = issued /\ answers' = answers
  BY PhaseMoves DEF Behind, Withdrawn
<1>1. CASE state[r] = "none" /\ s = "pending"
  <2>1. Promise!Ask(r)
    BY <1>0, <1>1, PhasesOf DEF Promise!Ask, Promise!Turn
  <2> QED BY <2>1 DEF Promised, Promise!CNext
<1>2. CASE state[r] = "pending" /\ s = "approved"
  <2>1. Promise!Approve(r)
    BY <1>0, <1>2, PhasesOf DEF Promise!Approve, Promise!Turn
  <2> QED BY <2>1 DEF Promised, Promise!CNext
<1>3. CASE \/ state[r] \in Live /\ s = "expired"
           \/ state[r] = "pending" /\ s = "denied"
  <2>1. Phases[r] \in {"asked", "approved"} /\ PhaseOf(s) = "refused"
    BY <1>0, <1>3, PhasesOf DEF Live
  <2>2. Promise!Refuse(r)
    BY <1>0, <2>1 DEF Promise!Refuse, Promise!Turn
  <2> QED BY <2>2 DEF Promised, Promise!CNext
<1>4. CASE PhaseOf(s) = Phases[r]
  <2>1. Phases' = Phases
    BY <1>0, <1>4 DEF Phases
  <2> QED BY <1>0, <2>1 DEF Promised, Promise!cvars
<1>5. CASE state[r] = "completed" /\ s = "revoked" /\ r \in Withdrawn
  <2>1. Promise!Revoke(r)
    BY <1>0, <1>5, PhasesOf DEF Promise!Revoke, Promise!Turn
  <2> QED BY <2>1 DEF Promised, Promise!CNext
<1>6. CASE \/ state[r] = "approved" /\ s = "issuing"
           \/ state[r] = "issuing" /\ s = "approved"
           \/ state[r] \in {"denied", "expired"} /\ s = "removed"
  BY <1>0, <1>4, <1>6, PhasesOf
<1> QED BY <1>1, <1>2, <1>3, <1>5, <1>6

(* The same for a conditional update. *)
LEMMA UpdatePromised ==
  ASSUME TypeOK, NEW r \in Requests, NEW old, NEW new \in States, Move(r, old, new),
         UNCHANGED Behind,
         \/ old \in Live /\ new = "expired"
         \/ old = "pending" /\ new \in {"approved", "denied"}
         \/ old = "issuing" /\ new = "approved"
         \/ old = "completed" /\ new = "revoked" /\ r \in Withdrawn
  PROVE  Promised
<1>1. CASE state[r] = old
  <2>1. state' = [state EXCEPT ![r] = new]
    BY <1>1 DEF Move
  <2> QED BY <1>1, <2>1, MovePromised
<1>2. CASE state[r] # old
  <2>1. state' = state
    BY <1>2 DEF Move
  <2> QED BY <2>1, QuietPromised
<1> QED BY <1>1, <1>2

LEMMA StatesPromised ==
  ASSUME IInv, NEW c \in Calls,
         ExpireRequest(c) \/ HandleDecide(c) \/ AcquireLease(c) \/ RollbackLease(c) \/ MarkRevoked(c)
  PROVE  Promised
<1>0. /\ TypeOK /\ calls[c] \in CallType /\ CallOK(calls[c]) /\ Req(c) \in Requests
      /\ {"pending", "issuing", "approved", "revoked", "expired", "denied"} \subseteq States
      /\ state \in [Requests -> States]
  BY DEF IInv, TypeOK, CallInv, Req, CallType, States, Live
<1>1. UNCHANGED Behind
  BY DEF ExpireRequest, HandleDecide, AcquireLease, RollbackLease, MarkRevoked, Behind, grants
<1>2. CASE ExpireRequest(c)
  <2>1. calls[c].arg \in Live /\ Move(Req(c), calls[c].arg, "expired")
    BY <1>0, <1>2 DEF ExpireRequest, At, CallOK
  <2> QED BY <1>0, <1>1, <2>1, UpdatePromised
<1>3. CASE HandleDecide(c)
  <2>1. calls[c].arg \in {"approved", "denied"} /\ Move(Req(c), "pending", calls[c].arg)
    BY <1>0, <1>3 DEF HandleDecide, At, CallOK
  <2> QED BY <1>0, <1>1, <2>1, UpdatePromised
<1>4. CASE AcquireLease(c)
  <2>1. CASE state' = state
    BY <1>1, <2>1, QuietPromised
  <2>2. CASE state[Req(c)] = "approved" /\ state' = [state EXCEPT ![Req(c)] = "issuing"]
    BY <1>0, <1>1, <2>2, MovePromised
  <2> QED BY <1>4, <2>1, <2>2 DEF AcquireLease
<1>5. CASE RollbackLease(c)
  <2>1. Move(Req(c), "issuing", "approved")
    BY <1>5 DEF RollbackLease
  <2> QED BY <1>0, <1>1, <2>1, UpdatePromised
<1>6. CASE MarkRevoked(c)
  <2>1. /\ calls[c].id = issued[Req(c)] /\ calls[c].id \in certs
        /\ kind[Req(c)] = "operator" => operators[calls[c].id] \in Terminated
        /\ Move(Req(c), "completed", "revoked")
    BY <1>0, <1>6 DEF MarkRevoked, At, CallOK, Req
  <2>2. Req(c) \in Withdrawn
    BY <1>0, <2>1 DEF Withdrawn
  <2> QED BY <1>0, <1>1, <2>1, <2>2, UpdatePromised
<1> QED BY <1>2, <1>3, <1>4, <1>5, <1>6

(* The issuance stored is nobody's yet and none of its certificates revoked. *)
LEMMA FinishPromised ==
  ASSUME IInv, OwnerInv, NEW c \in Calls, FinishIssue(c) PROVE Promised
<1>0. /\ TypeOK /\ Req(c) \in Requests /\ Signing(calls[c]) /\ CallOK(calls[c])
      /\ calls[c].id \in 0 .. MaxIssues /\ issued \in [Requests -> 0 .. MaxIssues]
      /\ UNCHANGED <<kind, answers, certs, operators>>
  BY DEF IInv, TypeOK, CallInv, Req, CallType, FinishIssue, Signing, At, grants
<1>1. CASE UNCHANGED <<state, issued>>
  BY <1>0, <1>1, QuietPromised DEF Behind
<1>2. CASE /\ state[Req(c)] = "issuing"
           /\ state' = [state EXCEPT ![Req(c)] = "completed"]
           /\ issued' = [issued EXCEPT ![Req(c)] = calls[c].id]
  <2>1. calls[c].id \in Issuances
    BY <1>0, EnrollmentAssumption DEF CallOK, Signing, Issuances
  <2>2. \A s \in Requests : issued[s] # calls[c].id
    BY <1>0 DEF OwnerInv
  <2>3. Phases[Req(c)] = "approved" /\ Phases' = [Phases EXCEPT ![Req(c)] = "granted"]
    <3>1. "completed" \in States
      BY DEF States
    <3>2. /\ Phases[Req(c)] = PhaseOf("issuing")
          /\ Phases' = [Phases EXCEPT ![Req(c)] = PhaseOf("completed")]
      BY <1>0, <1>2, <3>1, PhaseMoves
    <3> QED BY <3>2, PhasesOf
  <2>4. calls[c].id \notin certs
    BY <2>2 DEF OwnerInv
  <2>5. issued[Req(c)] \notin certs
    <3>1. issued[Req(c)] = 0
      BY <1>0, <1>2 DEF IInv, StateInv, Ended
    <3> QED BY <1>0, <3>1, EnrollmentAssumption DEF TypeOK, Issuances
  <2>6. Withdrawn' = Withdrawn
    <3>1. \A r \in Requests \ {Req(c)} : issued'[r] = issued[r]
      BY <1>0, <1>2
    <3>2. issued'[Req(c)] = calls[c].id
      BY <1>0, <1>2
    <3>3. \A r \in Requests : r \in Withdrawn' <=> r \in Withdrawn
      BY <1>0, <2>4, <2>5, <3>1, <3>2 DEF Withdrawn
    <3> QED BY <3>3 DEF Withdrawn
  <2>7. Promise!Grant(Req(c), calls[c].id)
    BY <1>0, <1>2, <2>2, <2>3, <2>6 DEF Promise!Grant, Promise!Turn
  <2> QED BY <1>0, <2>1, <2>7 DEF Promised, Promise!CNext
<1> QED BY <1>1, <1>2 DEF FinishIssue

(* A call is answered with the credential that its request stores. *)
LEMMA TellPromised ==
  ASSUME IInv, NEW c \in Calls, SubmitDownstream(c) \/ HandlePersistPolicy(c)
  PROVE  Promised
<1>0. /\ TypeOK /\ OneAnswer /\ StateInv /\ Req(c) \in Requests /\ calls[c].id # 0
      /\ calls[c].id = issued[Req(c)]
  BY HolderKnows, EnrollmentAssumption DEF SubmitDownstream, HandlePersistPolicy, At, IInv, Issuances
<1>1. UNCHANGED <<state, kind, issued, certs, operators>>
  BY DEF SubmitDownstream, HandlePersistPolicy, docs
<1>2. UNCHANGED <<Phases, Withdrawn>>
  BY <1>1 DEF Phases, Withdrawn
<1>3. CASE answers' = answers
  BY <1>1, <1>3, QuietPromised DEF Behind
<1>4. CASE answers' = [answers EXCEPT ![Req(c)] = @ \cup {calls[c].id}]
  <2>1. answers[Req(c)] \subseteq {issued[Req(c)]}
    BY <1>0 DEF OneAnswer
  <2>2. answers[Req(c)] \cup {calls[c].id} = {issued[Req(c)]}
    BY <1>0, <2>1
  <2>3. answers' = [answers EXCEPT ![Req(c)] = {issued[Req(c)]}]
    BY <1>4, <2>2
  <2>4. Phases[Req(c)] \in {"granted", "revoked"}
    BY <1>0, PhasesOf DEF StateInv, Ended, Phases
  <2>5. Promise!Tell(Req(c))
    BY <1>1, <1>2, <2>3, <2>4 DEF Promise!Tell
  <2> QED BY <1>0, <2>5 DEF Promised, Promise!CNext
<1> QED BY <1>3, <1>4 DEF SubmitDownstream, HandlePersistPolicy, Answer

(* A revocation takes away the credentials of one request. *)
LEMMA WithdrawPromised ==
  ASSUME IInv, OwnerInv, NEW i \in Issuances, UNCHANGED <<state, issued, answers>>,
         certs' \in {certs, certs \cup {i}}
  PROVE  Promised
<1>0. StateInv /\ RevokedIsDead /\ i # 0
  BY EnrollmentAssumption DEF IInv, Issuances
<1>p. Phases' = Phases
  BY DEF Phases
<1>1. \A r \in Requests : /\ r \in Withdrawn => r \in Withdrawn'
                          /\ issued[r] # i => (r \in Withdrawn' <=> r \in Withdrawn)
  BY DEF Withdrawn
<1>2. CASE Withdrawn' = Withdrawn
  BY <1>p, <1>2 DEF Promised, Promise!cvars
<1>3. CASE Withdrawn' # Withdrawn
  <2>1. PICK r \in Requests : r \in Withdrawn' /\ r \notin Withdrawn
    BY <1>1, <1>3 DEF Withdrawn
  <2>2. issued[r] = i
    BY <1>1, <2>1
  <2>3. \A s \in Requests : issued[s] = i => s = r
    BY <1>0, <2>2 DEF OwnerInv
  <2>4. Withdrawn' = Withdrawn \cup {r}
    BY <1>1, <2>1, <2>3 DEF Withdrawn
  <2>5. state[r] = "completed"
    <3>1. state[r] \in Ended
      BY <1>0, <2>2 DEF StateInv
    <3>2. state[r] # "revoked"
      BY <1>0, <2>1 DEF RevokedIsDead, Withdrawn
    <3> QED BY <3>1, <3>2 DEF Ended
  <2>6. Phases[r] = "granted"
    BY <2>5, PhasesOf DEF Phases
  <2>7. Promise!Withdraw(r)
    BY <1>p, <2>4, <2>6 DEF Promise!Withdraw
  <2> QED BY <2>7 DEF Promised, Promise!CNext
<1> QED BY <1>2, <1>3

(* A signing is not seen until its request stores the issuance. *)
LEMMA SignPromised == ASSUME NEW c \in Calls, SignComponent(c) PROVE Promised
<1>1. UNCHANGED <<state, Behind>>
  BY DEF SignComponent, Behind, docs, grants
<1> QED BY <1>1, QuietPromised

LEMMA NextPromised == ASSUME IInv, OwnerInv, [Next]_vars PROVE Promised
<1>0. TypeOK /\ {"pending", "approved", "expired", "removed"} \subseteq States
  BY DEF IInv, States, Live
<1>1. ASSUME NEW c \in Calls, RevokeCertificate(c) PROVE Promised
  <2>1. calls[c].id \in Issuances
    BY <1>1, HolderKnows DEF RevokeCertificate, At
  <2>2. UNCHANGED <<state, issued, answers>> /\ certs' \in {certs, certs \cup {calls[c].id}}
    BY <1>1 DEF RevokeCertificate, docs
  <2> QED BY <2>1, <2>2, WithdrawPromised
<1>2. ASSUME NEW c \in Calls, Withdraw(c) \/ \E i \in Issuances : TerminateSuperseded(c, i)
      PROVE  Promised
  <2>1. UNCHANGED <<state, Behind>>
    BY <1>2 DEF Withdraw, TerminateSuperseded, Behind, docs
  <2> QED BY <2>1, QuietPromised
<1>3. ASSUME NEW c \in Calls, HandleIssue(c) \/ SupersedeOperatorLeases(c) \/ Reload(c)
      PROVE  Promised
  <2>1. UNCHANGED <<state, Behind>>
    BY <1>3 DEF HandleIssue, SupersedeOperatorLeases, Reload, Behind, docs, grants
  <2> QED BY <2>1, QuietPromised
<1>4. ASSUME NEW c \in Calls, Step(c) PROVE Promised
  BY <1>1, <1>2, <1>3, <1>4, StatesPromised, SignPromised, FinishPromised, TellPromised DEF Step
<1>5. ASSUME NEW r \in Requests, CreateRequest(r) PROVE Promised
  <2>1. state[r] = "none" /\ state' = [state EXCEPT ![r] = "pending"] /\ UNCHANGED Behind
    BY <1>5 DEF CreateRequest, Behind, grants
  <2> QED BY <1>0, <2>1, MovePromised
<1>6. ASSUME NEW r \in Requests, CleanupTerminalRequests(r) PROVE Promised
  <2>1. /\ state[r] \in {"denied", "expired"} /\ state' = [state EXCEPT ![r] = "removed"]
        /\ UNCHANGED Behind
    BY <1>6 DEF CleanupTerminalRequests, Behind, grants
  <2> QED BY <1>0, <2>1, MovePromised
<1>7. ASSUME NEW r \in Requests, ReconcileOne(r) PROVE Promised
  <2>1. UNCHANGED Behind
    BY <1>7 DEF ReconcileOne, Behind, grants
  <2>2. Move(r, "issuing", "approved") \/ Move(r, "issuing", "expired")
    BY <1>7 DEF ReconcileOne
  <2> QED BY <1>0, <2>1, <2>2, UpdatePromised DEF Live
<1>8. CASE (\E c \in Calls, r \in Requests : Arrive(c, r)) \/ ReconcileList \/ Tick \/ Restart
           \/ UNCHANGED vars
  <2>1. UNCHANGED <<docs, grants, answers>>
    BY <1>8 DEF Arrive, GetStatus, Decide, Complete, Revoke, ReconcileList, Tick, Restart, vars
  <2> QED BY <2>1, QuietPromised DEF docs, grants, Behind
<1>9. CASE \/ \E b \in Beats : HeartbeatWrite(b) \/ \E i \in Issuances : HeartbeatRead(b, i)
           \/ \E r \in Requests : ReconcileFails(r)
  <2>1. UNCHANGED <<state, Behind>>
    BY <1>9 DEF HeartbeatWrite, HeartbeatRead, ReconcileFails, docs, grants, Behind
  <2> QED BY <2>1, QuietPromised
<1> QED BY <1>4, <1>5, <1>6, <1>7, <1>8, <1>9 DEF Next, Cleanup

(* Enrollment keeps the promise of CredentialGrant, for every number of    *)
(* requests, handlers and issuances: one credential for each request, its  *)
(* own, granted after approval, the only one told, its certificates        *)
(* revoked for good before the request says revoked.                       *)
THEOREM EnrollmentImplementsCredentialGrant == Spec => ImplementsCredentialGrant
<1>1. Init => OwnerInv
  <2> SUFFICES ASSUME Init PROVE OwnerInv
    OBVIOUS
  <2>1. \A c \in Calls : ~Signing(calls[c])
    BY NoCallType DEF Init, Signing
  <2> QED BY <2>1 DEF Init, OwnerInv
<1>2. Init => Promise!CInit
  <2> SUFFICES ASSUME Init PROVE Promise!CInit
    OBVIOUS
  <2>1. Phases = [r \in Requests |-> "none"]
    BY PhasesOf DEF Init, Phases
  <2>2. Withdrawn = {}
    BY DEF Init, Withdrawn
  <2> QED BY <2>1, <2>2 DEF Init, Promise!CInit
<1>3. IInv /\ OwnerInv /\ [Next]_vars => OwnerInv'
  BY OwnerNext
<1>4. IInv /\ OwnerInv /\ [Next]_vars => [Promise!CNext]_(Promise!cvars)
  BY NextPromised DEF Promised
<1> QED BY SpecIInv, <1>1, <1>2, <1>3, <1>4, PTL DEF Spec, ImplementsCredentialGrant, Promise!CSpec
=============================================================================
