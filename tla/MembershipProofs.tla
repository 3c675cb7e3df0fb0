-------------------------- MODULE MembershipProofs --------------------------
(***************************************************************************)
(* Theorems about Membership and the members screen over it, for any set   *)
(* of calls, any selection of operations, any people and roles.            *)
(***************************************************************************)
EXTENDS MembersPage, FiniteSetTheorems, TLAPS

-----------------------------------------------------------------------------
(* The inductive invariant.                                                 *)

KindAt(step) ==
  CASE step = "guard" -> {"setRoles", "invite", "revoke"}
    [] step \in {"member", "count", "delete", "replace"} -> {"setRoles"}
    [] step \in {"existing", "retire", "issue"} -> {"invite"}
    [] step \in {"find", "revoke"} -> {"revoke"}
    [] step \in {"resolve", "taken", "consume"} -> {"accept"}
    [] step \in {"available", "create"} -> {"register"}
    [] OTHER -> AllCallKinds \cup {"none"}

\* The companies that exist: the first, and those whose register has ended.
Opened(co) == co = Home \/ call[co].at = "done"

\* What a request under way is about.
CallsInv ==
  \A c \in Calls :
    /\ call[c].kind \in KindAt(call[c].at)
    /\ call[c].at \notin {"idle", "done"} =>
         /\ call[c].kind \in {"setRoles", "invite", "accept", "register"} =>
              call[c].person \in People /\ call[c].roles # {}
         /\ call[c].kind \in {"revoke", "accept"} =>
              call[c].invite \in Links /\ invites[call[c].invite].made
         /\ call[c].kind = "accept" =>
              /\ call[c].company = invites[call[c].invite].company
              /\ call[c].person = invites[call[c].invite].person
         /\ call[c].kind = "register" => call[c].company = c
         /\ call[c].kind # "register" => Opened(call[c].company)

\* What an invitation says is what its call said, and it was made once.
InvitesInv ==
  \A i \in Links :
    /\ invites[i].made => invites[i].person \in People /\ invites[i].roles # {}
                          /\ Opened(invites[i].company)
    /\ invites[i].accepted \/ invites[i].revoked => invites[i].made
    /\ i \in Calls /\ invites[i].made => call[i].at = "done"

\* A company has members only once it was opened.
AccountsInv == \A a \in Accounts : holds[a] # {} => Opened(a[1])

\* A call is counted as answered by those that began after it was.
BeforeInv == \A c, d \in Calls : d \in call[c].before => call[d].ok

OkInv == \A c \in Calls : call[c].ok => call[c].at = "done"

\* The rows of a member were inserted by calls that were answered.
RowsInv ==
  \A a \in Accounts : \A r \in holds[a] :
    r[2] \in Calls => call[r[2]].ok

\* A change of roles that has begun to delete meets, besides what it saw, only
\* what other changes have inserted since.
SeenInv ==
  \A c \in Calls :
    /\ call[c].at \in {"count", "delete", "replace"} => MemberHolds(c) # {}
    /\ call[c].at = "replace" =>
         \A r \in MemberHolds(c) \ call[c].rows :
           /\ r[2] \in Calls /\ Answered(r[2], "setRoles")
           /\ r[2] \notin call[c].before

ShapeInv == CallsInv /\ InvitesInv /\ AccountsInv
RolesInv == BeforeInv /\ OkInv /\ RowsInv /\ SeenInv /\ MixedOnlyTogether
IInv == TypeOK /\ ShapeInv /\ RolesInv /\ OneAcceptance

-----------------------------------------------------------------------------
(* One call takes a step.                                                   *)

LEMMA InitInvariant == Init => IInv
<1> SUFFICES ASSUME Init PROVE IInv
  OBVIOUS
<1>1. PICK p \in People, q \in Roles \ {Owner} :
        invites = [i \in Links |-> IF i \in Sent /\ ~Exists(Home, p)
                                     THEN SentInvite(p, q) ELSE NoInvite]
  BY DEF Init
<1>2. NoInvite \in Invite /\ SentInvite(p, q) \in Invite
  BY DEF NoInvite, SentInvite, Invite, Companies
<1>3. \A i \in Links : /\ invites[i] \in Invite /\ ~invites[i].accepted /\ ~invites[i].revoked
                       /\ invites[i].company = Home
                       /\ invites[i].made => /\ i \in Sent /\ invites[i].person = p
                                             /\ invites[i].roles = {q}
  BY <1>1, <1>2 DEF NoInvite, SentInvite
<1>4. invites \in [Links -> Invite]
  BY <1>1, <1>2
<1>5. NoCall \in Call /\ call = [c \in Calls |-> NoCall]
  BY NamesAssumption DEF Init, NoCall, Call, Companies, CallSteps
<1>6. \A c \in Calls : /\ call[c].kind = "none" /\ call[c].at = "idle" /\ ~call[c].ok
                       /\ call[c].before = {}
  BY <1>5 DEF NoCall
<1>7. holds \in [Accounts -> SUBSET UserRole]
  BY DEF Init, UserRole
<1>8. \A a \in Accounts : /\ a[1] # Home => holds[a] = {}
                          /\ \A r, s \in holds[a] : r = s /\ r[2] = None
  BY DEF Init
<1>9. TypeOK
  BY <1>3, <1>4, <1>5, <1>7 DEF TypeOK
<1>10. CallsInv
  BY <1>6 DEF CallsInv, KindAt
<1>11. InvitesInv
  BY <1>3, NamesAssumption DEF InvitesInv, Opened
<1>12. AccountsInv
  BY <1>8 DEF AccountsInv, Opened
<1>13. RolesInv
  BY <1>6, <1>8, NamesAssumption
  DEF RolesInv, BeforeInv, OkInv, RowsInv, SeenInv, MixedOnlyTogether
<1>14. OneAcceptance
  BY <1>3 DEF OneAcceptance
<1>15. QED BY <1>9, <1>10, <1>11, <1>12, <1>13, <1>14 DEF IInv, ShapeInv

\* The step is one of the call c, which had not ended.
StepOf(c) ==
  /\ c \in Calls /\ call[c].at # "done"
  /\ call' \in [Calls -> Call]
  /\ \A d \in Calls : d # c => call'[d] = call[d]

\* A call that has not ended is in no list of answered calls, and inserted no row.
LEMMA NotAnswered ==
  ASSUME IInv, NEW c \in Calls, call[c].at # "done"
  PROVE  /\ ~call[c].ok
         /\ \A d \in Calls : c \notin call[d].before
         /\ \A a \in Accounts : \A r \in holds[a] : r[2] # c
BY DEF IInv, RolesInv, OkInv, BeforeInv, RowsInv

LEMMA OpenedStays ==
  ASSUME NEW c, StepOf(c), NEW co \in Companies, Opened(co)
  PROVE  Opened(co)'
BY DEF StepOf, Opened, Companies

\* A step that leaves every account as it is.
LEMMA QuietRoles ==
  ASSUME IInv, NEW c \in Calls, StepOf(c), UNCHANGED holds,
         call'[c].before \subseteq {d \in Calls : call[d].ok},
         call'[c].ok => call'[c].at = "done",
         call'[c].at \in {"count", "delete", "replace"} => MemberHolds(c)' # {},
         call'[c].at = "replace" => MemberHolds(c)' \subseteq call'[c].rows
  PROVE  RolesInv'
<1>1. /\ ~call[c].ok
      /\ \A d \in Calls : c \notin call[d].before
      /\ \A a \in Accounts : \A r \in holds[a] : r[2] # c
  BY NotAnswered DEF StepOf
<1>2. \A d \in Calls : d # c => call'[d] = call[d]
  BY DEF StepOf
<1>3. BeforeInv' /\ OkInv'
  BY <1>1, <1>2 DEF IInv, RolesInv, BeforeInv, OkInv
<1>4. RowsInv'
  BY <1>1, <1>2 DEF IInv, RolesInv, RowsInv
<1>5. ASSUME NEW d \in Calls, d # c
      PROVE  /\ call'[d].at \in {"count", "delete", "replace"} => MemberHolds(d)' # {}
             /\ call'[d].at = "replace" =>
                  \A r \in MemberHolds(d)' \ call'[d].rows :
                    /\ r[2] \in Calls /\ Answered(r[2], "setRoles")'
                    /\ r[2] \notin call'[d].before
  <2>1. MemberHolds(d)' = MemberHolds(d) /\ call'[d] = call[d]
    BY <1>2, <1>5 DEF MemberHolds
  <2>2. \A e \in Calls : Answered(e, "setRoles") => Answered(e, "setRoles")'
    BY <1>1, <1>2 DEF Answered
  <2>3. QED BY <2>1, <2>2 DEF IInv, RolesInv, SeenInv
<1>6. SeenInv'
  BY <1>5 DEF SeenInv
<1>7. \A d, e \in Calls : Together("setRoles", d, e) => Together("setRoles", d, e)'
  BY <1>1, <1>2 DEF Together, Answered, Overlap
<1>8. MixedOnlyTogether'
  BY <1>7 DEF IInv, RolesInv, MixedOnlyTogether
<1>9. QED BY <1>3, <1>4, <1>6, <1>8 DEF RolesInv

\* A step that leaves every account and every invitation as they are.
LEMMA QuietShape ==
  ASSUME IInv, NEW c \in Calls, StepOf(c), UNCHANGED <<holds, invites>>,
         call'[c].kind \in KindAt(call'[c].at),
         call'[c].at \notin {"idle", "done"} =>
           /\ call'[c].kind \in {"setRoles", "invite", "accept", "register"} =>
                call'[c].person \in People /\ call'[c].roles # {}
           /\ call'[c].kind \in {"revoke", "accept"} =>
                call'[c].invite \in Links /\ invites[call'[c].invite].made
           /\ call'[c].kind = "accept" =>
                /\ call'[c].company = invites[call'[c].invite].company
                /\ call'[c].person = invites[call'[c].invite].person
           /\ call'[c].kind = "register" => call'[c].company = c
           /\ call'[c].kind # "register" => Opened(call'[c].company)
  PROVE  TypeOK' /\ ShapeInv' /\ OneAcceptance'
<1>1. \A d \in Calls : d # c => call'[d] = call[d]
  BY DEF StepOf
<1>2. \A co \in Companies : Opened(co) => Opened(co)'
  BY OpenedStays
<1>3. \A d \in Calls : call'[d].company \in Companies /\ call[d].company \in Companies
  BY DEF StepOf, Call, IInv, TypeOK
<1>4. CallsInv'
  BY <1>1, <1>2, <1>3 DEF CallsInv, IInv, ShapeInv
<1>5. \A i \in Links : invites[i].company \in Companies
  BY DEF IInv, TypeOK, Invite
<1>6. InvitesInv'
  BY <1>1, <1>2, <1>5 DEF InvitesInv, IInv, ShapeInv, StepOf
<1>7. AccountsInv'
  BY <1>2 DEF AccountsInv, IInv, ShapeInv, Accounts
<1>8. TypeOK' /\ OneAcceptance'
  BY DEF IInv, TypeOK, OneAcceptance, StepOf
<1>9. QED BY <1>4, <1>6, <1>7, <1>8 DEF ShapeInv

-----------------------------------------------------------------------------
(* Steps that read.                                                         *)

\* A call begins with a request that is well formed.
LEMMA BeginInvariant ==
  ASSUME IInv, NEW c \in Calls, NEW request \in Call, Begin(c, request),
         request.kind \in KindAt(request.at), ~request.ok,
         request.at \notin {"idle", "done", "count", "delete", "replace"},
         request.kind \in {"setRoles", "invite", "accept", "register"} =>
           request.person \in People /\ request.roles # {},
         request.kind \in {"revoke", "accept"} =>
           request.invite \in Links /\ invites[request.invite].made,
         request.kind = "accept" =>
           /\ request.company = invites[request.invite].company
           /\ request.person = invites[request.invite].person,
         request.kind = "register" => request.company = c,
         request.kind # "register" => Opened(request.company)
  PROVE  IInv'
<1> DEFINE v == [request EXCEPT !.before = {d \in Calls : call[d].ok}]
<1>1. /\ v \in Call
      /\ v.kind = request.kind /\ v.at = request.at /\ v.ok = request.ok
      /\ v.person = request.person /\ v.roles = request.roles
      /\ v.invite = request.invite /\ v.company = request.company
      /\ v.before = {d \in Calls : call[d].ok}
  BY DEF Call
<1>2. /\ call[c].at = "idle" /\ call' = [call EXCEPT ![c] = v]
      /\ UNCHANGED <<holds, invites>>
  BY DEF Begin
<1> HIDE DEF v
<1>3. call'[c] = v /\ StepOf(c)
  BY <1>1, <1>2 DEF StepOf, IInv, TypeOK
<1>4. RolesInv'
  BY <1>1, <1>2, <1>3, QuietRoles
<1>5. TypeOK' /\ ShapeInv' /\ OneAcceptance'
  BY <1>1, <1>2, <1>3, QuietShape
<1>6. QED BY <1>4, <1>5 DEF IInv

\* A refused call keeps nothing.
LEMMA RefuseInvariant ==
  ASSUME IInv, NEW c \in Calls, Refuse(c), call[c].at # "done"
  PROVE  IInv'
<1> DEFINE v == [NoCall EXCEPT !.at = "done"]
<1>1. v \in Call /\ v.at = "done" /\ v.kind = "none" /\ ~v.ok /\ v.before = {}
  BY DEF Call, NoCall, Companies, CallSteps
<1>2. call' = [call EXCEPT ![c] = v] /\ UNCHANGED <<holds, invites>>
  BY DEF Refuse
<1> HIDE DEF v
<1>3. call'[c] = v /\ StepOf(c)
  BY <1>1, <1>2 DEF StepOf, IInv, TypeOK
<1>4. RolesInv'
  BY <1>1, <1>2, <1>3, QuietRoles
<1>5. TypeOK' /\ ShapeInv' /\ OneAcceptance'
  BY <1>1, <1>2, <1>3, QuietShape DEF KindAt
<1>6. QED BY <1>4, <1>5 DEF IInv

\* A call that goes on to its next step, having seen some rows.
LEMMA MoveInvariant ==
  ASSUME IInv, NEW c \in Calls, call[c].at \notin {"idle", "done"},
         NEW next \in CallSteps \ {"idle", "done"},
         NEW actor \in People \cup {None}, NEW rows \in SUBSET (Links \cup UserRole),
         call' = [call EXCEPT ![c] =
                    [call[c] EXCEPT !.at = next, !.actor = actor, !.rows = rows]],
         UNCHANGED <<holds, invites>>,
         call[c].kind \in KindAt(next),
         next \in {"count", "delete", "replace"} => MemberHolds(c) # {},
         next = "replace" => MemberHolds(c) \subseteq rows
  PROVE  IInv'
<1> DEFINE v == [call[c] EXCEPT !.at = next, !.actor = actor, !.rows = rows]
<1>1. call[c] \in Call /\ call' = [call EXCEPT ![c] = v]
  BY DEF IInv, TypeOK
<1>2. /\ v \in Call /\ v.at = next /\ v.rows = rows
      /\ v.kind = call[c].kind /\ v.ok = call[c].ok /\ v.before = call[c].before
      /\ v.person = call[c].person /\ v.roles = call[c].roles
      /\ v.invite = call[c].invite /\ v.company = call[c].company
  BY <1>1 DEF Call
<1> HIDE DEF v
<1>3. call'[c] = v /\ StepOf(c)
  BY <1>1, <1>2 DEF StepOf, IInv, TypeOK
<1>4. MemberHolds(c)' = MemberHolds(c)
  BY <1>2, <1>3 DEF MemberHolds
<1>5. call[c].before \subseteq {d \in Calls : call[d].ok} /\ ~call[c].ok
  BY NotAnswered DEF IInv, RolesInv, BeforeInv, TypeOK, Call
<1>6. RolesInv'
  BY <1>2, <1>3, <1>4, <1>5, QuietRoles
<1>7. TypeOK' /\ ShapeInv' /\ OneAcceptance'
  <2>1. /\ call[c].kind \in {"setRoles", "invite", "accept", "register"} =>
             call[c].person \in People /\ call[c].roles # {}
        /\ call[c].kind \in {"revoke", "accept"} =>
             call[c].invite \in Links /\ invites[call[c].invite].made
        /\ call[c].kind = "accept" =>
             /\ call[c].company = invites[call[c].invite].company
             /\ call[c].person = invites[call[c].invite].person
        /\ call[c].kind = "register" => call[c].company = c
        /\ call[c].kind # "register" => Opened(call[c].company)
    BY DEF IInv, ShapeInv, CallsInv
  <2>2. QED BY <1>2, <1>3, <2>1, QuietShape
<1>8. QED BY <1>6, <1>7 DEF IInv

LEMMA GotoInvariant ==
  ASSUME IInv, NEW c \in Calls, call[c].at \notin {"idle", "done"},
         NEW next \in CallSteps \ {"idle", "done", "replace"}, Goto(c, next),
         UNCHANGED <<holds, invites>>, call[c].kind \in KindAt(next),
         next \in {"count", "delete"} => MemberHolds(c) # {}
  PROVE  IInv'
<1>1. call[c] \in Call
  BY DEF IInv, TypeOK
<1>2. /\ call[c].actor \in People \cup {None}
      /\ call[c].rows \in SUBSET (Links \cup UserRole)
  BY <1>1 DEF Call
<1>3. [call[c] EXCEPT !.at = next]
        = [call[c] EXCEPT !.at = next, !.actor = call[c].actor, !.rows = call[c].rows]
  BY <1>1 DEF Call
<1>4. call' = [call EXCEPT ![c] =
                 [call[c] EXCEPT !.at = next, !.actor = call[c].actor, !.rows = call[c].rows]]
  BY <1>3 DEF Goto
<1>5. QED BY <1>2, <1>4, MoveInvariant

LEMMA SeeInvariant ==
  ASSUME IInv, NEW c \in Calls, call[c].at \notin {"idle", "done"},
         NEW next \in CallSteps \ {"idle", "done"},
         NEW rows \in SUBSET (Links \cup UserRole), See(c, next, rows),
         UNCHANGED <<holds, invites>>, call[c].kind \in KindAt(next),
         next \in {"count", "delete", "replace"} => MemberHolds(c) # {},
         next = "replace" => MemberHolds(c) \subseteq rows
  PROVE  IInv'
<1>1. call[c] \in Call
  BY DEF IInv, TypeOK
<1>2. call[c].actor \in People \cup {None}
  BY <1>1 DEF Call
<1>3. call' = [call EXCEPT ![c] = [call[c] EXCEPT !.at = next, !.rows = rows]]
  BY DEF See, IInv, TypeOK
<1>4. [call[c] EXCEPT !.at = next, !.rows = rows]
        = [call[c] EXCEPT !.at = next, !.actor = call[c].actor, !.rows = rows]
  BY <1>1 DEF Call
<1>5. call' = [call EXCEPT ![c] =
                 [call[c] EXCEPT !.at = next, !.actor = call[c].actor, !.rows = rows]]
  BY <1>3, <1>4
<1>6. QED BY <1>2, <1>5, MoveInvariant

LEMMA ReadingInvariant ==
  ASSUME IInv, NEW c \in Calls,
         \/ Guard(c) \/ ReadMember(c) \/ CountOwners(c) \/ SeeRoles(c)
         \/ ReadExisting(c) \/ SeeOutstanding(c) \/ FindInvite(c)
         \/ ResolveInvite(c) \/ ReadTaken(c) \/ ReadAvailable(c)
  PROVE  IInv'
<1>1. /\ call[c] \in Call /\ call[c].kind \in KindAt(call[c].at)
      /\ call[c].at \in {"count", "delete", "replace"} => MemberHolds(c) # {}
  BY DEF IInv, TypeOK, ShapeInv, CallsInv, RolesInv, SeenInv
<1>2. CASE Refuse(c) /\ call[c].at # "done"
  BY <1>2, RefuseInvariant
<1>3. CASE Guard(c) /\ ~Refuse(c)
  <2>1. /\ call[c].at = "guard"
        /\ call' = [call EXCEPT ![c].at = AfterGuard(call[c].kind), ![c].actor = None]
        /\ UNCHANGED <<holds, invites>>
    BY <1>3 DEF Guard
  <2>2. call[c].kind \in {"setRoles", "invite", "revoke"}
    BY <2>1, <1>1 DEF KindAt
  <2>3. /\ AfterGuard(call[c].kind) \in CallSteps \ {"idle", "done"}
        /\ AfterGuard(call[c].kind) \notin {"count", "delete", "replace"}
        /\ call[c].kind \in KindAt(AfterGuard(call[c].kind))
    BY <2>2 DEF AfterGuard, CallSteps, KindAt
  <2>4. call[c].rows \in SUBSET (Links \cup UserRole)
    BY <1>1 DEF Call
  <2>5. call' = [call EXCEPT ![c] =
                   [call[c] EXCEPT !.at = AfterGuard(call[c].kind), !.actor = None]]
    BY <2>1 DEF IInv, TypeOK
  <2>6. [call[c] EXCEPT !.at = AfterGuard(call[c].kind), !.actor = None]
          = [call[c] EXCEPT !.at = AfterGuard(call[c].kind), !.actor = None,
                            !.rows = call[c].rows]
    BY <1>1 DEF Call
  <2>7. call' = [call EXCEPT ![c] =
                   [call[c] EXCEPT !.at = AfterGuard(call[c].kind), !.actor = None,
                                   !.rows = call[c].rows]]
    BY <2>5, <2>6
  <2>8. call[c].at \notin {"idle", "done"} /\ None \in People \cup {None}
    BY <2>1
  <2> DEFINE next == AfterGuard(call[c].kind)
  <2> HIDE DEF next
  <2>9. /\ next \in CallSteps \ {"idle", "done"} /\ call[c].kind \in KindAt(next)
        /\ next \notin {"count", "delete", "replace"}
        /\ call' = [call EXCEPT ![c] =
                      [call[c] EXCEPT !.at = next, !.actor = None, !.rows = call[c].rows]]
    BY <2>3, <2>7 DEF next
  <2>10. QED BY <2>1, <2>4, <2>8, <2>9, MoveInvariant
<1>4. CASE ReadMember(c) /\ ~Refuse(c)
  <2>1. /\ call[c].at = "member" /\ MemberHolds(c) # {} /\ Goto(c, AfterMember(c))
        /\ UNCHANGED <<holds, invites>>
    BY <1>4 DEF ReadMember
  <2>2. /\ AfterMember(c) \in CallSteps \ {"idle", "done", "replace"}
        /\ call[c].kind \in KindAt(AfterMember(c))
    BY <2>1, <1>1 DEF AfterMember, CallSteps, KindAt
  <2>3. QED BY <2>1, <2>2, GotoInvariant
<1>5. CASE CountOwners(c) /\ ~Refuse(c)
  <2>1. /\ call[c].at = "count" /\ Goto(c, "delete") /\ UNCHANGED <<holds, invites>>
    BY <1>5 DEF CountOwners
  <2>2. "delete" \in CallSteps \ {"idle", "done", "replace"} /\ call[c].kind \in KindAt("delete")
    BY <2>1, <1>1 DEF CallSteps, KindAt
  <2>3. QED BY <2>1, <2>2, <1>1, GotoInvariant
<1>6. CASE SeeRoles(c)
  <2>1. /\ call[c].at = "delete" /\ See(c, "replace", MemberHolds(c))
        /\ UNCHANGED <<holds, invites>>
    BY <1>6 DEF SeeRoles
  <2>2. "replace" \in CallSteps \ {"idle", "done"} /\ call[c].kind \in KindAt("replace")
    BY <2>1, <1>1 DEF CallSteps, KindAt
  <2>3. MemberHolds(c) \in SUBSET (Links \cup UserRole)
    <3>1. call[c].kind = "setRoles"
      BY <2>1, <1>1 DEF KindAt
    <3>2. call[c].person \in People
      BY <2>1, <3>1 DEF IInv, ShapeInv, CallsInv
    <3>3. <<call[c].company, call[c].person>> \in Accounts
      BY <1>1, <3>2 DEF Call, Accounts
    <3>4. QED BY <3>3 DEF MemberHolds, IInv, TypeOK
  <2>4. QED BY <2>1, <2>2, <2>3, <1>1, SeeInvariant
<1>7. CASE ReadExisting(c) /\ ~Refuse(c)
  <2>1. /\ call[c].at = "existing" /\ Goto(c, "retire") /\ UNCHANGED <<holds, invites>>
    BY <1>7 DEF ReadExisting
  <2>2. "retire" \in CallSteps \ {"idle", "done", "replace"} /\ call[c].kind \in KindAt("retire")
    BY <2>1, <1>1 DEF CallSteps, KindAt
  <2>3. QED BY <2>1, <2>2, GotoInvariant
<1>8. CASE SeeOutstanding(c)
  <2>1. /\ call[c].at = "retire"
        /\ See(c, "issue", Outstanding(call[c].company, call[c].person))
        /\ UNCHANGED <<holds, invites>>
    BY <1>8 DEF SeeOutstanding
  <2>2. "issue" \in CallSteps \ {"idle", "done"} /\ call[c].kind \in KindAt("issue")
    BY <2>1, <1>1 DEF CallSteps, KindAt
  <2>3. Outstanding(call[c].company, call[c].person) \in SUBSET (Links \cup UserRole)
    BY DEF Outstanding
  <2>4. QED BY <2>1, <2>2, <2>3, SeeInvariant
<1>9. CASE FindInvite(c) /\ ~Refuse(c)
  <2>1. /\ call[c].at = "find" /\ Goto(c, "revoke") /\ UNCHANGED <<holds, invites>>
    BY <1>9 DEF FindInvite
  <2>2. "revoke" \in CallSteps \ {"idle", "done", "replace"} /\ call[c].kind \in KindAt("revoke")
    BY <2>1, <1>1 DEF CallSteps, KindAt
  <2>3. QED BY <2>1, <2>2, GotoInvariant
<1>10. CASE ResolveInvite(c) /\ ~Refuse(c)
  <2>1. /\ call[c].at = "resolve" /\ Goto(c, "taken") /\ UNCHANGED <<holds, invites>>
    BY <1>10 DEF ResolveInvite
  <2>2. "taken" \in CallSteps \ {"idle", "done", "replace"} /\ call[c].kind \in KindAt("taken")
    BY <2>1, <1>1 DEF CallSteps, KindAt
  <2>3. QED BY <2>1, <2>2, GotoInvariant
<1>11. CASE ReadTaken(c) /\ ~Refuse(c)
  <2>1. /\ call[c].at = "taken" /\ Goto(c, "consume") /\ UNCHANGED <<holds, invites>>
    BY <1>11 DEF ReadTaken
  <2>2. "consume" \in CallSteps \ {"idle", "done", "replace"} /\ call[c].kind \in KindAt("consume")
    BY <2>1, <1>1 DEF CallSteps, KindAt
  <2>3. QED BY <2>1, <2>2, GotoInvariant
<1>12. CASE ReadAvailable(c) /\ ~Refuse(c)
  <2>1. /\ call[c].at = "available" /\ Goto(c, "create") /\ UNCHANGED <<holds, invites>>
    BY <1>12 DEF ReadAvailable
  <2>2. "create" \in CallSteps \ {"idle", "done", "replace"} /\ call[c].kind \in KindAt("create")
    BY <2>1, <1>1 DEF CallSteps, KindAt
  <2>3. QED BY <2>1, <2>2, GotoInvariant
<1>13. call[c].at # "done"
  BY DEF Guard, ReadMember, CountOwners, SeeRoles, ReadExisting, SeeOutstanding, FindInvite,
         ResolveInvite, ReadTaken, ReadAvailable
<1>14. QED
  BY <1>2, <1>3, <1>4, <1>5, <1>6, <1>7, <1>8, <1>9, <1>10, <1>11, <1>12, <1>13

LEMMA BeginningInvariant ==
  ASSUME IInv, NEW c \in Calls,
         BeginSetRoles(c) \/ BeginInvite(c) \/ BeginRevoke(c) \/ BeginAccept(c)
         \/ BeginRegister(c)
  PROVE  IInv'
<1>1. /\ NoCall \in Call /\ NoCall.person = None /\ ~NoCall.ok
      /\ Home \in Companies /\ c \in Companies
  BY DEF NoCall, Call, Companies, CallSteps
<1>2. \A i \in Links : /\ invites[i].company \in Companies
                       /\ invites[i].person \in People \cup {None}
                       /\ invites[i].roles \in SUBSET Roles
  BY DEF IInv, TypeOK, Invite
<1>3. \A co \in Companies, p \in People : Exists(co, p) => Opened(co)
  BY DEF Exists, Accounts, IInv, ShapeInv, AccountsInv
<1>4. CASE BeginSetRoles(c)
  <2>1. PICK co \in Companies, a \in People, p \in People, rs \in (SUBSET Roles) \ {{}} :
          /\ Exists(co, a)
          /\ Begin(c, [NoCall EXCEPT !.kind = "setRoles", !.at = "guard", !.actor = a,
                                     !.company = co, !.person = p, !.roles = rs])
    BY <1>4 DEF BeginSetRoles
  <2> DEFINE v == [NoCall EXCEPT !.kind = "setRoles", !.at = "guard", !.actor = a,
                                 !.company = co, !.person = p, !.roles = rs]
  <2>2. /\ v \in Call /\ v.kind = "setRoles" /\ v.at = "guard" /\ v.company = co
        /\ v.person = p /\ v.roles = rs /\ ~v.ok
    BY <1>1 DEF Call, NoCall, AllCallKinds, CallSteps
  <2>3. Begin(c, v) /\ Opened(co)
    BY <2>1, <1>3
  <2> HIDE DEF v
  <2>4. QED BY <2>2, <2>3, BeginInvariant DEF KindAt
<1>5. CASE BeginInvite(c)
  <2>1. PICK co \in Companies, a \in People, p \in People, r \in Roles :
          /\ Exists(co, a)
          /\ Begin(c, [NoCall EXCEPT !.kind = "invite", !.at = "guard", !.actor = a,
                                     !.company = co, !.person = p, !.roles = {r}])
    BY <1>5 DEF BeginInvite
  <2> DEFINE v == [NoCall EXCEPT !.kind = "invite", !.at = "guard", !.actor = a,
                                 !.company = co, !.person = p, !.roles = {r}]
  <2>2. /\ v \in Call /\ v.kind = "invite" /\ v.at = "guard" /\ v.company = co
        /\ v.person = p /\ v.roles = {r} /\ ~v.ok
    BY <1>1 DEF Call, NoCall, AllCallKinds, CallSteps
  <2>3. Begin(c, v) /\ Opened(co)
    BY <2>1, <1>3
  <2> HIDE DEF v
  <2>4. QED BY <2>2, <2>3, BeginInvariant DEF KindAt
<1>6. CASE BeginRevoke(c)
  <2>1. PICK i \in Links, a \in People :
          /\ invites[i].made /\ Exists(invites[i].company, a)
          /\ Begin(c, [NoCall EXCEPT !.kind = "revoke", !.at = "guard", !.actor = a,
                                     !.company = invites[i].company, !.invite = i])
    BY <1>6 DEF BeginRevoke
  <2> DEFINE v == [NoCall EXCEPT !.kind = "revoke", !.at = "guard", !.actor = a,
                                 !.company = invites[i].company, !.invite = i]
  <2>2. /\ v \in Call /\ v.kind = "revoke" /\ v.at = "guard"
        /\ v.company = invites[i].company /\ v.invite = i /\ ~v.ok
    BY <1>1, <1>2 DEF Call, NoCall, AllCallKinds, CallSteps
  <2>3. Begin(c, v) /\ Opened(invites[i].company)
    BY <2>1, <1>2, <1>3
  <2> HIDE DEF v
  <2>4. QED BY <2>1, <2>2, <2>3, BeginInvariant DEF KindAt
<1>7. CASE BeginAccept(c)
  <2>1. PICK i \in Links :
          /\ invites[i].made
          /\ Begin(c, [NoCall EXCEPT !.kind = "accept", !.at = "resolve", !.invite = i,
                                     !.company = invites[i].company,
                                     !.person = invites[i].person, !.roles = invites[i].roles])
    BY <1>7 DEF BeginAccept
  <2> DEFINE v == [NoCall EXCEPT !.kind = "accept", !.at = "resolve", !.invite = i,
                                 !.company = invites[i].company,
                                 !.person = invites[i].person, !.roles = invites[i].roles]
  <2>2. /\ v \in Call /\ v.kind = "accept" /\ v.at = "resolve"
        /\ v.company = invites[i].company /\ v.invite = i /\ ~v.ok
        /\ v.person = invites[i].person /\ v.roles = invites[i].roles
    BY <1>1, <1>2 DEF Call, NoCall, AllCallKinds, CallSteps
  <2>3. Begin(c, v)
    BY <2>1
  <2>4. /\ invites[i].person \in People /\ invites[i].roles # {}
        /\ Opened(invites[i].company)
    BY <2>1 DEF IInv, ShapeInv, InvitesInv
  <2> HIDE DEF v
  <2>5. QED BY <2>1, <2>2, <2>3, <2>4, BeginInvariant DEF KindAt
<1>8. CASE BeginRegister(c)
  <2>1. PICK p \in People :
          Begin(c, [NoCall EXCEPT !.kind = "register", !.at = "available", !.person = p,
                                  !.company = c, !.roles = {Owner}])
    BY <1>8 DEF BeginRegister
  <2> DEFINE v == [NoCall EXCEPT !.kind = "register", !.at = "available", !.person = p,
                                 !.company = c, !.roles = {Owner}]
  <2>2. /\ v \in Call /\ v.kind = "register" /\ v.at = "available" /\ v.company = c
        /\ v.person = p /\ v.roles = {Owner} /\ ~v.ok
    BY <1>1, RolesAssumption DEF Call, NoCall, AllCallKinds, CallSteps
  <2>3. Begin(c, v)
    BY <2>1
  <2> HIDE DEF v
  <2>4. QED BY <2>2, <2>3, BeginInvariant DEF KindAt
<1>9. QED BY <1>4, <1>5, <1>6, <1>7, <1>8

-----------------------------------------------------------------------------
(* Steps that write.                                                        *)

LEMMA SucceedFrame ==
  ASSUME IInv, NEW c \in Calls, call[c].at \notin {"idle", "done"}, Succeed(c)
  PROVE  /\ StepOf(c)
         /\ call'[c].at = "done" /\ call'[c].ok
         /\ call'[c].kind = call[c].kind /\ call'[c].before = call[c].before
         /\ call[c].before \subseteq {d \in Calls : call[d].ok}
         /\ call'[c].kind \in KindAt("done")
<1>1. call[c] \in Call
  BY DEF IInv, TypeOK
<1> DEFINE v == [call[c] EXCEPT !.at = "done", !.ok = TRUE, !.rows = {}]
<1>2. /\ v \in Call /\ v.at = "done" /\ v.ok
      /\ v.kind = call[c].kind /\ v.before = call[c].before
  BY <1>1 DEF Call, CallSteps
<1>3. call' = [call EXCEPT ![c] = v]
  BY DEF Succeed, IInv, TypeOK
<1> HIDE DEF v
<1>4. call'[c] = v /\ StepOf(c)
  BY <1>2, <1>3 DEF StepOf, IInv, TypeOK
<1>5. call[c].before \subseteq {d \in Calls : call[d].ok}
  BY <1>1 DEF Call, IInv, RolesInv, BeforeInv
<1>6. call[c].kind \in KindAt("done")
  BY <1>1 DEF Call, KindAt
<1>7. QED BY <1>2, <1>4, <1>5, <1>6

\* Invitations keep what they say, and the call c may have made its own.
LEMMA InvitesWritten ==
  ASSUME IInv, NEW c \in Calls, StepOf(c), call'[c].at = "done",
         call'[c].kind \in KindAt("done"),
         \A i \in Links : invites[i].made =>
            /\ invites'[i].made
            /\ invites'[i].company = invites[i].company
            /\ invites'[i].person = invites[i].person
            /\ invites'[i].roles = invites[i].roles,
         \A i \in Links : invites'[i].made /\ ~invites[i].made =>
            /\ i = c /\ invites'[i].person \in People /\ invites'[i].roles # {}
            /\ Opened(invites'[i].company) /\ invites'[i].company \in Companies,
         \A i \in Links : invites'[i].accepted \/ invites'[i].revoked => invites'[i].made
  PROVE  CallsInv' /\ InvitesInv'
<1>1. \A d \in Calls : d # c => call'[d] = call[d]
  BY DEF StepOf
<1>2. \A co \in Companies : Opened(co) => Opened(co)'
  BY OpenedStays
<1>3. \A d \in Calls : call[d].company \in Companies
  BY DEF Call, IInv, TypeOK
<1>4. CallsInv'
  BY <1>1, <1>2, <1>3 DEF CallsInv, IInv, ShapeInv
<1>5. \A i \in Links : invites[i].company \in Companies
  BY DEF IInv, TypeOK, Invite
<1>6. InvitesInv'
  BY <1>1, <1>2, <1>5 DEF InvitesInv, IInv, ShapeInv, StepOf
<1>7. QED BY <1>4, <1>6

\* The call c is answered, having left at the account a some of its rows and
\* its own.
LEMMA AccountWritten ==
  ASSUME IInv, NEW c \in Calls, StepOf(c), call'[c].at = "done", call'[c].ok,
         call'[c].kind = call[c].kind, call'[c].before = call[c].before,
         NEW a \in Accounts, NEW rest \in SUBSET holds[a], NEW new,
         holds' = [holds EXCEPT ![a] = rest \cup new],
         new # {}, \A r \in new : r[2] = c,
         call[c].kind = "setRoles" \/ holds[a] = {},
         \A r \in rest : /\ r[2] \in Calls /\ Answered(r[2], "setRoles")
                         /\ r[2] \notin call[c].before
  PROVE  RolesInv'
<1>1. /\ ~call[c].ok
      /\ \A d \in Calls : c \notin call[d].before
      /\ \A b \in Accounts : \A r \in holds[b] : r[2] # c
  BY NotAnswered DEF StepOf
<1>2. /\ \A d \in Calls : d # c => call'[d] = call[d]
      /\ call[c].before \subseteq {d \in Calls : call[d].ok}
  BY DEF StepOf, IInv, TypeOK, RolesInv, BeforeInv, Call
<1>3. /\ holds'[a] = rest \cup new
      /\ \A b \in Accounts : b # a => holds'[b] = holds[b]
  BY DEF IInv, TypeOK
<1>4. BeforeInv' /\ OkInv'
  BY <1>1, <1>2 DEF IInv, RolesInv, BeforeInv, OkInv
<1>5. RowsInv'
  BY <1>1, <1>2, <1>3 DEF IInv, RolesInv, RowsInv
<1>6. \A e \in Calls : Answered(e, "setRoles") => e # c /\ Answered(e, "setRoles")'
  BY <1>1, <1>2 DEF Answered
<1>7. call[c].kind = "setRoles" => Answered(c, "setRoles")'
  BY DEF Answered
<1>8. ASSUME NEW d \in Calls, d # c
      PROVE  /\ call'[d].at \in {"count", "delete", "replace"} => MemberHolds(d)' # {}
             /\ call'[d].at = "replace" =>
                  \A r \in MemberHolds(d)' \ call'[d].rows :
                    /\ r[2] \in Calls /\ Answered(r[2], "setRoles")'
                    /\ r[2] \notin call'[d].before
  <2>1. call'[d] = call[d]
    BY <1>2, <1>8
  <2> DEFINE b == <<call[d].company, call[d].person>>
  <2>2. MemberHolds(d) = holds[b] /\ MemberHolds(d)' = holds'[b]
    BY <2>1 DEF MemberHolds
  <2>3. CASE call[d].at \notin {"count", "delete", "replace"}
    BY <2>1, <2>3
  <2>4. CASE call[d].at \in {"count", "delete", "replace"}
    <3>1. b \in Accounts /\ MemberHolds(d) # {}
      <4>1. call[d].kind = "setRoles" /\ call[d].person \in People
        BY <2>4 DEF IInv, ShapeInv, CallsInv, KindAt
      <4>2. QED BY <2>4, <4>1 DEF IInv, RolesInv, SeenInv, TypeOK, Call, Accounts
    <3>2. call[d].at = "replace" =>
            \A r \in holds[b] \ call[d].rows :
              /\ r[2] \in Calls /\ Answered(r[2], "setRoles") /\ r[2] \notin call[d].before
      BY <2>2 DEF IInv, RolesInv, SeenInv
    <3> HIDE DEF b
    <3>3. CASE b # a
      BY <1>3, <1>6, <2>1, <2>2, <3>1, <3>2, <3>3
    <3>4. CASE b = a
      <4>1. Answered(c, "setRoles")' /\ c \notin call[d].before
        BY <1>1, <1>7, <2>2, <3>1, <3>4
      <4>2. \A r \in holds'[b] : r \in holds[b] \/ r[2] = c
        BY <1>3, <3>4
      <4>3. QED BY <1>3, <1>6, <2>1, <2>2, <3>2, <3>4, <4>1, <4>2
    <3>5. QED BY <3>3, <3>4
  <2>5. QED BY <2>3, <2>4
<1>9. SeenInv'
  BY <1>8 DEF SeenInv
<1>10. \A d, e \in Calls : Together("setRoles", d, e) => Together("setRoles", d, e)'
  BY <1>1, <1>2 DEF Together, Answered, Overlap
<1>11. \A r \in rest : Together("setRoles", r[2], c)' /\ Together("setRoles", c, r[2])'
  <2>1. ASSUME NEW r \in rest
        PROVE  Together("setRoles", r[2], c)' /\ Together("setRoles", c, r[2])'
    <3>1. r[2] # c /\ call[c].kind = "setRoles"
      BY <1>6, <2>1
    <3>2. Answered(r[2], "setRoles")' /\ Answered(c, "setRoles")'
      BY <1>6, <1>7, <3>1
    <3>3. Overlap(r[2], c)' /\ Overlap(c, r[2])'
      BY <1>1, <1>2, <3>1 DEF Overlap
    <3>4. QED BY <3>2, <3>3 DEF Together
  <2>2. QED BY <2>1
<1>12. MixedOnlyTogether'
  <2>1. ASSUME NEW b \in Accounts, NEW r \in holds'[b], NEW q \in holds'[b]
        PROVE  \/ r[2] = q[2]
               \/ r[2] \in Calls /\ q[2] \in Calls /\ Together("setRoles", r[2], q[2])'
    <3>1. CASE r \in holds[b] /\ q \in holds[b]
      BY <1>10, <3>1 DEF IInv, RolesInv, MixedOnlyTogether
    <3>2. CASE r \notin holds[b] \/ q \notin holds[b]
      <4>1. /\ b = a /\ r \in rest \cup new /\ q \in rest \cup new
        BY <1>3, <2>1, <3>2
      <4>2. r \in new \/ q \in new
        BY <3>2, <4>1
      <4>3. QED BY <1>11, <4>1, <4>2
    <3>3. QED BY <3>1, <3>2
  <2>2. QED BY <2>1 DEF MixedOnlyTogether
<1>13. QED BY <1>4, <1>5, <1>9, <1>12 DEF RolesInv

\* What the call under way is about, at the step it is at.
LEMMA UnderWay ==
  ASSUME IInv, NEW c \in Calls, call[c].at \notin {"idle", "done"}
  PROVE  /\ call[c] \in Call /\ call[c].company \in Companies
         /\ call[c].roles \in SUBSET Roles
         /\ call[c].kind \in KindAt(call[c].at)
         /\ call[c].kind # "revoke" /\ call[c].kind # "none" =>
              /\ call[c].person \in People /\ call[c].roles # {}
              /\ <<call[c].company, call[c].person>> \in Accounts
         /\ call[c].kind # "register" => Opened(call[c].company)
<1>1. /\ call[c] \in Call /\ call[c].company \in Companies
      /\ call[c].roles \in SUBSET Roles /\ call[c].kind \in AllCallKinds \cup {"none"}
  BY DEF IInv, TypeOK, Call
<1>2. /\ call[c].kind \in KindAt(call[c].at)
      /\ call[c].kind \in {"setRoles", "invite", "accept", "register"} =>
           call[c].person \in People /\ call[c].roles # {}
      /\ call[c].kind # "register" => Opened(call[c].company)
  BY DEF IInv, ShapeInv, CallsInv
<1>3. QED BY <1>1, <1>2 DEF AllCallKinds, Accounts

\* An account with members among its rows keeps or gains some.
LEMMA AccountTypes ==
  ASSUME IInv, NEW a \in Accounts, NEW rows \in SUBSET UserRole, rows # {},
         holds' = [holds EXCEPT ![a] = rows]
  PROVE  /\ holds' \in [Accounts -> SUBSET UserRole]
         /\ \A b \in Accounts : holds[b] # {} => holds'[b] # {}
         /\ holds'[a] # {}
         /\ \A b \in Accounts : b # a => holds'[b] = holds[b]
BY DEF IInv, TypeOK

LEMMA RowsType ==
  ASSUME NEW c \in Calls, NEW roles \in SUBSET Roles
  PROVE  /\ Rows(c, roles) \in SUBSET UserRole
         /\ \A r \in Rows(c, roles) : r[2] = c
         /\ roles # {} => Rows(c, roles) # {}
<1>1. Rows(c, roles) \in SUBSET UserRole
  BY DEF Rows, UserRole
<1>2. \A r \in Rows(c, roles) : r[2] = c
  BY DEF Rows
<1>3. ASSUME NEW role \in roles PROVE <<role, c>> \in Rows(c, roles)
  BY DEF Rows
<1>4. QED BY <1>1, <1>2, <1>3

\* The accounts of the accepted invitations.
LEMMA AcceptedHold ==
  ASSUME IInv, NEW i \in Links, invites[i].accepted
  PROVE  /\ <<invites[i].company, invites[i].person>> \in Accounts
         /\ holds[<<invites[i].company, invites[i].person>>] # {}
<1>1. invites[i].person \in People /\ invites[i].company \in Companies
  BY DEF IInv, ShapeInv, InvitesInv, TypeOK, Invite
<1>2. QED BY <1>1 DEF IInv, TypeOK, Accounts

LEMMA ReplaceRolesInvariant ==
  ASSUME IInv, NEW c \in Calls, ReplaceRoles(c)
  PROVE  IInv'
<1>1. call[c].at = "replace"
  BY DEF ReplaceRoles
<1>2. CASE Refuse(c)
  BY <1>1, <1>2, RefuseInvariant
<1>3. CASE ~Refuse(c)
  <2> DEFINE a == <<call[c].company, call[c].person>>
             rest == holds[a] \ call[c].rows
             new == Rows(c, call[c].roles)
  <2>1. /\ holds' = [holds EXCEPT ![a] = rest \cup new]
        /\ Succeed(c) /\ UNCHANGED invites
    BY <1>3 DEF ReplaceRoles, Replaced
  <2>2. call[c].kind = "setRoles"
    BY <1>1, UnderWay DEF KindAt
  <2>3. a \in Accounts /\ call[c].roles # {} /\ Opened(a[1]) /\ call[c].roles \in SUBSET Roles
    BY <1>1, <2>2, UnderWay
  <2>4. new \in SUBSET UserRole /\ new # {} /\ \A r \in new : r[2] = c
    BY <2>3, RowsType
  <2>5. /\ StepOf(c) /\ call'[c].at = "done" /\ call'[c].ok
        /\ call'[c].kind = call[c].kind /\ call'[c].before = call[c].before
        /\ call'[c].kind \in KindAt("done")
    BY <1>1, <2>1, SucceedFrame
  <2>6. \A r \in rest : /\ r[2] \in Calls /\ Answered(r[2], "setRoles")
                        /\ r[2] \notin call[c].before
    BY <1>1 DEF IInv, RolesInv, SeenInv, MemberHolds
  <2>7. rest \in SUBSET holds[a] /\ rest \cup new \in SUBSET UserRole /\ rest \cup new # {}
    BY <2>3, <2>4 DEF IInv, TypeOK
  <2> HIDE DEF a, rest, new
  <2>8. RolesInv'
    BY <2>1, <2>2, <2>3, <2>4, <2>5, <2>6, <2>7, AccountWritten
  <2>9. /\ holds' \in [Accounts -> SUBSET UserRole]
        /\ \A b \in Accounts : holds[b] # {} => holds'[b] # {}
        /\ \A b \in Accounts : b # a => holds'[b] = holds[b]
    BY <2>1, <2>3, <2>7, AccountTypes
  <2>10. TypeOK'
    BY <2>1, <2>5, <2>9, AcceptedHold DEF StepOf, IInv, TypeOK
  <2>11. CallsInv' /\ InvitesInv'
    <3>1. \A i \in Links : invites[i].accepted \/ invites[i].revoked => invites[i].made
      BY DEF IInv, ShapeInv, InvitesInv
    <3>2. QED BY <2>1, <2>5, <3>1, InvitesWritten
  <2>12. AccountsInv'
    <3>1. \A co \in Companies : Opened(co) => Opened(co)'
      BY <2>5, OpenedStays
    <3>2. \A b \in Accounts : b[1] \in Companies
      BY DEF Accounts
    <3>3. QED BY <2>3, <2>9, <3>1, <3>2 DEF AccountsInv, IInv, ShapeInv
  <2>13. OneAcceptance'
    BY <2>1 DEF IInv, OneAcceptance
  <2>14. QED BY <2>8, <2>10, <2>11, <2>12, <2>13 DEF IInv, ShapeInv
<1>4. QED BY <1>2, <1>3

LEMMA IssueInviteInvariant ==
  ASSUME IInv, NEW c \in Calls, IssueInvite(c)
  PROVE  IInv'
<1> DEFINE fresh == [NoInvite EXCEPT !.made = TRUE, !.company = call[c].company,
                                     !.person = call[c].person, !.roles = call[c].roles]
<1>1. /\ call[c].at = "issue" /\ Succeed(c) /\ UNCHANGED holds
      /\ invites' = [i \in Links |->
           IF i = c THEN fresh
           ELSE IF i \in call[c].rows /\ Open(i) THEN [invites[i] EXCEPT !.revoked = TRUE]
           ELSE invites[i]]
  BY DEF IssueInvite
<1>2. /\ call[c].company \in Companies /\ call[c].person \in People
      /\ call[c].roles \in SUBSET Roles /\ call[c].roles # {}
      /\ Opened(call[c].company) /\ call[c].kind = "invite"
  BY <1>1, UnderWay DEF KindAt
<1>3. /\ fresh \in Invite /\ fresh.made /\ ~fresh.accepted /\ ~fresh.revoked
      /\ fresh.company = call[c].company /\ fresh.person = call[c].person
      /\ fresh.roles = call[c].roles
  BY <1>2 DEF NoInvite, Invite
<1>4. c \in Links /\ ~invites[c].made
  BY <1>1 DEF Links, IInv, ShapeInv, InvitesInv
<1> HIDE DEF fresh
<1>5. \A i \in Links :
        /\ invites'[i] \in Invite
        /\ i # c => /\ invites'[i].made = invites[i].made
                    /\ invites'[i].accepted = invites[i].accepted
                    /\ invites'[i].company = invites[i].company
                    /\ invites'[i].person = invites[i].person
                    /\ invites'[i].roles = invites[i].roles
                    /\ invites'[i].revoked => invites[i].revoked \/ invites[i].made
  <2>1. ASSUME NEW i \in Links
        PROVE  /\ invites'[i] \in Invite
               /\ i # c => /\ invites'[i].made = invites[i].made
                           /\ invites'[i].accepted = invites[i].accepted
                           /\ invites'[i].company = invites[i].company
                           /\ invites'[i].person = invites[i].person
                           /\ invites'[i].roles = invites[i].roles
                           /\ invites'[i].revoked => invites[i].revoked \/ invites[i].made
    <3>1. invites[i] \in Invite
      BY DEF IInv, TypeOK
    <3>2. CASE i = c
      BY <1>1, <1>3, <3>2
    <3>3. CASE i # c /\ i \in call[c].rows /\ Open(i)
      <4>1. invites'[i] = [invites[i] EXCEPT !.revoked = TRUE] /\ invites[i].made
        BY <1>1, <3>3 DEF Open
      <4>2. QED BY <3>1, <3>3, <4>1 DEF Invite
    <3>4. CASE i # c /\ ~(i \in call[c].rows /\ Open(i))
      BY <1>1, <3>1, <3>4
    <3>5. QED BY <3>2, <3>3, <3>4
  <2>2. QED BY <2>1
<1>6. invites'[c] = fresh
  BY <1>1, <1>4
<1>7. /\ StepOf(c) /\ call'[c].at = "done" /\ call'[c].ok
      /\ call'[c].kind = call[c].kind /\ call'[c].before = call[c].before
      /\ call[c].before \subseteq {d \in Calls : call[d].ok}
      /\ call'[c].kind \in KindAt("done")
  BY <1>1, SucceedFrame
<1>8. RolesInv'
  BY <1>1, <1>7, QuietRoles
<1>9. CallsInv' /\ InvitesInv'
  <2>1. \A i \in Links : invites[i].accepted \/ invites[i].revoked => invites[i].made
    BY DEF IInv, ShapeInv, InvitesInv
  <2>2. \A i \in Links : invites'[i].accepted \/ invites'[i].revoked => invites'[i].made
    BY <1>3, <1>5, <1>6, <2>1
  <2>3. \A i \in Links : invites[i].made =>
            /\ invites'[i].made
            /\ invites'[i].company = invites[i].company
            /\ invites'[i].person = invites[i].person
            /\ invites'[i].roles = invites[i].roles
    BY <1>4, <1>5
  <2>4. \A i \in Links : invites'[i].made /\ ~invites[i].made =>
            /\ i = c /\ invites'[i].person \in People /\ invites'[i].roles # {}
            /\ Opened(invites'[i].company) /\ invites'[i].company \in Companies
    BY <1>2, <1>3, <1>5, <1>6
  <2>5. QED BY <1>7, <2>2, <2>3, <2>4, InvitesWritten
<1>10. AccountsInv'
  <2>1. \A co \in Companies : Opened(co) => Opened(co)'
    BY <1>7, OpenedStays
  <2>2. QED BY <1>1, <2>1 DEF AccountsInv, Accounts, IInv, ShapeInv
<1>11. \A i \in Links : invites'[i].accepted => i # c /\ invites[i].accepted
  BY <1>3, <1>5, <1>6
<1>12. TypeOK'
  <2>1. invites' \in [Links -> Invite]
    BY <1>1, <1>5
  <2>2. QED BY <1>1, <1>5, <1>7, <1>11, <2>1 DEF StepOf, IInv, TypeOK
<1>13. OneAcceptance'
  BY <1>5, <1>11 DEF IInv, OneAcceptance
<1>14. QED BY <1>8, <1>9, <1>10, <1>12, <1>13 DEF IInv, ShapeInv

LEMMA RevokeInviteInvariant ==
  ASSUME IInv, NEW c \in Calls, RevokeInvite(c)
  PROVE  IInv'
<1>1. /\ call[c].at = "revoke" /\ Succeed(c) /\ UNCHANGED holds
      /\ invites' = [invites EXCEPT ![call[c].invite].revoked = TRUE]
  BY DEF RevokeInvite
<1>2. call[c].kind = "revoke"
  BY <1>1, UnderWay DEF KindAt
<1>3. call[c].invite \in Links /\ invites[call[c].invite].made
  BY <1>1, <1>2 DEF IInv, ShapeInv, CallsInv
<1>4. \A i \in Links :
        /\ invites'[i] \in Invite
        /\ invites'[i].made = invites[i].made
        /\ invites'[i].accepted = invites[i].accepted
        /\ invites'[i].company = invites[i].company
        /\ invites'[i].person = invites[i].person
        /\ invites'[i].roles = invites[i].roles
        /\ invites'[i].revoked => invites[i].revoked \/ invites[i].made
  BY <1>1, <1>3 DEF IInv, TypeOK, Invite
<1>5. /\ StepOf(c) /\ call'[c].at = "done" /\ call'[c].ok
      /\ call'[c].kind = call[c].kind /\ call'[c].before = call[c].before
      /\ call[c].before \subseteq {d \in Calls : call[d].ok}
      /\ call'[c].kind \in KindAt("done")
  BY <1>1, SucceedFrame
<1>6. RolesInv'
  BY <1>1, <1>5, QuietRoles
<1>7. CallsInv' /\ InvitesInv'
  <2>1. \A i \in Links : invites[i].accepted \/ invites[i].revoked => invites[i].made
    BY DEF IInv, ShapeInv, InvitesInv
  <2>2. QED BY <1>4, <1>5, <2>1, InvitesWritten
<1>8. AccountsInv'
  <2>1. \A co \in Companies : Opened(co) => Opened(co)'
    BY <1>5, OpenedStays
  <2>2. QED BY <1>1, <2>1 DEF AccountsInv, Accounts, IInv, ShapeInv
<1>9. TypeOK'
  <2>1. invites' \in [Links -> Invite]
    BY <1>1, <1>4 DEF IInv, TypeOK
  <2>2. QED BY <1>1, <1>4, <1>5, <2>1 DEF StepOf, IInv, TypeOK
<1>10. OneAcceptance'
  BY <1>4 DEF IInv, OneAcceptance
<1>11. QED BY <1>6, <1>7, <1>8, <1>9, <1>10 DEF IInv, ShapeInv

LEMMA ConsumeInviteInvariant ==
  ASSUME IInv, NEW c \in Calls, ConsumeInvite(c)
  PROVE  IInv'
<1>1. call[c].at = "consume"
  BY DEF ConsumeInvite
<1>2. CASE Refuse(c)
  BY <1>1, <1>2, RefuseInvariant
<1>3. CASE ~Refuse(c)
  <2>1. PICK k : k = call[c].invite
    OBVIOUS
  <2>2. PICK a : a = <<call[c].company, call[c].person>>
    OBVIOUS
  <2>3. /\ Open(k) /\ holds[a] = {}
        /\ invites' = [invites EXCEPT ![k].accepted = TRUE]
        /\ holds' = [holds EXCEPT ![a] = Rows(c, call[c].roles)]
        /\ Succeed(c)
    BY <1>3, <2>1, <2>2 DEF ConsumeInvite, Consumable, AddressFree, Exists
  <2>4. call[c].kind = "accept"
    BY <1>1, UnderWay DEF KindAt
  <2>5. /\ k \in Links /\ invites[k].made
        /\ a = <<invites[k].company, invites[k].person>>
    BY <1>1, <2>1, <2>2, <2>4 DEF IInv, ShapeInv, CallsInv
  <2>6. a \in Accounts /\ call[c].roles # {} /\ Opened(a[1]) /\ call[c].roles \in SUBSET Roles
    BY <1>1, <2>2, <2>4, UnderWay
  <2>7. /\ Rows(c, call[c].roles) \in SUBSET UserRole /\ Rows(c, call[c].roles) # {}
        /\ \A r \in Rows(c, call[c].roles) : r[2] = c
    BY <2>6, RowsType
  <2>8. /\ StepOf(c) /\ call'[c].at = "done" /\ call'[c].ok
        /\ call'[c].kind = call[c].kind /\ call'[c].before = call[c].before
        /\ call'[c].kind \in KindAt("done")
    BY <1>1, <2>3, SucceedFrame
  <2>9. RolesInv'
    <3>1. PICK new : new = Rows(c, call[c].roles)
      OBVIOUS
    <3>2. PICK rest \in SUBSET holds[a] : rest = {}
      OBVIOUS
    <3>3. holds' = [holds EXCEPT ![a] = rest \cup new] /\ new # {} /\ \A r \in new : r[2] = c
      BY <2>3, <2>7, <3>1, <3>2
    <3>4. \A r \in rest : /\ r[2] \in Calls /\ Answered(r[2], "setRoles")
                             /\ r[2] \notin call[c].before
      BY <3>2
    <3>5. holds[a] = {} /\ a \in Accounts
      BY <2>3, <2>6
    <3>6. QED BY <2>8, <3>3, <3>4, <3>5, AccountWritten
  <2>10. /\ holds' \in [Accounts -> SUBSET UserRole]
         /\ \A b \in Accounts : holds[b] # {} => holds'[b] # {}
         /\ holds'[a] # {}
         /\ \A b \in Accounts : b # a => holds'[b] = holds[b]
    BY <2>3, <2>6, <2>7, AccountTypes
  <2>11. \A i \in Links :
           /\ invites'[i] \in Invite
           /\ invites'[i].made = invites[i].made
           /\ invites'[i].revoked = invites[i].revoked
           /\ invites'[i].company = invites[i].company
           /\ invites'[i].person = invites[i].person
           /\ invites'[i].roles = invites[i].roles
           /\ invites'[i].accepted => i = k \/ invites[i].accepted
    BY <2>3, <2>5 DEF IInv, TypeOK, Invite
  <2>12. TypeOK'
    <3>1. invites' \in [Links -> Invite]
      BY <2>3, <2>11 DEF IInv, TypeOK
    <3>2. \A i \in Links : invites'[i].accepted =>
                 holds'[<<invites'[i].company, invites'[i].person>>] # {}
      BY <2>5, <2>10, <2>11, AcceptedHold
    <3>3. QED BY <2>8, <2>10, <3>1, <3>2 DEF StepOf, TypeOK
  <2>13. CallsInv' /\ InvitesInv'
    <3>1. \A i \in Links : invites[i].accepted \/ invites[i].revoked => invites[i].made
      BY DEF IInv, ShapeInv, InvitesInv
    <3>2. QED BY <2>5, <2>8, <2>11, <3>1, InvitesWritten
  <2>14. AccountsInv'
    <3>1. \A co \in Companies : Opened(co) => Opened(co)'
      BY <2>8, OpenedStays
    <3>2. \A b \in Accounts : b[1] \in Companies
      BY DEF Accounts
    <3>3. QED BY <2>6, <2>10, <3>1, <3>2 DEF AccountsInv, IInv, ShapeInv
  <2>15. OneAcceptance'
    <3>1. \A i \in Links : invites[i].accepted => <<invites[i].company, invites[i].person>> # a
      BY <2>3, AcceptedHold
    <3>2. QED BY <2>5, <2>11, <3>1 DEF IInv, OneAcceptance
  <2>16. QED BY <2>9, <2>12, <2>13, <2>14, <2>15 DEF IInv, ShapeInv
<1>4. QED BY <1>2, <1>3

LEMMA CreateCompanyInvariant ==
  ASSUME IInv, NEW c \in Calls, CreateCompany(c)
  PROVE  IInv'
<1>1. PICK a : a = <<c, call[c].person>>
  OBVIOUS
<1>2. /\ call[c].at = "create" /\ Succeed(c) /\ UNCHANGED invites
      /\ holds' = [holds EXCEPT ![a] = Rows(c, call[c].roles)]
  BY <1>1 DEF CreateCompany
<1>3. call[c].kind = "register"
  BY <1>2, UnderWay DEF KindAt
<1>4. call[c].company = c
  BY <1>2, <1>3 DEF IInv, ShapeInv, CallsInv
<1>5. a \in Accounts /\ a[1] = c /\ call[c].roles # {} /\ call[c].roles \in SUBSET Roles
  BY <1>1, <1>2, <1>3, <1>4, UnderWay
<1>6. holds[a] = {}
  BY <1>2, <1>5, NamesAssumption DEF IInv, ShapeInv, AccountsInv, Opened
<1>7. /\ Rows(c, call[c].roles) \in SUBSET UserRole /\ Rows(c, call[c].roles) # {}
      /\ \A r \in Rows(c, call[c].roles) : r[2] = c
  BY <1>5, RowsType
<1>8. /\ StepOf(c) /\ call'[c].at = "done" /\ call'[c].ok
      /\ call'[c].kind = call[c].kind /\ call'[c].before = call[c].before
      /\ call'[c].kind \in KindAt("done")
  BY <1>2, SucceedFrame
<1>9. RolesInv'
  <2>1. PICK new : new = Rows(c, call[c].roles)
    OBVIOUS
  <2>2. PICK rest \in SUBSET holds[a] : rest = {}
    OBVIOUS
  <2>3. holds' = [holds EXCEPT ![a] = rest \cup new] /\ new # {} /\ \A r \in new : r[2] = c
    BY <1>2, <1>7, <2>1, <2>2
  <2>4. \A r \in rest : /\ r[2] \in Calls /\ Answered(r[2], "setRoles")
                           /\ r[2] \notin call[c].before
    BY <2>2
  <2>5. QED BY <1>5, <1>6, <1>8, <2>3, <2>4, AccountWritten
<1>10. /\ holds' \in [Accounts -> SUBSET UserRole]
       /\ \A b \in Accounts : holds[b] # {} => holds'[b] # {}
       /\ \A b \in Accounts : b # a => holds'[b] = holds[b]
  BY <1>2, <1>5, <1>7, AccountTypes
<1>11. TypeOK'
  BY <1>2, <1>8, <1>10, AcceptedHold DEF StepOf, IInv, TypeOK
<1>12. CallsInv' /\ InvitesInv'
  <2>1. \A i \in Links : invites[i].accepted \/ invites[i].revoked => invites[i].made
    BY DEF IInv, ShapeInv, InvitesInv
  <2>2. QED BY <1>2, <1>8, <2>1, InvitesWritten
<1>13. AccountsInv'
  <2>1. \A co \in Companies : Opened(co) => Opened(co)'
    BY <1>8, OpenedStays
  <2>2. Opened(a[1])'
    BY <1>5, <1>8 DEF Opened
  <2>3. \A b \in Accounts : b[1] \in Companies
    BY DEF Accounts
  <2>4. QED BY <1>10, <2>1, <2>2, <2>3 DEF AccountsInv, IInv, ShapeInv
<1>14. OneAcceptance'
  BY <1>2 DEF IInv, OneAcceptance
<1>15. QED BY <1>9, <1>11, <1>12, <1>13, <1>14 DEF IInv, ShapeInv

LEMMA ExpireInvariant ==
  ASSUME IInv, NEW i \in Links, Expire(i)
  PROVE  IInv'
<1>1. /\ invites' = [invites EXCEPT ![i].expired = TRUE] /\ UNCHANGED <<holds, call>>
  BY DEF Expire
<1>2. \A j \in Links :
        /\ invites'[j] \in Invite
        /\ invites'[j].made = invites[j].made
        /\ invites'[j].accepted = invites[j].accepted
        /\ invites'[j].revoked = invites[j].revoked
        /\ invites'[j].company = invites[j].company
        /\ invites'[j].person = invites[j].person
        /\ invites'[j].roles = invites[j].roles
  BY <1>1 DEF IInv, TypeOK, Invite
<1>3. TypeOK'
  <2>1. invites' \in [Links -> Invite]
    BY <1>1, <1>2 DEF IInv, TypeOK
  <2>2. QED BY <1>1, <1>2, <2>1 DEF IInv, TypeOK
<1>4. ShapeInv'
  BY <1>1, <1>2 DEF IInv, ShapeInv, CallsInv, InvitesInv, AccountsInv, Opened
<1>5. RolesInv'
  BY <1>1
  DEF IInv, RolesInv, BeforeInv, OkInv, RowsInv, SeenInv, MixedOnlyTogether, MemberHolds,
      Answered, Together, Overlap
<1>6. OneAcceptance'
  BY <1>2 DEF IInv, OneAcceptance
<1>7. QED BY <1>3, <1>4, <1>5, <1>6 DEF IInv

-----------------------------------------------------------------------------
(* The theorems.                                                            *)

LEMMA NextInvariant == IInv /\ [Next]_vars => IInv'
<1> SUFFICES ASSUME IInv, [Next]_vars PROVE IInv'
  OBVIOUS
<1>1. ASSUME NEW c \in Calls, CallStep(c) PROVE IInv'
  BY <1>1, ReadingInvariant, BeginningInvariant, ReplaceRolesInvariant,
     IssueInviteInvariant, RevokeInviteInvariant, ConsumeInviteInvariant,
     CreateCompanyInvariant
  DEF CallStep, SetRolesStep, InviteStep, RevokeStep, AcceptStep, RegisterStep
<1>2. CASE UNCHANGED vars
  BY <1>2
  DEF vars, IInv, TypeOK, ShapeInv, CallsInv, InvitesInv, AccountsInv, Opened,
      RolesInv, BeforeInv, OkInv, RowsInv, SeenInv, MixedOnlyTogether, MemberHolds,
      Answered, Together, Overlap, OneAcceptance
<1>3. QED BY <1>1, <1>2, ExpireInvariant DEF Next

LEMMA IInvariant == Spec => []IInv
BY InitInvariant, NextInvariant, PTL DEF Spec

\* The state has its type, and whoever accepted an invitation has an account.
THEOREM TypeCorrect == Spec => []TypeOK
<1>1. IInv => TypeOK
  BY DEF IInv
<1>2. QED BY <1>1, IInvariant, PTL

\* An address joins a company by at most one of the invitations it was sent.
THEOREM AcceptedOnce == Spec => []OneAcceptance
<1>1. IInv => OneAcceptance
  BY DEF IInv
<1>2. QED BY <1>1, IInvariant, PTL

\* A member's roles are those of one change, unless two changes of that
\* member's roles were under way together.
THEOREM RolesOfOneChange == Spec => []MixedOnlyTogether
<1>1. IInv => MixedOnlyTogether
  BY DEF IInv, RolesInv
<1>2. QED BY <1>1, IInvariant, PTL

\* A revoked invitation that was not accepted never is.
THEOREM RevocationHolds == Spec => RevokedIsFinal
<1> DEFINE Final == \A i \in Links :
                      invites[i].revoked /\ ~invites[i].accepted => ~invites'[i].accepted
<1>1. ASSUME IInv, [Next]_vars PROVE [Final]_vars
  <2> SUFFICES ASSUME Next, NEW i \in Links, invites[i].revoked, ~invites[i].accepted
               PROVE  ~invites'[i].accepted
    BY <1>1
  <2>1. CASE UNCHANGED invites
    BY <2>1
  <2>2. ASSUME NEW c \in Calls, IssueInvite(c) PROVE ~invites'[i].accepted
    BY <1>1, <2>2 DEF IssueInvite, NoInvite, Open, IInv, TypeOK, Invite
  <2>3. ASSUME NEW c \in Calls, RevokeInvite(c) PROVE ~invites'[i].accepted
    BY <1>1, <2>3 DEF RevokeInvite, IInv, TypeOK, Invite
  <2>4. ASSUME NEW c \in Calls, ConsumeInvite(c) PROVE ~invites'[i].accepted
    BY <1>1, <2>4 DEF ConsumeInvite, Refuse, Consumable, Open, IInv, TypeOK, Invite
  <2>5. ASSUME NEW j \in Links, Expire(j) PROVE ~invites'[i].accepted
    BY <1>1, <2>5 DEF Expire, IInv, TypeOK, Invite
  <2>6. ASSUME NEW c \in Calls, CallStep(c), ~IssueInvite(c), ~RevokeInvite(c), ~ConsumeInvite(c)
        PROVE  UNCHANGED invites
    BY <2>6
    DEF CallStep, SetRolesStep, InviteStep, RevokeStep, AcceptStep, RegisterStep, Guard,
        BeginSetRoles, BeginInvite, BeginRevoke, BeginAccept, BeginRegister, Begin, Refuse,
        ReadMember, CountOwners, SeeRoles, ReplaceRoles, ReadExisting, SeeOutstanding,
        FindInvite, ResolveInvite, ReadTaken, ReadAvailable, CreateCompany
  <2>7. QED BY <2>1, <2>2, <2>3, <2>4, <2>5, <2>6 DEF Next
<1>2. QED BY <1>1, IInvariant, PTL DEF Spec, RevokedIsFinal

-----------------------------------------------------------------------------
(* Companies keep an Owner.                                                 *)

Peopled(co) == \E p \in People : Exists(co, p)

\* Whoever invites is a member of a company that has members, and stays so.
PeopledInv ==
  /\ \A i \in Links : invites[i].made => Peopled(invites[i].company)
  /\ \A c \in Calls : call[c].at \notin {"idle", "done"} =>
       /\ call[c].kind = "invite" => Peopled(call[c].company)
       /\ call[c].kind = "register" => call[c].roles = {Owner}

\* Two changes under way together have each taken the role from somebody.
Pair(co) ==
  \E c, d \in Calls : /\ Together("setRoles", c, d)
                      /\ call[c].company = co /\ call[d].company = co
                      /\ Owner \notin call[c].roles \cup call[d].roles

OtherOwner(c) == \E p \in People \ {call[c].person} : Owner \in RolesOf(call[c].company, p)

\* Another change has taken the role from somebody since this one began.
Took(c) ==
  \E d \in Calls : /\ Answered(d, "setRoles") /\ call[d].company = call[c].company
                   /\ Owner \notin call[d].roles /\ d \notin call[c].before

PairOf(c) == Pair(call[c].company)

\* A change that takes the role has seen another Owner, and only another
\* change can have taken the role from that one.
Covered(c) == PairOf(c) \/ OtherOwner(c) \/ Took(c)

TakersInv ==
  \A c \in Calls :
    call[c].at \in {"delete", "replace"} /\ Owner \notin call[c].roles => Covered(c)

OInv == PeopledInv /\ TakersInv /\ OwnerSurvives

LEMMA OwnersOrPair ==
  OwnerSurvives <=>
    \A co \in Companies : Peopled(co) =>
      Pair(co) \/ \E p \in People : Owner \in RolesOf(co, p)
BY DEF OwnerSurvives, Peopled, Pair, Owners

\* A step leaves every other call as it is, and its own had not ended.
LEMMA StepFrame ==
  ASSUME IInv, IInv', NEW c \in Calls, CallStep(c)
  PROVE  StepOf(c)
<1>1. ASSUME Refuse(c), call[c].at # "done" PROVE StepOf(c)
  BY <1>1 DEF Refuse, StepOf, IInv, TypeOK
<1>2. CASE Guard(c) \/ SetRolesStep(c)
  BY <1>1, <1>2
  DEF Guard, SetRolesStep, BeginSetRoles, ReadMember, CountOwners, SeeRoles, ReplaceRoles,
      Begin, Goto, See, Succeed, StepOf, IInv, TypeOK
<1>3. CASE InviteStep(c) \/ RevokeStep(c)
  BY <1>1, <1>3
  DEF InviteStep, RevokeStep, BeginInvite, ReadExisting, SeeOutstanding, IssueInvite,
      BeginRevoke, FindInvite, RevokeInvite, Begin, Goto, See, Succeed, StepOf, IInv, TypeOK
<1>4. CASE AcceptStep(c) \/ RegisterStep(c)
  BY <1>1, <1>4
  DEF AcceptStep, RegisterStep, BeginAccept, ResolveInvite, ReadTaken, ConsumeInvite,
      BeginRegister, ReadAvailable, CreateCompany, Begin, Goto, See, Succeed, StepOf,
      IInv, TypeOK
<1>5. QED BY <1>2, <1>3, <1>4 DEF CallStep

\* What is said of answered calls stays true.
LEMMA PairStays ==
  ASSUME IInv, NEW c \in Calls, StepOf(c), NEW co, Pair(co)
  PROVE  Pair(co)'
<1>1. PICK d, e \in Calls : /\ Together("setRoles", d, e)
                           /\ call[d].company = co /\ call[e].company = co
                           /\ Owner \notin call[d].roles \cup call[e].roles
  BY DEF Pair
<1>2. call'[d] = call[d] /\ call'[e] = call[e]
  BY <1>1, NotAnswered DEF Together, Answered, StepOf
<1>3. Together("setRoles", d, e)'
  BY <1>1, <1>2 DEF Together, Answered, Overlap
<1>4. QED BY <1>1, <1>2, <1>3 DEF Pair

LEMMA CoverStays ==
  ASSUME IInv, NEW c \in Calls, StepOf(c), NEW d \in Calls,
         call'[d].company = call[d].company, call'[d].before = call[d].before
  PROVE  /\ PairOf(d) => PairOf(d)'
         /\ Took(d) => Took(d)'
<1>1. ASSUME PairOf(d) PROVE PairOf(d)'
  <2>1. PICK co : co = call[d].company
    OBVIOUS
  <2>2. Pair(co)'
    BY <1>1, <2>1, PairStays DEF PairOf
  <2>3. QED BY <2>1, <2>2 DEF PairOf, Pair
<1>2. ASSUME Took(d) PROVE Took(d)'
  <2>1. PICK e \in Calls : /\ Answered(e, "setRoles") /\ call[e].company = call[d].company
                          /\ Owner \notin call[e].roles /\ e \notin call[d].before
    BY <1>2 DEF Took
  <2>2. call'[e] = call[e]
    BY <2>1, NotAnswered DEF Answered, StepOf
  <2>3. QED BY <2>1, <2>2 DEF Took, Answered
<1>3. QED BY <1>1, <1>2

\* A step that leaves every account as it is, and whose own call is fine.
LEMMA QuietOwners ==
  ASSUME IInv, OInv, NEW c \in Calls, StepOf(c), UNCHANGED holds,
         \A i \in Links : invites'[i].made => Peopled(invites'[i].company),
         call'[c].at \notin {"idle", "done"} =>
           /\ call'[c].kind = "invite" => Peopled(call'[c].company)
           /\ call'[c].kind = "register" => call'[c].roles = {Owner},
         call'[c].at \in {"delete", "replace"} /\ Owner \notin call'[c].roles =>
           Covered(c)'
  PROVE  OInv'
<1>1. \A d \in Calls : d # c => call'[d] = call[d]
  BY DEF StepOf
<1>2. \A co : Peopled(co)' <=> Peopled(co)
  BY DEF Peopled, Exists
<1>3. PeopledInv'
  BY <1>1, <1>2 DEF OInv, PeopledInv
<1>4. ASSUME NEW d \in Calls, d # c, call'[d].at \in {"delete", "replace"},
             Owner \notin call'[d].roles
      PROVE  Covered(d)'
  <2>1. call'[d] = call[d]
    BY <1>1, <1>4
  <2>2. Covered(d)
    BY <1>4, <2>1 DEF OInv, TakersInv
  <2>3. OtherOwner(d) => OtherOwner(d)'
    BY <2>1 DEF OtherOwner, RolesOf
  <2>4. QED BY <1>4, <2>1, <2>2, <2>3, CoverStays DEF Covered
<1>5. TakersInv'
  BY <1>4 DEF TakersInv
<1>6. OwnerSurvives'
  <2>1. \A co \in Companies : Peopled(co) =>
          Pair(co) \/ \E p \in People : Owner \in RolesOf(co, p)
    BY OwnersOrPair DEF OInv
  <2>2. \A co \in Companies : Peopled(co)' =>
          Pair(co)' \/ \E p \in People : Owner \in RolesOf(co, p)'
    BY <1>2, <2>1, PairStays DEF RolesOf
  <2>3. QED BY <2>2 DEF OwnerSurvives, Peopled, Pair, Owners
<1>7. QED BY <1>3, <1>5, <1>6 DEF OInv

\* The same for a call that goes on with what it is about.
LEMMA KeptOwners ==
  ASSUME IInv, OInv, NEW c \in Calls, StepOf(c), UNCHANGED <<holds, invites>>,
         call[c].at # "idle",
         call'[c].kind = call[c].kind, call'[c].company = call[c].company,
         call'[c].roles = call[c].roles,
         call'[c].at \in {"delete", "replace"} /\ Owner \notin call'[c].roles =>
           Covered(c)'
  PROVE  OInv'
<1>1. call[c].at \notin {"idle", "done"}
  BY DEF StepOf
<1>2. /\ call[c].kind = "invite" => Peopled(call[c].company)
      /\ call[c].kind = "register" => call[c].roles = {Owner}
      /\ \A i \in Links : invites[i].made => Peopled(invites[i].company)
  BY <1>1 DEF OInv, PeopledInv
<1>3. QED BY <1>2, QuietOwners

LEMMA RefusedOwners ==
  ASSUME IInv, OInv, NEW c \in Calls, StepOf(c), Refuse(c)
  PROVE  OInv'
<1>1. call'[c].at = "done" /\ UNCHANGED <<holds, invites>>
  BY DEF Refuse, NoCall, IInv, TypeOK
<1>2. \A i \in Links : invites[i].made => Peopled(invites[i].company)
  BY DEF OInv, PeopledInv
<1>3. QED BY <1>1, <1>2, QuietOwners

LEMMA ReadingOwners ==
  ASSUME IInv, OInv, NEW c \in Calls, StepOf(c),
         \/ Guard(c) \/ ReadMember(c) \/ CountOwners(c) \/ SeeRoles(c)
         \/ ReadExisting(c) \/ SeeOutstanding(c) \/ FindInvite(c)
         \/ ResolveInvite(c) \/ ReadTaken(c) \/ ReadAvailable(c)
  PROVE  OInv'
<1>1. CASE Refuse(c)
  BY <1>1, RefusedOwners
<1>2. call[c] \in Call /\ call \in [Calls -> Call]
  BY DEF IInv, TypeOK
<1>3. CASE ReadMember(c) /\ ~Refuse(c)
  <2>1. /\ call[c].at = "member" /\ MemberHolds(c) # {} /\ Goto(c, AfterMember(c))
        /\ UNCHANGED <<holds, invites>>
    BY <1>3 DEF ReadMember
  <2>2. /\ call'[c].kind = call[c].kind /\ call'[c].company = call[c].company
        /\ call'[c].roles = call[c].roles /\ call'[c].person = call[c].person
        /\ call'[c].before = call[c].before /\ call'[c].at = AfterMember(c)
    BY <1>2, <2>1 DEF Goto, Call
  <2>3. ASSUME call'[c].at = "delete", Owner \notin call[c].roles
        PROVE  Covered(c)'
    <3>1. call[c].kind = "setRoles"
      BY <2>1, UnderWay DEF KindAt
    <3>2. call[c].person \in People /\ call[c].company \in Companies
      BY <2>1, <3>1, UnderWay
    <3>3. Owner \notin RolesOf(call[c].company, call[c].person)
      BY <2>2, <2>3 DEF AfterMember, Demotes, MemberHolds, RolesOf
    <3>4. Peopled(call[c].company)
      BY <2>1, <3>2 DEF Peopled, Exists, MemberHolds
    <3>5. Pair(call[c].company) \/ \E p \in People : Owner \in RolesOf(call[c].company, p)
      BY <3>2, <3>4, OwnersOrPair DEF OInv
    <3>6. PairOf(c) \/ OtherOwner(c)
      BY <3>3, <3>5 DEF OtherOwner, PairOf
    <3>7. OtherOwner(c) => OtherOwner(c)'
      BY <2>1, <2>2 DEF OtherOwner, RolesOf
    <3>8. QED BY <2>2, <3>6, <3>7, CoverStays DEF Covered
  <2>4. call'[c].at # "replace"
    BY <2>2 DEF AfterMember
  <2>5. QED BY <2>1, <2>2, <2>3, <2>4, KeptOwners
<1>4. CASE CountOwners(c) /\ ~Refuse(c)
  <2>1. /\ call[c].at = "count" /\ Goto(c, "delete") /\ UNCHANGED <<holds, invites>>
        /\ ~(Cardinality(Owners(call[c].company)) <= 1)
    BY <1>4 DEF CountOwners
  <2>2. /\ call'[c].kind = call[c].kind /\ call'[c].company = call[c].company
        /\ call'[c].roles = call[c].roles /\ call'[c].person = call[c].person
    BY <1>2, <2>1 DEF Goto, Call
  <2>3. OtherOwner(c)
    <3>1. CASE Owners(call[c].company) \subseteq {call[c].person}
      <4>1. Owners(call[c].company) = {} \/ Owners(call[c].company) = {call[c].person}
        BY <3>1
      <4>2. Cardinality(Owners(call[c].company)) \in {0, 1}
        BY <4>1, FS_EmptySet, FS_Singleton
      <4>3. QED BY <2>1, <4>2
    <3>2. CASE ~(Owners(call[c].company) \subseteq {call[c].person})
      BY <3>2 DEF OtherOwner, Owners
    <3>3. QED BY <3>1, <3>2
  <2>4. OtherOwner(c)'
    BY <2>1, <2>2, <2>3 DEF OtherOwner, RolesOf
  <2>5. QED BY <2>1, <2>2, <2>4, KeptOwners DEF Covered
<1>5. CASE SeeRoles(c)
  <2>1. /\ call[c].at = "delete" /\ See(c, "replace", MemberHolds(c))
        /\ UNCHANGED <<holds, invites>>
    BY <1>5 DEF SeeRoles
  <2>2. /\ call'[c].kind = call[c].kind /\ call'[c].company = call[c].company
        /\ call'[c].roles = call[c].roles /\ call'[c].person = call[c].person
        /\ call'[c].before = call[c].before
    BY <1>2, <2>1 DEF See, Call
  <2>3. Owner \notin call[c].roles =>
          Covered(c)
    BY <2>1 DEF OInv, TakersInv
  <2>4. OtherOwner(c) => OtherOwner(c)'
    BY <2>1, <2>2 DEF OtherOwner, RolesOf
  <2>5. Owner \notin call[c].roles =>
          Covered(c)'
    BY <2>2, <2>3, <2>4, CoverStays DEF Covered
  <2>6. QED BY <2>1, <2>2, <2>5, KeptOwners
<1>6. CASE ~Refuse(c) /\ (Guard(c) \/ ReadExisting(c) \/ SeeOutstanding(c) \/ FindInvite(c)
                          \/ ResolveInvite(c) \/ ReadTaken(c) \/ ReadAvailable(c))
  <2>1. /\ call[c].at \in {"guard", "existing", "retire", "find", "resolve", "taken", "available"}
        /\ call'[c].kind = call[c].kind /\ call'[c].company = call[c].company
        /\ call'[c].roles = call[c].roles
        /\ UNCHANGED <<holds, invites>>
    BY <1>2, <1>6
    DEF Guard, ReadExisting, SeeOutstanding, FindInvite, ResolveInvite, ReadTaken,
        ReadAvailable, Goto, See, Call
  <2>2. call'[c].at \notin {"delete", "replace"}
    BY <1>2, <1>6
    DEF Guard, AfterGuard, ReadExisting, SeeOutstanding, FindInvite, ResolveInvite, ReadTaken,
        ReadAvailable, Goto, See, Call
  <2>3. QED BY <2>1, <2>2, KeptOwners
<1>7. QED BY <1>1, <1>3, <1>4, <1>5, <1>6

\* The same for a call that begins.
LEMMA BeginOwners ==
  ASSUME IInv, OInv, NEW c \in Calls, StepOf(c), NEW request \in Call, Begin(c, request),
         request.at \notin {"delete", "replace"},
         request.kind = "register" => request.roles = {Owner},
         request.kind = "invite" => Peopled(request.company)
  PROVE  OInv'
<1> DEFINE v == [request EXCEPT !.before = {d \in Calls : call[d].ok}]
<1>1. /\ v.kind = request.kind /\ v.at = request.at
      /\ v.roles = request.roles /\ v.company = request.company
  BY DEF Call
<1>2. call' = [call EXCEPT ![c] = v] /\ UNCHANGED <<holds, invites>>
  BY DEF Begin
<1> HIDE DEF v
<1>3. call'[c] = v
  BY <1>2 DEF IInv, TypeOK
<1>4. /\ \A i \in Links : invites[i].made => Peopled(invites[i].company)
      /\ UNCHANGED invites
  BY <1>2 DEF OInv, PeopledInv
<1>5. PICK kind, at, roles, co :
        /\ call'[c].kind = kind /\ call'[c].at = at
        /\ call'[c].roles = roles /\ call'[c].company = co
        /\ at \notin {"delete", "replace"}
        /\ kind = "register" => roles = {Owner}
        /\ kind = "invite" => Peopled(co)
  BY <1>1, <1>3
<1>6. QED BY <1>2, <1>4, <1>5, QuietOwners

LEMMA BeginningOwners ==
  ASSUME IInv, OInv, NEW c \in Calls, StepOf(c),
         BeginSetRoles(c) \/ BeginInvite(c) \/ BeginRevoke(c) \/ BeginAccept(c)
         \/ BeginRegister(c)
  PROVE  OInv'
<1>1. NoCall \in Call /\ Home \in Companies /\ c \in Companies
  BY DEF NoCall, Call, Companies, CallSteps
<1>2. \A i \in Links : /\ invites[i].company \in Companies
                       /\ invites[i].person \in People \cup {None}
                       /\ invites[i].roles \in SUBSET Roles
  BY DEF IInv, TypeOK, Invite
<1>3. CASE BeginSetRoles(c)
  <2>1. PICK co \in Companies, a \in People, p \in People, rs \in (SUBSET Roles) \ {{}} :
          Begin(c, [NoCall EXCEPT !.kind = "setRoles", !.at = "guard", !.actor = a,
                                  !.company = co, !.person = p, !.roles = rs])
    BY <1>3 DEF BeginSetRoles
  <2> DEFINE v == [NoCall EXCEPT !.kind = "setRoles", !.at = "guard", !.actor = a,
                                 !.company = co, !.person = p, !.roles = rs]
  <2>2. v \in Call /\ v.kind = "setRoles" /\ v.at = "guard"
    BY <1>1 DEF Call, NoCall, AllCallKinds, CallSteps
  <2>3. Begin(c, v)
    BY <2>1
  <2> HIDE DEF v
  <2>4. QED BY <2>2, <2>3, BeginOwners
<1>4. CASE BeginInvite(c)
  <2>1. PICK co \in Companies, a \in People, p \in People, r \in Roles :
          /\ Exists(co, a)
          /\ Begin(c, [NoCall EXCEPT !.kind = "invite", !.at = "guard", !.actor = a,
                                     !.company = co, !.person = p, !.roles = {r}])
    BY <1>4 DEF BeginInvite
  <2> DEFINE v == [NoCall EXCEPT !.kind = "invite", !.at = "guard", !.actor = a,
                                 !.company = co, !.person = p, !.roles = {r}]
  <2>2. v \in Call /\ v.kind = "invite" /\ v.at = "guard" /\ v.company = co
    BY <1>1 DEF Call, NoCall, AllCallKinds, CallSteps
  <2>3. Begin(c, v) /\ Peopled(co)
    BY <2>1 DEF Peopled
  <2> HIDE DEF v
  <2>4. QED BY <2>2, <2>3, BeginOwners
<1>5. CASE BeginRevoke(c)
  <2>1. PICK i \in Links, a \in People :
          Begin(c, [NoCall EXCEPT !.kind = "revoke", !.at = "guard", !.actor = a,
                                  !.company = invites[i].company, !.invite = i])
    BY <1>5 DEF BeginRevoke
  <2> DEFINE v == [NoCall EXCEPT !.kind = "revoke", !.at = "guard", !.actor = a,
                                 !.company = invites[i].company, !.invite = i]
  <2>2. v \in Call /\ v.kind = "revoke" /\ v.at = "guard"
    BY <1>1, <1>2 DEF Call, NoCall, AllCallKinds, CallSteps
  <2>3. Begin(c, v)
    BY <2>1
  <2> HIDE DEF v
  <2>4. QED BY <2>2, <2>3, BeginOwners
<1>6. CASE BeginAccept(c)
  <2>1. PICK i \in Links :
          Begin(c, [NoCall EXCEPT !.kind = "accept", !.at = "resolve", !.invite = i,
                                  !.company = invites[i].company,
                                  !.person = invites[i].person, !.roles = invites[i].roles])
    BY <1>6 DEF BeginAccept
  <2> DEFINE v == [NoCall EXCEPT !.kind = "accept", !.at = "resolve", !.invite = i,
                                 !.company = invites[i].company,
                                 !.person = invites[i].person, !.roles = invites[i].roles]
  <2>2. v \in Call /\ v.kind = "accept" /\ v.at = "resolve"
    BY <1>1, <1>2 DEF Call, NoCall, AllCallKinds, CallSteps
  <2>3. Begin(c, v)
    BY <2>1
  <2> HIDE DEF v
  <2>4. QED BY <2>2, <2>3, BeginOwners
<1>7. CASE BeginRegister(c)
  <2>1. PICK p \in People :
          Begin(c, [NoCall EXCEPT !.kind = "register", !.at = "available", !.person = p,
                                  !.company = c, !.roles = {Owner}])
    BY <1>7 DEF BeginRegister
  <2> DEFINE v == [NoCall EXCEPT !.kind = "register", !.at = "available", !.person = p,
                                 !.company = c, !.roles = {Owner}]
  <2>2. v \in Call /\ v.kind = "register" /\ v.at = "available" /\ v.roles = {Owner}
    BY <1>1, RolesAssumption DEF Call, NoCall, AllCallKinds, CallSteps
  <2>3. Begin(c, v)
    BY <2>1
  <2> HIDE DEF v
  <2>4. QED BY <2>2, <2>3, BeginOwners
<1>8. QED BY <1>3, <1>4, <1>5, <1>6, <1>7

LEMMA InvitesOwners ==
  ASSUME IInv, OInv, NEW c \in Calls, StepOf(c), IssueInvite(c) \/ RevokeInvite(c)
  PROVE  OInv'
<1>1. call'[c].at = "done" /\ UNCHANGED holds
  BY DEF IssueInvite, RevokeInvite, Succeed, IInv, TypeOK, Call
<1>2. \A i \in Links : invites[i].made => Peopled(invites[i].company)
  BY DEF OInv, PeopledInv
<1>3. CASE IssueInvite(c)
  <2>1. call[c].at = "issue"
    BY <1>3 DEF IssueInvite
  <2>2. call[c].kind = "invite"
    BY <2>1, UnderWay DEF KindAt
  <2>3. Peopled(call[c].company)
    BY <2>1, <2>2 DEF OInv, PeopledInv
  <2>4. \A i \in Links : invites'[i].made =>
          \/ invites'[i].company = call[c].company
          \/ invites[i].made /\ invites'[i].company = invites[i].company
    BY <1>3 DEF IssueInvite, NoInvite, Open, IInv, TypeOK, Invite
  <2>5. QED BY <1>1, <1>2, <2>3, <2>4, QuietOwners
<1>4. CASE RevokeInvite(c)
  <2>1. \A i \in Links : /\ invites'[i].made = invites[i].made
                         /\ invites'[i].company = invites[i].company
    BY <1>4 DEF RevokeInvite, IInv, TypeOK, Invite
  <2>2. QED BY <1>1, <1>2, <2>1, QuietOwners
<1>5. QED BY <1>3, <1>4

OwnerOrPair(co) == Pair(co) \/ \E p \in People : Owner \in RolesOf(co, p)

\* A step that writes one account, and takes the role from it only as an
\* answered change of roles.
LEMMA AccountOwners ==
  ASSUME IInv, OInv, NEW c \in Calls, StepOf(c), call'[c].at = "done",
         NEW co \in Companies, NEW q \in People, NEW rows, rows # {},
         holds' = [holds EXCEPT ![<<co, q>>] = rows],
         \A i \in Links : invites'[i].made = invites[i].made
                          /\ invites'[i].company = invites[i].company,
         Owner \in RolesOf(co, q) =>
           \/ Owner \in RolesIn(rows)
           \/ /\ call'[c].ok /\ call'[c].kind = "setRoles"
              /\ call'[c].company = co /\ Owner \notin call'[c].roles,
         Peopled(co) \/ Owner \in RolesIn(rows),
         OwnerOrPair(co) => OwnerOrPair(co)'
  PROVE  OInv'
<1>1. /\ \A d \in Calls : d # c => call'[d] = call[d]
      /\ \A d \in Calls : c \notin call[d].before
  BY NotAnswered DEF StepOf
<1>2. /\ <<co, q>> \in Accounts /\ holds'[<<co, q>>] = rows
      /\ \A o \in Companies, p \in People : <<o, p>> # <<co, q>> => holds'[<<o, p>>] = holds[<<o, p>>]
  BY DEF Accounts, IInv, TypeOK
<1>3. \A o \in Companies : \A p \in People : holds[<<o, p>>] # {} => holds'[<<o, p>>] # {}
  BY <1>2
<1>4. \A o \in Companies : Peopled(o) => Peopled(o)'
  BY <1>3 DEF Peopled, Exists
<1>5. \A i \in Links : invites[i].company \in Companies
  BY DEF IInv, TypeOK, Invite
<1>6. \A d \in Calls : call[d].company \in Companies
  BY DEF IInv, TypeOK, Call
<1>7. PeopledInv'
  <2>1. ASSUME NEW o \in Companies, \E p \in People : holds[<<o, p>>] # {}
        PROVE  \E p \in People : holds'[<<o, p>>] # {}
    BY <1>3, <2>1
  <2>2. ASSUME NEW i \in Links, invites'[i].made
        PROVE  \E p \in People : holds'[<<invites'[i].company, p>>] # {}
    <3>1. \E p \in People : holds[<<invites[i].company, p>>] # {}
      BY <2>2 DEF OInv, PeopledInv, Peopled, Exists
    <3>2. PICK o \in Companies : o = invites[i].company /\ o = invites'[i].company
      BY <1>5
    <3>3. QED BY <2>1, <3>1, <3>2
  <2>3. ASSUME NEW d \in Calls, call'[d].at \notin {"idle", "done"}
        PROVE  /\ call'[d].kind = "invite" =>
                    \E p \in People : holds'[<<call'[d].company, p>>] # {}
               /\ call'[d].kind = "register" => call'[d].roles = {Owner}
    <3>1. call'[d] = call[d]
      BY <1>1, <2>3
    <3>2. /\ call[d].kind = "invite" => \E p \in People : holds[<<call[d].company, p>>] # {}
          /\ call[d].kind = "register" => call[d].roles = {Owner}
      BY <2>3, <3>1 DEF OInv, PeopledInv, Peopled, Exists
    <3>3. QED BY <1>6, <2>1, <3>1, <3>2
  <2>4. QED BY <2>2, <2>3 DEF PeopledInv, Peopled, Exists
<1>8. ASSUME NEW d \in Calls, d # c, call[d].at \in {"delete", "replace"},
             Owner \notin call[d].roles
      PROVE  Covered(d)'
  <2>1. call'[d] = call[d]
    BY <1>1, <1>8
  <2>2. Covered(d)
    BY <1>8 DEF OInv, TakersInv
  <2>3. ASSUME OtherOwner(d) PROVE OtherOwner(d)' \/ Took(d)'
    <3>1. PICK p \in People \ {call[d].person} : Owner \in RolesOf(call[d].company, p)
      BY <2>3 DEF OtherOwner
    <3>2. CASE Owner \in RolesIn(holds'[<<call[d].company, p>>])
      BY <2>1, <3>1, <3>2 DEF OtherOwner, RolesOf
    <3>3. CASE Owner \notin RolesIn(holds'[<<call[d].company, p>>])
      <4>1. call[d].company = co /\ p = q
        BY <1>2, <1>6, <3>1, <3>3 DEF RolesOf
      <4>2. /\ call'[c].ok /\ call'[c].kind = "setRoles"
            /\ call'[c].company = co /\ Owner \notin call'[c].roles
        BY <1>2, <3>1, <3>3, <4>1
      <4>3. QED BY <1>1, <2>1, <4>1, <4>2 DEF Took, Answered
    <3>4. QED BY <3>2, <3>3
  <2>4. QED BY <2>1, <2>2, <2>3, CoverStays DEF Covered
<1>9. TakersInv'
  BY <1>1, <1>8 DEF TakersInv
<1>10. ASSUME NEW o \in Companies, Peopled(o)' PROVE OwnerOrPair(o)'
  <2>1. CASE o = co
    <3>1. CASE Peopled(co)
      <4>1. OwnerOrPair(co)
        BY <3>1, OwnersOrPair DEF OInv, OwnerOrPair
      <4>2. QED BY <2>1, <4>1
    <3>2. CASE Owner \in RolesIn(rows)
      BY <1>2, <2>1, <3>2 DEF OwnerOrPair, RolesOf
    <3>3. QED BY <3>1, <3>2
  <2>2. CASE o # co
    <3>1. \A p \in People : holds'[<<o, p>>] = holds[<<o, p>>]
      BY <1>2, <2>2
    <3>2. Peopled(o)
      BY <1>10, <3>1 DEF Peopled, Exists
    <3>3. Pair(o) \/ \E p \in People : Owner \in RolesOf(o, p)
      BY <3>2, OwnersOrPair DEF OInv
    <3>4. CASE Pair(o)
      <4>1. Pair(o)'
        BY <3>4, PairStays
      <4>2. QED BY <4>1 DEF OwnerOrPair
    <3>5. CASE \E p \in People : Owner \in RolesOf(o, p)
      BY <3>1, <3>5 DEF OwnerOrPair, RolesOf
    <3>6. QED BY <3>3, <3>4, <3>5
  <2>3. QED BY <2>1, <2>2
<1>11. OwnerSurvives'
  BY <1>10 DEF OwnerSurvives, OwnerOrPair, Peopled, Pair, Owners
<1>12. QED BY <1>7, <1>9, <1>11 DEF OInv

LEMMA ReplaceRolesOwners ==
  ASSUME IInv, OInv, NEW c \in Calls, StepOf(c), ReplaceRoles(c)
  PROVE  OInv'
<1>1. CASE Refuse(c)
  BY <1>1, RefusedOwners
<1>2. CASE ~Refuse(c)
  <2>1. call[c].at = "replace" /\ Succeed(c) /\ UNCHANGED invites
    BY <1>2 DEF ReplaceRoles
  <2>2. call[c].kind = "setRoles"
    BY <2>1, UnderWay DEF KindAt
  <2>3. PICK co \in Companies, q \in People, rs \in SUBSET Roles :
          /\ co = call[c].company /\ q = call[c].person /\ rs = call[c].roles
          /\ rs # {} /\ <<co, q>> \in Accounts
    BY <2>1, <2>2, UnderWay
  <2>4. PICK rows : rows = (holds[<<co, q>>] \ call[c].rows) \cup Rows(c, rs)
    OBVIOUS
  <2>5. holds' = [holds EXCEPT ![<<co, q>>] = rows]
    BY <1>2, <2>3, <2>4 DEF ReplaceRoles, Replaced
  <2>6. /\ call'[c].kind = "setRoles" /\ call'[c].company = co /\ call'[c].roles = rs
        /\ call'[c].ok /\ call'[c].at = "done" /\ call'[c].person = q
        /\ call'[c].before = call[c].before
    BY <2>1, <2>2, <2>3 DEF Succeed, IInv, TypeOK, Call
  <2>7. rows # {} /\ (Owner \in rs => Owner \in RolesIn(rows))
    <3>1. \A role \in rs : <<role, c>> \in rows
      BY <2>4 DEF Rows
    <3>2. rows # {}
      BY <2>3, <3>1
    <3>3. <<Owner, c>>[1] = Owner
      OBVIOUS
    <3>4. Owner \in rs => Owner \in RolesIn(rows)
      BY <3>1, <3>3 DEF RolesIn
    <3>5. QED BY <3>2, <3>4
  <2>8. Peopled(co)
    BY <2>1, <2>3 DEF IInv, RolesInv, SeenInv, MemberHolds, Peopled, Exists
  <2>9. holds'[<<co, q>>] = rows /\ \A p \in People : p # q => holds'[<<co, p>>] = holds[<<co, p>>]
    BY <2>3, <2>5 DEF Accounts, IInv, TypeOK
  <2>10. OwnerOrPair(co)'
    <3>1. CASE Owner \in rs
      BY <2>7, <2>9, <3>1 DEF OwnerOrPair, RolesOf
    <3>2. CASE Owner \notin rs
      <4>1. Covered(c)
        BY <2>1, <2>3, <3>2 DEF OInv, TakersInv
      <4>2. CASE PairOf(c)
        <5>1. Pair(co)
          BY <2>3, <4>2 DEF PairOf
        <5>2. Pair(co)'
          BY <5>1, PairStays
        <5>3. QED BY <5>2 DEF OwnerOrPair
      <4>3. CASE OtherOwner(c)
        <5>1. PICK p \in People : p # q /\ Owner \in RolesIn(holds[<<co, p>>])
          BY <2>3, <4>3 DEF OtherOwner, RolesOf
        <5>2. Owner \in RolesIn(holds'[<<co, p>>])
          BY <2>9, <5>1
        <5>3. QED BY <5>2 DEF OwnerOrPair, RolesOf
      <4>4. CASE Took(c)
        <5>1. PICK d \in Calls : /\ Answered(d, "setRoles") /\ call[d].company = co
                                /\ Owner \notin call[d].roles /\ d \notin call[c].before
          BY <2>3, <4>4 DEF Took
        <5>2. d # c /\ call'[d] = call[d] /\ c \notin call[d].before
          BY <2>1, <5>1, NotAnswered DEF Answered, StepOf
        <5>3. Together("setRoles", c, d)'
          BY <2>6, <5>1, <5>2 DEF Together, Answered, Overlap
        <5>4. Pair(co)'
          BY <2>6, <3>2, <5>1, <5>2, <5>3 DEF Pair
        <5>5. QED BY <5>4 DEF OwnerOrPair
      <4>5. QED BY <4>1, <4>2, <4>3, <4>4 DEF Covered
    <3>3. QED BY <3>1, <3>2
  <2>11. QED BY <2>1, <2>5, <2>6, <2>7, <2>8, <2>10, AccountOwners
<1>3. QED BY <1>1, <1>2

LEMMA ConsumeInviteOwners ==
  ASSUME IInv, OInv, NEW c \in Calls, StepOf(c), ConsumeInvite(c)
  PROVE  OInv'
<1>1. CASE Refuse(c)
  BY <1>1, RefusedOwners
<1>2. CASE ~Refuse(c)
  <2>1. /\ call[c].at = "consume" /\ Succeed(c)
        /\ invites' = [invites EXCEPT ![call[c].invite].accepted = TRUE]
    BY <1>2 DEF ConsumeInvite
  <2>2. call[c].kind = "accept"
    BY <2>1, UnderWay DEF KindAt
  <2>3. PICK co \in Companies, q \in People, rs \in SUBSET Roles :
          /\ co = call[c].company /\ q = call[c].person /\ rs = call[c].roles
          /\ rs # {} /\ <<co, q>> \in Accounts
    BY <2>1, <2>2, UnderWay
  <2>4. PICK rows : rows = Rows(c, rs)
    OBVIOUS
  <2>5. /\ holds' = [holds EXCEPT ![<<co, q>>] = rows]
        /\ holds[<<co, q>>] = {} /\ rows # {}
    BY <1>2, <2>3, <2>4, RowsType DEF ConsumeInvite, AddressFree, Exists
  <2>6. call'[c].at = "done"
    BY <2>1 DEF Succeed, IInv, TypeOK, Call
  <2>7. \A i \in Links : invites'[i].made = invites[i].made
                         /\ invites'[i].company = invites[i].company
    BY <2>1 DEF IInv, TypeOK, Invite
  <2>8. Peopled(co)
    BY <2>1, <2>2, <2>3 DEF IInv, ShapeInv, CallsInv, OInv, PeopledInv
  <2>9. Owner \notin RolesOf(co, q)
    BY <2>5 DEF RolesOf, RolesIn
  <2>10. ASSUME OwnerOrPair(co) PROVE OwnerOrPair(co)'
    <3>1. CASE Pair(co)
      <4>1. Pair(co)'
        BY <3>1, PairStays
      <4>2. QED BY <4>1 DEF OwnerOrPair
    <3>2. CASE \E p \in People : Owner \in RolesOf(co, p)
      <4>1. PICK p \in People : p # q /\ Owner \in RolesIn(holds[<<co, p>>])
        BY <2>9, <3>2 DEF RolesOf
      <4>2. holds'[<<co, p>>] = holds[<<co, p>>]
        BY <2>3, <2>5, <4>1 DEF Accounts, IInv, TypeOK
      <4>3. QED BY <4>1, <4>2 DEF OwnerOrPair, RolesOf
    <3>3. QED BY <2>10, <3>1, <3>2 DEF OwnerOrPair
  <2>11. QED BY <2>5, <2>6, <2>7, <2>8, <2>9, <2>10, AccountOwners
<1>3. QED BY <1>1, <1>2

LEMMA CreateCompanyOwners ==
  ASSUME IInv, OInv, NEW c \in Calls, StepOf(c), CreateCompany(c)
  PROVE  OInv'
<1>1. /\ call[c].at = "create" /\ Succeed(c) /\ UNCHANGED invites
      /\ holds' = [holds EXCEPT ![<<c, call[c].person>>] = Rows(c, call[c].roles)]
  BY DEF CreateCompany
<1>2. call[c].kind = "register"
  BY <1>1, UnderWay DEF KindAt
<1>3. call[c].roles = {Owner} /\ c \in Companies
  BY <1>1, <1>2 DEF OInv, PeopledInv, Companies
<1>4. PICK rows : rows = Rows(c, {Owner})
  OBVIOUS
<1>5. PICK q \in People :
        q = call[c].person /\ holds' = [holds EXCEPT ![<<c, q>>] = rows]
  BY <1>1, <1>2, <1>3, <1>4, UnderWay
<1>6. rows # {} /\ Owner \in RolesIn(rows)
  <2>1. <<Owner, c>> \in rows /\ <<Owner, c>>[1] = Owner
    BY <1>4 DEF Rows
  <2>2. QED BY <2>1 DEF RolesIn
<1>7. call'[c].at = "done"
  BY <1>1 DEF Succeed, IInv, TypeOK, Call
<1>8. OwnerOrPair(c)'
  <2>1. holds'[<<c, q>>] = rows
    BY <1>3, <1>5 DEF Accounts, IInv, TypeOK
  <2>2. QED BY <1>6, <2>1 DEF OwnerOrPair, RolesOf
<1>9. QED BY <1>1, <1>3, <1>5, <1>6, <1>7, <1>8, AccountOwners

\* A step that changes neither calls nor accounts.
LEMMA ElsewhereOwners ==
  ASSUME IInv, OInv, UNCHANGED <<holds, call>>,
         \A j \in Links : /\ invites'[j].made = invites[j].made
                          /\ invites'[j].company = invites[j].company
  PROVE  OInv'
<1>1. \A co : Peopled(co)' <=> Peopled(co)
  BY DEF Peopled, Exists
<1>2. PeopledInv'
  BY DEF OInv, PeopledInv, Peopled, Exists
<1>3. \A c \in Calls : Covered(c)' <=> Covered(c)
  BY DEF Covered, PairOf, Pair, OtherOwner, Took, RolesOf, Together, Answered, Overlap
<1>4. TakersInv'
  BY <1>3 DEF OInv, TakersInv
<1>5. OwnerSurvives'
  BY DEF OInv, OwnerSurvives, Owners, RolesOf, Exists, Together, Answered, Overlap
<1>6. QED BY <1>2, <1>4, <1>5 DEF OInv

LEMMA ExpireOwners ==
  ASSUME IInv, OInv, NEW i \in Links, Expire(i)
  PROVE  OInv'
<1>1. \A j \in Links : invites'[j].made = invites[j].made /\ invites'[j].company = invites[j].company
  BY DEF Expire, IInv, TypeOK, Invite
<1>2. UNCHANGED <<holds, call>>
  BY DEF Expire
<1>3. QED BY <1>1, <1>2, ElsewhereOwners

LEMMA CallOwners ==
  ASSUME IInv, IInv', OInv, NEW c \in Calls, CallStep(c)
  PROVE  OInv'
<1>1. StepOf(c)
  BY StepFrame
<1>2. CASE Guard(c)
  BY <1>1, <1>2, ReadingOwners
<1>3. CASE SetRolesStep(c)
  BY <1>1, <1>3, ReadingOwners, BeginningOwners, ReplaceRolesOwners DEF SetRolesStep
<1>4. CASE InviteStep(c)
  BY <1>1, <1>4, ReadingOwners, BeginningOwners, InvitesOwners DEF InviteStep
<1>5. CASE RevokeStep(c)
  BY <1>1, <1>5, ReadingOwners, BeginningOwners, InvitesOwners DEF RevokeStep
<1>6. CASE AcceptStep(c)
  BY <1>1, <1>6, ReadingOwners, BeginningOwners, ConsumeInviteOwners DEF AcceptStep
<1>7. CASE RegisterStep(c)
  BY <1>1, <1>7, ReadingOwners, BeginningOwners, CreateCompanyOwners DEF RegisterStep
<1>8. QED BY <1>2, <1>3, <1>4, <1>5, <1>6, <1>7 DEF CallStep

LEMMA NextOwners == IInv /\ IInv' /\ OInv /\ [Next]_vars => OInv'
<1> SUFFICES ASSUME IInv, IInv', OInv, [Next]_vars PROVE OInv'
  OBVIOUS
<1>1. CASE UNCHANGED vars
  BY <1>1, ElsewhereOwners DEF vars
<1>2. QED BY <1>1, CallOwners, ExpireOwners DEF Next

LEMMA InitOwners == Init => OInv
<1> SUFFICES ASSUME Init PROVE OInv
  OBVIOUS
<1>1. \A c \in Calls : call[c].at = "idle"
  BY DEF Init, NoCall
<1>2. \A co \in Companies, p \in People : Exists(co, p) => co = Home
  BY DEF Init, Exists, Accounts
<1>3. Owners(Home) # {}
  BY DEF Init
<1>4. \E p \in People : Exists(Home, p)
  BY <1>3 DEF Owners, RolesOf, RolesIn, Exists
<1>5. \A i \in Links : invites[i].made => invites[i].company = Home
  BY DEF Init, NoInvite, SentInvite
<1>6. PeopledInv
  BY <1>1, <1>4, <1>5 DEF PeopledInv, Peopled
<1>7. TakersInv
  BY <1>1 DEF TakersInv
<1>8. OwnerSurvives
  BY <1>2, <1>3 DEF OwnerSurvives
<1>9. QED BY <1>6, <1>7, <1>8 DEF OInv

\* A company that has members has an Owner, unless two changes of roles under
\* way together have each taken the role from one of its holders.
THEOREM CompaniesKeepAnOwner == Spec => []OwnerSurvives
<1>1. OInv => OwnerSurvives
  BY DEF OInv
<1>2. QED BY <1>1, InitOwners, NextOwners, IInvariant, PTL DEF Spec

-----------------------------------------------------------------------------
(* Whoever is invited again holds one live link.                            *)

\* The open links that stand for the same address in the same company.
Rivals(c) == Outstanding(call[c].company, call[c].person)

\* An invitation about to be issued has seen the other links of the address, or
\* they were made while it was under way.
RivalsSeen(c) ==
  \A j \in Links : j \in Rivals(c) => j \in call[c].rows \/ j \in Calls \ call[c].before

\* A link was made by an invitation that was answered.
MadeInv == \A i \in Calls : invites[i].made => Answered(i, "invite")

LinksInv ==
  /\ MadeInv
  /\ \A c \in Calls : call[c].at = "issue" => RivalsSeen(c)
  /\ OneLiveLink

\* What is said of two answered calls stays true.
LEMMA TogetherStays ==
  ASSUME IInv, NEW c \in Calls, StepOf(c), NEW d \in Calls, NEW e \in Calls,
         NEW kind, Together(kind, d, e)
  PROVE  Together(kind, d, e)'
<1>1. call'[d] = call[d] /\ call'[e] = call[e]
  BY NotAnswered DEF Together, Answered, StepOf
<1>2. QED BY <1>1 DEF Together, Answered, Overlap

\* A step that makes no link and reopens none.
LEMMA QuietLinks ==
  ASSUME IInv, LinksInv, NEW c \in Calls, StepOf(c),
         \A i \in Links : /\ invites'[i].made = invites[i].made
                          /\ invites'[i].company = invites[i].company
                          /\ invites'[i].person = invites[i].person
                          /\ Open(i)' => Open(i),
         call'[c].at = "issue" => RivalsSeen(c)'
  PROVE  LinksInv'
<1>1. \A d \in Calls : d # c => call'[d] = call[d]
  BY DEF StepOf
<1>2. Calls \subseteq Links
  BY DEF Links
<1>3. ASSUME NEW i \in Calls, invites'[i].made PROVE Answered(i, "invite")'
  <2>1. Answered(i, "invite")
    BY <1>2, <1>3 DEF LinksInv, MadeInv
  <2>2. i # c
    BY <2>1, NotAnswered DEF StepOf, Answered
  <2>3. QED BY <1>1, <2>1, <2>2 DEF Answered
<1>4. ASSUME NEW d \in Calls, call'[d].at = "issue" PROVE RivalsSeen(d)'
  <2>1. CASE d = c
    BY <1>4, <2>1
  <2>2. CASE d # c
    <3>1. call'[d] = call[d] /\ RivalsSeen(d)
      BY <1>1, <1>4, <2>2 DEF LinksInv
    <3>2. QED BY <3>1 DEF RivalsSeen, Rivals, Outstanding
  <2>3. QED BY <2>1, <2>2
<1>5. ASSUME NEW i \in Calls, NEW j \in Links, i # j, Open(i)', Open(j)',
             invites'[i].company = invites'[j].company,
             invites'[i].person = invites'[j].person
      PROVE  j \in Calls /\ Together("invite", i, j)'
  <2>1. j \in Calls /\ Together("invite", i, j)
    BY <1>2, <1>5 DEF LinksInv, OneLiveLink
  <2>2. QED BY <2>1, TogetherStays
<1>6. OneLiveLink'
  BY <1>5 DEF OneLiveLink
<1>7. QED BY <1>3, <1>4, <1>6 DEF LinksInv, MadeInv

\* A step that leaves every link as it is.
LEMMA AloneLinks ==
  ASSUME IInv, LinksInv, NEW c \in Calls, StepOf(c), UNCHANGED invites,
         call'[c].at # "issue"
  PROVE  LinksInv'
BY QuietLinks DEF Open

\* The statement that retires the outstanding links has seen them all.
LEMMA SeeOutstandingLinks ==
  ASSUME IInv, LinksInv, NEW c \in Calls, StepOf(c), SeeOutstanding(c)
  PROVE  LinksInv'
<1>1. UNCHANGED invites
  BY DEF SeeOutstanding
<1> DEFINE seen == Outstanding(call[c].company, call[c].person)
           v == [call[c] EXCEPT !.at = "issue", !.rows = seen]
<1>2. /\ v.rows = seen /\ v.company = call[c].company /\ v.person = call[c].person
  BY DEF IInv, TypeOK, Call
<1>3. call' = [call EXCEPT ![c] = v]
  BY DEF SeeOutstanding, See, IInv, TypeOK
<1> HIDE DEF v
<1>4. call'[c] = v
  BY <1>3 DEF IInv, TypeOK
<1>5. RivalsSeen(c)'
  BY <1>1, <1>2, <1>4 DEF RivalsSeen, Rivals, Outstanding, Open
<1>6. QED BY <1>1, <1>5, QuietLinks DEF Open

LEMMA IssueInviteLinks ==
  ASSUME IInv, LinksInv, NEW c \in Calls, IssueInvite(c)
  PROVE  LinksInv'
<1>1. call[c].at = "issue" /\ Succeed(c)
  BY DEF IssueInvite
<1>2. call[c].kind = "invite" /\ call[c].at \notin {"idle", "done"}
  BY <1>1, UnderWay DEF KindAt
<1>3. /\ StepOf(c) /\ call'[c].at = "done" /\ call'[c].ok
      /\ call'[c].kind = "invite" /\ call'[c].before = call[c].before
  BY <1>1, <1>2, SucceedFrame
<1>4. \A d \in Calls : d # c => call'[d] = call[d] /\ c \notin call[d].before
  BY <1>1, <1>3, NotAnswered DEF StepOf
<1>5. c \in Links /\ Calls \subseteq Links
  BY DEF Links
<1>6. /\ invites'[c].made
      /\ invites'[c].company = call[c].company /\ invites'[c].person = call[c].person
  BY <1>5, UnderWay, <1>1 DEF IssueInvite, NoInvite, Invite
<1>7. \A j \in Links : j # c =>
        /\ invites'[j].made = invites[j].made
        /\ invites'[j].company = invites[j].company
        /\ invites'[j].person = invites[j].person
        /\ Open(j)' => Open(j) /\ j \notin call[c].rows
  BY DEF IssueInvite, Open, IInv, TypeOK, Invite
<1>8. ASSUME NEW j \in Links, j # c, Open(j)',
             invites'[j].company = invites'[c].company,
             invites'[j].person = invites'[c].person
      PROVE  j \in Calls /\ Together("invite", c, j)' /\ Together("invite", j, c)'
  <2>1. j \in Rivals(c) /\ j \notin call[c].rows
    BY <1>6, <1>7, <1>8 DEF Rivals, Outstanding
  <2>2. j \in Calls \ call[c].before
    BY <1>1, <2>1 DEF LinksInv, RivalsSeen
  <2>3. invites[j].made
    BY <2>1 DEF Rivals, Outstanding, Open
  <2>4. Answered(j, "invite")'
    BY <1>4, <1>8, <2>2, <2>3 DEF LinksInv, MadeInv, Answered
  <2>5. Answered(c, "invite")'
    BY <1>3 DEF Answered
  <2>6. c \notin call'[j].before /\ j \notin call'[c].before
    BY <1>3, <1>4, <1>8, <2>2
  <2>7. QED BY <1>8, <2>2, <2>4, <2>5, <2>6 DEF Together, Overlap
<1>9. MadeInv'
  <2>1. ASSUME NEW i \in Calls, invites'[i].made PROVE Answered(i, "invite")'
    <3>1. CASE i = c
      BY <1>3, <3>1 DEF Answered
    <3>2. CASE i # c
      BY <1>4, <1>5, <1>7, <2>1, <3>2 DEF LinksInv, MadeInv, Answered
    <3>3. QED BY <3>1, <3>2
  <2>2. QED BY <2>1 DEF MadeInv
<1>10. ASSUME NEW d \in Calls, call'[d].at = "issue" PROVE RivalsSeen(d)'
  <2>1. d # c /\ call'[d] = call[d] /\ c \notin call[d].before
    BY <1>3, <1>4, <1>10
  <2>2. RivalsSeen(d)
    BY <1>10, <2>1 DEF LinksInv
  <2>3. ASSUME NEW j \in Links, j \in Rivals(d)'
        PROVE  j \in call'[d].rows \/ j \in Calls \ call'[d].before
    <3>1. CASE j = c
      BY <2>1, <3>1
    <3>2. CASE j # c
      <4>1. j \in Rivals(d)
        BY <1>7, <2>1, <2>3, <3>2 DEF Rivals, Outstanding
      <4>2. QED BY <2>1, <2>2, <4>1 DEF RivalsSeen
    <3>3. QED BY <3>1, <3>2
  <2>4. QED BY <2>3 DEF RivalsSeen
<1>11. ASSUME NEW i \in Calls, NEW j \in Links, i # j, Open(i)', Open(j)',
              invites'[i].company = invites'[j].company,
              invites'[i].person = invites'[j].person
       PROVE  j \in Calls /\ Together("invite", i, j)'
  <2>1. CASE i = c \/ j = c
    BY <1>5, <1>8, <1>11, <2>1
  <2>2. CASE i # c /\ j # c
    <3>1. j \in Calls /\ Together("invite", i, j)
      BY <1>5, <1>7, <1>11, <2>2 DEF LinksInv, OneLiveLink
    <3>2. QED BY <1>3, <3>1, TogetherStays
  <2>3. QED BY <2>1, <2>2
<1>12. QED BY <1>9, <1>10, <1>11 DEF LinksInv, OneLiveLink

LEMMA RevokeInviteLinks ==
  ASSUME IInv, LinksInv, NEW c \in Calls, StepOf(c), RevokeInvite(c)
  PROVE  LinksInv'
<1>1. call[c].at = "revoke" /\ call[c].at \notin {"idle", "done"} /\ Succeed(c)
  BY DEF RevokeInvite
<1>2. call'[c].at = "done"
  BY <1>1, SucceedFrame
<1>3. \A i \in Links : /\ invites'[i].made = invites[i].made
                       /\ invites'[i].company = invites[i].company
                       /\ invites'[i].person = invites[i].person
                       /\ Open(i)' => Open(i)
  BY DEF RevokeInvite, Open, IInv, TypeOK, Invite
<1>4. QED BY <1>2, <1>3, QuietLinks

LEMMA ConsumeInviteLinks ==
  ASSUME IInv, LinksInv, NEW c \in Calls, StepOf(c), ConsumeInvite(c)
  PROVE  LinksInv'
<1>1. CASE Refuse(c)
  BY <1>1, AloneLinks DEF Refuse, NoCall, IInv, TypeOK
<1>2. CASE ~Refuse(c)
  <2>1. /\ call[c].at = "consume" /\ call[c].at \notin {"idle", "done"} /\ Succeed(c)
        /\ invites' = [invites EXCEPT ![call[c].invite].accepted = TRUE]
    BY <1>2 DEF ConsumeInvite
  <2>2. call'[c].at = "done"
    BY <2>1, SucceedFrame
  <2>3. \A i \in Links : /\ invites'[i].made = invites[i].made
                         /\ invites'[i].company = invites[i].company
                         /\ invites'[i].person = invites[i].person
                         /\ Open(i)' => Open(i)
    BY <2>1 DEF Open, IInv, TypeOK, Invite
  <2>4. QED BY <2>2, <2>3, QuietLinks
<1>3. QED BY <1>1, <1>2

\* The steps that read, refuse, or write roles only.
LEMMA ElsewhereLinks ==
  ASSUME IInv, LinksInv, NEW c \in Calls, StepOf(c), CallStep(c),
         ~SeeOutstanding(c), ~IssueInvite(c), ~RevokeInvite(c), ~ConsumeInvite(c)
  PROVE  LinksInv'
<1>1. UNCHANGED invites
  BY DEF CallStep, SetRolesStep, InviteStep, RevokeStep, AcceptStep, RegisterStep, Guard,
        BeginSetRoles, BeginInvite, BeginRevoke, BeginAccept, BeginRegister, Begin, Refuse,
        ReadMember, CountOwners, SeeRoles, ReplaceRoles, ReadExisting,
        FindInvite, ResolveInvite, ReadTaken, ReadAvailable, CreateCompany
<1>2. ASSUME Refuse(c) PROVE call'[c].at # "issue"
  BY <1>2 DEF Refuse, NoCall, IInv, TypeOK
<1>3. ASSUME Succeed(c) PROVE call'[c].at # "issue"
  BY <1>3 DEF Succeed, IInv, TypeOK
<1>4. ASSUME NEW next, Goto(c, next), next # "issue" PROVE call'[c].at # "issue"
  BY <1>4 DEF Goto, IInv, TypeOK, Call
<1>5. ASSUME NEW next, NEW seen, See(c, next, seen), next # "issue" PROVE call'[c].at # "issue"
  BY <1>5 DEF See, IInv, TypeOK, Call
<1>6. ASSUME NEW request, Begin(c, request), request.at # "issue" PROVE call'[c].at # "issue"
  BY <1>6 DEF Begin, IInv, TypeOK
<1>7. call'[c].at # "issue"
  <2>1. CASE Guard(c)
    BY <1>2, <2>1 DEF Guard, AfterGuard, IInv, TypeOK, Call
  <2>2. CASE BeginSetRoles(c) \/ BeginInvite(c) \/ BeginRevoke(c) \/ BeginAccept(c)
             \/ BeginRegister(c)
    <3>1. CASE BeginSetRoles(c)
      BY <1>6, <3>1 DEF BeginSetRoles, NoCall
    <3>2. CASE BeginInvite(c)
      BY <1>6, <3>2 DEF BeginInvite, NoCall
    <3>3. CASE BeginRevoke(c)
      BY <1>6, <3>3 DEF BeginRevoke, NoCall
    <3>4. CASE BeginAccept(c)
      BY <1>6, <3>4 DEF BeginAccept, NoCall
    <3>5. CASE BeginRegister(c)
      BY <1>6, <3>5 DEF BeginRegister, NoCall
    <3>6. QED BY <2>2, <3>1, <3>2, <3>3, <3>4, <3>5
  <2>3. CASE ReadMember(c) \/ CountOwners(c) \/ SeeRoles(c) \/ ReplaceRoles(c)
    BY <1>2, <1>3, <1>4, <1>5, <2>3
    DEF ReadMember, CountOwners, SeeRoles, ReplaceRoles, AfterMember
  <2>4. CASE ReadExisting(c) \/ FindInvite(c) \/ ResolveInvite(c) \/ ReadTaken(c)
             \/ ReadAvailable(c) \/ CreateCompany(c)
    BY <1>2, <1>3, <1>4, <2>4
    DEF ReadExisting, FindInvite, ResolveInvite, ReadTaken, ReadAvailable, CreateCompany
  <2>5. QED BY <2>1, <2>2, <2>3, <2>4
            DEF CallStep, SetRolesStep, InviteStep, RevokeStep, AcceptStep, RegisterStep
<1>8. QED BY <1>1, <1>7, AloneLinks

LEMMA NextLinks == IInv /\ IInv' /\ LinksInv /\ [Next]_vars => LinksInv'
<1> SUFFICES ASSUME IInv, IInv', LinksInv, [Next]_vars PROVE LinksInv'
  OBVIOUS
<1>1. ASSUME NEW c \in Calls, CallStep(c) PROVE LinksInv'
  BY <1>1, StepFrame, SeeOutstandingLinks, IssueInviteLinks, RevokeInviteLinks,
     ConsumeInviteLinks, ElsewhereLinks
<1>2. ASSUME UNCHANGED call,
             \A i \in Links : /\ invites'[i].made = invites[i].made
                              /\ invites'[i].company = invites[i].company
                              /\ invites'[i].person = invites[i].person
                              /\ Open(i)' = Open(i)
      PROVE  LinksInv'
  BY <1>2 DEF LinksInv, MadeInv, RivalsSeen, Rivals, Outstanding, OneLiveLink, Together,
              Answered, Overlap, Links
<1>3. ASSUME NEW i \in Links, Expire(i) PROVE LinksInv'
  BY <1>2, <1>3 DEF Expire, Open, IInv, TypeOK, Invite
<1>4. CASE UNCHANGED vars
  BY <1>2, <1>4 DEF vars, Open
<1>5. QED BY <1>1, <1>3, <1>4 DEF Next

LEMMA InitLinks == Init => LinksInv
<1> SUFFICES ASSUME Init PROVE LinksInv
  OBVIOUS
<1>1. \A i \in Calls : ~invites[i].made /\ call[i].at = "idle"
  BY NamesAssumption DEF Init, NoInvite, NoCall, Links
<1>2. QED BY <1>1 DEF LinksInv, MadeInv, OneLiveLink, Open

\* Inviting an address again leaves it one live link: two are left only by two
\* invitations that were under way together.
THEOREM LinksAreRetired == Spec => []OneLiveLink
<1>1. LinksInv => OneLiveLink
  BY DEF LinksInv
<1>2. QED BY <1>1, InitLinks, NextLinks, IInvariant, PTL DEF Spec

-----------------------------------------------------------------------------
(* What a step of a call comes to, for whoever looks on.                    *)

\* The call is still about the same thing.
SameCall(c) ==
  /\ call'[c].kind = call[c].kind /\ call'[c].company = call[c].company
  /\ call'[c].person = call[c].person /\ call'[c].invite = call[c].invite

Quiet == UNCHANGED <<holds, invites>>

Writing(c) ==
  \/ ReplaceRoles(c) \/ IssueInvite(c) \/ RevokeInvite(c) \/ ConsumeInvite(c)
  \/ CreateCompany(c)

LEMMA GoingOn ==
  ASSUME IInv, NEW c \in Calls, call[c].at \notin {"idle", "done"},
         \/ \E next \in CallSteps \ {"idle"} : Goto(c, next)
         \/ \E next \in CallSteps \ {"idle"}, rows \in SUBSET (Links \cup UserRole) :
              See(c, next, rows)
         \/ Succeed(c)
  PROVE  /\ call'[c].at # "idle" /\ SameCall(c)
         /\ Succeed(c) \/ ~call'[c].ok
<1>1. call[c] \in Call /\ ~call[c].ok
  BY NotAnswered DEF IInv, TypeOK
<1>2. ASSUME NEW next \in CallSteps \ {"idle"}, Goto(c, next)
      PROVE  call'[c].at # "idle" /\ SameCall(c) /\ ~call'[c].ok
  BY <1>1, <1>2 DEF Goto, SameCall, IInv, TypeOK, Call
<1>3. ASSUME NEW next \in CallSteps \ {"idle"}, NEW rows, See(c, next, rows)
      PROVE  call'[c].at # "idle" /\ SameCall(c) /\ ~call'[c].ok
  <2> PICK u : u = [call[c] EXCEPT !.at = next]
    OBVIOUS
  <2> PICK v : v = [u EXCEPT !.rows = rows]
    OBVIOUS
  <2>1. /\ v.at = next /\ v.kind = call[c].kind /\ v.company = call[c].company
        /\ v.person = call[c].person /\ v.invite = call[c].invite /\ v.ok = call[c].ok
    BY <1>1 DEF Call
  <2>2. call' = [call EXCEPT ![c] = v]
    BY <1>3, Zenon DEF See
  <2>3. call'[c] = v
    BY <2>2 DEF IInv, TypeOK
  <2>4. QED BY <1>1, <2>1, <2>3 DEF SameCall
<1>4. ASSUME Succeed(c) PROVE call'[c].at # "idle" /\ SameCall(c)
  <2> PICK u : u = [call[c] EXCEPT !.at = "done"]
    OBVIOUS
  <2> PICK w : w = [u EXCEPT !.ok = TRUE]
    OBVIOUS
  <2> PICK v : v = [w EXCEPT !.rows = {}]
    OBVIOUS
  <2>1. /\ v.at = "done" /\ v.kind = call[c].kind /\ v.company = call[c].company
        /\ v.person = call[c].person /\ v.invite = call[c].invite
    BY <1>1 DEF Call
  <2>2. call' = [call EXCEPT ![c] = v]
    BY <1>4, Zenon DEF Succeed
  <2>3. call'[c] = v
    BY <2>2 DEF IInv, TypeOK
  <2>4. QED BY <2>1, <2>3 DEF SameCall
<1>5. QED BY <1>2, <1>3, <1>4

LEMMA Refusing ==
  ASSUME IInv, NEW c \in Calls, Refuse(c)
  PROVE  Quiet /\ call'[c].at = "done" /\ ~call'[c].ok /\ call'[c].kind = "none"
BY DEF Refuse, Quiet, NoCall, IInv, TypeOK

\* A call begins, is refused, reads, or ends by writing.
LEMMA CallFrame ==
  ASSUME IInv, IInv', NEW c \in Calls, CallStep(c)
  PROVE  /\ StepOf(c)
         /\ call[c].at # "done" /\ call'[c].at # "idle"
         /\ call[c].at = "idle" => Quiet /\ ~call'[c].ok
         /\ call[c].at # "idle" =>
              \/ Quiet /\ call'[c].at = "done" /\ ~call'[c].ok /\ call'[c].kind = "none"
              \/ SameCall(c) /\ Quiet /\ ~call'[c].ok
              \/ SameCall(c) /\ call'[c].at = "done" /\ call'[c].ok /\ Writing(c)
                   /\ Succeed(c)
<1>1. StepOf(c)
  BY StepFrame
<1>2. ASSUME NEW request, Begin(c, request), request.at \in {"guard", "resolve", "available"}
      PROVE  call[c].at = "idle" /\ Quiet /\ call'[c].at \in {"guard", "resolve", "available"}
  BY <1>2 DEF Begin, Quiet, IInv, TypeOK
<1>3. ASSUME BeginSetRoles(c) \/ BeginInvite(c) \/ BeginRevoke(c) \/ BeginAccept(c)
             \/ BeginRegister(c)
      PROVE  /\ call[c].at = "idle" /\ Quiet
             /\ call'[c].at \in {"guard", "resolve", "available"} /\ ~call'[c].ok
  <2>1. CASE BeginSetRoles(c)
    BY <1>2, <2>1 DEF BeginSetRoles, NoCall, IInv, RolesInv, OkInv
  <2>2. CASE BeginInvite(c)
    BY <1>2, <2>2 DEF BeginInvite, NoCall, IInv, RolesInv, OkInv
  <2>3. CASE BeginRevoke(c)
    BY <1>2, <2>3 DEF BeginRevoke, NoCall, IInv, RolesInv, OkInv
  <2>4. CASE BeginAccept(c)
    BY <1>2, <2>4 DEF BeginAccept, NoCall, IInv, RolesInv, OkInv
  <2>5. CASE BeginRegister(c)
    BY <1>2, <2>5 DEF BeginRegister, NoCall, IInv, RolesInv, OkInv
  <2>6. QED BY <1>3, <2>1, <2>2, <2>3, <2>4, <2>5
<1>4. ASSUME Guard(c) \/ ReadMember(c) \/ CountOwners(c) \/ ReadExisting(c) \/ FindInvite(c)
             \/ ResolveInvite(c) \/ ReadTaken(c) \/ ReadAvailable(c)
      PROVE  /\ call[c].at \notin {"idle", "done"} /\ call'[c].at # "idle"
             /\ \/ Refuse(c)
                \/ SameCall(c) /\ Quiet /\ ~call'[c].ok
  <2>1. CASE Refuse(c)
    BY <1>4, <2>1, Refusing
    DEF Guard, ReadMember, CountOwners, ReadExisting, FindInvite, ResolveInvite, ReadTaken,
        ReadAvailable
  <2>2. CASE Guard(c) /\ ~Refuse(c)
    <3>1. /\ call[c].at = "guard" /\ Quiet
          /\ call' = [call EXCEPT ![c].at = AfterGuard(call[c].kind), ![c].actor = None]
      BY <2>2 DEF Guard, Quiet
    <3> PICK u : u = [call[c] EXCEPT !.at = AfterGuard(call[c].kind)]
      OBVIOUS
    <3> PICK v : v = [u EXCEPT !.actor = None]
      OBVIOUS
    <3>2. call[c] \in Call /\ ~call[c].ok
      BY <3>1, NotAnswered DEF IInv, TypeOK
    <3>3. /\ v.at = AfterGuard(call[c].kind) /\ v.kind = call[c].kind
          /\ v.company = call[c].company /\ v.person = call[c].person
          /\ v.invite = call[c].invite /\ v.ok = call[c].ok
      BY <3>2 DEF Call
    <3>4. call' = [call EXCEPT ![c] = v]
      BY <3>1, Zenon
    <3>5. call'[c] = v
      BY <3>4 DEF IInv, TypeOK
    <3>6. QED BY <3>1, <3>2, <3>3, <3>5 DEF SameCall, AfterGuard
  <2>3. CASE ~Guard(c) /\ ~Refuse(c)
    <3>1. /\ call[c].at \notin {"idle", "done"} /\ Quiet
          /\ \E next \in CallSteps \ {"idle", "done"} : Goto(c, next)
      BY <1>4, <2>3
      DEF ReadMember, AfterMember, CountOwners, ReadExisting, FindInvite, ResolveInvite,
          ReadTaken, ReadAvailable, Quiet, CallSteps
    <3>2. ~Succeed(c) \/ ~call'[c].ok
      <4>1. call'[c].at # "done"
        BY <3>1 DEF Goto, IInv, TypeOK, Call
      <4>2. QED BY <4>1 DEF IInv, RolesInv, OkInv
    <3>3. QED BY <3>1, <3>2, GoingOn
  <2>4. QED BY <2>1, <2>2, <2>3
<1>5. ASSUME SeeRoles(c) \/ SeeOutstanding(c)
      PROVE  /\ call[c].at \notin {"idle", "done"} /\ call'[c].at # "idle"
             /\ SameCall(c) /\ Quiet /\ ~call'[c].ok
  <2>1. call[c].at \notin {"idle", "done"} /\ Quiet
    BY <1>5 DEF SeeRoles, SeeOutstanding, Quiet
  <2>2. \E next \in {"replace", "issue"}, rows \in SUBSET (Links \cup UserRole) : See(c, next, rows)
    <3>1. CASE SeeRoles(c)
      <4>1. call[c].at = "delete" /\ See(c, "replace", MemberHolds(c))
        BY <3>1 DEF SeeRoles
      <4>2. call[c].kind = "setRoles"
        BY <4>1, UnderWay DEF KindAt
      <4>3. MemberHolds(c) \in SUBSET (Links \cup UserRole)
        BY <2>1, <4>2, UnderWay DEF MemberHolds, IInv, TypeOK
      <4>4. QED BY <4>1, <4>3
    <3>2. CASE SeeOutstanding(c)
      BY <3>2 DEF SeeOutstanding, Outstanding
    <3>3. QED BY <1>5, <3>1, <3>2
  <2>3. PICK next \in {"replace", "issue"}, rows \in SUBSET (Links \cup UserRole) :
               See(c, next, rows)
    BY <2>2
  <2>4. next \in CallSteps \ {"idle"}
    BY DEF CallSteps
  <2>5. call'[c].at # "idle" /\ SameCall(c) /\ (Succeed(c) \/ ~call'[c].ok)
    BY <2>1, <2>3, <2>4, GoingOn
  <2>6. call'[c].at = next
    <3> PICK u : u = [call[c] EXCEPT !.at = next]
      OBVIOUS
    <3> PICK v : v = [u EXCEPT !.rows = rows]
      OBVIOUS
    <3>1. v.at = next
      BY DEF IInv, TypeOK, Call
    <3>2. call' = [call EXCEPT ![c] = v]
      BY <2>3, Zenon DEF See
    <3>3. QED BY <3>1, <3>2 DEF IInv, TypeOK
  <2>7. ~call'[c].ok
    BY <2>6 DEF IInv, RolesInv, OkInv
  <2>8. QED BY <2>1, <2>5, <2>7
<1>6. ASSUME Writing(c)
      PROVE  /\ call[c].at \notin {"idle", "done"} /\ call'[c].at # "idle"
             /\ \/ Refuse(c)
                \/ SameCall(c) /\ call'[c].at = "done" /\ call'[c].ok /\ Succeed(c)
  <2>1. call[c].at \notin {"idle", "done"} /\ (Refuse(c) \/ Succeed(c))
    BY <1>6 DEF Writing, ReplaceRoles, IssueInvite, RevokeInvite, ConsumeInvite, CreateCompany
  <2>2. ASSUME Succeed(c) PROVE SameCall(c) /\ call'[c].at = "done" /\ call'[c].ok
    BY <2>1, <2>2, GoingOn, SucceedFrame
  <2>3. QED BY <2>1, <2>2, Refusing
<1>7. CASE Guard(c)
  BY <1>1, <1>4, <1>7, Refusing
<1>8. CASE SetRolesStep(c)
  BY <1>1, <1>3, <1>4, <1>5, <1>6, <1>8, Refusing DEF SetRolesStep, Writing
<1>9. CASE InviteStep(c) \/ RevokeStep(c)
  BY <1>1, <1>3, <1>4, <1>5, <1>6, <1>9, Refusing DEF InviteStep, RevokeStep, Writing
<1>10. CASE AcceptStep(c) \/ RegisterStep(c)
  BY <1>1, <1>3, <1>4, <1>6, <1>10, Refusing DEF AcceptStep, RegisterStep, Writing
<1>11. QED BY <1>7, <1>8, <1>9, <1>10 DEF CallStep

\* Whoever has other roles after a step was given them by it.
LEMMA RolesChange ==
  ASSUME IInv, IInv', NEW c \in Calls, CallStep(c), NEW p \in People,
         holds'[<<Home, p>>] # holds[<<Home, p>>]
  PROVE  /\ call[c].at \notin {"idle", "done"} /\ call'[c].ok /\ SameCall(c)
         /\ call[c].kind \in {"setRoles", "accept"} /\ call[c].person = p
         /\ holds'[<<Home, p>>] # {}
<1>1. ~Quiet
  BY DEF Quiet
<1>2. /\ call[c].at \notin {"idle", "done"} /\ SameCall(c) /\ call'[c].ok /\ Writing(c)
      /\ Succeed(c)
  BY <1>1, CallFrame
<1>3. ~Refuse(c)
  BY <1>1, Refusing
<1>4. ~IssueInvite(c) /\ ~RevokeInvite(c)
  BY DEF IssueInvite, RevokeInvite
<1>5. <<Home, p>> \in Accounts /\ holds \in [Accounts -> SUBSET UserRole]
  BY DEF Accounts, Companies, IInv, TypeOK
<1>6. call[c].roles # {} => Rows(c, call[c].roles) # {}
  <2>1. ASSUME NEW r \in call[c].roles PROVE <<r, c>> \in Rows(c, call[c].roles)
    BY DEF Rows
  <2>2. QED BY <2>1
<1>7. CASE ReplaceRoles(c)
  <2>1. /\ call[c].at = "replace"
        /\ holds' = [holds EXCEPT ![<<call[c].company, call[c].person>>] =
                       Replaced(holds[<<call[c].company, call[c].person>>], call[c].rows,
                                Rows(c, call[c].roles))]
    BY <1>3, <1>7 DEF ReplaceRoles
  <2>2. call[c].kind = "setRoles" /\ call[c].roles # {}
    BY <2>1, UnderWay DEF KindAt
  <2>3. <<call[c].company, call[c].person>> = <<Home, p>>
    BY <1>5, <2>1
  <2>4. holds'[<<Home, p>>] # {}
    BY <1>5, <1>6, <2>1, <2>2, <2>3 DEF Replaced
  <2>5. QED BY <1>2, <2>2, <2>3, <2>4
<1>8. CASE ConsumeInvite(c)
  <2>1. /\ call[c].at = "consume"
        /\ holds' = [holds EXCEPT ![<<call[c].company, call[c].person>>] =
                       Rows(c, call[c].roles)]
    BY <1>3, <1>8 DEF ConsumeInvite
  <2>2. call[c].kind = "accept" /\ call[c].roles # {}
    BY <2>1, UnderWay DEF KindAt
  <2>3. <<call[c].company, call[c].person>> = <<Home, p>>
    BY <1>5, <2>1
  <2>4. holds'[<<Home, p>>] # {}
    BY <1>5, <1>6, <2>1, <2>2, <2>3
  <2>5. QED BY <1>2, <2>2, <2>3, <2>4
<1>9. CASE CreateCompany(c)
  <2>1. holds' = [holds EXCEPT ![<<c, call[c].person>>] = Rows(c, call[c].roles)]
    BY <1>9 DEF CreateCompany
  <2>2. <<c, call[c].person>> # <<Home, p>>
    BY NamesAssumption
  <2>3. QED BY <1>5, <2>1, <2>2
<1>10. QED BY <1>2, <1>4, <1>7, <1>8, <1>9 DEF Writing

\* Nobody who is in the company leaves it.
LEMMA MembersStay ==
  ASSUME IInv, IInv', NEW c \in Calls, CallStep(c), NEW p \in People, Exists(Home, p)
  PROVE  Exists(Home, p)'
BY RolesChange DEF Exists

\* A link that is pending after a step was pending before, or the step made it.
LEMMA LinksChange ==
  ASSUME IInv, IInv', NEW c \in Calls, CallStep(c)
  PROVE  /\ \A i \in Links :
              /\ LinkState(i)' = "PENDING" =>
                   LinkState(i) = "PENDING" \/ (i = c /\ Answered(c, "invite")')
              /\ invites[i].made =>
                   invites'[i].made /\ invites'[i].company = invites[i].company
              /\ invites[i].revoked => invites'[i].revoked
         /\ Answered(c, "revoke")' => invites'[call[c].invite].revoked
         /\ Answered(c, "invite")' => /\ invites'[c].made
                                      /\ invites'[c].company = call[c].company
<1>1. \A i \in Links : invites[i] \in Invite
  BY DEF IInv, TypeOK
<1>2. c \in Links /\ Calls \subseteq Links
  BY DEF Links
<1>3. CASE ~call'[c].ok
  <2>1. Quiet
    BY <1>3, CallFrame
  <2>2. QED BY <1>3, <2>1 DEF Quiet, LinkState, Answered
<1>4. CASE call'[c].ok
  <2>1. /\ call[c].at \notin {"idle", "done"} /\ SameCall(c) /\ Writing(c) /\ Succeed(c)
    BY <1>4, CallFrame
  <2>2. ~Refuse(c)
    BY <1>4, Refusing
  <2>3. call[c].kind \in KindAt(call[c].at)
    BY <2>1, UnderWay
  <2>4. CASE ReplaceRoles(c) \/ CreateCompany(c)
    <3>1. UNCHANGED invites /\ call[c].kind \in {"setRoles", "register"}
      BY <2>2, <2>3, <2>4 DEF ReplaceRoles, CreateCompany, KindAt
    <3>2. QED BY <2>1, <3>1 DEF LinkState, Answered, SameCall
  <2>5. CASE IssueInvite(c)
    <3>1. call[c].at = "issue" /\ call[c].kind = "invite"
      BY <2>3, <2>5 DEF IssueInvite, KindAt
    <3>2. ~invites[c].made /\ ~invites[c].revoked
      BY <1>2, <2>1 DEF IInv, ShapeInv, InvitesInv
    <3>3. /\ invites'[c].made /\ invites'[c].company = call[c].company
          /\ \A i \in Links : i # c =>
               \/ invites'[i] = invites[i]
               \/ invites'[i] = [invites[i] EXCEPT !.revoked = TRUE]
      BY <1>2, <2>5 DEF IssueInvite, NoInvite
    <3>4. \A i \in Links : i # c =>
            /\ invites'[i].made = invites[i].made
            /\ invites'[i].company = invites[i].company
            /\ invites'[i].accepted = invites[i].accepted
            /\ invites'[i].expired = invites[i].expired
            /\ invites[i].revoked => invites'[i].revoked
      BY <1>1, <3>3 DEF Invite
    <3>5. Answered(c, "invite")'
      BY <1>4, <2>1, <3>1 DEF Answered, SameCall
    <3>6. \A i \in Links : i # c /\ LinkState(i)' = "PENDING" => LinkState(i) = "PENDING"
      BY <3>4 DEF LinkState
    <3>7. QED BY <2>1, <3>1, <3>2, <3>3, <3>4, <3>5, <3>6 DEF Answered, SameCall
  <2>6. CASE RevokeInvite(c)
    <3>1. /\ call[c].kind = "revoke"
          /\ invites' = [invites EXCEPT ![call[c].invite].revoked = TRUE]
      BY <2>3, <2>6 DEF RevokeInvite, KindAt
    <3>2. call[c].invite \in Links
      BY <2>1, <3>1 DEF IInv, ShapeInv, CallsInv
    <3>3. /\ invites'[call[c].invite].revoked
          /\ \A i \in Links :
               /\ invites'[i].made = invites[i].made
               /\ invites'[i].company = invites[i].company
               /\ invites'[i].accepted = invites[i].accepted
               /\ invites'[i].expired = invites[i].expired
               /\ invites[i].revoked => invites'[i].revoked
      BY <1>1, <3>1, <3>2 DEF Invite, IInv, TypeOK
    <3>4. \A i \in Links : LinkState(i)' = "PENDING" => LinkState(i) = "PENDING"
      BY <3>3 DEF LinkState
    <3>5. QED BY <2>1, <3>1, <3>3, <3>4 DEF Answered, SameCall
  <2>7. CASE ConsumeInvite(c)
    <3>1. /\ call[c].kind = "accept"
          /\ invites' = [invites EXCEPT ![call[c].invite].accepted = TRUE]
      BY <2>2, <2>3, <2>7 DEF ConsumeInvite, KindAt
    <3>2. \A i \in Links :
            /\ invites'[i].made = invites[i].made
            /\ invites'[i].company = invites[i].company
            /\ invites[i].accepted => invites'[i].accepted
            /\ invites'[i].expired = invites[i].expired
            /\ invites'[i].revoked = invites[i].revoked
      BY <1>1, <3>1 DEF Invite, IInv, TypeOK
    <3>3. \A i \in Links : LinkState(i)' = "PENDING" => LinkState(i) = "PENDING"
      BY <3>2 DEF LinkState
    <3>4. QED BY <2>1, <3>1, <3>2, <3>3 DEF Answered, SameCall
  <2>8. QED BY <2>1, <2>4, <2>5, <2>6, <2>7 DEF Writing
<1>5. QED BY <1>3, <1>4

-----------------------------------------------------------------------------
(* The members screen.                                                      *)

\* A call made on the screen is what was asked there, until it is refused.
Asked(c) ==
  desk[c].at # "none" =>
    /\ staff.at = "ready"
    /\ call[c].at # "idle"
    /\ desk[c].kind \in {"setRoles", "invite", "revoke"}
    /\ call[c].kind # "none" =>
         /\ call[c].kind = desk[c].kind /\ call[c].company = Home
         /\ call[c].person = desk[c].person /\ call[c].invite = desk[c].invite
    /\ call[c].ok => call[c].kind # "none"
    /\ desk[c].at = "sent" => ~call[c].ok
    /\ desk[c].at \in {"granted", "shown"} => call[c].at = "done"
    /\ desk[c].kind = "setRoles" => desk[c].person \in People
    /\ desk[c].kind = "revoke" => desk[c].invite \in Links
    /\ desk[c].at = "granted" =>
         /\ desk[c].kind = "invite" => invites[c].made /\ invites[c].company = Home
         /\ desk[c].kind = "revoke" => invites[desk[c].invite].revoked

AskedInv == \A c \in Calls : Asked(c)

\* Of two calls that are both unanswered, one knows of the other.
AmongInv ==
  \A c, d \in StillOpen : c # d => c \in desk[d].among \/ d \in desk[c].among

\* What others have done to the roles of a member, and are not asked about.
ByAnother(p) ==
  \E c \in Calls : /\ desk[c].at = "none"
                   /\ \/ Answered(c, "setRoles") /\ call[c].person = p
                      \/ Answered(c, "accept")

GrantedTo(c, p) ==
  desk[c].at = "granted" /\ desk[c].kind = "setRoles" /\ desk[c].person = p

Roster == IF staff.at = "asking" THEN staff.read ELSE staff.members

\* The roles of a member are on the screen, or in the answer on its way there.
Faithful(p) ==
  /\ \A c \in Calls : GrantedTo(c, p) => desk[c].answer = RolesOf(Home, p)
  /\ (\A c \in Calls : ~GrantedTo(c, p)) => Roster[p] = RolesOf(Home, p)

RosterInv ==
  staff.at # "asking" \/ "people" \in staff.got =>
    \A p \in People : Entangled(p) \/ ByAnother(p) \/ Faithful(p)

\* A pending invitation is on the screen, in an answer, or somebody else's.
PendingKnown(i) ==
  \/ staff.links[i] = "PENDING"
  \/ i \in Calls /\ desk[i].at = "none" /\ Answered(i, "invite")
  \/ i \in Calls /\ desk[i].at = "granted" /\ desk[i].kind = "invite"

PendingInv ==
  /\ staff.listed => \A i \in Links : LinkState(i) = "PENDING" => PendingKnown(i)
  /\ \A i \in Links : staff.links[i] = "PENDING" => invites[i].made /\ invites[i].company = Home

\* The two halves of what the screen reads.
ReadInv ==
  /\ viewer \in People /\ Exists(Home, viewer)
  /\ staff \in Staff
  /\ staff.at # "asking" => staff.got = {}
  /\ desk \in [Calls -> Errand]
  /\ \A c \in Calls : desk[c].at = "none" => desk[c].kind = "none"

StaffInv == IInv /\ ReadInv /\ AskedInv /\ AmongInv /\ RosterInv /\ PendingInv

-----------------------------------------------------------------------------
(* What is done on the screen are calls of the server.                      *)

\* Requests with the same fields are the same request.
LEMMA SameRequest ==
  ASSUME NEW a \in Call, NEW b \in Call,
         a.kind = b.kind, a.at = b.at, a.actor = b.actor, a.company = b.company,
         a.person = b.person, a.roles = b.roles, a.invite = b.invite, a.rows = b.rows,
         a.ok = b.ok, a.before = b.before
  PROVE  a = b
BY DEF Call

\* A request that the viewer makes of the own company.
LEMMA ByViewerIs ==
  ASSUME StaffInv, NEW kind \in AllCallKinds
  PROVE  ByViewer(kind, "guard") = [NoCall EXCEPT !.kind = kind, !.at = "guard",
                                                  !.actor = viewer, !.company = Home]
<1>1. NoCall \in Call /\ NoCall.company = Home /\ viewer \in People
  BY DEF NoCall, Call, AllCallKinds, CallSteps, Companies, StaffInv, ReadInv
<1> DEFINE a == ByViewer(kind, "guard")
           b == [NoCall EXCEPT !.kind = kind, !.at = "guard", !.actor = viewer,
                               !.company = Home]
<1>2. /\ a \in Call /\ a.kind = kind /\ a.at = "guard" /\ a.actor = viewer
      /\ a.company = Home /\ a.person = NoCall.person /\ a.roles = NoCall.roles
      /\ a.invite = NoCall.invite /\ a.rows = NoCall.rows /\ a.ok = NoCall.ok
      /\ a.before = NoCall.before
  BY <1>1 DEF ByViewer, Call, CallSteps
<1>3. /\ b \in Call /\ b.kind = kind /\ b.at = "guard" /\ b.actor = viewer
      /\ b.company = Home /\ b.person = NoCall.person /\ b.roles = NoCall.roles
      /\ b.invite = NoCall.invite /\ b.rows = NoCall.rows /\ b.ok = NoCall.ok
      /\ b.before = NoCall.before
  BY <1>1 DEF Call, CallSteps, Companies
<1> HIDE DEF a, b
<1>4. a = b
  BY <1>2, <1>3, SameRequest
<1>5. QED BY <1>4 DEF a, b

\* The calls of the screen, by their names on the server.
LEMMA DoingCalls ==
  ASSUME StaffInv, NEW c \in Calls, Doing(c)
  PROVE  CallStep(c)
<1>1. Home \in Companies /\ viewer \in People /\ Exists(Home, viewer)
  BY DEF Companies, StaffInv, ReadInv
<1>2. CASE ChangeRole(c)
  <2>1. PICK p \in People, r \in Roles :
          Begin(c, [ByViewer("setRoles", "guard") EXCEPT !.person = p, !.roles = {r}])
    BY <1>2 DEF ChangeRole
  <2>2. [ByViewer("setRoles", "guard") EXCEPT !.person = p, !.roles = {r}]
          = [NoCall EXCEPT !.kind = "setRoles", !.at = "guard", !.actor = viewer,
                           !.company = Home, !.person = p, !.roles = {r}]
    BY ByViewerIs DEF AllCallKinds
  <2>3. {r} \in (SUBSET Roles) \ {{}}
    OBVIOUS
  <2>4. BeginSetRoles(c)
    BY <1>1, <2>1, <2>2, <2>3 DEF BeginSetRoles
  <2>5. QED BY <2>4 DEF CallStep, SetRolesStep
<1>3. CASE SubmitInvite(c)
  <2>1. PICK p \in People, r \in Roles :
          Begin(c, [ByViewer("invite", "guard") EXCEPT !.person = p, !.roles = {r}])
    BY <1>3 DEF SubmitInvite
  <2>2. [ByViewer("invite", "guard") EXCEPT !.person = p, !.roles = {r}]
          = [NoCall EXCEPT !.kind = "invite", !.at = "guard", !.actor = viewer,
                           !.company = Home, !.person = p, !.roles = {r}]
    BY ByViewerIs DEF AllCallKinds
  <2>3. BeginInvite(c)
    BY <1>1, <2>1, <2>2 DEF BeginInvite
  <2>4. QED BY <2>3 DEF CallStep, InviteStep
<1>4. CASE ConfirmRevoke(c)
  <2>1. PICK i \in Links :
          /\ staff.links[i] = "PENDING"
          /\ Begin(c, [ByViewer("revoke", "guard") EXCEPT !.invite = i])
    BY <1>4 DEF ConfirmRevoke
  <2>2. invites[i].made /\ invites[i].company = Home
    BY <2>1 DEF StaffInv, PendingInv
  <2>3. [ByViewer("revoke", "guard") EXCEPT !.invite = i]
          = [NoCall EXCEPT !.kind = "revoke", !.at = "guard", !.actor = viewer,
                           !.company = Home, !.invite = i]
    BY ByViewerIs DEF AllCallKinds
  <2>4. BeginRevoke(c)
    BY <1>1, <2>1, <2>2, <2>3 DEF BeginRevoke
  <2>5. QED BY <2>4 DEF CallStep, RevokeStep
<1>5. QED BY <1>2, <1>3, <1>4 DEF Doing

\* What a call is asked on the screen.
LEMMA DoingFacts ==
  ASSUME StaffInv, NEW c \in Calls, Doing(c)
  PROVE  /\ staff.at = "ready" /\ desk[c].at = "none" /\ call[c].at = "idle"
         /\ desk' \in [Calls -> Errand]
         /\ \A d \in Calls : d # c => desk'[d] = desk[d]
         /\ desk'[c].at = "sent" /\ desk'[c].among = StillOpen
         /\ desk'[c].kind \in {"setRoles", "invite", "revoke"}
         /\ desk'[c].kind = "setRoles" => desk'[c].person \in People
         /\ desk'[c].kind = "revoke" => desk'[c].invite \in Links
         /\ call'[c].kind = desk'[c].kind /\ call'[c].company = Home
         /\ call'[c].person = desk'[c].person /\ call'[c].invite = desk'[c].invite
         /\ call'[c].at = "guard" /\ ~call'[c].ok
         /\ staff' \in Staff
         /\ \E p \in People \cup {None} : staff' = [staff EXCEPT !.saving = p]
<1>1. NoErrand \in Errand /\ NoErrand.person = None /\ NoErrand.invite = None
  BY DEF NoErrand, Errand
<1>2. \E e \in Errand, v \in Call :
        /\ Run(c, e) /\ Begin(c, v)
        /\ e.kind \in {"setRoles", "invite", "revoke"}
        /\ e.kind = "setRoles" => e.person \in People
        /\ e.kind = "revoke" => e.invite \in Links
        /\ v.kind = e.kind /\ v.company = Home /\ v.person = e.person /\ v.invite = e.invite
        /\ v.at = "guard" /\ ~v.ok
  <2>1. ByViewer("setRoles", "guard") \in Call /\ ByViewer("invite", "guard") \in Call
        /\ ByViewer("revoke", "guard") \in Call
    BY DEF ByViewer, NoCall, Call, AllCallKinds, CallSteps, Companies, StaffInv, ReadInv
  <2>2. CASE ChangeRole(c)
    <3>1. PICK p \in People, r \in Roles :
            /\ Run(c, [NoErrand EXCEPT !.kind = "setRoles", !.person = p, !.roles = {r}])
            /\ Begin(c, [ByViewer("setRoles", "guard") EXCEPT !.person = p, !.roles = {r}])
      BY <2>2 DEF ChangeRole
    <3> DEFINE e == [NoErrand EXCEPT !.kind = "setRoles", !.person = p, !.roles = {r}]
               v == [ByViewer("setRoles", "guard") EXCEPT !.person = p, !.roles = {r}]
    <3>2. /\ e \in Errand /\ e.kind = "setRoles" /\ e.person = p /\ e.invite = None
      BY <1>1 DEF Errand, AllCallKinds
    <3>3. /\ v \in Call /\ v.kind = "setRoles" /\ v.company = Home /\ v.person = p
          /\ v.invite = None /\ v.at = "guard" /\ ~v.ok
      BY <2>1 DEF ByViewer, NoCall, Call
    <3>4. Run(c, e) /\ Begin(c, v)
      BY <3>1
    <3> HIDE DEF e, v
    <3>5. QED BY <3>2, <3>3, <3>4
  <2>3. CASE SubmitInvite(c)
    <3>1. PICK p \in People, r \in Roles :
            /\ Run(c, [NoErrand EXCEPT !.kind = "invite", !.person = p, !.roles = {r}])
            /\ Begin(c, [ByViewer("invite", "guard") EXCEPT !.person = p, !.roles = {r}])
      BY <2>3 DEF SubmitInvite
    <3> DEFINE e == [NoErrand EXCEPT !.kind = "invite", !.person = p, !.roles = {r}]
               v == [ByViewer("invite", "guard") EXCEPT !.person = p, !.roles = {r}]
    <3>2. /\ e \in Errand /\ e.kind = "invite" /\ e.person = p /\ e.invite = None
      BY <1>1 DEF Errand, AllCallKinds
    <3>3. /\ v \in Call /\ v.kind = "invite" /\ v.company = Home /\ v.person = p
          /\ v.invite = None /\ v.at = "guard" /\ ~v.ok
      BY <2>1 DEF ByViewer, NoCall, Call
    <3>4. Run(c, e) /\ Begin(c, v)
      BY <3>1
    <3> HIDE DEF e, v
    <3>5. QED BY <3>2, <3>3, <3>4
  <2>4. CASE ConfirmRevoke(c)
    <3>1. PICK i \in Links :
            /\ Run(c, [NoErrand EXCEPT !.kind = "revoke", !.invite = i])
            /\ Begin(c, [ByViewer("revoke", "guard") EXCEPT !.invite = i])
      BY <2>4 DEF ConfirmRevoke
    <3> DEFINE e == [NoErrand EXCEPT !.kind = "revoke", !.invite = i]
               v == [ByViewer("revoke", "guard") EXCEPT !.invite = i]
    <3>2. /\ e \in Errand /\ e.kind = "revoke" /\ e.person = None /\ e.invite = i
      BY <1>1 DEF Errand, AllCallKinds
    <3>3. /\ v \in Call /\ v.kind = "revoke" /\ v.company = Home /\ v.person = None
          /\ v.invite = i /\ v.at = "guard" /\ ~v.ok
      BY <2>1 DEF ByViewer, NoCall, Call
    <3>4. Run(c, e) /\ Begin(c, v)
      BY <3>1
    <3> HIDE DEF e, v
    <3>5. QED BY <3>2, <3>3, <3>4
  <2>5. QED BY <2>2, <2>3, <2>4 DEF Doing
<1>3. PICK e \in Errand, v \in Call :
        /\ Run(c, e) /\ Begin(c, v)
        /\ e.kind \in {"setRoles", "invite", "revoke"}
        /\ e.kind = "setRoles" => e.person \in People
        /\ e.kind = "revoke" => e.invite \in Links
        /\ v.kind = e.kind /\ v.company = Home /\ v.person = e.person /\ v.invite = e.invite
        /\ v.at = "guard" /\ ~v.ok
  BY <1>2
<1> DEFINE f == [e EXCEPT !.at = "sent", !.among = StillOpen]
           w == [v EXCEPT !.before = {d \in Calls : call[d].ok}]
<1>4. /\ f \in Errand /\ f.at = "sent" /\ f.among = StillOpen /\ f.kind = e.kind
      /\ f.person = e.person /\ f.invite = e.invite
  BY DEF Errand, StillOpen
<1>5. /\ w.kind = v.kind /\ w.company = Home /\ w.person = v.person /\ w.invite = v.invite
      /\ w.at = "guard" /\ ~w.ok
  BY <1>3 DEF Call
<1>6. /\ staff.at = "ready" /\ desk[c].at = "none" /\ call[c].at = "idle"
      /\ desk' = [desk EXCEPT ![c] = f] /\ call' = [call EXCEPT ![c] = w]
  BY <1>3 DEF Run, Begin
<1> HIDE DEF f, w
<1>7. /\ desk' \in [Calls -> Errand] /\ desk'[c] = f
      /\ \A d \in Calls : d # c => desk'[d] = desk[d]
  BY <1>4, <1>6 DEF StaffInv, ReadInv
<1>8. call'[c] = w
  BY <1>6 DEF StaffInv, IInv, TypeOK
<1>9. staff' \in Staff /\ \E p \in People \cup {None} : staff' = [staff EXCEPT !.saving = p]
  <2>1. staff \in Staff
    BY DEF StaffInv, ReadInv
  <2>2. \E p \in People \cup {None} : staff' = [staff EXCEPT !.saving = p]
    <3>1. CASE ChangeRole(c)
      BY <3>1 DEF ChangeRole
    <3>2. CASE SubmitInvite(c) \/ ConfirmRevoke(c)
      <4>1. staff' = staff
        BY <3>2 DEF SubmitInvite, ConfirmRevoke
      <4>2. staff.saving \in People \cup {None} /\ staff = [staff EXCEPT !.saving = staff.saving]
        BY <2>1 DEF Staff
      <4>3. QED BY <4>1, <4>2
    <3>3. QED BY <3>1, <3>2 DEF Doing
  <2>3. QED BY <2>1, <2>2 DEF Staff
<1>10. QED BY <1>3, <1>4, <1>5, <1>6, <1>7, <1>8, <1>9

-----------------------------------------------------------------------------
(* The server goes on with a call.                                          *)

LEMMA ServerStepFacts ==
  ASSUME StaffInv, IInv', NEW c \in Calls, ServerStep(c)
  PROVE  /\ CallStep(c) /\ UNCHANGED staff
         /\ desk' \in [Calls -> Errand]
         /\ \A d \in Calls : d # c => desk'[d] = desk[d]
         /\ desk'[c].kind = desk[c].kind /\ desk'[c].person = desk[c].person
         /\ desk'[c].invite = desk[c].invite /\ desk'[c].among = desk[c].among
         /\ desk'[c].at = IF desk[c].at # "none" /\ call'[c].ok THEN "granted" ELSE desk[c].at
         /\ desk[c].at \notin {"granted", "shown"}
         /\ desk[c].at # "none" /\ call'[c].ok /\ desk[c].kind = "setRoles" =>
              \A p \in People : desk[c].person = p => desk'[c].answer = RolesOf(Home, p)'
<1>1. CallStep(c) /\ UNCHANGED staff
  BY DEF ServerStep
<1>2. call[c].at # "done"
  BY <1>1, CallFrame DEF StaffInv
<1>3. Asked(c) /\ desk[c] \in Errand /\ desk \in [Calls -> Errand]
  BY DEF StaffInv, AskedInv, ReadInv
<1>4. desk[c].at \notin {"granted", "shown"}
  BY <1>2, <1>3 DEF Asked
<1>5. CASE ~(OnScreen(c) /\ call'[c].ok)
  BY <1>1, <1>3, <1>4, <1>5 DEF ServerStep, OnScreen
<1>6. CASE OnScreen(c) /\ call'[c].ok
  <2> PICK roles : roles = Granted(c)
    OBVIOUS
  <2>1. ASSUME NEW p \in People, desk[c].kind = "setRoles", desk[c].person = p
        PROVE  roles = RolesOf(Home, p)'
    BY <2>1 DEF Granted, RolesOf, RolesIn
  <2>2. roles \in SUBSET Roles
    <3>1. CASE desk[c].kind = "setRoles"
      <4>1. desk[c].person \in People
        BY <1>3, <1>6, <3>1 DEF Asked, OnScreen
      <4>2. <<Home, desk[c].person>> \in Accounts
        BY <4>1 DEF Accounts, Companies
      <4>3. holds'[<<Home, desk[c].person>>] \in SUBSET UserRole
        BY <4>2 DEF IInv, TypeOK
      <4>4. QED BY <3>1, <4>3 DEF Granted, UserRole
    <3>2. CASE desk[c].kind # "setRoles"
      BY <3>2 DEF Granted
    <3>3. QED BY <3>1, <3>2
  <2> PICK u : u = [desk[c] EXCEPT !.at = "granted"]
    OBVIOUS
  <2> PICK v : v = [u EXCEPT !.answer = roles]
    OBVIOUS
  <2>3. /\ u \in Errand /\ u.at = "granted" /\ u.kind = desk[c].kind
        /\ u.person = desk[c].person /\ u.invite = desk[c].invite /\ u.among = desk[c].among
    BY <1>3 DEF Errand
  <2>4. /\ v \in Errand /\ v.at = "granted" /\ v.kind = desk[c].kind
        /\ v.person = desk[c].person /\ v.invite = desk[c].invite /\ v.among = desk[c].among
        /\ v.answer = roles
    BY <2>2, <2>3 DEF Errand
  <2>5. desk' = [desk EXCEPT ![c].at = "granted", ![c].answer = roles]
    BY <1>6 DEF ServerStep
  <2>6. desk' = [desk EXCEPT ![c] = v]
    BY <2>5, Zenon
  <2>7. QED BY <1>1, <1>3, <1>4, <1>6, <2>1, <2>4, <2>6 DEF OnScreen
<1>7. QED BY <1>5, <1>6

LEMMA EntangledStays ==
  ASSUME NEW p, Entangled(p),
         \A d \in Calls : desk[d].kind = "setRoles" =>
           /\ desk'[d].kind = desk[d].kind /\ desk'[d].person = desk[d].person
           /\ desk'[d].among = desk[d].among
  PROVE  Entangled(p)'
BY DEF Entangled

LEMMA ServerRoster ==
  ASSUME StaffInv, IInv', NEW c \in Calls, ServerStep(c)
  PROVE  RosterInv'
<1> USE DEF StaffInv
<1>1. /\ CallStep(c) /\ UNCHANGED staff
      /\ \A d \in Calls : /\ d # c => desk'[d] = desk[d]
                          /\ desk'[d].kind = desk[d].kind /\ desk'[d].person = desk[d].person
                          /\ desk'[d].among = desk[d].among
  BY ServerStepFacts
<1>2. call[c].at # "done" /\ ~call[c].ok /\ \A d \in Calls : d # c => call'[d] = call[d]
  BY <1>1, CallFrame, NotAnswered DEF StepOf
<1> SUFFICES ASSUME staff.at # "asking" \/ "people" \in staff.got, NEW p \in People
             PROVE  Entangled(p)' \/ ByAnother(p)' \/ Faithful(p)'
  BY <1>1 DEF RosterInv
<1>3. CASE Entangled(p)
  BY <1>1, <1>3, EntangledStays
<1>4. CASE ByAnother(p)
  <2>1. PICK d \in Calls : /\ desk[d].at = "none"
                           /\ \/ Answered(d, "setRoles") /\ call[d].person = p
                              \/ Answered(d, "accept")
    BY <1>4 DEF ByAnother
  <2>2. d # c
    BY <1>2, <2>1 DEF Answered
  <2>3. QED BY <1>1, <1>2, <2>1, <2>2 DEF ByAnother, Answered
<1>5. CASE Faithful(p) /\ ~Entangled(p)
  <2>1. Roster' = Roster
    BY <1>1 DEF Roster
  <2>2. ~GrantedTo(c, p)
    BY ServerStepFacts DEF GrantedTo
  <2>3. GrantedTo(c, p)' => desk'[c].answer = RolesOf(Home, p)'
    BY ServerStepFacts DEF GrantedTo
  <2>4. CASE holds'[<<Home, p>>] = holds[<<Home, p>>]
    <3>1. RolesOf(Home, p)' = RolesOf(Home, p)
      BY <2>4 DEF RolesOf, RolesIn
    <3>2. \A d \in Calls : d # c => (GrantedTo(d, p)' <=> GrantedTo(d, p))
      BY <1>1 DEF GrantedTo
    <3>3. QED BY <1>1, <1>5, <2>1, <2>2, <2>3, <3>1, <3>2 DEF Faithful
  <2>5. CASE holds'[<<Home, p>>] # holds[<<Home, p>>]
    <3>1. /\ call'[c].ok /\ SameCall(c) /\ call[c].person = p
          /\ call[c].kind \in {"setRoles", "accept"}
      BY <1>1, <2>5, RolesChange
    <3>2. CASE desk[c].at = "none"
      <4>1. desk'[c].at = "none"
        BY <3>2, ServerStepFacts
      <4>2. QED BY <3>1, <4>1 DEF ByAnother, Answered, SameCall
    <3>3. CASE desk[c].at # "none"
      <4>1. desk[c].kind = "setRoles" /\ desk[c].person = p /\ desk[c].at \in {"sent", "granted"}
        BY <3>1, <3>3, ServerStepFacts DEF AskedInv, Asked, ReadInv, Errand
      <4>2. GrantedTo(c, p)'
        BY <1>1, <3>1, <3>3, <4>1, ServerStepFacts DEF GrantedTo
      <4>3. ASSUME NEW d \in Calls, d # c, GrantedTo(d, p) PROVE FALSE
        BY <1>5, <4>1, <4>3 DEF GrantedTo, AmongInv, StillOpen, Entangled
      <4>4. \A d \in Calls : GrantedTo(d, p)' => d = c
        BY <1>1, <4>3 DEF GrantedTo
      <4>5. QED BY <2>3, <4>2, <4>4 DEF Faithful
    <3>4. QED BY <3>2, <3>3
  <2>6. QED BY <2>4, <2>5
<1>6. QED BY <1>3, <1>4, <1>5 DEF RosterInv

LEMMA ServerAsked ==
  ASSUME StaffInv, IInv', NEW c \in Calls, ServerStep(c)
  PROVE  AskedInv'
<1> USE DEF StaffInv
<1>1. CallStep(c) /\ UNCHANGED staff
  BY ServerStepFacts
<1>2. /\ call[c].at # "done" /\ ~call[c].ok /\ call'[c].at # "idle"
      /\ \A d \in Calls : d # c => call'[d] = call[d]
  BY <1>1, CallFrame, NotAnswered DEF StepOf
<1>3. \A i \in Links : /\ invites[i].made => invites'[i].made
                                              /\ invites'[i].company = invites[i].company
                       /\ invites[i].revoked => invites'[i].revoked
  BY <1>1, LinksChange
<1> SUFFICES ASSUME NEW d \in Calls, desk'[d].at # "none" PROVE Asked(d)'
  BY DEF AskedInv, Asked
<1>4. CASE d # c
  <2>1. desk'[d] = desk[d] /\ call'[d] = call[d]
    BY <1>2, <1>4, ServerStepFacts
  <2>2. d \in Links /\ Asked(d)
    BY DEF Links, AskedInv
  <2>3. QED BY <1>1, <1>3, <2>1, <2>2 DEF Asked
<1>5. CASE d = c
  <2>1. /\ desk'[c].kind = desk[c].kind /\ desk'[c].person = desk[c].person
        /\ desk'[c].invite = desk[c].invite
        /\ desk'[c].at = IF desk[c].at # "none" /\ call'[c].ok THEN "granted" ELSE desk[c].at
        /\ desk[c].at \notin {"granted", "shown"}
    BY ServerStepFacts
  <2>2. Asked(c) /\ desk[c].at # "none" /\ call[c].at # "idle"
    BY <1>5, <2>1 DEF AskedInv, Asked
  <2>3. CASE ~call'[c].ok
    <3>1. call'[c].kind = "none" \/ SameCall(c)
      BY <1>1, <2>2, <2>3, CallFrame
    <3>2. QED BY <1>1, <1>2, <1>5, <2>1, <2>2, <2>3, <3>1 DEF Asked, SameCall
  <2>4. CASE call'[c].ok
    <3>1. SameCall(c) /\ call'[c].at = "done"
      BY <1>1, <2>2, <2>4, CallFrame
    <3>2. call[c].kind # "none"
      <4>1. call[c].kind \in KindAt(call[c].at) /\ call[c] \in Call
        BY <1>2, <2>2, UnderWay
      <4>2. QED BY <1>2, <2>2, <4>1 DEF KindAt, Call, CallSteps
    <3>3. /\ Answered(c, "revoke")' => invites'[call[c].invite].revoked
          /\ Answered(c, "invite")' => /\ invites'[c].made
                                       /\ invites'[c].company = call[c].company
      BY <1>1, LinksChange
    <3>4. QED BY <1>1, <1>2, <1>5, <2>1, <2>2, <2>4, <3>1, <3>2, <3>3
              DEF Asked, SameCall, Answered
  <2>5. QED BY <2>3, <2>4
<1>6. QED BY <1>4, <1>5

LEMMA ServerPending ==
  ASSUME StaffInv, IInv', NEW c \in Calls, ServerStep(c)
  PROVE  PendingInv'
<1> USE DEF StaffInv
<1>1. CallStep(c) /\ UNCHANGED staff
  BY ServerStepFacts
<1>2. call[c].at # "done" /\ ~call[c].ok /\ \A d \in Calls : d # c => call'[d] = call[d]
  BY <1>1, CallFrame, NotAnswered DEF StepOf
<1>3. \A i \in Links :
        /\ LinkState(i)' = "PENDING" =>
             LinkState(i) = "PENDING" \/ (i = c /\ Answered(c, "invite")')
        /\ invites[i].made => invites'[i].made /\ invites'[i].company = invites[i].company
  BY <1>1, LinksChange
<1>4. ASSUME NEW i \in Links, staff.listed, LinkState(i)' = "PENDING" PROVE PendingKnown(i)'
  <2>1. CASE LinkState(i) = "PENDING"
    <3>1. PendingKnown(i)
      BY <1>4, <2>1 DEF PendingInv
    <3>2. CASE staff.links[i] = "PENDING"
      BY <1>1, <3>2 DEF PendingKnown
    <3>3. CASE i \in Calls /\ desk[i].at = "none" /\ Answered(i, "invite")
      <4>1. i # c
        BY <1>2, <3>3 DEF Answered
      <4>2. desk'[i] = desk[i] /\ call'[i] = call[i]
        BY <1>2, <3>3, <4>1, ServerStepFacts
      <4>3. QED BY <3>3, <4>2 DEF PendingKnown, Answered
    <3>4. CASE i \in Calls /\ desk[i].at = "granted" /\ desk[i].kind = "invite"
      <4>1. i # c
        BY <3>4, ServerStepFacts
      <4>2. desk'[i] = desk[i]
        BY <3>4, <4>1, ServerStepFacts
      <4>3. QED BY <3>4, <4>2 DEF PendingKnown
    <3>5. QED BY <3>1, <3>2, <3>3, <3>4 DEF PendingKnown
  <2>2. CASE i = c /\ Answered(c, "invite")'
    <3>1. call'[c].ok /\ call'[c].kind = "invite"
      BY <2>2 DEF Answered
    <3>2. CASE desk[c].at = "none"
      <4>1. desk'[c].at = "none"
        BY <3>2, ServerStepFacts
      <4>2. QED BY <2>2, <4>1 DEF PendingKnown
    <3>3. CASE desk[c].at # "none"
      <4>1. desk'[c].at = "granted" /\ desk'[c].kind = desk[c].kind
        BY <3>1, <3>3, ServerStepFacts
      <4>2. AskedInv'
        BY ServerAsked
      <4>3. desk'[c].kind = "invite"
        BY <3>1, <4>1, <4>2 DEF AskedInv, Asked
      <4>4. QED BY <2>2, <4>1, <4>3 DEF PendingKnown
    <3>4. QED BY <3>2, <3>3
  <2>3. QED BY <1>3, <1>4, <2>1, <2>2
<1>5. \A i \in Links : staff.links[i] = "PENDING" => invites'[i].made /\ invites'[i].company = Home
  BY <1>3 DEF PendingInv
<1>6. QED BY <1>1, <1>4, <1>5 DEF PendingInv

LEMMA ServerStaff ==
  ASSUME StaffInv, IInv', NEW c \in Calls, ServerStep(c), UNCHANGED whose
  PROVE  StaffInv'
<1>1. CallStep(c) /\ UNCHANGED staff
  BY ServerStepFacts
<1>2. ReadInv'
  <2>1. Exists(Home, viewer)'
    BY <1>1, MembersStay DEF StaffInv, ReadInv, whose
  <2>2. \A d \in Calls : desk'[d].at = "none" => desk'[d].kind = "none"
    BY ServerStepFacts DEF StaffInv, ReadInv
  <2>3. QED BY <1>1, <2>1, <2>2, ServerStepFacts DEF StaffInv, ReadInv, whose
<1>3. AmongInv'
  <2>1. \A d \in Calls : /\ desk'[d].among = desk[d].among
                         /\ desk'[d].at \in {"sent", "granted"} =>
                              desk[d].at \in {"sent", "granted"}
    BY ServerStepFacts DEF StaffInv, ReadInv, Errand
  <2>2. StillOpen' \subseteq StillOpen
    BY <2>1 DEF StillOpen
  <2>3. QED BY <2>1, <2>2 DEF StaffInv, AmongInv, StillOpen
<1>4. QED BY <1>2, <1>3, ServerAsked, ServerRoster, ServerPending DEF StaffInv

-----------------------------------------------------------------------------
(* Something is chosen on the screen, or an answer arrives there.           *)

LEMMA DoingStaff ==
  ASSUME StaffInv, IInv', NEW c \in Calls, Doing(c), UNCHANGED whose
  PROVE  StaffInv'
<1> USE DEF StaffInv
<1>1. CallStep(c)
  BY DoingCalls
<1>2. call[c].at = "idle" /\ desk[c].at = "none" /\ staff.at = "ready"
  BY DoingFacts
<1>3. Quiet /\ \A d \in Calls : d # c => call'[d] = call[d] /\ desk'[d] = desk[d]
  BY <1>1, <1>2, CallFrame, DoingFacts DEF StepOf
<1>4. /\ staff' \in Staff /\ staff'.at = staff.at /\ staff'.got = staff.got
      /\ staff'.read = staff.read /\ staff'.members = staff.members
      /\ staff'.links = staff.links /\ staff'.listed = staff.listed
  <2>1. PICK p \in People \cup {None} : staff' = [staff EXCEPT !.saving = p]
    BY DoingFacts
  <2>2. QED BY <2>1, DoingFacts DEF ReadInv, Staff
<1>5. ReadInv'
  <2>1. Exists(Home, viewer)'
    BY <1>3 DEF ReadInv, whose, Quiet, Exists
  <2>2. \A d \in Calls : desk'[d].at = "none" => desk'[d].kind = "none"
    BY <1>3, DoingFacts DEF ReadInv
  <2>3. QED BY <1>4, <2>1, <2>2, DoingFacts DEF ReadInv, whose
<1>6. AskedInv'
  <2>1. ASSUME NEW d \in Calls, d # c PROVE Asked(d)'
    BY <1>3, <1>4, <2>1 DEF AskedInv, Asked, Quiet
  <2>2. Asked(c)'
    BY <1>2, <1>4, DoingFacts DEF Asked
  <2>3. QED BY <2>1, <2>2 DEF AskedInv
<1>7. AmongInv'
  <2>1. StillOpen' = StillOpen \cup {c}
    BY <1>3, DoingFacts DEF StillOpen
  <2>2. \A d \in StillOpen : d # c /\ desk'[d] = desk[d] /\ d \in desk'[c].among
    BY <1>2, <1>3, DoingFacts DEF StillOpen
  <2>3. QED BY <2>1, <2>2 DEF AmongInv
<1>8. RosterInv'
  <2> SUFFICES ASSUME staff.at # "asking" \/ "people" \in staff.got, NEW p \in People
               PROVE  Entangled(p)' \/ ByAnother(p)' \/ Faithful(p)'
    BY <1>4 DEF RosterInv
  <2>1. CASE Entangled(p)
    <3>1. PICK d, e \in Calls : /\ desk[d].kind = "setRoles" /\ desk[e].kind = "setRoles"
                                /\ desk[d].person = p /\ desk[e].person = p
                                /\ d \in desk[e].among
      BY <2>1 DEF Entangled
    <3>2. CASE d # c /\ e # c
      BY <1>3, <3>1, <3>2 DEF Entangled
    <3>3. CASE d = c \/ e = c
      BY <1>2, <3>1, <3>3 DEF ReadInv
    <3>4. QED BY <3>2, <3>3
  <2>2. CASE ByAnother(p)
    <3>1. PICK d \in Calls : /\ desk[d].at = "none"
                             /\ \/ Answered(d, "setRoles") /\ call[d].person = p
                                \/ Answered(d, "accept")
      BY <2>2 DEF ByAnother
    <3>2. d # c
      BY <1>2, <3>1 DEF Answered, IInv, RolesInv, OkInv
    <3>3. QED BY <1>3, <3>1, <3>2 DEF ByAnother, Answered
  <2>3. CASE Faithful(p)
    <3>1. Roster' = Roster
      BY <1>4 DEF Roster
    <3>2. RolesOf(Home, p)' = RolesOf(Home, p)
      BY <1>3 DEF RolesOf, Quiet
    <3>3. ~GrantedTo(c, p) /\ ~GrantedTo(c, p)'
      BY <1>2, DoingFacts DEF GrantedTo
    <3>4. \A d \in Calls : d # c => (GrantedTo(d, p)' <=> GrantedTo(d, p))
      BY <1>3 DEF GrantedTo
    <3>5. QED BY <1>3, <2>3, <3>1, <3>2, <3>3, <3>4 DEF Faithful
  <2>4. QED BY <2>1, <2>2, <2>3 DEF RosterInv
<1>9. PendingInv'
  <2>1. \A i \in Links : LinkState(i)' = LinkState(i)
    BY <1>3 DEF LinkState, Quiet
  <2>2. ASSUME NEW i \in Links, PendingKnown(i) PROVE PendingKnown(i)'
    <3>1. CASE i = c
      <4>1. staff.links[i] = "PENDING"
        BY <1>2, <2>2, <3>1 DEF PendingKnown, Answered, IInv, RolesInv, OkInv
      <4>2. QED BY <1>4, <4>1 DEF PendingKnown
    <3>2. CASE i # c
      BY <1>3, <1>4, <2>2, <3>2 DEF PendingKnown, Answered
    <3>3. QED BY <3>1, <3>2
  <2>3. QED BY <1>3, <1>4, <2>1, <2>2 DEF PendingInv, Quiet
<1>10. QED BY <1>5, <1>6, <1>7, <1>8, <1>9

LEMMA ShowFacts ==
  ASSUME StaffInv, NEW c \in Calls, ShowAnswer(c)
  PROVE  /\ desk' \in [Calls -> Errand]
         /\ \A d \in Calls : d # c => desk'[d] = desk[d]
         /\ desk'[c].at = "shown" /\ desk'[c].kind = desk[c].kind
         /\ desk'[c].person = desk[c].person /\ desk'[c].invite = desk[c].invite
         /\ desk'[c].among = desk[c].among
         /\ staff' \in Staff /\ staff'.at = staff.at /\ staff'.got = staff.got
         /\ staff'.read = staff.read /\ staff'.listed = staff.listed
         /\ \A p \in People : staff'.members[p] =
              IF GrantedTo(c, p) THEN desk[c].answer ELSE staff.members[p]
         /\ \A i \in Links :
              /\ staff'.links[i] = "PENDING" =>
                   \/ staff.links[i] = "PENDING"
                   \/ i = c /\ desk[c].at = "granted" /\ desk[c].kind = "invite"
              /\ i = c /\ desk[c].at = "granted" /\ desk[c].kind = "invite" =>
                   staff'.links[i] = "PENDING"
              /\ staff.links[i] = "PENDING" =>
                   \/ staff'.links[i] = "PENDING"
                   \/ desk[c].at = "granted" /\ desk[c].kind = "revoke" /\ i = desk[c].invite
<1> USE DEF StaffInv
<1>1. Asked(c) /\ desk[c] \in Errand /\ desk \in [Calls -> Errand] /\ staff \in Staff
  BY DEF AskedInv, ReadInv
<1>2. desk[c].at \in {"sent", "granted"}
      /\ desk[c].kind \in {"setRoles", "invite", "revoke"} /\ c \in Links
  BY <1>1 DEF ShowAnswer, Asked, Links
<1>3. /\ desk' \in [Calls -> Errand]
      /\ \A d \in Calls : d # c => desk'[d] = desk[d]
      /\ desk'[c].at = "shown" /\ desk'[c].kind = desk[c].kind
      /\ desk'[c].person = desk[c].person /\ desk'[c].invite = desk[c].invite
      /\ desk'[c].among = desk[c].among
  BY <1>1 DEF ShowAnswer, Errand
<1> DEFINE Page(page) ==
      /\ page \in Staff /\ page.at = staff.at /\ page.got = staff.got
      /\ page.read = staff.read /\ page.listed = staff.listed
      /\ \A p \in People : page.members[p] =
           IF GrantedTo(c, p) THEN desk[c].answer ELSE staff.members[p]
      /\ \A i \in Links :
           /\ page.links[i] = "PENDING" =>
                \/ staff.links[i] = "PENDING"
                \/ i = c /\ desk[c].at = "granted" /\ desk[c].kind = "invite"
           /\ i = c /\ desk[c].at = "granted" /\ desk[c].kind = "invite" =>
                page.links[i] = "PENDING"
           /\ staff.links[i] = "PENDING" =>
                \/ page.links[i] = "PENDING"
                \/ desk[c].at = "granted" /\ desk[c].kind = "revoke" /\ i = desk[c].invite
<1>4. \E page : Page(page) /\ staff' = Rested(c, page)
  <2>1. CASE desk[c].at = "sent"
    BY <1>1, <2>1 DEF ShowAnswer, GrantedTo
  <2>2. CASE desk[c].at = "granted"
    <3>1. staff' = Rested(c, Shown(c))
      BY <2>2 DEF ShowAnswer
    <3>2. CASE desk[c].kind = "setRoles"
      <4>1. desk[c].person \in People /\ desk[c].answer \in SUBSET Roles
        BY <1>1, <1>2, <3>2 DEF Asked, Errand
      <4> PICK m : m = [staff.members EXCEPT ![desk[c].person] = desk[c].answer]
        OBVIOUS
      <4>2. m \in [People -> SUBSET Roles]
            /\ \A p \in People : m[p] = IF GrantedTo(c, p) THEN desk[c].answer
                                        ELSE staff.members[p]
        BY <1>1, <2>2, <3>2, <4>1 DEF Staff, GrantedTo
      <4>3. Shown(c) = [staff EXCEPT !.members = m]
        BY <1>1, <3>2 DEF Shown, Staff
      <4>4. Page([staff EXCEPT !.members = m])
        BY <1>1, <3>2, <4>2 DEF Staff
      <4>5. QED BY <3>1, <4>3, <4>4
    <3>3. CASE desk[c].kind = "invite"
      <4> PICK l : l = [staff.links EXCEPT ![c] = "PENDING"]
        OBVIOUS
      <4>1. l \in [Links -> LinkStates] /\ l[c] = "PENDING"
            /\ \A i \in Links : i # c => l[i] = staff.links[i]
        BY <1>1, <1>2 DEF Staff, LinkStates
      <4>2. Shown(c) = [staff EXCEPT !.links = l]
        BY <1>1, <3>3 DEF Shown, Staff
      <4>3. Page([staff EXCEPT !.links = l])
        BY <1>1, <2>2, <3>3, <4>1 DEF Staff, GrantedTo
      <4>4. QED BY <3>1, <4>2, <4>3
    <3>4. CASE desk[c].kind = "revoke"
      <4> PICK l : l = [i \in Links |-> IF i \in SameInvite(c) THEN "REVOKED" ELSE staff.links[i]]
        OBVIOUS
      <4>1. l \in [Links -> LinkStates]
            /\ \A i \in Links : l[i] = IF i = desk[c].invite THEN "REVOKED" ELSE staff.links[i]
        BY <1>1 DEF Staff, LinkStates, SameInvite
      <4>2. Shown(c) = [staff EXCEPT !.links = l]
        BY <3>4 DEF Shown
      <4>3. Page([staff EXCEPT !.links = l])
        BY <1>1, <2>2, <3>4, <4>1 DEF Staff, GrantedTo
      <4>4. QED BY <3>1, <4>2, <4>3
    <3>5. QED BY <1>2, <3>2, <3>3, <3>4
  <2>3. QED BY <1>2, <2>1, <2>2
<1>5. PICK page : Page(page) /\ staff' = Rested(c, page)
  BY <1>4
<1>6. Page(staff')
  BY <1>5 DEF Rested, Staff
<1>7. QED BY <1>3, <1>6

LEMMA ShowStaff ==
  ASSUME StaffInv, NEW c \in Calls, ShowAnswer(c), UNCHANGED whose
  PROVE  StaffInv'
<1> USE DEF StaffInv
<1>1. UNCHANGED vars /\ UNCHANGED <<holds, invites, call>>
  BY DEF ShowAnswer, vars
<1>2. IInv'
  <2>1. [Next]_vars
    BY <1>1
  <2>2. QED BY <2>1, NextInvariant
<1>3. /\ Asked(c) /\ desk[c].at \in {"sent", "granted"} /\ staff.at = "ready"
      /\ call[c].at = "done"
  BY DEF ShowAnswer, AskedInv, Asked
<1>4. ReadInv'
  <2>1. \A d \in Calls : desk'[d].at = "none" => desk'[d].kind = "none"
    BY ShowFacts DEF ReadInv
  <2>2. QED BY <1>1, <2>1, ShowFacts DEF ReadInv, whose, Exists
<1>5. AskedInv'
  <2>1. ASSUME NEW d \in Calls, d # c PROVE Asked(d)'
    BY <1>1, <2>1, ShowFacts DEF AskedInv, Asked
  <2>2. Asked(c)'
    BY <1>1, <1>3, ShowFacts DEF Asked
  <2>3. QED BY <2>1, <2>2 DEF AskedInv
<1>6. AmongInv'
  <2>1. \A d \in Calls : desk'[d].among = desk[d].among /\ (d \in StillOpen' => d \in StillOpen)
    BY ShowFacts DEF StillOpen
  <2>2. StillOpen' \subseteq Calls
    BY DEF StillOpen
  <2>3. QED BY <2>1, <2>2 DEF AmongInv
<1>7. RosterInv'
  <2> SUFFICES ASSUME NEW p \in People
               PROVE  Entangled(p)' \/ ByAnother(p)' \/ Faithful(p)'
    BY DEF RosterInv
  <2>1. Entangled(p) \/ ByAnother(p) \/ Faithful(p)
    BY <1>3 DEF RosterInv
  <2>2. CASE Entangled(p)
    BY <2>2, EntangledStays, ShowFacts
  <2>3. CASE ByAnother(p)
    <3>1. PICK d \in Calls : /\ desk[d].at = "none"
                             /\ \/ Answered(d, "setRoles") /\ call[d].person = p
                                \/ Answered(d, "accept")
      BY <2>3 DEF ByAnother
    <3>2. desk'[d] = desk[d]
      BY <1>3, <3>1, ShowFacts
    <3>3. QED BY <1>1, <3>1, <3>2 DEF ByAnother, Answered
  <2>4. CASE Faithful(p) /\ ~Entangled(p)
    <3>1. RolesOf(Home, p)' = RolesOf(Home, p)
      BY <1>1 DEF RolesOf
    <3>2. ~GrantedTo(c, p)' /\ \A d \in Calls : d # c => (GrantedTo(d, p)' <=> GrantedTo(d, p))
      BY ShowFacts DEF GrantedTo
    <3>3. Roster = staff.members /\ Roster' = staff'.members
      BY <1>3, ShowFacts DEF Roster
    <3>4. CASE GrantedTo(c, p)
      <4>1. ASSUME NEW d \in Calls, d # c, GrantedTo(d, p) PROVE FALSE
        BY <2>4, <3>4, <4>1 DEF GrantedTo, AmongInv, StillOpen, Entangled
      <4>2. staff'.members[p] = RolesOf(Home, p)
        BY <2>4, <3>4, ShowFacts DEF Faithful
      <4>3. \A d \in Calls : ~GrantedTo(d, p)'
        BY <3>2, <4>1
      <4>4. QED BY <3>1, <3>3, <4>2, <4>3 DEF Faithful
    <3>5. CASE ~GrantedTo(c, p)
      <4>1. staff'.members[p] = staff.members[p]
        BY <3>5, ShowFacts
      <4>2. \A d \in Calls : GrantedTo(d, p)' => desk'[d].answer = desk[d].answer
        BY <3>2, ShowFacts
      <4>3. QED BY <2>4, <3>1, <3>2, <3>3, <3>5, <4>1, <4>2 DEF Faithful
    <3>6. QED BY <3>4, <3>5
  <2>5. QED BY <2>1, <2>2, <2>3, <2>4
<1>8. PendingInv'
  <2>1. \A i \in Links : LinkState(i)' = LinkState(i)
    BY <1>1 DEF LinkState
  <2>2. ASSUME NEW i \in Links, staff.listed, LinkState(i) = "PENDING" PROVE PendingKnown(i)'
    <3>1. PendingKnown(i)
      BY <2>2 DEF PendingInv
    <3>2. CASE staff.links[i] = "PENDING"
      <4>1. ~invites[i].revoked
        BY <2>2 DEF LinkState
      <4>2. ~(desk[c].at = "granted" /\ desk[c].kind = "revoke" /\ i = desk[c].invite)
        BY <1>3, <4>1 DEF Asked
      <4>3. QED BY <3>2, <4>2, ShowFacts DEF PendingKnown
    <3>3. CASE i \in Calls /\ desk[i].at = "none" /\ Answered(i, "invite")
      <4>1. desk'[i] = desk[i]
        BY <1>3, <3>3, ShowFacts
      <4>2. QED BY <1>1, <3>3, <4>1 DEF PendingKnown, Answered
    <3>4. CASE i \in Calls /\ desk[i].at = "granted" /\ desk[i].kind = "invite"
      <4>1. CASE i = c
        <5>1. desk[c].at = "granted" /\ desk[c].kind = "invite" /\ i \in Links
          BY <3>4, <4>1
        <5>2. staff'.links[i] = "PENDING"
          BY <4>1, <5>1, ShowFacts
        <5>3. QED BY <5>2 DEF PendingKnown
      <4>2. CASE i # c
        BY <3>4, <4>2, ShowFacts DEF PendingKnown
      <4>3. QED BY <4>1, <4>2
    <3>5. QED BY <3>1, <3>2, <3>3, <3>4 DEF PendingKnown
  <2>3. ASSUME NEW i \in Links, staff'.links[i] = "PENDING"
        PROVE  invites[i].made /\ invites[i].company = Home
    <3>1. \/ staff.links[i] = "PENDING"
          \/ i = c /\ desk[c].at = "granted" /\ desk[c].kind = "invite"
      BY <2>3, ShowFacts
    <3>2. QED BY <1>3, <3>1 DEF PendingInv, Asked
  <2>4. staff'.listed = staff.listed
    BY ShowFacts
  <2>5. QED BY <1>1, <2>1, <2>2, <2>3, <2>4 DEF PendingInv
<1>9. QED BY <1>2, <1>4, <1>5, <1>6, <1>7, <1>8

-----------------------------------------------------------------------------
(* The screen reads what it shows.                                          *)

\* While the screen is read nothing has been asked there, so that what it reads
\* of the company is what it knows of it.
LEMMA ReadStaff ==
  ASSUME StaffInv, UNCHANGED whose, ReadProfile \/ ListUsers \/ ShowPeople \/ ShowLists
  PROVE  StaffInv'
<1> USE DEF StaffInv
<1>1. UNCHANGED vars /\ UNCHANGED <<holds, invites, call, desk>> /\ staff.at # "ready"
  BY DEF ReadProfile, ListUsers, ShowPeople, ShowLists, ReadInv, vars, Staff
<1>2. IInv'
  <2>1. [Next]_vars
    BY <1>1
  <2>2. QED BY <2>1, NextInvariant
<1>3. \A d \in Calls : desk[d].at = "none"
  BY <1>1 DEF AskedInv, Asked
<1>4. \A p \in People : RolesOf(Home, p) \in SUBSET Roles
  BY DEF RolesOf, RolesIn, IInv, TypeOK, Accounts, Companies, UserRole
<1>5. \A i \in Links : LinkState(i) \in LinkStates
  BY DEF LinkState, LinkStates
<1>6. /\ staff' \in Staff
      /\ staff'.at # "asking" => staff'.got = {}
      /\ \/ staff'.links = staff.links /\ staff'.listed = staff.listed
         \/ \A i \in Links : staff'.links[i] = LinkState(i)
  <2>1. staff \in Staff /\ (staff.at # "asking" => staff.got = {})
    BY DEF ReadInv
  <2>2. CASE ReadProfile
    <3>1. RolesOf(Home, viewer) \in SUBSET Roles
      BY <1>4 DEF ReadInv
    <3>2. QED BY <2>1, <2>2, <3>1 DEF ReadProfile, Staff
  <2>3. CASE ListUsers
    BY <1>4, <2>1, <2>3 DEF ListUsers, Staff
  <2>4. CASE ShowPeople
    BY <2>1, <2>4 DEF ShowPeople, Staff
  <2>5. CASE ShowLists
    <3> PICK l : l = [i \in Links |-> LinkState(i)]
      OBVIOUS
    <3>1. l \in [Links -> LinkStates] /\ \A i \in Links : l[i] = LinkState(i)
      BY <1>5
    <3>2. \/ staff' = [staff EXCEPT !.at = "ready", !.listed = TRUE, !.links = l]
          \/ staff' = [staff EXCEPT !.at = "ready"]
      BY <2>5 DEF ShowLists
    <3>3. staff.got = {}
      BY <2>1, <2>5 DEF ShowLists
    <3>4. QED BY <2>1, <3>1, <3>2, <3>3 DEF Staff
  <2>6. QED BY <2>2, <2>3, <2>4, <2>5
<1>7. /\ staff'.at # "asking" \/ "people" \in staff'.got
      => \/ (staff.at # "asking" \/ "people" \in staff.got) /\ Roster' = Roster
         \/ \A p \in People : Roster'[p] = RolesOf(Home, p)
  <2>1. staff \in Staff /\ (staff.at # "asking" => staff.got = {})
    BY DEF ReadInv
  <2>2. CASE ReadProfile
    BY <2>1, <2>2 DEF ReadProfile, Staff, Roster
  <2>3. CASE ListUsers
    BY <2>1, <2>3 DEF ListUsers, Staff, Roster
  <2>4. CASE ShowPeople
    BY <2>1, <2>4 DEF ShowPeople, Staff, Roster
  <2>5. CASE ShowLists
    BY <2>1, <2>5 DEF ShowLists, Staff, Roster
  <2>6. QED BY <2>2, <2>3, <2>4, <2>5
<1>8. RosterInv'
  <2> SUFFICES ASSUME staff'.at # "asking" \/ "people" \in staff'.got, NEW p \in People
               PROVE  Entangled(p)' \/ ByAnother(p)' \/ Faithful(p)'
    BY DEF RosterInv
  <2>1. RolesOf(Home, p)' = RolesOf(Home, p) /\ (ByAnother(p)' <=> ByAnother(p))
        /\ (Entangled(p)' <=> Entangled(p))
    BY <1>1 DEF RolesOf, ByAnother, Answered, Entangled
  <2>2. \A d \in Calls : ~GrantedTo(d, p) /\ ~GrantedTo(d, p)'
    BY <1>1, <1>3 DEF GrantedTo
  <2>3. QED BY <1>7, <2>1, <2>2 DEF RosterInv, Faithful
<1>9. PendingInv'
  <2>1. \A i \in Links : LinkState(i)' = LinkState(i)
    BY <1>1 DEF LinkState
  <2>2. \A i \in Links : LinkState(i) = "PENDING" => invites[i].made /\ invites[i].company = Home
    BY DEF LinkState
  <2>3. CASE staff'.links = staff.links /\ staff'.listed = staff.listed
    <3>1. \A i \in Links : PendingKnown(i) => PendingKnown(i)'
      BY <1>1, <2>3 DEF PendingKnown, Answered
    <3>2. QED BY <1>1, <2>1, <2>3, <3>1 DEF PendingInv
  <2>4. CASE \A i \in Links : staff'.links[i] = LinkState(i)
    BY <1>1, <2>1, <2>2, <2>4 DEF PendingInv, PendingKnown
  <2>5. QED BY <1>6, <2>3, <2>4
<1>10. ReadInv' /\ AskedInv' /\ AmongInv'
  <2>1. \A d \in Calls : desk'[d].at = "none"
    BY <1>1, <1>3
  <2>2. ReadInv'
    BY <1>1, <1>6 DEF ReadInv, whose, Exists
  <2>3. AskedInv'
    BY <2>1 DEF AskedInv, Asked
  <2>4. AmongInv'
    BY <2>1 DEF AmongInv, StillOpen
  <2>5. QED BY <2>2, <2>3, <2>4
<1>11. QED BY <1>2, <1>8, <1>9, <1>10

-----------------------------------------------------------------------------

LEMMA StaffSteps ==
  ASSUME StaffInv, StaffNext
  PROVE  StaffInv' /\ [Next]_vars
<1>1. UNCHANGED whose
  BY DEF StaffNext
<1>2. CASE ReadProfile \/ ListUsers \/ ShowPeople \/ ShowLists
  BY <1>1, <1>2, ReadStaff DEF ReadProfile, ListUsers, ShowPeople, ShowLists
<1>3. ASSUME NEW c \in Calls, Doing(c) PROVE StaffInv' /\ [Next]_vars
  <2>1. [Next]_vars
    BY <1>3, DoingCalls DEF Next
  <2>2. IInv'
    BY <2>1, NextInvariant DEF StaffInv
  <2>3. QED BY <1>1, <1>3, <2>1, <2>2, DoingStaff
<1>4. ASSUME NEW c \in Calls, ServerStep(c) PROVE StaffInv' /\ [Next]_vars
  <2>1. [Next]_vars
    BY <1>4 DEF ServerStep, Next
  <2>2. IInv'
    BY <2>1, NextInvariant DEF StaffInv
  <2>3. QED BY <1>1, <1>4, <2>1, <2>2, ServerStaff
<1>5. ASSUME NEW c \in Calls, ShowAnswer(c) PROVE StaffInv' /\ [Next]_vars
  BY <1>1, <1>5, ShowStaff DEF ShowAnswer
<1>6. QED BY <1>2, <1>3, <1>4, <1>5 DEF StaffNext, StaffStep

LEMMA StaffStutters ==
  ASSUME StaffInv, UNCHANGED membersVars
  PROVE  StaffInv'
<1>1. UNCHANGED <<holds, invites, call, round, viewer, staff, desk>>
  BY DEF membersVars, vars, whose
<1>2. IInv'
  BY NextInvariant DEF StaffInv, membersVars
<1>3. ReadInv' /\ AskedInv' /\ AmongInv' /\ PendingInv'
  BY <1>1 DEF StaffInv, ReadInv, AskedInv, Asked, AmongInv, StillOpen, PendingInv, PendingKnown,
              Answered, LinkState, Exists
<1>4. RosterInv'
  BY <1>1 DEF StaffInv, RosterInv, Roster, Entangled, ByAnother, Answered, Faithful, GrantedTo,
              RolesOf
<1>5. QED BY <1>2, <1>3, <1>4 DEF StaffInv

LEMMA InitStaff == StaffInit => StaffInv
<1> SUFFICES ASSUME StaffInit PROVE StaffInv
  OBVIOUS
<1>1. IInv
  BY InitInvariant DEF StaffInit
<1>2. /\ staff = BlankStaff /\ \A c \in Calls : desk[c] = NoErrand
      /\ desk \in [Calls -> Errand]
  BY DEF StaffInit, NoErrand, Errand
<1>3. BlankStaff \in Staff
  BY DEF BlankStaff, Staff, LinkStates
<1>4. \A c \in Calls : desk[c].at = "none" /\ desk[c].kind = "none"
  BY <1>2 DEF NoErrand
<1>5. ReadInv /\ AskedInv /\ AmongInv
  BY <1>2, <1>3, <1>4 DEF StaffInit, ReadInv, AskedInv, Asked, AmongInv, StillOpen, BlankStaff
<1>6. PendingInv /\ RosterInv
  BY <1>2 DEF PendingInv, RosterInv, BlankStaff
<1>7. QED BY <1>1, <1>5, <1>6 DEF StaffInv

LEMMA StaffInvariant == StaffSpec => []StaffInv
<1>1. StaffInv /\ [StaffNext]_membersVars => StaffInv'
  BY StaffSteps, StaffStutters
<1>2. QED BY <1>1, InitStaff, PTL DEF StaffSpec

\* What the screen shows once everything is answered is what the company is, but
\* for what others did and for one member's role chosen twice at once: whatever
\* the order in which the server commits and the answers arrive, and however many
\* changes, invitations and withdrawals are under way together
\* (MembersView.changeRole, confirmRevoke, InviteDialog.submit, UsersService.setRoles).
THEOREM StaffShowsTheCompany == StaffSpec => []StaffCurrent
<1>1. StaffInv => StaffCurrent
  <2> SUFFICES ASSUME StaffInv, staff.at = "ready", AllAnswered
               PROVE  /\ \A p \in People : \/ staff.members[p] = RolesOf(Home, p)
                                           \/ Entangled(p)
                                           \/ \E c \in ByOthers("setRoles") : call[c].person = p
                                           \/ ByOthers("accept") # {}
                      /\ staff.listed => \A i \in Links : LinkState(i) = "PENDING" =>
                                           staff.links[i] = "PENDING" \/ i \in ByOthers("invite")
    BY DEF StaffCurrent
  <2>1. \A c \in Calls : desk[c].at # "granted"
    BY DEF AllAnswered
  <2>2. ASSUME NEW p \in People
        PROVE  \/ staff.members[p] = RolesOf(Home, p)
               \/ Entangled(p)
               \/ \E c \in ByOthers("setRoles") : call[c].person = p
               \/ ByOthers("accept") # {}
    <3>1. Entangled(p) \/ ByAnother(p) \/ Faithful(p)
      BY DEF StaffInv, RosterInv
    <3>2. CASE ByAnother(p)
      BY <3>2 DEF ByAnother, Answered, ByOthers, OnScreen
    <3>3. CASE Faithful(p)
      BY <2>1, <3>3 DEF Faithful, GrantedTo, Roster
    <3>4. QED BY <3>1, <3>2, <3>3
  <2>3. ASSUME staff.listed, NEW i \in Links, LinkState(i) = "PENDING"
        PROVE  staff.links[i] = "PENDING" \/ i \in ByOthers("invite")
    <3>1. PendingKnown(i)
      BY <2>3 DEF StaffInv, PendingInv
    <3>2. QED BY <2>1, <3>1 DEF PendingKnown, ByOthers, OnScreen, Answered
  <2>4. QED BY <2>2, <2>3
<1>2. QED BY <1>1, StaffInvariant, PTL

\* The members screen adds nothing to what the server does: what a behaviour with
\* the screen does there is one of the server's own, its requests being requests
\* that the server takes and its refreshes and answers leaving the server alone,
\* so that whatever holds of the server alone holds with the screen.
THEOREM ScreenDrivesTheServer == StaffSpec => Spec
<1>1. StaffInit => Init
  BY DEF StaffInit
<1>2. StaffInv /\ [StaffNext]_membersVars => [Next]_vars
  <2>1. ASSUME UNCHANGED membersVars PROVE UNCHANGED vars
    BY <2>1 DEF membersVars
  <2>2. QED BY <2>1, StaffSteps
<1>3. QED BY <1>1, <1>2, StaffInvariant, PTL DEF StaffSpec, Spec

\* With the members screen at work, a company still keeps an owner, a member has
\* no mixture of roles unless two changes were made together, an invitation makes
\* one account, and an address has one live link: what the run of the screen
\* explores and the theorems above say of the server alone.
THEOREM ScreenKeepsTheRules ==
  StaffSpec => [](OwnerSurvives /\ MixedOnlyTogether /\ OneAcceptance /\ OneLiveLink)
BY ScreenDrivesTheServer, CompaniesKeepAnOwner, RolesOfOneChange, AcceptedOnce, LinksAreRetired,
   PTL

=============================================================================
