---------------------------- MODULE Membership ----------------------------
(***************************************************************************)
(* Who belongs to a company and with which roles: signing up, inviting,    *)
(* withdrawing an invitation, accepting it, and replacing a member's roles.*)
(*                                                                         *)
(* A call is one request, and every await that reaches PostgreSQL is a     *)
(* step of its own, with two exceptions that lose no behaviour: the last   *)
(* statement of a transaction is taken together with the commit, and so is *)
(* a statement that only locks what that last one writes.  A statement     *)
(* that updates or deletes many rows sees the rows committed when it began *)
(* and then, row by row, what has become of them.                          *)
(*                                                                         *)
(* A call that crashes is one that takes no further step.  A call creates  *)
(* at most one invitation or company, which is named by the call.          *)
(***************************************************************************)
EXTENDS Naturals, FiniteSets

CONSTANTS
  Calls,       \* the requests made over the behaviour
  CallKinds,   \* the operations they may perform
  People,      \* the persons, each with one address
  Roles,       \* the roles of a company
  Owner,       \* OWNER_ROLE, the one that holds roles.manage
  Inviters,    \* the roles that hold users.invite
  Home,        \* the company that exists at the start
  Sent,        \* the invitations to it that were sent before
  None

AllCallKinds == {"setRoles", "invite", "revoke", "accept", "register"}

ASSUME KindsAssumption == CallKinds \subseteq AllCallKinds
ASSUME RolesAssumption == Owner \in Inviters /\ Inviters \subseteq Roles
ASSUME NamesAssumption ==
  None \notin Calls \cup Sent \cup People /\ Home \notin Calls /\ Calls \cap Sent = {}

Companies == Calls \cup {Home}
Accounts == Companies \X People
Links == Calls \cup Sent

VARIABLES
  holds,    \* the user_roles rows of each account, none where there is no account:
            \* the role, and the call that inserted the row
  invites,  \* the invitations rows
  call      \* where each request is, and what it has read

vars == <<holds, invites, call>>

-----------------------------------------------------------------------------
(* State.                                                                   *)

UserRole == Roles \X (Calls \cup {None})

Invite == [made : BOOLEAN, company : Companies, person : People \cup {None},
           roles : SUBSET Roles, accepted : BOOLEAN, revoked : BOOLEAN,
           expired : BOOLEAN]

NoInvite == [made |-> FALSE, company |-> Home, person |-> None, roles |-> {},
             accepted |-> FALSE, revoked |-> FALSE, expired |-> FALSE]

CallSteps == {"idle", "guard", "member", "count", "delete", "replace",
              "existing", "retire", "issue", "find", "revoke", "resolve",
              "taken", "consume", "available", "create", "done"}

\* person and roles are what the request names, rows what the statement under
\* way has seen.  ok says how the call was answered; before, kept for the
\* properties only, collects the calls that had been answered when it began.
Call == [kind : AllCallKinds \cup {"none"}, at : CallSteps, actor : People \cup {None},
         company : Companies, person : People \cup {None}, roles : SUBSET Roles,
         invite : Links \cup {None}, rows : SUBSET (Links \cup UserRole),
         ok : BOOLEAN, before : SUBSET Calls]

NoCall == [kind |-> "none", at |-> "idle", actor |-> None, company |-> Home,
           person |-> None, roles |-> {}, invite |-> None, rows |-> {},
           ok |-> FALSE, before |-> {}]

TypeOK ==
  /\ holds \in [Accounts -> SUBSET UserRole]
  /\ invites \in [Links -> Invite]
  /\ call \in [Calls -> Call]
  /\ \A i \in Links : invites[i].accepted => holds[<<invites[i].company, invites[i].person>>] # {}

Exists(co, p) == holds[<<co, p>>] # {}
RolesIn(rows) == {row[1] : row \in rows}
RolesOf(co, p) == RolesIn(holds[<<co, p>>])
Owners(co) == {p \in People : Owner \in RolesOf(co, p)}

\* The rows that a call inserts.
Rows(c, roles) == roles \X {c}

SentInvite(p, r) == [NoInvite EXCEPT !.made = TRUE, !.person = p, !.roles = {r}]

\* register has run for Home, and whatever has happened there since: an
\* address without an account may hold two live links, see OneLiveLink.
Init ==
  /\ holds \in [Accounts -> {{}} \cup {{<<r, None>>} : r \in Roles}]
  /\ \A a \in Accounts : a[1] # Home => holds[a] = {}
  /\ Owners(Home) # {}
  /\ \E p \in People, r \in Roles \ {Owner} :
        invites = [i \in Links |-> IF i \in Sent /\ ~Exists(Home, p)
                                    THEN SentInvite(p, r) ELSE NoInvite]
  /\ call = [c \in Calls |-> NoCall]

-----------------------------------------------------------------------------
(* Steps of a call.                                                         *)

Begin(c, request) ==
  /\ call[c].at = "idle"
  /\ request.kind \in CallKinds
  /\ call' = [call EXCEPT ![c] = [request EXCEPT !.before = {d \in Calls : call[d].ok}]]
  /\ UNCHANGED <<holds, invites>>

Goto(c, next) == call' = [call EXCEPT ![c].at = next]
See(c, next, rows) == call' = [call EXCEPT ![c].at = next, ![c].rows = rows]
Succeed(c) == call' = [call EXCEPT ![c].at = "done", ![c].ok = TRUE, ![c].rows = {}]

\* An exception: the transaction, if one is open, rolls back.
Refuse(c) ==
  /\ call' = [call EXCEPT ![c] = [NoCall EXCEPT !.at = "done"]]
  /\ UNCHANGED <<holds, invites>>

\* PermissionsGuard: the caller's roles are read when the request arrives.
Needs(kind) == IF kind = "setRoles" THEN {Owner} ELSE Inviters

Entitled(c) == RolesOf(call[c].company, call[c].actor) \cap Needs(call[c].kind) # {}

AfterGuard(kind) == CASE kind = "setRoles" -> "member"
                      [] kind = "invite" -> "existing"
                      [] OTHER -> "find"

Guard(c) ==
  /\ call[c].at = "guard"
  /\ IF Entitled(c)
     THEN /\ call' = [call EXCEPT ![c].at = AfterGuard(call[c].kind), ![c].actor = None]
          /\ UNCHANGED <<holds, invites>>
     ELSE Refuse(c)

-----------------------------------------------------------------------------
(* PUT /users/:id/roles                                                     *)

BeginSetRoles(c) ==
  \E co \in Companies, a \in People, p \in People, rs \in (SUBSET Roles) \ {{}} :
     /\ Exists(co, a)
     /\ Begin(c, [NoCall EXCEPT !.kind = "setRoles", !.at = "guard", !.actor = a,
                                !.company = co, !.person = p, !.roles = rs])

MemberHolds(c) == holds[<<call[c].company, call[c].person>>]

\* wasOwner && !staysOwner
Demotes(c) == Owner \in RolesIn(MemberHolds(c)) /\ Owner \notin call[c].roles

\* Mutant: nothing is checked before a member loses the role.
Unchecked(c) == "delete"

AfterMember(c) == IF Demotes(c) THEN "count" ELSE "delete"

ReadMember(c) ==
  /\ call[c].at = "member"
  /\ IF MemberHolds(c) = {}
     THEN Refuse(c)
     ELSE Goto(c, AfterMember(c)) /\ UNCHANGED <<holds, invites>>

\* assertOwnerSurvives
CountOwners(c) ==
  /\ call[c].at = "count"
  /\ IF Cardinality(Owners(call[c].company)) <= 1
     THEN Refuse(c)
     ELSE Goto(c, "delete") /\ UNCHANGED <<holds, invites>>

\* deleteMany of the member's rows begins
SeeRoles(c) ==
  /\ call[c].at = "delete"
  /\ See(c, "replace", MemberHolds(c))
  /\ UNCHANGED <<holds, invites>>

\* What the delete leaves, and the createMany that follows.
Replaced(rows, seen, wanted) == (rows \ seen) \cup wanted

\* createMany meets a row of the same role that the delete did not see
Collides(c) == RolesIn(MemberHolds(c) \ call[c].rows) \cap call[c].roles # {}

ReplaceRoles(c) ==
  /\ call[c].at = "replace"
  /\ IF Collides(c)
     THEN Refuse(c)
     ELSE /\ holds' = [holds EXCEPT ![<<call[c].company, call[c].person>>] =
                         Replaced(@, call[c].rows, Rows(c, call[c].roles))]
          /\ Succeed(c)
          /\ UNCHANGED invites

-----------------------------------------------------------------------------
(* POST /invitations and DELETE /invitations/:id                            *)

BeginInvite(c) ==
  \E co \in Companies, a \in People, p \in People, r \in Roles :
     /\ Exists(co, a)
     /\ Begin(c, [NoCall EXCEPT !.kind = "invite", !.at = "guard", !.actor = a,
                                !.company = co, !.person = p, !.roles = {r}])

ReadExisting(c) ==
  /\ call[c].at = "existing"
  /\ IF Exists(call[c].company, call[c].person)
     THEN Refuse(c)
     ELSE Goto(c, "retire") /\ UNCHANGED <<holds, invites>>

Open(i) == invites[i].made /\ ~invites[i].accepted /\ ~invites[i].revoked

\* Mutant: the outstanding invitations stay as they are.
NothingOutstanding(co, p) == {}

Outstanding(co, p) ==
  {i \in Links : Open(i) /\ invites[i].company = co /\ invites[i].person = p}

\* updateMany of the outstanding invitations begins
SeeOutstanding(c) ==
  /\ call[c].at = "retire"
  /\ See(c, "issue", Outstanding(call[c].company, call[c].person))
  /\ UNCHANGED <<holds, invites>>

IssueInvite(c) ==
  /\ call[c].at = "issue"
  /\ invites' = [i \in Links |->
       IF i = c THEN [NoInvite EXCEPT !.made = TRUE, !.company = call[c].company,
                                      !.person = call[c].person, !.roles = call[c].roles]
       ELSE IF i \in call[c].rows /\ Open(i) THEN [invites[i] EXCEPT !.revoked = TRUE]
       ELSE invites[i]]
  /\ Succeed(c)
  /\ UNCHANGED holds

BeginRevoke(c) ==
  \E i \in Links, a \in People :
     /\ invites[i].made
     /\ Exists(invites[i].company, a)
     /\ Begin(c, [NoCall EXCEPT !.kind = "revoke", !.at = "guard", !.actor = a,
                                !.company = invites[i].company, !.invite = i])

AlreadyAccepted(i) == invites[i].accepted

FindInvite(c) ==
  /\ call[c].at = "find"
  /\ IF AlreadyAccepted(call[c].invite)
     THEN Refuse(c)
     ELSE Goto(c, "revoke") /\ UNCHANGED <<holds, invites>>

\* The row is written by its id alone.
RevokeInvite(c) ==
  /\ call[c].at = "revoke"
  /\ invites' = [invites EXCEPT ![call[c].invite].revoked = TRUE]
  /\ Succeed(c)
  /\ UNCHANGED holds

\* The deadline of an invitation passes.
Expire(i) ==
  /\ Open(i)
  /\ ~invites[i].expired
  /\ invites' = [invites EXCEPT ![i].expired = TRUE]
  /\ UNCHANGED <<holds, call>>

-----------------------------------------------------------------------------
(* POST /auth/accept-invitation and POST /auth/register                     *)

BeginAccept(c) ==
  \E i \in Links :
     /\ invites[i].made
     /\ Begin(c, [NoCall EXCEPT !.kind = "accept", !.at = "resolve", !.invite = i,
                                !.company = invites[i].company,
                                !.person = invites[i].person, !.roles = invites[i].roles])

\* isUsable
Usable(i) == Open(i) /\ ~invites[i].expired

ResolveInvite(c) ==
  /\ call[c].at = "resolve"
  /\ IF Usable(call[c].invite)
     THEN Goto(c, "taken") /\ UNCHANGED <<holds, invites>>
     ELSE Refuse(c)

ReadTaken(c) ==
  /\ call[c].at = "taken"
  /\ IF Exists(call[c].company, call[c].person)
     THEN Refuse(c)
     ELSE Goto(c, "consume") /\ UNCHANGED <<holds, invites>>

\* Mutant: the invitation is consumed by its id alone.
AnyInvite(i) == invites[i].made

\* The condition of the updateMany that consumes the invitation.
Consumable(i) == Open(i)

\* Mutant: an address may have two accounts in a company.
NoUniqueIndex(c) == TRUE

\* user.create meets no account of the address: @@unique([companyId, email])
AddressFree(c) == ~Exists(call[c].company, call[c].person)

ConsumeInvite(c) ==
  LET i == call[c].invite
  IN  /\ call[c].at = "consume"
      /\ IF Consumable(i) /\ AddressFree(c)
         THEN /\ invites' = [invites EXCEPT ![i].accepted = TRUE]
              /\ holds' = [holds EXCEPT ![<<call[c].company, call[c].person>>] =
                                 Rows(c, call[c].roles)]
              /\ Succeed(c)
         ELSE Refuse(c)

BeginRegister(c) ==
  \E p \in People :
     Begin(c, [NoCall EXCEPT !.kind = "register", !.at = "available", !.person = p,
                             !.company = c, !.roles = {Owner}])

\* assertEmailAvailable looks at every company
Registered(p) == \E co \in Companies : Exists(co, p)

ReadAvailable(c) ==
  /\ call[c].at = "available"
  /\ IF Registered(call[c].person)
     THEN Refuse(c)
     ELSE Goto(c, "create") /\ UNCHANGED <<holds, invites>>

CreateCompany(c) ==
  /\ call[c].at = "create"
  /\ holds' = [holds EXCEPT ![<<c, call[c].person>>] = Rows(c, call[c].roles)]
  /\ Succeed(c)
  /\ UNCHANGED invites

-----------------------------------------------------------------------------

SetRolesStep(c) == BeginSetRoles(c) \/ ReadMember(c) \/ CountOwners(c) \/ SeeRoles(c)
                   \/ ReplaceRoles(c)
InviteStep(c) == BeginInvite(c) \/ ReadExisting(c) \/ SeeOutstanding(c) \/ IssueInvite(c)
RevokeStep(c) == BeginRevoke(c) \/ FindInvite(c) \/ RevokeInvite(c)
AcceptStep(c) == BeginAccept(c) \/ ResolveInvite(c) \/ ReadTaken(c) \/ ConsumeInvite(c)
RegisterStep(c) == BeginRegister(c) \/ ReadAvailable(c) \/ CreateCompany(c)

CallStep(c) == Guard(c) \/ SetRolesStep(c) \/ InviteStep(c) \/ RevokeStep(c)
               \/ AcceptStep(c) \/ RegisterStep(c)

Next == (\E c \in Calls : CallStep(c)) \/ (\E i \in Links : Expire(i))

Spec == Init /\ [][Next]_vars

-----------------------------------------------------------------------------
(* Properties.                                                              *)

Answered(c, kind) == call[c].kind = kind /\ call[c].ok

\* Neither call had been answered when the other began.
Overlap(c, d) == c # d /\ c \notin call[d].before /\ d \notin call[c].before

Together(kind, c, d) == Answered(c, kind) /\ Answered(d, kind) /\ Overlap(c, d)

\* Whoever is invited again holds one live link: two links to one company for
\* one address are live only if the two invitations were being made at the
\* same time, when neither transaction sees the row of the other
\* (InvitationsService.create).
OneLiveLink ==
  \A i \in Calls, j \in Links :
     /\ i # j
     /\ Open(i) /\ Open(j)
     /\ invites[i].company = invites[j].company
     /\ invites[i].person = invites[j].person
     => j \in Calls /\ Together("invite", i, j)

\* However many links an address was sent, and however the acceptances of a
\* forwarded link race, one acceptance succeeds and the others leave no trace
\* (AuthService.acceptInvitation).
OneAcceptance ==
  \A i, j \in Links :
     /\ i # j
     /\ invites[i].accepted /\ invites[j].accepted
     => <<invites[i].company, invites[i].person>> # <<invites[j].company, invites[j].person>>

\* A link that was withdrawn or superseded while its acceptance was under way
\* is refused: what is revoked never becomes accepted.
RevokedIsFinal ==
  [][\A i \in Links : invites[i].revoked /\ ~invites[i].accepted => ~invites'[i].accepted]_vars

\* A company is left without an Owner only by two changes of roles that were
\* under way together, each taking the role from one of its holders
\* (UsersService.assertOwnerSurvives counts outside the transaction).
OwnerSurvives ==
  \A co \in Companies :
     (\E p \in People : Exists(co, p)) =>
        \/ Owners(co) # {}
        \/ \E c, d \in Calls : /\ Together("setRoles", c, d)
                               /\ call[c].company = co /\ call[d].company = co
                               /\ Owner \notin call[c].roles \cup call[d].roles

\* users.controller.ts says of two changes of one member's roles that they
\* "cannot interleave into a combination neither of them chose".  What is left of
\* it: the roles of a member are those of one change, of the invitation or of
\* the beginning, and a mixture takes two changes under way together.
MixedOnlyTogether ==
  \A a \in Accounts : \A r, q \in holds[a] :
     \/ r[2] = q[2]
     \/ r[2] \in Calls /\ q[2] \in Calls /\ Together("setRoles", r[2], q[2])

=============================================================================
