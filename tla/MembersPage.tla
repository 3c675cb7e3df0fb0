---------------------------- MODULE MembersPage ----------------------------
(***************************************************************************)
(* The members screen of one person: who is in the company with which      *)
(* roles, and which invitations there are, as the screen read them and as  *)
(* it changes them, over what Membership does on the server - the calls of *)
(* this screen, those of colleagues, and invitations being accepted.       *)
(***************************************************************************)
EXTENDS Membership

CONSTANT
  Rounds   \* what is done on the screen, and by others meanwhile: a behaviour
           \* does one of these

ASSUME RoundsAssumption ==
  \A r \in Rounds : r.own \subseteq {"setRoles", "invite", "revoke"} /\ r.others \subseteq AllCallKinds

VARIABLES
  round,   \* what is done in this behaviour
  viewer,  \* whose screen it is
  staff,   \* what the screen shows and remembers
  desk     \* the calls made on the screen, and their answers

whose == <<round, viewer>>
membersVars == <<vars, whose, staff, desk>>

-----------------------------------------------------------------------------
(* State.                                                                   *)

LinkStates == {"absent", "PENDING", "ACCEPTED", "REVOKED", "EXPIRED"}

\* may is what the profile allows, saving the member whose select is disabled.
Staff == [at : {"asking", "people", "ready"}, got : SUBSET {"profile", "people"},
          may : SUBSET Roles, read : [People -> SUBSET Roles],
          members : [People -> SUBSET Roles], links : [Links -> LinkStates],
          listed : BOOLEAN, saving : People \cup {None}]

\* What was asked, and the roles in the answer, when it was granted; among is a
\* ghost: the calls of this screen that were unanswered when this one was made.
Errand == [at : {"none", "sent", "granted", "shown"}, kind : AllCallKinds \cup {"none"},
           person : People \cup {None}, invite : Links \cup {None}, roles : SUBSET Roles,
           answer : SUBSET Roles, among : SUBSET Calls]

NoErrand == [at |-> "none", kind |-> "none", person |-> None, invite |-> None, roles |-> {},
             answer |-> {}, among |-> {}]

StaffTypeOK ==
  /\ round \in Rounds
  /\ viewer \in People
  /\ staff \in Staff
  /\ desk \in [Calls -> Errand]

BlankStaff == [at |-> "asking", got |-> {}, may |-> {}, read |-> [p \in People |-> {}],
               members |-> [p \in People |-> {}], links |-> [i \in Links |-> "absent"],
               listed |-> FALSE, saving |-> None]

StaffInit ==
  /\ Init
  /\ round \in Rounds
  /\ viewer \in People
  /\ Exists(Home, viewer)
  /\ staff = BlankStaff
  /\ desk = [c \in Calls |-> NoErrand]

-----------------------------------------------------------------------------
(* The screen is read in two halves: the profile and the members, and then  *)
(* what the profile allows.                                                 *)

ReadProfile ==
  /\ staff.at = "asking"
  /\ "profile" \notin staff.got
  /\ staff' = [staff EXCEPT !.got = @ \cup {"profile"}, !.may = RolesOf(Home, viewer)]
  /\ UNCHANGED <<vars, desk>>

ListUsers ==
  /\ staff.at = "asking"
  /\ "people" \notin staff.got
  /\ staff' = [staff EXCEPT !.got = @ \cup {"people"}, !.read = [p \in People |-> RolesOf(Home, p)]]
  /\ UNCHANGED <<vars, desk>>

ShowPeople ==
  /\ staff.got = {"profile", "people"}
  /\ staff' = [staff EXCEPT !.at = "people", !.got = {}, !.members = staff.read]
  /\ UNCHANGED <<vars, desk>>

MayInvite == staff.may \cap Inviters # {}
MayManage == Owner \in staff.may

\* toView
LinkState(i) == CASE ~invites[i].made \/ invites[i].company # Home -> "absent"
                  [] invites[i].accepted -> "ACCEPTED"
                  [] invites[i].revoked -> "REVOKED"
                  [] invites[i].expired -> "EXPIRED"
                  [] OTHER -> "PENDING"

\* The lists may be refused, and the screen does without.
ShowLists ==
  /\ staff.at = "people"
  /\ \/ /\ MayInvite
        /\ RolesOf(Home, viewer) \cap Inviters # {}
        /\ staff' = [staff EXCEPT !.at = "ready", !.listed = TRUE,
                                  !.links = [i \in Links |-> LinkState(i)]]
     \/ staff' = [staff EXCEPT !.at = "ready"]
  /\ UNCHANGED <<vars, desk>>

-----------------------------------------------------------------------------
(* What is done on the screen.                                              *)

ByViewer(kind, step) == [NoCall EXCEPT !.kind = kind, !.at = step, !.actor = viewer]

StillOpen == {c \in Calls : desk[c].at \in {"sent", "granted"}}

Run(c, errand) ==
  /\ staff.at = "ready"
  /\ errand.kind \in round.own
  /\ desk[c].at = "none"
  /\ desk' = [desk EXCEPT ![c] = [errand EXCEPT !.at = "sent", !.among = StillOpen]]

\* changeRole: only the select of the member last chosen is disabled.
ChangeRole(c) ==
  \E p \in People, r \in Roles :
    /\ MayManage
    /\ staff.members[p] # {}
    /\ staff.saving # p
    /\ Run(c, [NoErrand EXCEPT !.kind = "setRoles", !.person = p, !.roles = {r}])
    /\ Begin(c, [ByViewer("setRoles", "guard") EXCEPT !.person = p, !.roles = {r}])
    /\ staff' = [staff EXCEPT !.saving = p]

\* InviteDialog.submit
SubmitInvite(c) ==
  \E p \in People, r \in Roles :
    /\ MayInvite
    /\ Run(c, [NoErrand EXCEPT !.kind = "invite", !.person = p, !.roles = {r}])
    /\ Begin(c, [ByViewer("invite", "guard") EXCEPT !.person = p, !.roles = {r}])
    /\ UNCHANGED staff

ConfirmRevoke(c) ==
  \E i \in Links :
    /\ MayInvite
    /\ staff.links[i] = "PENDING"
    /\ Run(c, [NoErrand EXCEPT !.kind = "revoke", !.invite = i])
    /\ Begin(c, [ByViewer("revoke", "guard") EXCEPT !.invite = i])
    /\ UNCHANGED staff

OnScreen(c) == desk[c].at # "none"

Doing(c) == ChangeRole(c) \/ SubmitInvite(c) \/ ConfirmRevoke(c)

\* What the transaction reads last.
Granted(c) ==
  IF desk[c].kind = "setRoles" THEN {row[1] : row \in holds'[<<Home, desk[c].person>>]} ELSE {}

ServerStep(c) ==
  /\ CallStep(c)
  /\ call[c].at = "idle" => call'[c].kind \in round.others
  /\ desk' = IF OnScreen(c) /\ call'[c].ok
             THEN [desk EXCEPT ![c].at = "granted", ![c].answer = Granted(c)] ELSE desk
  /\ UNCHANGED staff

-----------------------------------------------------------------------------
(* Answers.                                                                 *)

\* Mutant: every invitation of the address is shown withdrawn.
SameAddress(c) == {i \in Links : invites[i].person = invites[desk[c].invite].person}

SameInvite(c) == {desk[c].invite}

Shown(c) ==
  CASE desk[c].kind = "setRoles" -> [staff EXCEPT !.members[desk[c].person] = desk[c].answer]
    [] desk[c].kind = "invite" -> [staff EXCEPT !.links[c] = "PENDING"]
    [] desk[c].kind = "revoke" ->
         [staff EXCEPT !.links = [i \in Links |-> IF i \in SameInvite(c) THEN "REVOKED"
                                                  ELSE staff.links[i]]]

\* The end of any change of a role ends the saving of all.
Rested(c, page) == IF desk[c].kind = "setRoles" THEN [page EXCEPT !.saving = None] ELSE page

ShowAnswer(c) ==
  /\ desk[c].at \in {"sent", "granted"}
  /\ call[c].at = "done"
  /\ desk' = [desk EXCEPT ![c].at = "shown"]
  /\ staff' = Rested(c, IF desk[c].at = "granted" THEN Shown(c) ELSE staff)
  /\ UNCHANGED vars

StaffStep ==
  \/ ReadProfile \/ ListUsers \/ ShowPeople \/ ShowLists
  \/ \E c \in Calls : Doing(c) \/ ServerStep(c) \/ ShowAnswer(c)

StaffNext == StaffStep /\ UNCHANGED whose

StaffSpec == StaffInit /\ [][StaffNext]_membersVars

-----------------------------------------------------------------------------
(* Properties.                                                              *)

AllAnswered == \A c \in Calls : call[c].at \in {"idle", "done"} /\ desk[c].at \in {"none", "shown"}

ByOthers(kind) == {c \in Calls : call[c].kind = kind /\ ~OnScreen(c)}

\* The same member's role was chosen again before the first answer.
Entangled(p) ==
  \E c, d \in Calls : /\ desk[c].kind = "setRoles"
                      /\ desk[d].kind = "setRoles"
                      /\ desk[c].person = p
                      /\ desk[d].person = p
                      /\ c \in desk[d].among

\* When everything is answered, the screen shows the roles that each member has,
\* and no invitation is open that it does not show as pending.  It is not told of
\* what others do; and it shows the older of two answers last when the role of
\* one member was chosen twice, which the select is there to prevent and does not
\* once another member's was chosen in between (MembersView.changeRole,
\* confirmRevoke, InviteDialog).
StaffCurrent ==
  staff.at = "ready" /\ AllAnswered =>
    /\ \A p \in People : \/ staff.members[p] = RolesOf(Home, p)
                         \/ Entangled(p)
                         \/ \E c \in ByOthers("setRoles") : call[c].person = p
                         \/ ByOthers("accept") # {}
    /\ staff.listed => \A i \in Links : LinkState(i) = "PENDING" =>
                         staff.links[i] = "PENDING" \/ i \in ByOthers("invite")

=============================================================================
