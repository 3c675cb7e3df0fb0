---------------------------- MODULE MCCompany ----------------------------
(* Membership, and the members screen over it, on small instances: a        *)
(* behaviour is one of the server alone or of one screen as well.           *)
EXTENDS MembersPage, TLC

CONSTANTS c1, c2, c3, ann, bob, link1, link2

\* With no screen open, staff and desk keep still.
NoScreen == [own |-> {}, others |-> AllCallKinds]

MCRounds == {[own |-> {"setRoles"}, others |-> {}],
             [own |-> {"invite", "revoke"}, others |-> {}],
             [own |-> {"revoke"}, others |-> {"accept"}]}

ServerAlone == /\ Init
               /\ round = NoScreen
               /\ viewer = None
               /\ staff = BlankStaff
               /\ desk = [c \in Calls |-> NoErrand]

CompanyInit == ServerAlone \/ StaffInit

CompanyNext == \/ round = NoScreen /\ Next /\ UNCHANGED <<whose, staff, desk>>
               \/ round # NoScreen /\ StaffNext

CompanySpec == CompanyInit /\ [][CompanyNext]_membersVars

\* Calls name what they create; people differ only by the roles they hold.
Symmetric == Permutations(Calls) \cup Permutations(People)
             \cup Permutations(Sent)

=============================================================================
