------------------------------ MODULE Session ------------------------------
(***************************************************************************)
(* What a signed-in session promises, with no request, row or transaction  *)
(* in it: a session is kept alive by one refresh token at a time, each     *)
(* refresh hands it on to a token never seen before, and a session that    *)
(* has ended does not come back.                                           *)
(***************************************************************************)
CONSTANTS Tokens, None

VARIABLES
  issued,      \* the tokens handed out so far
  valid        \* session (named by its first token) -> its token, None once ended

SessionInit ==
  /\ issued = {}
  /\ valid = [s \in Tokens |-> None]

SignIn ==
  \E s \in Tokens \ issued :
     /\ issued' = issued \cup {s}
     /\ valid' = [valid EXCEPT ![s] = s]

Refresh ==
  \E s \in Tokens, t \in Tokens \ issued :
     /\ valid[s] # None
     /\ issued' = issued \cup {t}
     /\ valid' = [valid EXCEPT ![s] = t]

\* Logout, a password reset, or a spent token that came back too late.
End ==
  \E gone \in SUBSET Tokens :
     /\ UNCHANGED issued
     /\ valid' = [s \in Tokens |-> IF s \in gone THEN None ELSE valid[s]]

SessionNext == End \/ SignIn \/ Refresh

SessionSpec == SessionInit /\ [][SessionNext]_<<issued, valid>>

=============================================================================
