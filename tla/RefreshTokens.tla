--------------------------- MODULE RefreshTokens ---------------------------
(***************************************************************************)
(* The refresh tokens and reset grants of one user: logging in, refreshing,*)
(* logging out, asking for a reset link and using it.                      *)
(*                                                                         *)
(* A call is one request, and every await that reaches PostgreSQL is a     *)
(* step of its own.  Transactions run at READ COMMITTED: an update of many *)
(* rows sees the rows that were committed when its statement began, waits  *)
(* for the transactions that hold a lock on one of them, and then looks at *)
(* its condition again.  Rows inserted meanwhile are not among them.       *)
(*                                                                         *)
(* A call mints at most one token or grant, which is named by the call; a  *)
(* family is named by the login that began it.  Users share no rows.       *)
(***************************************************************************)
EXTENDS Naturals

CONSTANTS
  Calls,         \* the requests made over the behaviour
  CallKinds,     \* the operations they may perform
  MaxFailures,   \* bound on requests cut off by an error or a crash
  None           \* no token, no call

AllCallKinds == {"login", "refresh", "logout", "forgot", "reset"}

ASSUME CallKindsAssumption == CallKinds \subseteq AllCallKinds
ASSUME MaxFailuresAssumption == MaxFailures \in Nat
ASSUME NoneAssumption == None \notin Calls

VARIABLES
  tokens,     \* the refresh_tokens rows
  grants,     \* the password_reset_tokens rows
  password,   \* the call that set the password last
  lock,       \* token row -> the open transaction that has updated it
  call,       \* where each request is, and what it has read
  failures    \* requests cut off so far

vars == <<tokens, grants, password, lock, call, failures>>

-----------------------------------------------------------------------------
(* State.                                                                   *)

\* fresh: revokedAt lies within REUSE_LEEWAY_MS.
Token == [state : {"none", "live", "revoked"}, family : Calls \cup {None},
          fresh : BOOLEAN]

NoToken == [state |-> "none", family |-> None, fresh |-> FALSE]

Grant == {"none", "open", "used"}

CallSteps == {"idle", "issue", "rotate", "commit", "reuse", "sweep", "logout",
              "supersede", "grant", "reset", "snapshot", "revokeall",
              "commitreset", "done"}

\* presented is the token or grant the client sent, rows what the statement
\* under way has seen.
Call == [kind : AllCallKinds \cup {"none"}, at : CallSteps,
         presented : Calls \cup {None}, rows : SUBSET Calls]

TypeOK ==
  /\ tokens \in [Calls -> Token]
  /\ \A t \in Calls : tokens[t].state # "none" => tokens[t].family \in Calls
  /\ grants \in [Calls -> Grant]
  /\ password \in Calls \cup {None}
  /\ lock \in [Calls -> Calls \cup {None}]
  /\ call \in [Calls -> Call]
  /\ failures \in 0..MaxFailures

Init ==
  /\ tokens = [t \in Calls |-> NoToken]
  /\ grants = [g \in Calls |-> "none"]
  /\ password = None
  /\ lock = [t \in Calls |-> None]
  /\ call = [c \in Calls |->
               [kind |-> "none", at |-> "idle", presented |-> None, rows |-> {}]]
  /\ failures = 0

-----------------------------------------------------------------------------

Exists(t) == tokens[t].state # "none"
Live(t) == tokens[t].state = "live"
Family(f) == {t \in Calls : Exists(t) /\ tokens[t].family = f}

Begin(c, kind, next, presented) ==
  /\ kind \in CallKinds
  /\ call[c].at = "idle"
  /\ call' = [call EXCEPT ![c] = [kind |-> kind, at |-> next,
                                  presented |-> presented, rows |-> {}]]

Goto(c, next) == call' = [call EXCEPT ![c].at = next]

\* An updateMany takes its snapshot: the rows its condition holds for now.
See(c, from, next, rows) ==
  /\ call[c].at = from
  /\ call' = [call EXCEPT ![c].at = next, ![c].rows = rows]
  /\ UNCHANGED <<tokens, grants, password, lock, failures>>

Revoked(t) == [tokens[t] EXCEPT !.state = "revoked", !.fresh = TRUE]

\* The rows of a snapshot, once the transactions holding them are over, that
\* still meet revokedAt IS NULL.
Free(c) == \A t \in call[c].rows : lock[t] = None
StillLive(c) == {t \in call[c].rows : Live(t)}

AfterRevoking(rows) ==
  [t \in Calls |-> IF t \in rows THEN Revoked(t) ELSE tokens[t]]

-----------------------------------------------------------------------------
(* login: the password is compared, then the session is issued.             *)

BeginLogin(c) ==
  /\ Begin(c, "login", "issue", None)
  /\ UNCHANGED <<tokens, grants, password, lock, failures>>

\* issueRefreshToken without a familyId
IssueSession(c) ==
  /\ call[c].at = "issue"
  /\ tokens' = [tokens EXCEPT ![c] = [state |-> "live", family |-> c, fresh |-> FALSE]]
  /\ Goto(c, "done")
  /\ UNCHANGED <<grants, password, lock, failures>>

-----------------------------------------------------------------------------
(* refresh: rotate the presented token.                                     *)

\* Mutant: a spent token counts as replay at once.
NoLeeway(t) == tokens[t].state = "revoked"

\* Date.now() - revokedAt > REUSE_LEEWAY_MS
Replayed(t) == tokens[t].state = "revoked" /\ ~tokens[t].fresh

\* A token inside the leeway is refused, which changes nothing.
BeginRefresh(c) ==
  /\ \E t \in Calls :
        \/ Live(t) /\ Begin(c, "refresh", "rotate", t)
        \/ Replayed(t) /\ Begin(c, "refresh", "reuse", t)
  /\ UNCHANGED <<tokens, grants, password, lock, failures>>

\* Mutant: the revocation lost its revokedAt: null.
AnyToken(t) == Exists(t)

\* The condition of the updateMany that spends the presented token.
Spendable(t) == Live(t)

Spend(c) ==
  LET t == call[c].presented
  IN  /\ call[c].at = "rotate"
      /\ lock[t] = None
      /\ Spendable(t)
      /\ lock' = [lock EXCEPT ![t] = c]
      /\ Goto(c, "commit")
      /\ UNCHANGED <<tokens, grants, password, failures>>

\* Mutant: the loser tries again instead of being turned away.
TryAgain == "rotate"

AfterRefusal == "done"

\* count === 0
SpendRefused(c) ==
  LET t == call[c].presented
  IN  /\ call[c].at = "rotate"
      /\ lock[t] = None
      /\ ~Spendable(t)
      /\ Goto(c, AfterRefusal)
      /\ UNCHANGED <<tokens, grants, password, lock, failures>>

\* issueRefreshToken with the familyId of the presented token
Successor(c) ==
  [state |-> "live", family |-> tokens[call[c].presented].family, fresh |-> FALSE]

CommitRotation(c) ==
  LET t == call[c].presented
  IN  /\ call[c].at = "commit"
      /\ tokens' = [tokens EXCEPT ![t] = Revoked(t), ![c] = Successor(c)]
      /\ lock' = [lock EXCEPT ![t] = None]
      /\ Goto(c, "done")
      /\ UNCHANGED <<grants, password, failures>>

\* handleReuse: the lineage is revoked, in one statement of its own.
SeeFamily(c) ==
  See(c, "reuse", "sweep",
      {t \in Family(tokens[call[c].presented].family) : Live(t)})

RevokeFamily(c) ==
  /\ call[c].at = "sweep"
  /\ Free(c)
  /\ tokens' = AfterRevoking(StillLive(c))
  /\ Goto(c, "done")
  /\ UNCHANGED <<grants, password, lock, failures>>

-----------------------------------------------------------------------------
(* logout: the row is read, and then revoked by id alone.                   *)

BeginLogout(c) ==
  /\ \E t \in Calls : Live(t) /\ Begin(c, "logout", "logout", t)
  /\ UNCHANGED <<tokens, grants, password, lock, failures>>

\* Mutant: a logout clears the cookies and leaves the token alone.
CookiesOnly(c) ==
  /\ call[c].at = "logout"
  /\ Goto(c, "done")
  /\ UNCHANGED <<tokens, grants, password, lock, failures>>

RevokePresented(c) ==
  LET t == call[c].presented
  IN  /\ call[c].at = "logout"
      /\ lock[t] = None
      /\ tokens' = [tokens EXCEPT ![t] = Revoked(t)]
      /\ Goto(c, "done")
      /\ UNCHANGED <<grants, password, lock, failures>>

-----------------------------------------------------------------------------
(* forgotPassword and resetPassword.                                        *)

\* The calls inside the reset transaction, which the user row lets through
\* one at a time.
Resetting == {c \in Calls : call[c].at \in {"snapshot", "revokeall", "commitreset"}}

BeginForgot(c) ==
  /\ Begin(c, "forgot", "supersede", None)
  /\ UNCHANGED <<tokens, grants, password, lock, failures>>

\* Outstanding grants are retired; one that a reset is using is waited for.
Supersede(c) ==
  /\ call[c].at = "supersede"
  /\ \A d \in Resetting : grants[call[d].presented] # "open"
  /\ grants' = [g \in Calls |-> IF grants[g] = "open" THEN "used" ELSE grants[g]]
  /\ Goto(c, "grant")
  /\ UNCHANGED <<tokens, password, lock, failures>>

IssueGrant(c) ==
  /\ call[c].at = "grant"
  /\ grants' = [grants EXCEPT ![c] = "open"]
  /\ Goto(c, "done")
  /\ UNCHANGED <<tokens, password, lock, failures>>

\* The grant is checked before the transaction that uses it.
BeginReset(c) ==
  /\ \E g \in Calls : grants[g] = "open" /\ Begin(c, "reset", "reset", g)
  /\ UNCHANGED <<tokens, grants, password, lock, failures>>

EnterReset(c) ==
  /\ call[c].at = "reset"
  /\ Resetting = {}
  /\ Goto(c, "snapshot")
  /\ UNCHANGED <<tokens, grants, password, lock, failures>>

\* revokeAllForUser inside the transaction: the statement, and its locks.
SeeSessions(c) == See(c, "snapshot", "revokeall", {t \in Calls : Live(t)})

RevokeAll(c) ==
  /\ call[c].at = "revokeall"
  /\ Free(c)
  /\ lock' = [t \in Calls |-> IF t \in StillLive(c) THEN c ELSE lock[t]]
  /\ Goto(c, "commitreset")
  /\ UNCHANGED <<tokens, grants, password, failures>>

HeldBy(c) == {t \in Calls : lock[t] = c}

Released(c) == [t \in Calls |-> IF lock[t] = c THEN None ELSE lock[t]]

CommitReset(c) ==
  /\ call[c].at = "commitreset"
  /\ grants' = [grants EXCEPT ![call[c].presented] = "used"]
  /\ password' = c
  /\ tokens' = AfterRevoking(HeldBy(c))
  /\ lock' = Released(c)
  /\ Goto(c, "done")
  /\ UNCHANGED failures

-----------------------------------------------------------------------------

Working(c) == call[c].at \notin {"idle", "done"}

\* An error or a crash: an open transaction is rolled back.
CutOff(c) ==
  /\ Working(c)
  /\ failures < MaxFailures
  /\ failures' = failures + 1
  /\ lock' = Released(c)
  /\ Goto(c, "done")
  /\ UNCHANGED <<tokens, grants, password>>

\* Ten seconds after it was revoked, a token is no longer forgiven.
LeewayPasses(t) ==
  /\ tokens[t].state = "revoked"
  /\ tokens[t].fresh
  /\ tokens' = [tokens EXCEPT ![t].fresh = FALSE]
  /\ UNCHANGED <<grants, password, lock, call, failures>>

CallBegins(c) ==
  BeginLogin(c) \/ BeginRefresh(c) \/ BeginLogout(c) \/ BeginForgot(c) \/ BeginReset(c)

CallContinues(c) ==
  \/ IssueSession(c)
  \/ Spend(c) \/ SpendRefused(c) \/ CommitRotation(c)
  \/ SeeFamily(c) \/ RevokeFamily(c)
  \/ RevokePresented(c)
  \/ Supersede(c) \/ IssueGrant(c)
  \/ EnterReset(c) \/ SeeSessions(c) \/ RevokeAll(c) \/ CommitReset(c)

Next ==
  \/ \E c \in Calls : CallBegins(c) \/ CallContinues(c) \/ CutOff(c)
  \/ \E t \in Calls : LeewayPasses(t)

Spec == Init /\ [][Next]_vars

\* A call that has begun goes on, and a lock is released when its holder ends.
FairSpec == Spec /\ \A c \in Calls : WF_vars(CallContinues(c))

-----------------------------------------------------------------------------
(* Properties.                                                              *)

\* "Two requests racing with the same token cannot both mint a successor"
\* (the comment in rotate), whatever else revokes tokens meanwhile.
OneSuccessor ==
  \A c, d \in Calls :
    /\ call[c].kind = "refresh" /\ Exists(c)
    /\ call[d].kind = "refresh" /\ Exists(d)
    /\ call[c].presented = call[d].presented
    => c = d

\* "Inside the leeway this is a race, not theft" (rotate): as long as nobody
\* logs out or resets and no token is older than the leeway, restoring any
\* number of tabs never ends a session, errors and crashes included.
TabsNeverSignOut ==
  /\ \A c \in Calls : call[c].kind \in {"none", "login", "refresh"}
  /\ \A t \in Calls : tokens[t].state = "revoked" => tokens[t].fresh
  => \A f \in Calls : Family(f) # {} => \E t \in Family(f) : Live(t)

\* Every call is answered: waiting for a row lock ends, and losing the race
\* for a token is an answer.  There are finitely many calls, so from some
\* point on none is under way.
CallsAreAnswered == <>[](\A c \in Calls : ~Working(c))

\* The refinement: a family is a session, its live token the one that counts.
Issued == {t \in Calls : Exists(t)}

ValidToken(f) ==
  IF \E t \in Family(f) : Live(t) THEN CHOOSE t \in Family(f) : Live(t) ELSE None

S == INSTANCE Session
       WITH Tokens <- Calls, issued <- Issued,
            valid <- [f \in Calls |-> ValidToken(f)]

\* Calls racing for rows and locks implement sessions with one valid token
\* each, which never come back once they have ended.
ImplementsSession == S!SessionSpec

\* "Every existing session dies with the old password" (resetPassword): no
\* session that the reset's own revocation saw is alive once it has committed.
ResetEndsSessions ==
  [][\A c \in Calls : CommitReset(c) =>
        \A t \in call[c].rows, u \in Calls :
           tokens[u].family = tokens[t].family => tokens'[u].state # "live"]_vars

=============================================================================
