------------------------ MODULE RefreshTokensProofs ------------------------
(***************************************************************************)
(* Theorems about RefreshTokens, for any set of calls, any selection of    *)
(* operations and any bound on failures.                                   *)
(***************************************************************************)
EXTENDS Browser, TLAPS

-----------------------------------------------------------------------------
(* The inductive invariant.                                                 *)

\* A call that will look at the row of its token has one, and only refreshes
\* spend, only logins begin a family.
PresentedInv ==
  \A c \in Calls :
    /\ call[c].at \in {"rotate", "commit", "reuse", "sweep", "logout"} =>
         call[c].presented \in Calls /\ Exists(call[c].presented)
    /\ call[c].at \in {"rotate", "commit"} => call[c].kind = "refresh"
    /\ call[c].at = "issue" => call[c].kind = "login"

\* A locked row is live, and locked by a rotation of it or by a reset.
LockInv ==
  \A t \in Calls : lock[t] # None =>
    /\ Live(t)
    /\ \/ call[lock[t]].at = "commit" /\ call[lock[t]].presented = t
       \/ call[lock[t]].at = "commitreset"

\* A rotation about to commit holds the row of the token it spends.
CommitInv ==
  \A c \in Calls : call[c].at = "commit" => lock[call[c].presented] = c

\* A call mints its token with its last step, and never loses it.
BirthInv == \A c \in Calls : Exists(c) => call[c].at = "done"

\* The login that began a family has minted its token.
FamilyInv == \A t \in Calls : Exists(t) => Exists(tokens[t].family)

\* What a successor was exchanged for is spent.
SpentInv ==
  \A c \in Calls :
    call[c].kind = "refresh" /\ Exists(c) =>
      /\ call[c].presented \in Calls
      /\ tokens[call[c].presented].state = "revoked"

\* A family has at most one live token.
OneLive ==
  \A t, u \in Calls :
    Live(t) /\ Live(u) /\ tokens[t].family = tokens[u].family => t = u

RowInv == PresentedInv /\ LockInv /\ CommitInv /\ BirthInv
LineageInv == FamilyInv /\ SpentInv /\ OneSuccessor /\ OneLive
IInv == TypeOK /\ RowInv /\ LineageInv

-----------------------------------------------------------------------------
(* Types.                                                                   *)

LEMMA RevokedType ==
  ASSUME TypeOK, NEW t \in Calls, Exists(t)
  PROVE  /\ Revoked(t) \in Token
         /\ Revoked(t).state = "revoked"
         /\ Revoked(t).family = tokens[t].family
         /\ Revoked(t).family \in Calls
BY DEF TypeOK, Token, Revoked, Exists

\* Revoking some rows that exist keeps every row's type.
LEMMA AfterRevokingType ==
  ASSUME TypeOK, NEW rows, \A t \in rows : t \in Calls /\ Exists(t),
         tokens' = AfterRevoking(rows)
  PROVE  /\ tokens' \in [Calls -> Token]
         /\ \A t \in Calls : tokens'[t].state # "none" => tokens'[t].family \in Calls
BY RevokedType DEF AfterRevoking, TypeOK

\* Where the token of one call is replaced by one of the right type.
LEMMA TokenPutType ==
  ASSUME TypeOK, NEW t \in Calls, NEW v \in Token, v.family \in Calls,
         tokens' = [tokens EXCEPT ![t] = v]
  PROVE  /\ tokens' \in [Calls -> Token]
         /\ \A u \in Calls : tokens'[u].state # "none" => tokens'[u].family \in Calls
BY DEF TypeOK

\* A call moves on without a new kind or token.
LEMMA GotoType ==
  ASSUME TypeOK, NEW c \in Calls, NEW next \in CallSteps, Goto(c, next)
  PROVE  /\ call' \in [Calls -> Call]
         /\ call'[c] = [call[c] EXCEPT !.at = next]
         /\ \A d \in Calls : d # c => call'[d] = call[d]
BY DEF TypeOK, Goto, Call

LEMMA SeeType ==
  ASSUME TypeOK, NEW c \in Calls, NEW from, NEW next \in CallSteps,
         NEW rows \in SUBSET Calls, See(c, from, next, rows)
  PROVE  /\ call' \in [Calls -> Call]
         /\ call'[c].at = next
         /\ call'[c].kind = call[c].kind
         /\ call'[c].presented = call[c].presented
         /\ \A d \in Calls : d # c => call'[d] = call[d]
<1> DEFINE moved == [call[c] EXCEPT !.at = next]
           seen  == [moved EXCEPT !.rows = rows]
<1>1. moved \in Call /\ moved.at = next /\ moved.kind = call[c].kind
      /\ moved.presented = call[c].presented
  BY DEF TypeOK, Call
<1>2. seen \in Call /\ seen.at = next /\ seen.kind = call[c].kind
      /\ seen.presented = call[c].presented
  BY <1>1 DEF Call
<1>3. call' = [call EXCEPT ![c] = seen]
  BY Zenon DEF See
<1> HIDE DEF seen
<1>4. QED BY <1>2, <1>3 DEF TypeOK

LEMMA BeginType ==
  ASSUME TypeOK, NEW c \in Calls, NEW kind \in AllCallKinds, NEW next \in CallSteps,
         NEW presented \in Calls \cup {None}, Begin(c, kind, next, presented)
  PROVE  /\ call' \in [Calls -> Call]
         /\ call[c].at = "idle"
         /\ call'[c].at = next
         /\ call'[c].kind = kind
         /\ call'[c].presented = presented
         /\ \A d \in Calls : d # c => call'[d] = call[d]
BY DEF TypeOK, Begin, Call

\* What a call that revokes or sweeps may find existing.
LEMMA StillLiveType ==
  ASSUME TypeOK, NEW c \in Calls
  PROVE  \A t \in StillLive(c) : t \in Calls /\ Exists(t) /\ Live(t)
BY DEF TypeOK, Call, StillLive, Live, Exists

LEMMA CallBeginsType ==
  ASSUME TypeOK, NEW c \in Calls, CallBegins(c) PROVE TypeOK'
<1>1. UNCHANGED <<tokens, grants, password, lock, failures>>
  BY DEF CallBegins, BeginLogin, BeginRefresh, BeginLogout, BeginForgot, BeginReset
<1>2. \E kind \in AllCallKinds, next \in CallSteps, presented \in Calls \cup {None} :
         Begin(c, kind, next, presented)
  <2>1. CASE BeginLogin(c)
    BY <2>1 DEF BeginLogin, AllCallKinds, CallSteps
  <2>2. CASE BeginRefresh(c)
    BY <2>2 DEF BeginRefresh, AllCallKinds, CallSteps
  <2>3. CASE BeginLogout(c)
    BY <2>3 DEF BeginLogout, AllCallKinds, CallSteps
  <2>4. CASE BeginForgot(c)
    BY <2>4 DEF BeginForgot, AllCallKinds, CallSteps
  <2>5. CASE BeginReset(c)
    BY <2>5 DEF BeginReset, AllCallKinds, CallSteps
  <2>6. QED BY <2>1, <2>2, <2>3, <2>4, <2>5 DEF CallBegins
<1>3. call' \in [Calls -> Call]
  BY <1>2, BeginType
<1>4. QED BY <1>1, <1>3 DEF TypeOK

LEMMA CallContinuesType ==
  ASSUME TypeOK, PresentedInv, LockInv, NEW c \in Calls, CallContinues(c)
  PROVE  TypeOK'
<1>1. CASE IssueSession(c)
  <2> DEFINE v == [state |-> "live", family |-> c, fresh |-> FALSE]
  <2>1. v \in Token /\ v.family \in Calls
    BY DEF Token
  <2>2. tokens' = [tokens EXCEPT ![c] = v] /\ Goto(c, "done")
    BY <1>1 DEF IssueSession
  <2>3. call' \in [Calls -> Call]
    BY <2>2, GotoType DEF CallSteps
  <2> HIDE DEF v
  <2>4. QED BY <1>1, <2>1, <2>2, <2>3, TokenPutType DEF IssueSession, TypeOK
<1>2. CASE Spend(c)
  <2>1. call' \in [Calls -> Call]
    BY <1>2, GotoType DEF Spend, CallSteps
  <2>2. QED BY <1>2, <2>1 DEF Spend, TypeOK
<1>3. CASE SpendRefused(c)
  <2>1. call' \in [Calls -> Call]
    BY <1>3, GotoType DEF SpendRefused, AfterRefusal, CallSteps
  <2>2. QED BY <1>3, <2>1 DEF SpendRefused, TypeOK
<1>4. CASE CommitRotation(c)
  <2> DEFINE t == call[c].presented
  <2>1. t \in Calls /\ Exists(t)
    BY <1>4 DEF CommitRotation, PresentedInv
  <2>2. Revoked(t) \in Token /\ Revoked(t).family \in Calls
    BY <2>1, RevokedType
  <2>3. Successor(c) \in Token /\ Successor(c).family \in Calls
    BY <2>1 DEF Successor, Token, TypeOK, Exists
  <2>4. call' \in [Calls -> Call]
    BY <1>4, GotoType DEF CommitRotation, CallSteps
  <2>5. tokens' = [[tokens EXCEPT ![t] = Revoked(t)] EXCEPT ![c] = Successor(c)]
    BY <1>4, Zenon DEF CommitRotation
  <2>6. /\ tokens' \in [Calls -> Token]
        /\ \A u \in Calls : tokens'[u].state # "none" => tokens'[u].family \in Calls
    BY <2>1, <2>2, <2>3, <2>5 DEF TypeOK
  <2>7. lock' \in [Calls -> Calls \cup {None}] /\ UNCHANGED <<grants, password, failures>>
    BY <1>4 DEF CommitRotation, TypeOK
  <2>8. QED BY <2>4, <2>6, <2>7 DEF TypeOK
<1>5. CASE SeeFamily(c)
  <2>1. \E rows \in SUBSET Calls : See(c, "reuse", "sweep", rows)
    BY <1>5 DEF SeeFamily, Family
  <2>2. call' \in [Calls -> Call]
    BY <2>1, SeeType DEF CallSteps
  <2>3. QED BY <1>5, <2>2 DEF SeeFamily, See, TypeOK
<1>6. CASE RevokeFamily(c)
  <2>1. call' \in [Calls -> Call]
    BY <1>6, GotoType DEF RevokeFamily, CallSteps
  <2>2. QED BY <1>6, <2>1, StillLiveType, AfterRevokingType DEF RevokeFamily, TypeOK
<1>7. CASE RevokePresented(c)
  <2> DEFINE t == call[c].presented
  <2>1. t \in Calls /\ Exists(t)
    BY <1>7 DEF RevokePresented, PresentedInv
  <2>2. Revoked(t) \in Token /\ Revoked(t).family \in Calls
    BY <2>1, RevokedType
  <2>3. call' \in [Calls -> Call]
    BY <1>7, GotoType DEF RevokePresented, CallSteps
  <2>4. QED BY <1>7, <2>1, <2>2, <2>3, TokenPutType DEF RevokePresented, TypeOK
<1>8. CASE Supersede(c)
  <2>1. call' \in [Calls -> Call]
    BY <1>8, GotoType DEF Supersede, CallSteps
  <2>2. QED BY <1>8, <2>1 DEF Supersede, TypeOK, Grant
<1>9. CASE IssueGrant(c)
  <2>1. call' \in [Calls -> Call]
    BY <1>9, GotoType DEF IssueGrant, CallSteps
  <2>2. QED BY <1>9, <2>1 DEF IssueGrant, TypeOK, Grant
<1>10. CASE EnterReset(c)
  <2>1. call' \in [Calls -> Call]
    BY <1>10, GotoType DEF EnterReset, CallSteps
  <2>2. QED BY <1>10, <2>1 DEF EnterReset, TypeOK
<1>11. CASE SeeSessions(c)
  <2>1. \E rows \in SUBSET Calls : See(c, "snapshot", "revokeall", rows)
    BY <1>11 DEF SeeSessions
  <2>2. call' \in [Calls -> Call]
    BY <2>1, SeeType DEF CallSteps
  <2>3. QED BY <1>11, <2>2 DEF SeeSessions, See, TypeOK
<1>12. CASE RevokeAll(c)
  <2>1. call' \in [Calls -> Call]
    BY <1>12, GotoType DEF RevokeAll, CallSteps
  <2>2. QED BY <1>12, <2>1 DEF RevokeAll, TypeOK
<1>13. CASE CommitReset(c)
  <2>1. call' \in [Calls -> Call]
    BY <1>13, GotoType DEF CommitReset, CallSteps
  <2>2. \A t \in HeldBy(c) : t \in Calls /\ Exists(t)
    BY NoneAssumption, <1>13 DEF HeldBy, LockInv, Exists, Live
  <2>3. lock' \in [Calls -> Calls \cup {None}]
    BY <1>13 DEF CommitReset, Released, TypeOK
  <2>4. QED BY <1>13, <2>1, <2>2, <2>3, AfterRevokingType DEF CommitReset, TypeOK, Grant
<1>14. QED
  BY <1>1, <1>2, <1>3, <1>4, <1>5, <1>6, <1>7, <1>8, <1>9, <1>10, <1>11, <1>12, <1>13
  DEF CallContinues

LEMMA OtherStepsType ==
  ASSUME TypeOK, \/ \E c \in Calls : CutOff(c)
                 \/ \E t \in Calls : LeewayPasses(t)
  PROVE  TypeOK'
<1>1. ASSUME NEW c \in Calls, CutOff(c) PROVE TypeOK'
  <2>1. call' \in [Calls -> Call]
    BY <1>1, GotoType DEF CutOff, CallSteps
  <2>2. failures' \in 0..MaxFailures
    BY <1>1, MaxFailuresAssumption DEF CutOff, TypeOK
  <2>3. lock' \in [Calls -> Calls \cup {None}]
    BY <1>1 DEF CutOff, Released, TypeOK
  <2>4. QED BY <1>1, <2>1, <2>2, <2>3 DEF CutOff, TypeOK
<1>2. ASSUME NEW t \in Calls, LeewayPasses(t) PROVE TypeOK'
  <2> DEFINE v == [tokens[t] EXCEPT !.fresh = FALSE]
  <2>1. v \in Token /\ v.family \in Calls
    <3>1. tokens[t] \in Token /\ tokens[t].family \in Calls
      BY <1>2 DEF LeewayPasses, TypeOK
    <3>2. QED BY <3>1 DEF Token
  <2>2. tokens' = [tokens EXCEPT ![t] = v]
    BY <1>2 DEF LeewayPasses
  <2> HIDE DEF v
  <2>3. QED BY <1>2, <2>1, <2>2, TokenPutType DEF LeewayPasses, TypeOK
<1>3. QED BY <1>1, <1>2

-----------------------------------------------------------------------------
(* How a step can touch rows, locks and calls.                              *)

\* A step that writes no row and takes no lock.
LEMMA MovesKeep ==
  ASSUME TypeOK, RowInv, LineageInv, NEW c \in Calls,
         UNCHANGED <<tokens, lock>>,
         \A d \in Calls : d # c => call'[d] = call[d],
         call[c].at \notin {"commit", "commitreset", "done"},
         call'[c].at # "commit",
         call'[c].at \in {"rotate", "reuse", "sweep", "logout"} =>
           call'[c].presented \in Calls /\ Exists(call'[c].presented),
         call'[c].at = "rotate" => call'[c].kind = "refresh",
         call'[c].at = "issue" => call'[c].kind = "login"
  PROVE  RowInv' /\ LineageInv'
<1>1. \A t \in Calls : Exists(t)' = Exists(t) /\ Live(t)' = Live(t)
  BY DEF Exists, Live
<1>2. PresentedInv'
  BY <1>1 DEF RowInv, PresentedInv
<1>3. LockInv'
  <2>1. \A t \in Calls : lock[t] # None => lock[t] \in Calls /\ lock[t] # c
    BY DEF TypeOK, RowInv, LockInv
  <2>2. QED BY <1>1, <2>1 DEF RowInv, LockInv
<1>4. CommitInv'
  BY DEF RowInv, CommitInv
<1>5. ~Exists(c)
  BY DEF RowInv, BirthInv
<1>6. BirthInv'
  BY <1>1, <1>5 DEF RowInv, BirthInv
<1>7. LineageInv'
  <2>1. FamilyInv' /\ OneLive'
    BY DEF LineageInv, FamilyInv, OneLive, Exists, Live
  <2>2. SpentInv' /\ OneSuccessor'
    BY <1>1, <1>5 DEF LineageInv, SpentInv, OneSuccessor
  <2>3. QED BY <2>1, <2>2 DEF LineageInv
<1>8. QED BY <1>2, <1>3, <1>4, <1>6, <1>7 DEF RowInv

\* A step that ends a call: it revokes some rows nobody else has locked and
\* lets go of its locks.
LEMMA EndingKeeps ==
  ASSUME TypeOK, RowInv, LineageInv, NEW c \in Calls, NEW rows \in SUBSET Calls,
         \A t \in rows : lock[t] \in {None, c},
         \A t \in Calls :
            /\ tokens'[t].family = tokens[t].family
            /\ t \in rows => tokens[t].state # "none" /\ tokens'[t].state = "revoked"
            /\ t \notin rows => tokens'[t].state = tokens[t].state
            /\ lock'[t] = IF lock[t] = c THEN None ELSE lock[t],
         call[c].at # "idle",
         \A d \in Calls : d # c => call'[d] = call[d],
         call'[c].at = "done",
         call'[c].kind = call[c].kind /\ call'[c].presented = call[c].presented
  PROVE  RowInv' /\ LineageInv'
<1>1. \A t \in Calls : Exists(t)' = Exists(t) /\ (Live(t)' => Live(t))
  BY DEF Exists, Live
<1>2. call'[c].at = "done"
  OBVIOUS
<1>3. PresentedInv'
  BY <1>1, <1>2 DEF RowInv, PresentedInv
<1>4. LockInv'
  <2> SUFFICES ASSUME NEW t \in Calls, lock'[t] # None
               PROVE  /\ Live(t)'
                      /\ \/ call'[lock'[t]].at = "commit" /\ call'[lock'[t]].presented = t
                         \/ call'[lock'[t]].at = "commitreset"
    BY DEF LockInv
  <2>1. lock[t] # c /\ lock'[t] = lock[t] /\ lock[t] \in Calls /\ t \notin rows
    BY DEF TypeOK
  <2>2. Live(t)'
    BY <2>1 DEF RowInv, LockInv, Live
  <2>3. QED BY <2>1, <2>2 DEF RowInv, LockInv
<1>5. CommitInv'
  <2> SUFFICES ASSUME NEW d \in Calls, call'[d].at = "commit"
               PROVE  lock'[call'[d].presented] = d
    BY DEF CommitInv
  <2>1. d # c /\ call'[d] = call[d]
    BY <1>2
  <2>2. call[d].presented \in Calls /\ lock[call[d].presented] = d
    BY <2>1 DEF RowInv, CommitInv, PresentedInv
  <2>3. QED BY <2>1, <2>2
<1>6. BirthInv'
  BY <1>1, <1>2 DEF RowInv, BirthInv
<1>7. FamilyInv'
  BY <1>1 DEF LineageInv, FamilyInv, TypeOK, Exists
<1>8. SpentInv' /\ OneSuccessor'
  BY <1>1, <1>2 DEF LineageInv, SpentInv, OneSuccessor
<1>9. OneLive'
  BY <1>1 DEF LineageInv, OneLive
<1>10. QED BY <1>3, <1>4, <1>5, <1>6, <1>7, <1>8, <1>9 DEF RowInv, LineageInv

\* A step that locks some live rows which nobody has locked.
LEMMA LockingKeeps ==
  ASSUME TypeOK, RowInv, LineageInv, NEW c \in Calls, NEW rows \in SUBSET Calls,
         \A t \in rows : lock[t] = None /\ Live(t),
         UNCHANGED tokens,
         \A t \in Calls : lock'[t] = IF t \in rows THEN c ELSE lock[t],
         \A d \in Calls : d # c => call'[d] = call[d],
         call[c].at \in {"rotate", "revokeall"},
         call'[c].kind = call[c].kind /\ call'[c].presented = call[c].presented,
         \/ /\ call[c].at = "rotate"
            /\ call'[c].at = "commit"
            /\ rows = {call[c].presented}
         \/ call'[c].at = "commitreset"
  PROVE  RowInv' /\ LineageInv'
<1>1. \A t \in Calls : Exists(t)' = Exists(t) /\ Live(t)' = Live(t)
  BY DEF Exists, Live
<1>2. PresentedInv'
  BY <1>1 DEF RowInv, PresentedInv
<1>3. LockInv'
  <2> SUFFICES ASSUME NEW t \in Calls, lock'[t] # None
               PROVE  /\ Live(t)
                      /\ \/ call'[lock'[t]].at = "commit" /\ call'[lock'[t]].presented = t
                         \/ call'[lock'[t]].at = "commitreset"
    BY <1>1 DEF LockInv
  <2>1. CASE t \in rows
    BY <2>1
  <2>2. CASE t \notin rows
    <3>1. lock'[t] = lock[t] /\ lock[t] \in Calls
      BY <2>2 DEF TypeOK
    <3>2. lock[t] # c
      BY <2>2, <3>1 DEF RowInv, LockInv
    <3>3. QED BY <3>1, <3>2 DEF RowInv, LockInv
  <2>3. QED BY <2>1, <2>2
<1>4. CommitInv'
  <2> SUFFICES ASSUME NEW d \in Calls, call'[d].at = "commit"
               PROVE  lock'[call'[d].presented] = d
    BY DEF CommitInv
  <2>1. CASE d = c
    BY <2>1 DEF RowInv, PresentedInv
  <2>2. CASE d # c
    <3>1. call[d].presented \in Calls /\ lock[call[d].presented] = d
      BY <2>2 DEF RowInv, CommitInv, PresentedInv
    <3>2. d # None
      BY NoneAssumption
    <3>3. QED BY <2>2, <3>1, <3>2
  <2>3. QED BY <2>1, <2>2
<1>5. ~Exists(c)
  BY DEF RowInv, BirthInv
<1>6. BirthInv'
  BY <1>1, <1>5 DEF RowInv, BirthInv
<1>7. LineageInv'
  <2>1. FamilyInv' /\ OneLive'
    BY DEF LineageInv, FamilyInv, OneLive, Exists, Live
  <2>2. SpentInv' /\ OneSuccessor'
    BY <1>1, <1>5 DEF LineageInv, SpentInv, OneSuccessor
  <2>3. QED BY <2>1, <2>2 DEF LineageInv
<1>8. QED BY <1>2, <1>3, <1>4, <1>6, <1>7 DEF RowInv

-----------------------------------------------------------------------------
(* Every step keeps the invariant.                                          *)

LEMMA CallBeginsKeeps ==
  ASSUME TypeOK, RowInv, LineageInv, NEW c \in Calls, CallBegins(c)
  PROVE  RowInv' /\ LineageInv'
<1>1. UNCHANGED <<tokens, lock>>
  BY DEF CallBegins, BeginLogin, BeginRefresh, BeginLogout, BeginForgot, BeginReset
<1>2. PICK kind \in AllCallKinds, next \in CallSteps, presented \in Calls \cup {None} :
        /\ Begin(c, kind, next, presented)
        /\ next \in {"rotate", "reuse", "logout"} => presented \in Calls /\ Exists(presented)
        /\ next = "rotate" => kind = "refresh"
        /\ next = "issue" => kind = "login"
        /\ next \notin {"commit", "sweep"}
  <2>1. CASE BeginLogin(c)
    BY <2>1 DEF BeginLogin, AllCallKinds, CallSteps
  <2>2. CASE BeginRefresh(c)
    BY <2>2 DEF BeginRefresh, AllCallKinds, CallSteps, Live, Replayed, Exists
  <2>3. CASE BeginLogout(c)
    BY <2>3 DEF BeginLogout, AllCallKinds, CallSteps, Live, Exists
  <2>4. CASE BeginForgot(c)
    BY <2>4 DEF BeginForgot, AllCallKinds, CallSteps
  <2>5. CASE BeginReset(c)
    BY <2>5 DEF BeginReset, AllCallKinds, CallSteps
  <2>6. QED BY <2>1, <2>2, <2>3, <2>4, <2>5 DEF CallBegins
<1>3. /\ call[c].at = "idle" /\ call'[c].at = next /\ call'[c].kind = kind
      /\ call'[c].presented = presented
      /\ \A d \in Calls : d # c => call'[d] = call[d]
  BY <1>2, BeginType
<1>4. QED BY <1>1, <1>2, <1>3, MovesKeep

\* Where a step of a call goes, by the fields of its record.
LEMMA GotoFields ==
  ASSUME TypeOK, NEW c \in Calls, NEW next \in CallSteps, Goto(c, next)
  PROVE  /\ call'[c].at = next
         /\ call'[c].kind = call[c].kind
         /\ call'[c].presented = call[c].presented
         /\ \A d \in Calls : d # c => call'[d] = call[d]
<1>1. call[c] \in Call
  BY DEF TypeOK
<1>2. /\ call'[c] = [call[c] EXCEPT !.at = next]
      /\ \A d \in Calls : d # c => call'[d] = call[d]
  BY GotoType
<1>3. QED BY <1>1, <1>2 DEF Call

LEMMA IssueSessionKeeps ==
  ASSUME TypeOK, RowInv, LineageInv, NEW c \in Calls, IssueSession(c)
  PROVE  RowInv' /\ LineageInv'
<1>1. /\ call[c].at = "issue" /\ call[c].kind = "login" /\ ~Exists(c)
      /\ UNCHANGED lock
  BY DEF IssueSession, RowInv, PresentedInv, BirthInv
<1>2. /\ call'[c].at = "done" /\ call'[c].kind = "login"
      /\ \A d \in Calls : d # c => call'[d] = call[d]
  BY <1>1, GotoFields DEF IssueSession, CallSteps
<1>3. /\ tokens'[c].state = "live" /\ tokens'[c].family = c
      /\ \A t \in Calls : t # c => tokens'[t] = tokens[t]
  BY DEF IssueSession, TypeOK
<1>4. /\ Exists(c)' /\ Live(c)'
      /\ \A t \in Calls : t # c => Exists(t)' = Exists(t) /\ Live(t)' = Live(t)
  BY <1>3 DEF Exists, Live
<1>5. \A t \in Calls : Exists(t) => tokens[t].family \in Calls /\ tokens[t].family # c
  BY <1>1 DEF LineageInv, FamilyInv, TypeOK, Exists
<1>6. PresentedInv'
  BY <1>2, <1>4 DEF RowInv, PresentedInv
<1>7. LockInv'
  <2>1. \A t \in Calls : lock[t] # None => lock[t] \in Calls /\ lock[t] # c /\ t # c
    BY <1>1 DEF TypeOK, RowInv, LockInv, Live, Exists
  <2>2. QED BY <1>1, <1>2, <1>4, <2>1 DEF RowInv, LockInv
<1>8. CommitInv' /\ BirthInv'
  BY <1>1, <1>2, <1>4 DEF RowInv, CommitInv, BirthInv
<1>9. FamilyInv'
  BY <1>3, <1>4, <1>5 DEF LineageInv, FamilyInv
<1>10. SpentInv'
  <2> SUFFICES ASSUME NEW d \in Calls, call'[d].kind = "refresh", Exists(d)'
               PROVE  /\ call'[d].presented \in Calls
                      /\ tokens'[call'[d].presented].state = "revoked"
    BY DEF SpentInv
  <2>1. d # c /\ call'[d] = call[d] /\ Exists(d)
    BY <1>2, <1>4
  <2>2. call[d].presented \in Calls /\ tokens[call[d].presented].state = "revoked"
    BY <2>1 DEF LineageInv, SpentInv
  <2>3. call[d].presented # c
    BY <2>2, <1>1 DEF Exists
  <2>4. QED BY <1>3, <2>1, <2>2, <2>3
<1>11. OneLive'
  <2>1. \A t \in Calls : Live(t) => Exists(t)
    BY DEF Live, Exists
  <2>2. QED BY <1>3, <1>4, <1>5, <2>1 DEF LineageInv, OneLive
<1>12. OneSuccessor'
  BY <1>2, <1>4 DEF LineageInv, OneSuccessor
<1>13. QED BY <1>6, <1>7, <1>8, <1>9, <1>10, <1>11, <1>12 DEF RowInv, LineageInv

\* The facts of a rotation's commit: the spent token is live until now.
LEMMA RotationFacts ==
  ASSUME TypeOK, RowInv, LineageInv, NEW c \in Calls, CommitRotation(c)
  PROVE  /\ call[c].at = "commit" /\ call[c].kind = "refresh" /\ ~Exists(c)
         /\ call[c].presented \in Calls /\ call[c].presented # c
         /\ Live(call[c].presented) /\ lock[call[c].presented] = c
         /\ tokens[call[c].presented].family \in Calls
         /\ tokens'[c].state = "live"
         /\ tokens'[c].family = tokens[call[c].presented].family
         /\ tokens'[call[c].presented].state = "revoked"
         /\ tokens'[call[c].presented].family = tokens[call[c].presented].family
         /\ \A t \in Calls : t \notin {c, call[c].presented} => tokens'[t] = tokens[t]
<1> DEFINE p == call[c].presented
<1>1. call[c].at = "commit" /\ call[c].kind = "refresh" /\ p \in Calls /\ Exists(p)
  BY DEF CommitRotation, RowInv, PresentedInv
<1>2. lock[p] = c
  BY <1>1 DEF RowInv, CommitInv
<1>3. Live(p)
  BY <1>1, <1>2, NoneAssumption DEF RowInv, LockInv
<1>4. ~Exists(c) /\ p # c
  BY <1>1 DEF RowInv, BirthInv
<1>5. /\ Revoked(p).state = "revoked" /\ Revoked(p).family = tokens[p].family
      /\ tokens[p].family \in Calls
  BY <1>1, RevokedType
<1>6. Successor(c).state = "live" /\ Successor(c).family = tokens[p].family
  BY DEF Successor
<1>7. tokens' = [[tokens EXCEPT ![p] = Revoked(p)] EXCEPT ![c] = Successor(c)]
  BY Zenon DEF CommitRotation
<1>8. /\ tokens'[c] = Successor(c) /\ tokens'[p] = Revoked(p)
      /\ \A t \in Calls : t \notin {c, p} => tokens'[t] = tokens[t]
  BY <1>1, <1>4, <1>7 DEF TypeOK
<1>9. QED BY <1>1, <1>2, <1>3, <1>4, <1>5, <1>6, <1>8

LEMMA CommitRotationKeeps ==
  ASSUME TypeOK, RowInv, LineageInv, NEW c \in Calls, CommitRotation(c)
  PROVE  RowInv' /\ LineageInv'
<1> PICK p \in Calls : p = call[c].presented
  BY RotationFacts
<1>1. /\ call[c].at = "commit" /\ call[c].kind = "refresh" /\ ~Exists(c)
      /\ p # c /\ Live(p) /\ lock[p] = c
      /\ tokens[p].family \in Calls
      /\ tokens'[c].state = "live" /\ tokens'[c].family = tokens[p].family
      /\ tokens'[p].state = "revoked" /\ tokens'[p].family = tokens[p].family
      /\ \A t \in Calls : t # c /\ t # p => tokens'[t] = tokens[t]
  BY RotationFacts
<1>2. /\ call'[c].at = "done" /\ call'[c].kind = "refresh" /\ call'[c].presented = p
      /\ \A d \in Calls : d # c => call'[d] = call[d]
  BY <1>1, GotoFields DEF CommitRotation, CallSteps
<1>3. \A t \in Calls : lock'[t] = IF t = p THEN None ELSE lock[t]
  BY <1>1 DEF CommitRotation, TypeOK
<1>4. \A t \in Calls : lock[t] = c => t = p
  BY <1>1, NoneAssumption DEF RowInv, LockInv
<1>5. /\ Exists(c)' /\ Live(c)' /\ Exists(p) /\ Exists(p)' /\ ~Live(p)'
      /\ \A t \in Calls : t # c /\ t # p => Exists(t)' = Exists(t) /\ Live(t)' = Live(t)
  BY <1>1 DEF Exists, Live
<1>6. PresentedInv'
  BY <1>2, <1>5 DEF RowInv, PresentedInv
<1>7. LockInv'
  <2> SUFFICES ASSUME NEW t \in Calls, lock'[t] # None
               PROVE  /\ Live(t)'
                      /\ \/ call'[lock'[t]].at = "commit" /\ call'[lock'[t]].presented = t
                         \/ call'[lock'[t]].at = "commitreset"
    BY DEF LockInv
  <2>1. t # p /\ lock'[t] = lock[t] /\ lock[t] \in Calls /\ lock[t] # c
    BY <1>3, <1>4 DEF TypeOK
  <2>2. Live(t) /\ t # c
    BY <2>1, <1>1 DEF RowInv, LockInv, Live, Exists
  <2>3. QED BY <1>2, <1>5, <2>1, <2>2 DEF RowInv, LockInv
<1>8. CommitInv'
  <2> SUFFICES ASSUME NEW d \in Calls, call'[d].at = "commit"
               PROVE  lock'[call'[d].presented] = d
    BY DEF CommitInv
  <2>1. d # c /\ call'[d] = call[d]
    BY <1>2
  <2>2. call[d].presented \in Calls /\ lock[call[d].presented] = d
    BY <2>1 DEF RowInv, CommitInv, PresentedInv
  <2>3. QED BY <1>1, <1>3, <2>1, <2>2
<1>9. BirthInv'
  BY <1>1, <1>2, <1>5 DEF RowInv, BirthInv
<1>10. FamilyInv'
  <2>1. \A t \in Calls : Exists(t) => Exists(t)'
    BY <1>5
  <2>2. \A t \in Calls : Exists(t) => tokens'[t].family = tokens[t].family
    BY <1>1
  <2>3. \A t \in Calls : Exists(t) => tokens[t].family \in Calls
    BY DEF TypeOK, Exists
  <2>4. QED BY <1>1, <1>5, <2>1, <2>2, <2>3 DEF LineageInv, FamilyInv
<1>11. SpentInv'
  <2> SUFFICES ASSUME NEW d \in Calls, call'[d].kind = "refresh", Exists(d)'
               PROVE  /\ call'[d].presented \in Calls
                      /\ tokens'[call'[d].presented].state = "revoked"
    BY DEF SpentInv
  <2>1. CASE d = c
    BY <1>1, <1>2, <2>1
  <2>2. CASE d # c
    <3>1. call'[d] = call[d] /\ Exists(d)
      BY <1>2, <1>5, <2>2
    <3>2. call[d].presented \in Calls /\ tokens[call[d].presented].state = "revoked"
      BY <3>1 DEF LineageInv, SpentInv
    <3>3. call[d].presented # c
      BY <1>1, <3>2 DEF Exists
    <3>4. QED BY <1>1, <3>1, <3>2, <3>3
  <2>3. QED BY <2>1, <2>2
<1>12. OneLive'
  <2>1. \A t \in Calls : Live(t)' /\ t # c =>
           Live(t) /\ tokens'[t].family = tokens[t].family /\ t # p
    BY <1>1, <1>5
  <2>2. \A t \in Calls : Live(t)' /\ t # c => tokens[t].family # tokens[p].family
    BY <1>1, <2>1 DEF LineageInv, OneLive
  <2>3. QED BY <1>1, <2>1, <2>2 DEF LineageInv, OneLive
<1>13. OneSuccessor'
  <2>1. \A d \in Calls :
           d # c /\ call'[d].kind = "refresh" /\ Exists(d)' => call'[d].presented # p
    BY <1>1, <1>2, <1>5 DEF LineageInv, SpentInv, Live
  <2>2. \A d \in Calls : d # c /\ Exists(d)' => Exists(d) /\ call'[d] = call[d]
    BY <1>2, <1>5
  <2>3. QED BY <1>2, <2>1, <2>2 DEF LineageInv, OneSuccessor
<1>14. QED
  BY <1>6, <1>7, <1>8, <1>9, <1>10, <1>11, <1>12, <1>13 DEF RowInv, LineageInv

\* What revoking a set of rows does to each row.
LEMMA AfterRevokingRows ==
  ASSUME TypeOK, NEW rows \in SUBSET Calls, \A t \in rows : Exists(t),
         tokens' = AfterRevoking(rows)
  PROVE  \A t \in Calls :
            /\ tokens'[t].family = tokens[t].family
            /\ t \in rows => tokens[t].state # "none" /\ tokens'[t].state = "revoked"
            /\ t \notin rows => tokens'[t].state = tokens[t].state
BY RevokedType DEF AfterRevoking, Exists

LEMMA CallContinuesKeeps ==
  ASSUME TypeOK, RowInv, LineageInv, NEW c \in Calls, CallContinues(c)
  PROVE  RowInv' /\ LineageInv'
<1>1. CASE IssueSession(c)
  BY <1>1, IssueSessionKeeps
<1>2. CASE Spend(c)
  <2>1. /\ call[c].at = "rotate" /\ lock[call[c].presented] = None
        /\ Live(call[c].presented) /\ UNCHANGED tokens
        /\ lock' = [lock EXCEPT ![call[c].presented] = c]
    BY <1>2 DEF Spend, Spendable
  <2>2. call[c].presented \in Calls
    BY <2>1 DEF RowInv, PresentedInv
  <2>3. /\ call'[c].at = "commit" /\ call'[c].kind = call[c].kind
        /\ call'[c].presented = call[c].presented
        /\ \A d \in Calls : d # c => call'[d] = call[d]
    BY <1>2, GotoFields DEF Spend, CallSteps
  <2> PICK rows \in SUBSET Calls : rows = {call[c].presented}
    BY <2>2
  <2>4. \A t \in Calls : lock'[t] = IF t \in rows THEN c ELSE lock[t]
    BY <2>1, <2>2 DEF TypeOK
  <2>5. \A t \in rows : lock[t] = None /\ Live(t)
    BY <2>1
  <2>6. QED BY <2>1, <2>3, <2>4, <2>5, LockingKeeps
<1>3. CASE SpendRefused(c)
  <2>1. call[c].at = "rotate" /\ UNCHANGED <<tokens, lock>>
    BY <1>3 DEF SpendRefused
  <2>2. /\ call'[c].at = "done"
        /\ \A d \in Calls : d # c => call'[d] = call[d]
    BY <1>3, GotoFields DEF SpendRefused, AfterRefusal, CallSteps
  <2>3. QED BY <2>1, <2>2, MovesKeep
<1>4. CASE CommitRotation(c)
  BY <1>4, CommitRotationKeeps
<1>5. CASE SeeFamily(c)
  <2>1. \E rows \in SUBSET Calls : See(c, "reuse", "sweep", rows)
    BY <1>5 DEF SeeFamily, Family
  <2>2. call[c].at = "reuse" /\ UNCHANGED <<tokens, lock>>
    BY <2>1 DEF See
  <2>3. /\ call'[c].at = "sweep" /\ call'[c].presented = call[c].presented
        /\ \A d \in Calls : d # c => call'[d] = call[d]
    BY <2>1, SeeType DEF CallSteps
  <2>4. call[c].presented \in Calls /\ Exists(call[c].presented)
    BY <2>2 DEF RowInv, PresentedInv
  <2>5. QED BY <2>2, <2>3, <2>4, MovesKeep
<1>6. CASE RevokeFamily(c)
  <2>1. /\ call[c].at = "sweep" /\ UNCHANGED lock /\ Free(c)
        /\ tokens' = AfterRevoking(StillLive(c))
    BY <1>6 DEF RevokeFamily
  <2>2. /\ call'[c].at = "done" /\ call'[c].kind = call[c].kind
        /\ call'[c].presented = call[c].presented
        /\ \A d \in Calls : d # c => call'[d] = call[d]
    BY <1>6, GotoFields DEF RevokeFamily, CallSteps
  <2>3. /\ StillLive(c) \in SUBSET Calls
        /\ \A t \in StillLive(c) : Exists(t) /\ lock[t] = None
    BY <2>1, StillLiveType DEF StillLive, Free
  <2>4. \A t \in Calls : lock'[t] = IF lock[t] = c THEN None ELSE lock[t]
    BY <2>1, NoneAssumption DEF RowInv, LockInv
  <2>5. QED BY <2>1, <2>2, <2>3, <2>4, AfterRevokingRows, EndingKeeps
<1>7. CASE RevokePresented(c)
  <2>1. /\ call[c].at = "logout" /\ UNCHANGED lock /\ lock[call[c].presented] = None
        /\ tokens' = [tokens EXCEPT ![call[c].presented] = Revoked(call[c].presented)]
    BY <1>7 DEF RevokePresented
  <2>2. /\ call'[c].at = "done" /\ call'[c].kind = call[c].kind
        /\ call'[c].presented = call[c].presented
        /\ \A d \in Calls : d # c => call'[d] = call[d]
    BY <1>7, GotoFields DEF RevokePresented, CallSteps
  <2>3. call[c].presented \in Calls /\ Exists(call[c].presented)
    BY <2>1 DEF RowInv, PresentedInv
  <2> PICK rows \in SUBSET Calls : rows = {call[c].presented}
    BY <2>3
  <2>4. tokens' = AfterRevoking(rows)
    BY <2>1, <2>3 DEF AfterRevoking, TypeOK
  <2>5. \A t \in Calls : lock'[t] = IF lock[t] = c THEN None ELSE lock[t]
    BY <2>1, NoneAssumption DEF RowInv, LockInv
  <2>6. \A t \in rows : Exists(t) /\ lock[t] = None
    BY <2>1, <2>3
  <2>7. QED BY <2>1, <2>2, <2>4, <2>5, <2>6, AfterRevokingRows, EndingKeeps
<1>8. CASE Supersede(c)
  <2>1. call[c].at = "supersede" /\ UNCHANGED <<tokens, lock>>
    BY <1>8 DEF Supersede
  <2>2. /\ call'[c].at = "grant"
        /\ \A d \in Calls : d # c => call'[d] = call[d]
    BY <1>8, GotoFields DEF Supersede, CallSteps
  <2>3. QED BY <2>1, <2>2, MovesKeep
<1>9. CASE IssueGrant(c)
  <2>1. call[c].at = "grant" /\ UNCHANGED <<tokens, lock>>
    BY <1>9 DEF IssueGrant
  <2>2. /\ call'[c].at = "done"
        /\ \A d \in Calls : d # c => call'[d] = call[d]
    BY <1>9, GotoFields DEF IssueGrant, CallSteps
  <2>3. QED BY <2>1, <2>2, MovesKeep
<1>10. CASE EnterReset(c)
  <2>1. call[c].at = "reset" /\ UNCHANGED <<tokens, lock>>
    BY <1>10 DEF EnterReset
  <2>2. /\ call'[c].at = "snapshot"
        /\ \A d \in Calls : d # c => call'[d] = call[d]
    BY <1>10, GotoFields DEF EnterReset, CallSteps
  <2>3. QED BY <2>1, <2>2, MovesKeep
<1>11. CASE SeeSessions(c)
  <2>1. \E rows \in SUBSET Calls : See(c, "snapshot", "revokeall", rows)
    BY <1>11 DEF SeeSessions
  <2>2. call[c].at = "snapshot" /\ UNCHANGED <<tokens, lock>>
    BY <2>1 DEF See
  <2>3. /\ call'[c].at = "revokeall"
        /\ \A d \in Calls : d # c => call'[d] = call[d]
    BY <2>1, SeeType DEF CallSteps
  <2>4. QED BY <2>2, <2>3, MovesKeep
<1>12. CASE RevokeAll(c)
  <2>1. /\ call[c].at = "revokeall" /\ UNCHANGED tokens /\ Free(c)
        /\ \A t \in Calls : lock'[t] = IF t \in StillLive(c) THEN c ELSE lock[t]
    BY <1>12 DEF RevokeAll
  <2>2. /\ call'[c].at = "commitreset" /\ call'[c].kind = call[c].kind
        /\ call'[c].presented = call[c].presented
        /\ \A d \in Calls : d # c => call'[d] = call[d]
    BY <1>12, GotoFields DEF RevokeAll, CallSteps
  <2>3. /\ StillLive(c) \in SUBSET Calls
        /\ \A t \in StillLive(c) : Live(t) /\ lock[t] = None
    BY <2>1, StillLiveType DEF StillLive, Free
  <2>4. QED BY <2>1, <2>2, <2>3, LockingKeeps
<1>13. CASE CommitReset(c)
  <2>1. /\ call[c].at = "commitreset"
        /\ tokens' = AfterRevoking(HeldBy(c))
        /\ \A t \in Calls : lock'[t] = IF lock[t] = c THEN None ELSE lock[t]
    BY <1>13 DEF CommitReset, Released
  <2>2. /\ call'[c].at = "done" /\ call'[c].kind = call[c].kind
        /\ call'[c].presented = call[c].presented
        /\ \A d \in Calls : d # c => call'[d] = call[d]
    BY <1>13, GotoFields DEF CommitReset, CallSteps
  <2>3. /\ HeldBy(c) \in SUBSET Calls
        /\ \A t \in HeldBy(c) : Exists(t) /\ lock[t] = c
    BY NoneAssumption DEF HeldBy, RowInv, LockInv, Exists, Live
  <2>4. QED BY <2>1, <2>2, <2>3, AfterRevokingRows, EndingKeeps
<1>14. QED
  BY <1>1, <1>2, <1>3, <1>4, <1>5, <1>6, <1>7, <1>8, <1>9, <1>10, <1>11, <1>12, <1>13
  DEF CallContinues

LEMMA CutOffKeeps ==
  ASSUME TypeOK, RowInv, LineageInv, NEW c \in Calls, CutOff(c)
  PROVE  RowInv' /\ LineageInv'
<1>1. /\ call[c].at # "idle" /\ UNCHANGED tokens
      /\ \A t \in Calls : lock'[t] = IF lock[t] = c THEN None ELSE lock[t]
  BY DEF CutOff, Working, Released
<1>2. /\ call'[c].at = "done" /\ call'[c].kind = call[c].kind
      /\ call'[c].presented = call[c].presented
      /\ \A d \in Calls : d # c => call'[d] = call[d]
  BY GotoFields DEF CutOff, CallSteps
<1> PICK rows \in SUBSET Calls : rows = {}
  OBVIOUS
<1>3. QED BY <1>1, <1>2, EndingKeeps

LEMMA LeewayPassesKeeps ==
  ASSUME TypeOK, RowInv, LineageInv, NEW t \in Calls, LeewayPasses(t)
  PROVE  RowInv' /\ LineageInv'
<1>1. /\ \A u \in Calls : /\ tokens'[u].state = tokens[u].state
                          /\ tokens'[u].family = tokens[u].family
      /\ UNCHANGED <<lock, call>>
  BY DEF LeewayPasses, TypeOK, Token
<1>2. \A u \in Calls : (Exists(u)' <=> Exists(u)) /\ (Live(u)' <=> Live(u))
  BY <1>1 DEF Exists, Live
<1>3. RowInv'
  BY <1>1, <1>2 DEF RowInv, PresentedInv, LockInv, CommitInv, BirthInv
<1>4. \A u \in Calls : Exists(u) => tokens[u].family \in Calls
  BY DEF TypeOK, Exists
<1>5. FamilyInv' /\ OneLive'
  BY <1>1, <1>2, <1>4 DEF LineageInv, FamilyInv, OneLive
<1>6. SpentInv' /\ OneSuccessor'
  BY <1>1, <1>2 DEF LineageInv, SpentInv, OneSuccessor
<1>7. QED BY <1>3, <1>5, <1>6 DEF LineageInv

-----------------------------------------------------------------------------
(* The invariant.                                                           *)

LEMMA InitIInv == Init => IInv
BY MaxFailuresAssumption
DEF Init, IInv, TypeOK, Token, NoToken, Grant, Call, CallSteps, AllCallKinds,
    RowInv, PresentedInv, LockInv, CommitInv, BirthInv,
    LineageInv, FamilyInv, SpentInv, OneSuccessor, OneLive, Exists, Live

LEMMA StutterIInv == ASSUME IInv, UNCHANGED vars PROVE IInv'
BY DEF vars, IInv, TypeOK, RowInv, PresentedInv, LockInv, CommitInv, BirthInv,
       LineageInv, FamilyInv, SpentInv, OneSuccessor, OneLive, Exists, Live

LEMMA NextIInv == ASSUME IInv, Next PROVE IInv'
<1> USE DEF IInv
<1>1. ASSUME NEW c \in Calls, CallBegins(c) PROVE IInv'
  BY <1>1, CallBeginsType, CallBeginsKeeps
<1>2. ASSUME NEW c \in Calls, CallContinues(c) PROVE IInv'
  BY <1>2, CallContinuesType, CallContinuesKeeps DEF RowInv
<1>3. ASSUME NEW c \in Calls, CutOff(c) PROVE IInv'
  BY <1>3, OtherStepsType, CutOffKeeps
<1>4. ASSUME NEW t \in Calls, LeewayPasses(t) PROVE IInv'
  BY <1>4, OtherStepsType, LeewayPassesKeeps
<1>5. QED BY <1>1, <1>2, <1>3, <1>4 DEF Next

LEMMA IInvariant == Spec => []IInv
BY InitIInv, NextIInv, StutterIInv, PTL DEF Spec

\* Every variable keeps its type, whatever calls race, fail or are cut off.
THEOREM TokensTypeCorrect == Spec => []TypeOK
<1>1. IInv => TypeOK
  BY DEF IInv
<1>2. QED BY <1>1, IInvariant, PTL

\* "Two requests racing with the same token cannot both mint a successor":
\* the conditional update and the row lock are enough, for any number of
\* requests.
THEOREM OneSuccessorPerToken == Spec => []OneSuccessor
<1>1. IInv => OneSuccessor
  BY DEF IInv, LineageInv
<1>2. QED BY <1>1, IInvariant, PTL

-----------------------------------------------------------------------------
(* Restoring tabs signs nobody out.                                         *)

\* What a call is doing says what it is.
KindOf(c) ==
  /\ call[c].at = "idle" => call[c].kind = "none"
  /\ call[c].at \in {"reuse", "sweep"} => call[c].kind = "refresh"
  /\ call[c].at = "logout" => call[c].kind = "logout"
  /\ call[c].at \in {"reset", "snapshot", "revokeall", "commitreset"} =>
       call[c].kind = "reset"

KindInv == \A c \in Calls : KindOf(c)

\* Nobody logs out or resets, and no spent token is older than the leeway.
Peaceful ==
  /\ \A c \in Calls : call[c].kind \in {"none", "login", "refresh"}
  /\ \A t \in Calls : tokens[t].state = "revoked" => tokens[t].fresh

\* Until then no replay is seen, and every session has its live token.
NoReplay == \A c \in Calls : call[c].at \notin {"reuse", "sweep"}

SessionsLive == \A f \in Calls : Family(f) # {} => \E t \in Family(f) : Live(t)

TabsInv == KindInv /\ (Peaceful => NoReplay /\ SessionsLive)

\* A step that writes no row, and whose call detects no replay.
LEMMA RowsAloneTabs ==
  ASSUME IInv, TabsInv, NEW c \in Calls, UNCHANGED tokens,
         \A d \in Calls : d # c => call'[d] = call[d],
         \/ call[c].at = "idle" /\ call[c].kind = "none"
         \/ call'[c].kind = call[c].kind,
         KindOf(c)',
         call'[c].at \in {"reuse", "sweep"} =>
           ~Peaceful \/ call[c].at \in {"reuse", "sweep"}
  PROVE  TabsInv'
<1>1. KindInv'
  BY DEF TabsInv, KindInv, KindOf
<1>2. ASSUME Peaceful' PROVE NoReplay' /\ SessionsLive'
  <2>1. Peaceful
    BY <1>2 DEF Peaceful
  <2>2. NoReplay'
    BY <2>1 DEF TabsInv, NoReplay
  <2>3. SessionsLive'
    BY <2>1 DEF TabsInv, SessionsLive, Family, Exists, Live
  <2>4. QED BY <2>2, <2>3
<1>3. QED BY <1>1, <1>2 DEF TabsInv

LEMMA CallBeginsTabs ==
  ASSUME IInv, TabsInv, NEW c \in Calls, CallBegins(c) PROVE TabsInv'
<1>1. UNCHANGED tokens
  BY DEF CallBegins, BeginLogin, BeginRefresh, BeginLogout, BeginForgot, BeginReset
<1>2. \E kind \in AllCallKinds, next \in CallSteps, presented \in Calls \cup {None} :
        /\ Begin(c, kind, next, presented)
        /\ next \notin {"idle", "sweep", "snapshot", "revokeall", "commitreset"}
        /\ next = "logout" => kind = "logout"
        /\ next = "reset" => kind = "reset"
        /\ next = "reuse" => kind = "refresh" /\ presented \in Calls /\ Replayed(presented)
  <2>1. CASE BeginLogin(c)
    BY <2>1 DEF BeginLogin, AllCallKinds, CallSteps
  <2>2. CASE BeginRefresh(c)
    BY <2>2 DEF BeginRefresh, AllCallKinds, CallSteps
  <2>3. CASE BeginLogout(c)
    BY <2>3 DEF BeginLogout, AllCallKinds, CallSteps
  <2>4. CASE BeginForgot(c)
    BY <2>4 DEF BeginForgot, AllCallKinds, CallSteps
  <2>5. CASE BeginReset(c)
    BY <2>5 DEF BeginReset, AllCallKinds, CallSteps
  <2>6. QED BY <2>1, <2>2, <2>3, <2>4, <2>5 DEF CallBegins
<1>3. PICK kind \in AllCallKinds, next \in CallSteps, presented \in Calls \cup {None} :
        /\ Begin(c, kind, next, presented)
        /\ next \notin {"idle", "sweep", "snapshot", "revokeall", "commitreset"}
        /\ next = "logout" => kind = "logout"
        /\ next = "reset" => kind = "reset"
        /\ next = "reuse" => kind = "refresh" /\ presented \in Calls /\ Replayed(presented)
  BY <1>2
<1>4. /\ call[c].at = "idle" /\ call'[c].at = next /\ call'[c].kind = kind
      /\ \A d \in Calls : d # c => call'[d] = call[d]
  BY <1>3, BeginType DEF IInv
<1>5. call[c].kind = "none"
  BY <1>4 DEF TabsInv, KindInv, KindOf
<1>6. next = "reuse" => ~Peaceful
  BY <1>3 DEF Replayed, Peaceful
<1>7. KindOf(c)'
  BY <1>3, <1>4 DEF KindOf
<1>8. QED BY <1>1, <1>3, <1>4, <1>5, <1>6, <1>7, RowsAloneTabs

\* The login's token is the live token of the family it begins.
LEMMA IssueSessionTabs ==
  ASSUME IInv, TabsInv, NEW c \in Calls, IssueSession(c) PROVE TabsInv'
<1>1. /\ call[c].at = "issue" /\ call'[c].at = "done" /\ call'[c].kind = call[c].kind
      /\ \A d \in Calls : d # c => call'[d] = call[d]
  BY GotoFields DEF IssueSession, IInv, CallSteps
<1>2. /\ ~Exists(c) /\ tokens'[c] = [state |-> "live", family |-> c, fresh |-> FALSE]
      /\ \A t \in Calls : t # c => tokens'[t] = tokens[t]
  BY DEF IssueSession, IInv, TypeOK, RowInv, BirthInv
<1>3. KindInv'
  BY <1>1 DEF TabsInv, KindInv, KindOf
<1>4. ASSUME Peaceful' PROVE NoReplay' /\ SessionsLive'
  <2>1. Peaceful
    BY <1>1, <1>2, <1>4 DEF Peaceful, Exists
  <2>2. NoReplay'
    BY <1>1, <2>1 DEF TabsInv, NoReplay
  <2>3. ASSUME NEW f \in Calls, Family(f)' # {} PROVE \E t \in Family(f)' : Live(t)'
    <3>1. CASE f = c
      BY <1>2, <3>1 DEF Family, Exists, Live
    <3>2. CASE f # c
      <4>1. Family(f) # {}
        BY <1>2, <2>3, <3>2 DEF Family, Exists
      <4>2. PICK t \in Family(f) : Live(t)
        BY <2>1, <4>1 DEF TabsInv, SessionsLive
      <4>3. t \in Family(f)' /\ Live(t)'
        BY <1>2, <4>2 DEF Family, Exists, Live
      <4>4. QED BY <4>3
    <3>3. QED BY <3>1, <3>2
  <2>4. QED BY <2>2, <2>3 DEF SessionsLive
<1>5. QED BY <1>3, <1>4 DEF TabsInv

\* A successor takes the place of what it was exchanged for.
LEMMA CommitRotationTabs ==
  ASSUME IInv, TabsInv, NEW c \in Calls, CommitRotation(c) PROVE TabsInv'
<1> PICK p \in Calls : p = call[c].presented
  BY RotationFacts DEF IInv
<1>1. /\ ~Exists(c) /\ p # c /\ Live(p) /\ call[c].at = "commit"
      /\ tokens'[c].state = "live" /\ tokens'[c].family = tokens[p].family
      /\ tokens'[p].state = "revoked" /\ tokens'[p].family = tokens[p].family
      /\ \A t \in Calls : t # c /\ t # p => tokens'[t] = tokens[t]
  BY RotationFacts DEF IInv
<1>2. /\ call'[c].at = "done" /\ call'[c].kind = call[c].kind
      /\ \A d \in Calls : d # c => call'[d] = call[d]
  BY GotoFields DEF CommitRotation, IInv, CallSteps
<1>3. KindInv'
  BY <1>2 DEF TabsInv, KindInv, KindOf
<1>4. ASSUME Peaceful' PROVE NoReplay' /\ SessionsLive'
  <2>1. Peaceful
    BY <1>1, <1>2, <1>4 DEF Peaceful, Exists, Live
  <2>2. NoReplay'
    BY <1>2, <2>1 DEF TabsInv, NoReplay
  <2>3. ASSUME NEW f \in Calls, Family(f)' # {} PROVE \E t \in Family(f)' : Live(t)'
    <3>1. CASE f = tokens[p].family
      <4>1. c \in Family(f)' /\ Live(c)'
        BY <1>1, <3>1 DEF Family, Exists, Live
      <4>2. QED BY <4>1
    <3>2. CASE f # tokens[p].family
      <4>1. Family(f) # {}
        BY <1>1, <2>3, <3>2 DEF Family, Exists
      <4>2. PICK t \in Family(f) : Live(t)
        BY <2>1, <4>1 DEF TabsInv, SessionsLive
      <4>3. t \in Family(f)' /\ Live(t)'
        BY <1>1, <3>2, <4>2 DEF Family, Exists, Live
      <4>4. QED BY <4>3
    <3>3. QED BY <3>1, <3>2
  <2>4. QED BY <2>2, <2>3 DEF SessionsLive
<1>5. QED BY <1>3, <1>4 DEF TabsInv

\* A sweep, a logout or a reset ends a call that a peaceful state cannot have,
\* and leaves stale what was stale.
LEMMA RevocationTabs ==
  ASSUME IInv, TabsInv, NEW c \in Calls,
         RevokeFamily(c) \/ RevokePresented(c) \/ CommitReset(c)
  PROVE  TabsInv'
<1>1. /\ call[c].at \in {"sweep", "logout", "commitreset"}
      /\ call'[c].at = "done" /\ call'[c].kind = call[c].kind
      /\ \A d \in Calls : d # c => call'[d] = call[d]
  BY GotoFields DEF RevokeFamily, RevokePresented, CommitReset, IInv, CallSteps
<1>2. KindInv'
  BY <1>1 DEF TabsInv, KindInv, KindOf
<1>3. ASSUME Peaceful' PROVE FALSE
  <2>1. call[c].at = "sweep"
    BY <1>1, <1>3 DEF Peaceful, TabsInv, KindInv, KindOf
  <2>2. tokens' = AfterRevoking(StillLive(c))
    BY <1>1, <2>1 DEF RevokeFamily, RevokePresented, CommitReset
  <2>3. \A t \in Calls : tokens[t].state = "revoked" => tokens'[t] = tokens[t]
    BY <2>2 DEF AfterRevoking, StillLive, Live
  <2>4. Peaceful
    BY <1>1, <1>3, <2>3 DEF Peaceful
  <2>5. QED BY <2>1, <2>4 DEF TabsInv, NoReplay
<1>4. QED BY <1>2, <1>3 DEF TabsInv

LEMMA CallContinuesTabs ==
  ASSUME IInv, TabsInv, NEW c \in Calls, CallContinues(c) PROVE TabsInv'
<1>1. CASE IssueSession(c)
  BY <1>1, IssueSessionTabs
<1>2. CASE CommitRotation(c)
  BY <1>2, CommitRotationTabs
<1>3. CASE RevokeFamily(c) \/ RevokePresented(c) \/ CommitReset(c)
  BY <1>3, RevocationTabs
<1>4. CASE Spend(c) \/ SpendRefused(c) \/ Supersede(c) \/ IssueGrant(c)
  <2>1. /\ UNCHANGED tokens
        /\ call[c].at \in {"rotate", "supersede", "grant"}
        /\ \E next \in {"commit", "done", "grant"} : Goto(c, next)
    BY <1>4 DEF Spend, SpendRefused, AfterRefusal, Supersede, IssueGrant
  <2>2. /\ call'[c].at \in {"commit", "done", "grant"} /\ call'[c].kind = call[c].kind
        /\ \A d \in Calls : d # c => call'[d] = call[d]
    BY <2>1, GotoFields DEF IInv, CallSteps
  <2>3. KindOf(c)'
    BY <2>2 DEF KindOf
  <2>4. QED BY <2>1, <2>2, <2>3, RowsAloneTabs
<1>5. CASE EnterReset(c) \/ RevokeAll(c)
  <2>1. /\ UNCHANGED tokens
        /\ call[c].at \in {"reset", "revokeall"}
        /\ \E next \in {"snapshot", "commitreset"} : Goto(c, next)
    BY <1>5 DEF EnterReset, RevokeAll
  <2>2. /\ call'[c].at \in {"snapshot", "commitreset"} /\ call'[c].kind = call[c].kind
        /\ \A d \in Calls : d # c => call'[d] = call[d]
    BY <2>1, GotoFields DEF IInv, CallSteps
  <2>3. KindOf(c)'
    BY <2>1, <2>2 DEF KindOf, TabsInv, KindInv
  <2>4. QED BY <2>1, <2>2, <2>3, RowsAloneTabs
<1>6. CASE SeeFamily(c)
  <2>1. PICK rows \in SUBSET Calls : See(c, "reuse", "sweep", rows)
    BY <1>6 DEF SeeFamily, Family
  <2>2. /\ UNCHANGED tokens /\ call[c].at = "reuse" /\ call'[c].at = "sweep"
        /\ call'[c].kind = call[c].kind
        /\ \A d \in Calls : d # c => call'[d] = call[d]
    BY <2>1, SeeType DEF See, IInv, CallSteps
  <2>3. KindOf(c)'
    BY <2>2 DEF KindOf, TabsInv, KindInv
  <2>4. QED BY <2>2, <2>3, RowsAloneTabs
<1>7. CASE SeeSessions(c)
  <2>1. PICK rows \in SUBSET Calls : See(c, "snapshot", "revokeall", rows)
    BY <1>7 DEF SeeSessions
  <2>2. /\ UNCHANGED tokens /\ call[c].at = "snapshot" /\ call'[c].at = "revokeall"
        /\ call'[c].kind = call[c].kind
        /\ \A d \in Calls : d # c => call'[d] = call[d]
    BY <2>1, SeeType DEF See, IInv, CallSteps
  <2>3. KindOf(c)'
    BY <2>2 DEF KindOf, TabsInv, KindInv
  <2>4. QED BY <2>2, <2>3, RowsAloneTabs
<1>8. QED BY <1>1, <1>2, <1>3, <1>4, <1>5, <1>6, <1>7 DEF CallContinues

\* A call cut off mid-way has written nothing; a token past the leeway is the
\* end of the peace.
LEMMA OtherStepsTabs ==
  ASSUME IInv, TabsInv, \/ \E c \in Calls : CutOff(c)
                        \/ \E t \in Calls : LeewayPasses(t)
  PROVE  TabsInv'
<1>1. ASSUME NEW c \in Calls, CutOff(c) PROVE TabsInv'
  <2>1. /\ UNCHANGED tokens /\ call[c].at # "idle"
        /\ call'[c].at = "done" /\ call'[c].kind = call[c].kind
        /\ \A d \in Calls : d # c => call'[d] = call[d]
    BY <1>1, GotoFields DEF CutOff, Working, IInv, CallSteps
  <2>2. KindOf(c)'
    BY <2>1 DEF KindOf
  <2>3. QED BY <2>1, <2>2, RowsAloneTabs
<1>2. ASSUME NEW t \in Calls, LeewayPasses(t) PROVE TabsInv'
  <2>1. tokens'[t].state = "revoked" /\ ~tokens'[t].fresh
    BY <1>2 DEF LeewayPasses, IInv, TypeOK, Token
  <2>2. QED BY <1>2, <2>1 DEF LeewayPasses, TabsInv, KindInv, KindOf, Peaceful
<1>3. QED BY <1>1, <1>2

LEMMA TabsInvariant == Spec => []TabsInv
<1>1. Init => TabsInv
  BY DEF Init, NoToken, TabsInv, KindInv, KindOf, NoReplay, SessionsLive, Family, Exists
<1>2. IInv /\ TabsInv /\ [Next]_vars => TabsInv'
  <2>1. CASE UNCHANGED vars
    BY <2>1 DEF vars, TabsInv, KindInv, KindOf, Peaceful, NoReplay, SessionsLive, Family,
                Exists, Live
  <2>2. QED BY <2>1, CallBeginsTabs, CallContinuesTabs, OtherStepsTabs DEF Next
<1>3. QED BY <1>1, <1>2, IInvariant, PTL DEF Spec

\* "Inside the leeway this is a race, not theft": tabs that refresh at the same
\* time never end a session, whoever wins and whatever fails.
THEOREM RestoredTabsStaySignedIn == Spec => []TabsNeverSignOut
<1>1. TabsInv => TabsNeverSignOut
  BY DEF TabsInv, Peaceful, SessionsLive, TabsNeverSignOut
<1>2. QED BY <1>1, TabsInvariant, PTL

-----------------------------------------------------------------------------
(* The refinement.                                                          *)

\* The token a session is kept alive by, read off the rows, before a step and
\* after it.
LEMMA ValidIs ==
  ASSUME OneLive, NEW f \in Calls, NEW t \in Calls, Live(t), tokens[t].family = f
  PROVE  ValidToken(f) = t
<1>1. Exists(t)
  BY DEF Live, Exists
<1>2. \A u \in Family(f) : Live(u) => u = t
  BY DEF OneLive, Family
<1>3. t \in Family(f)
  BY <1>1 DEF Family
<1>4. QED BY <1>2, <1>3 DEF ValidToken

LEMMA ValidIsNext ==
  ASSUME OneLive', NEW f \in Calls, NEW t \in Calls, Live(t)', tokens'[t].family = f
  PROVE  ValidToken(f)' = t
<1>1. Exists(t)'
  BY DEF Live, Exists
<1>2. \A u \in Family(f)' : Live(u)' => u = t
  BY DEF OneLive, Family
<1>3. t \in Family(f)'
  BY <1>1 DEF Family
<1>4. QED BY <1>2, <1>3 DEF ValidToken

LEMMA ValidNone ==
  ASSUME NEW f \in Calls, \A t \in Calls : Live(t) => tokens[t].family # f
  PROVE  ValidToken(f) = None
BY DEF ValidToken, Family

LEMMA ValidNoneNext ==
  ASSUME NEW f \in Calls, \A t \in Calls : Live(t)' => tokens'[t].family # f
  PROVE  ValidToken(f)' = None
BY DEF ValidToken, Family

\* Rows that only lose their liveness end some sessions, or none.
LEMMA ShrinkingEnds ==
  ASSUME OneLive, OneLive',
         \A t \in Calls : /\ tokens'[t].state = "none" <=> tokens[t].state = "none"
                          /\ tokens'[t].state = "live" => tokens[t].state = "live"
                          /\ tokens'[t].family = tokens[t].family
  PROVE  S!End
<1>1. Issued' = Issued
  BY DEF Issued, Exists
<1>2. PICK gone \in SUBSET Calls : gone = {f \in Calls : ValidToken(f)' = None}
  OBVIOUS
<1>3. ASSUME NEW f \in Calls
      PROVE  ValidToken(f)' = IF f \in gone THEN None ELSE ValidToken(f)
  <2>1. CASE \E t \in Calls : Live(t)' /\ tokens'[t].family = f
    <3>1. PICK t \in Calls : Live(t)' /\ tokens'[t].family = f
      BY <2>1
    <3>2. ValidToken(f)' = t
      BY <3>1, ValidIsNext
    <3>3. Live(t) /\ tokens[t].family = f
      BY <3>1 DEF Live
    <3>4. ValidToken(f) = t
      BY <3>3, ValidIs
    <3>5. QED BY <1>2, <3>2, <3>4, NoneAssumption
  <2>2. CASE ~\E t \in Calls : Live(t)' /\ tokens'[t].family = f
    BY <1>2, <2>2, ValidNoneNext
  <2>3. QED BY <2>1, <2>2
<1>4. [f \in Calls |-> ValidToken(f)'] =
        [s \in Calls |-> IF s \in gone THEN None
                        ELSE [f \in Calls |-> ValidToken(f)][s]]
  BY <1>3
<1>5. QED BY <1>1, <1>4 DEF S!End

\* A step that leaves the rows alone.
LEMMA RowsAloneEnds ==
  ASSUME OneLive, OneLive', UNCHANGED tokens PROVE S!End
BY ShrinkingEnds

LEMMA SignInRefines ==
  ASSUME IInv, IInv', NEW c \in Calls, IssueSession(c) PROVE S!SignIn
<1>1. ~Exists(c)
  BY DEF IssueSession, IInv, RowInv, BirthInv
<1>2. /\ tokens'[c].state = "live" /\ tokens'[c].family = c
      /\ \A t \in Calls : t # c => tokens'[t] = tokens[t]
  BY DEF IssueSession, IInv, TypeOK
<1>3. Issued' = Issued \cup {c} /\ c \in Calls \ Issued
  BY <1>1, <1>2 DEF Issued, Exists
<1>4. ASSUME NEW f \in Calls
      PROVE  ValidToken(f)' = IF f = c THEN c ELSE ValidToken(f)
  <2>1. CASE f = c
    BY <1>2, <2>1, ValidIsNext DEF Live, IInv, LineageInv
  <2>2. CASE f # c /\ \E t \in Calls : Live(t) /\ tokens[t].family = f
    <3>1. PICK t \in Calls : Live(t) /\ tokens[t].family = f
      BY <2>2
    <3>2. Live(t)' /\ tokens'[t].family = f
      BY <1>1, <1>2, <3>1 DEF Live, Exists
    <3>3. QED BY <2>2, <3>1, <3>2, ValidIs, ValidIsNext DEF IInv, LineageInv
  <2>3. CASE f # c /\ ~\E t \in Calls : Live(t) /\ tokens[t].family = f
    <3>1. \A t \in Calls : Live(t)' => tokens'[t].family # f
      BY <1>2, <2>3 DEF Live
    <3>2. QED BY <2>3, <3>1, ValidNone, ValidNoneNext
  <2>4. QED BY <2>1, <2>2, <2>3
<1>5. [f \in Calls |-> ValidToken(f)'] =
        [[f \in Calls |-> ValidToken(f)] EXCEPT ![c] = c]
  BY <1>4
<1>6. QED BY <1>3, <1>5 DEF S!SignIn

LEMMA RotationRefines ==
  ASSUME IInv, IInv', NEW c \in Calls, CommitRotation(c) PROVE S!Refresh
<1> PICK p \in Calls : p = call[c].presented
  BY RotationFacts DEF IInv
<1>1. /\ ~Exists(c) /\ p # c /\ Live(p) /\ tokens[p].family \in Calls
      /\ tokens'[c].state = "live" /\ tokens'[c].family = tokens[p].family
      /\ tokens'[p].state = "revoked" /\ tokens'[p].family = tokens[p].family
      /\ \A t \in Calls : t # c /\ t # p => tokens'[t] = tokens[t]
  BY RotationFacts DEF IInv
<1> PICK s \in Calls : s = tokens[p].family
  BY <1>1
<1>2. Issued' = Issued \cup {c} /\ c \in Calls \ Issued
  BY <1>1 DEF Issued, Exists, Live
<1>3. ValidToken(s) = p /\ p # None
  BY <1>1, ValidIs, NoneAssumption DEF IInv, LineageInv
<1>4. ASSUME NEW f \in Calls
      PROVE  ValidToken(f)' = IF f = s THEN c ELSE ValidToken(f)
  <2>1. CASE f = s
    BY <1>1, <2>1, ValidIsNext DEF Live, IInv, LineageInv
  <2>2. CASE f # s /\ \E t \in Calls : Live(t) /\ tokens[t].family = f
    <3>1. PICK t \in Calls : Live(t) /\ tokens[t].family = f
      BY <2>2
    <3>2. t # c /\ t # p
      BY <1>1, <2>2, <3>1 DEF Live, Exists
    <3>3. Live(t)' /\ tokens'[t].family = f
      BY <1>1, <3>1, <3>2 DEF Live
    <3>4. QED BY <2>2, <3>1, <3>3, ValidIs, ValidIsNext DEF IInv, LineageInv
  <2>3. CASE f # s /\ ~\E t \in Calls : Live(t) /\ tokens[t].family = f
    <3>1. \A t \in Calls : Live(t)' => tokens'[t].family # f
      BY <1>1, <2>3 DEF Live
    <3>2. QED BY <2>3, <3>1, ValidNone, ValidNoneNext
  <2>4. QED BY <2>1, <2>2, <2>3
<1>5. [f \in Calls |-> ValidToken(f)'] =
        [[f \in Calls |-> ValidToken(f)] EXCEPT ![s] = c]
  BY <1>4
<1>6. [f \in Calls |-> ValidToken(f)][s] # None
  BY <1>3
<1>7. QED BY <1>2, <1>5, <1>6 DEF S!Refresh

\* Every other step of a call leaves the rows alone or revokes some.
LEMMA RevocationRefines ==
  ASSUME IInv, IInv', NEW c \in Calls,
         RevokeFamily(c) \/ RevokePresented(c) \/ CommitReset(c)
  PROVE  S!End
<1>1. \E rows \in SUBSET Calls : (\A t \in rows : Exists(t)) /\ tokens' = AfterRevoking(rows)
  <2>1. CASE RevokeFamily(c)
    BY <2>1, StillLiveType DEF RevokeFamily, IInv
  <2>2. CASE RevokePresented(c)
    <3>1. call[c].presented \in Calls /\ Exists(call[c].presented)
      BY <2>2 DEF RevokePresented, IInv, RowInv, PresentedInv
    <3>2. tokens' = AfterRevoking({call[c].presented})
      BY <2>2, <3>1 DEF RevokePresented, AfterRevoking, IInv, TypeOK
    <3>3. QED BY <3>1, <3>2
  <2>3. CASE CommitReset(c)
    BY <2>3, NoneAssumption DEF CommitReset, HeldBy, IInv, RowInv, LockInv, Exists, Live
  <2>4. QED BY <2>1, <2>2, <2>3
<1>2. \A t \in Calls : /\ tokens'[t].state = "none" <=> tokens[t].state = "none"
                       /\ tokens'[t].state = "live" => tokens[t].state = "live"
                       /\ tokens'[t].family = tokens[t].family
  BY <1>1, AfterRevokingRows DEF IInv
<1>3. QED BY <1>2, ShrinkingEnds DEF IInv, LineageInv

LEMMA StepRefines ==
  ASSUME IInv, IInv', Next PROVE S!SessionNext
<1>1. ASSUME NEW c \in Calls, CallBegins(c) PROVE S!SessionNext
  BY <1>1, RowsAloneEnds
  DEF CallBegins, BeginLogin, BeginRefresh, BeginLogout, BeginForgot, BeginReset,
      S!SessionNext, IInv, LineageInv
<1>2. ASSUME NEW c \in Calls, CallContinues(c) PROVE S!SessionNext
  <2>1. CASE IssueSession(c)
    BY <2>1, SignInRefines DEF S!SessionNext
  <2>2. CASE CommitRotation(c)
    BY <2>2, RotationRefines DEF S!SessionNext
  <2>3. CASE RevokeFamily(c) \/ RevokePresented(c) \/ CommitReset(c)
    BY <2>3, RevocationRefines DEF S!SessionNext
  <2>4. CASE UNCHANGED tokens
    BY <2>4, RowsAloneEnds DEF S!SessionNext, IInv, LineageInv
  <2>5. QED
    BY <1>2, <2>1, <2>2, <2>3, <2>4
    DEF CallContinues, Spend, SpendRefused, SeeFamily, Supersede, IssueGrant,
        EnterReset, SeeSessions, RevokeAll, See
<1>3. ASSUME NEW c \in Calls, CutOff(c) PROVE S!SessionNext
  BY <1>3, RowsAloneEnds DEF CutOff, S!SessionNext, IInv, LineageInv
<1>4. ASSUME NEW t \in Calls, LeewayPasses(t) PROVE S!SessionNext
  <2>1. \A u \in Calls : /\ tokens'[u].state = tokens[u].state
                         /\ tokens'[u].family = tokens[u].family
    BY <1>4 DEF LeewayPasses, IInv, TypeOK, Token
  <2>2. QED BY <2>1, ShrinkingEnds DEF S!SessionNext, IInv, LineageInv
<1>5. QED BY <1>1, <1>2, <1>3, <1>4 DEF Next

LEMMA InitRefines == Init => S!SessionInit
<1> SUFFICES ASSUME Init PROVE S!SessionInit
  OBVIOUS
<1>1. \A t \in Calls : ~Exists(t) /\ ~Live(t)
  BY DEF Init, NoToken, Exists, Live
<1>2. Issued = {}
  BY <1>1 DEF Issued
<1>3. \A f \in Calls : ValidToken(f) = None
  BY <1>1, ValidNone
<1>4. QED BY <1>2, <1>3 DEF S!SessionInit

LEMMA StutterRefines ==
  ASSUME UNCHANGED vars
  PROVE  UNCHANGED <<Issued, [f \in Calls |-> ValidToken(f)]>>
BY DEF vars, Issued, Exists, Live, Family, ValidToken

\* Calls racing for rows and locks implement sessions that have one valid
\* token each and never come back once they have ended.
THEOREM CallsRefineSessions == Spec => ImplementsSession
BY InitRefines, StepRefines, StutterRefines, IInvariant, PTL
DEF Spec, ImplementsSession, S!SessionSpec

-----------------------------------------------------------------------------
(* The browser: its requests keep the server's invariant.                   *)

\* What a request that reaches the server does there.
LEMMA ReachFacts ==
  ASSUME IInv, NEW c \in Calls, wire[c].bears \in Calls \cup {None}, Reach(c)
  PROVE  /\ UNCHANGED <<tokens, grants, password, lock, failures, jar>>
         /\ call' \in [Calls -> Call]
         /\ call[c].at = "idle"
         /\ call'[c].at \in {"issue", "rotate", "reuse", "logout", "supersede",
                             "reset", "done"}
         /\ call'[c].kind = wire[c].kind
         /\ \A d \in Calls : d # c => call'[d] = call[d]
         /\ wire[c].kind \in {"refresh", "logout"} => call'[c].presented = wire[c].bears
         /\ call'[c].at \in {"rotate", "reuse"} => wire[c].kind = "refresh"
         /\ call'[c].at \in {"rotate", "reuse", "logout"} =>
              call'[c].presented \in Calls /\ Exists(call'[c].presented)
         /\ call'[c].at = "reuse" => Replayed(call'[c].presented)
         /\ call'[c].at = "issue" => wire[c].kind = "login"
         /\ call'[c].at = "reset" => wire[c].kind = "reset"
         /\ call'[c].at = "logout" => wire[c].kind = "logout"
         /\ wire[c].kind = "logout" =>
              /\ call'[c].at \in {"logout", "done"}
              /\ call'[c].at = "done" => wire[c].bears = None \/ ~Live(wire[c].bears)
<1> PICK r \in Calls \cup {None} : r = wire[c].bears
  OBVIOUS
<1> PICK kind \in AllCallKinds : kind = wire[c].kind
  BY CallKindsAssumption DEF Reach, Receive, Begin
<1>1. Receive(c, kind, r) /\ UNCHANGED <<tokens, grants, password, lock, failures, jar>>
  BY DEF Reach
<1>2. \E next \in {"issue", "rotate", "reuse", "logout", "supersede", "reset", "done"},
         presented \in {r, None} :
        /\ Begin(c, kind, next, presented)
        /\ kind \in {"refresh", "logout"} => presented = r
        /\ next \in {"rotate", "reuse"} => kind = "refresh" /\ r # None
        /\ next = "rotate" => Live(r)
        /\ next = "reuse" => Replayed(r)
        /\ next = "issue" => kind = "login"
        /\ next = "reset" => kind = "reset"
        /\ next = "logout" => kind = "logout" /\ r # None /\ Live(r)
        /\ kind = "logout" => next \in {"logout", "done"}
        /\ kind = "logout" /\ next = "done" => r = None \/ ~Live(r)
  <2>1. CASE kind = "login"
    BY <1>1, <2>1 DEF Receive, Refused
  <2>2. CASE kind = "refresh"
    BY <1>1, <2>2 DEF Receive, Refused
  <2>3. CASE kind = "logout"
    BY <1>1, <2>3 DEF Receive, Refused
  <2>4. CASE kind = "forgot"
    BY <1>1, <2>4 DEF Receive, Refused
  <2>5. CASE kind = "reset"
    BY <1>1, <2>5 DEF Receive, Refused
  <2>6. QED BY <2>1, <2>2, <2>3, <2>4, <2>5 DEF AllCallKinds
<1>3. PICK next \in {"issue", "rotate", "reuse", "logout", "supersede", "reset", "done"},
           presented \in {r, None} :
        /\ Begin(c, kind, next, presented)
        /\ kind \in {"refresh", "logout"} => presented = r
        /\ next \in {"rotate", "reuse"} => kind = "refresh" /\ r # None
        /\ next = "rotate" => Live(r)
        /\ next = "reuse" => Replayed(r)
        /\ next = "issue" => kind = "login"
        /\ next = "reset" => kind = "reset"
        /\ next = "logout" => kind = "logout" /\ r # None /\ Live(r)
        /\ kind = "logout" => next \in {"logout", "done"}
        /\ kind = "logout" /\ next = "done" => r = None \/ ~Live(r)
  BY <1>2
<1>4. next \in CallSteps /\ presented \in Calls \cup {None}
  BY DEF CallSteps
<1>5. /\ call' \in [Calls -> Call] /\ call[c].at = "idle"
      /\ call'[c].at = next /\ call'[c].kind = kind /\ call'[c].presented = presented
      /\ \A d \in Calls : d # c => call'[d] = call[d]
  BY <1>3, <1>4, BeginType DEF IInv
<1>6. next \in {"rotate", "reuse", "logout"} => presented = r /\ r \in Calls /\ Exists(r)
  BY <1>3 DEF Live, Replayed, Exists
<1>7. QED BY <1>1, <1>3, <1>5, <1>6

LEMMA ReachIInv ==
  ASSUME IInv, NEW c \in Calls, wire[c].bears \in Calls \cup {None}, Reach(c)
  PROVE  IInv'
<1>1. TypeOK'
  BY ReachFacts DEF IInv, TypeOK
<1>2. RowInv' /\ LineageInv'
  BY ReachFacts, MovesKeep DEF IInv
<1>3. QED BY <1>1, <1>2 DEF IInv

LEMMA LoseIInv ==
  ASSUME IInv, NEW c \in Calls, Lose(c) PROVE IInv'
<1>1. failures' \in 0..MaxFailures /\ UNCHANGED <<tokens, grants, password, lock, call>>
  BY MaxFailuresAssumption DEF Lose, IInv, TypeOK
<1>2. QED
  BY <1>1 DEF IInv, TypeOK, RowInv, PresentedInv, LockInv, CommitInv, BirthInv,
              LineageInv, FamilyInv, SpentInv, OneSuccessor, OneLive, Exists, Live

-----------------------------------------------------------------------------
(* The browser: what its requests carry, and what is left of a family.      *)

\* A cookie and a request name rows that exist.
WireOK ==
  /\ wire \in [Calls -> Request]
  /\ jar \in Calls \cup {None}
  /\ jar # None => Exists(jar)

\* A logout under way is about to revoke its token; one that is through, or
\* was, has left it dead.
LogoutOf(c) ==
  wire[c].kind = "logout" =>
    /\ wire[c].bears # None => Exists(wire[c].bears)
    /\ wire[c].is = "received" =>
         /\ call[c].at \in {"logout", "done"}
         /\ call[c].presented = wire[c].bears
         /\ call[c].at = "done" => wire[c].bears = None \/ ~Live(wire[c].bears)
    /\ wire[c].is = "accepted" => wire[c].bears = None \/ ~Live(wire[c].bears)

LogoutInv == \A c \in Calls : LogoutOf(c)

Renewed(t) ==
  \E d \in Calls : /\ call[d].at # "idle" /\ call[d].kind = "refresh"
                   /\ call[d].presented = t

\* Only the token issued last is live: the ones before it were presented.
LastInv ==
  \A t, u \in Calls :
    /\ Exists(t) /\ Live(u) /\ t # u
    /\ tokens[t].family = tokens[u].family
    => Renewed(t)

BInv == IInv /\ TabsInv /\ WireOK /\ LogoutInv /\ LastInv

\* A row never comes to life, and never goes.
Ages ==
  \A t \in Calls :
    Exists(t) => /\ tokens'[t].state # "none"
                 /\ tokens'[t].family = tokens[t].family
                 /\ tokens'[t].state = "live" => tokens[t].state = "live"

\* A call keeps its kind and its token.
Remembers ==
  \A d \in Calls :
    call[d].at # "idle" => /\ call'[d].at # "idle"
                           /\ call'[d].kind = call[d].kind
                           /\ call'[d].presented = call[d].presented

NoneIssued == \A t \in Calls : tokens'[t].state # "none" => Exists(t)

LEMMA BeginAges ==
  ASSUME IInv, NEW c \in Calls, CallBegins(c)
  PROVE  Ages /\ Remembers /\ UNCHANGED tokens /\ (\A d \in Calls : d # c => call'[d] = call[d])
<1>1. UNCHANGED tokens
  BY DEF CallBegins, BeginLogin, BeginRefresh, BeginLogout, BeginForgot, BeginReset
<1>2. \E kind, next, presented : Begin(c, kind, next, presented)
  BY DEF CallBegins, BeginLogin, BeginRefresh, BeginLogout, BeginForgot, BeginReset
<1>3. call[c].at = "idle" /\ \A d \in Calls : d # c => call'[d] = call[d]
  BY <1>2 DEF Begin, IInv, TypeOK
<1>4. QED BY <1>1, <1>3 DEF Ages, Remembers, Exists

\* What one step of a call under way does to the rows and to itself.
LEMMA ContinueAges ==
  ASSUME IInv, NEW c \in Calls, CallContinues(c)
  PROVE  /\ Ages /\ Remembers
         /\ call[c].at \notin {"idle", "done"}
         /\ \A d \in Calls : d # c => call'[d] = call[d]
         /\ NoneIssued \/ IssueSession(c) \/ CommitRotation(c)
<1>1. /\ call[c].at \notin {"idle", "done"}
      /\ call'[c].at # "idle"
      /\ call'[c].kind = call[c].kind /\ call'[c].presented = call[c].presented
      /\ \A d \in Calls : d # c => call'[d] = call[d]
  <2>1. CASE SeeFamily(c) \/ SeeSessions(c)
    <3>1. \E rows \in SUBSET Calls :
             \/ See(c, "reuse", "sweep", rows)
             \/ See(c, "snapshot", "revokeall", rows)
      BY <2>1 DEF SeeFamily, SeeSessions, Family
    <3>2. \E rows \in SUBSET Calls, from \in {"reuse", "snapshot"},
             next \in {"sweep", "revokeall"} : See(c, from, next, rows)
      BY <3>1
    <3>3. PICK rows \in SUBSET Calls, from \in {"reuse", "snapshot"},
               next \in {"sweep", "revokeall"} : See(c, from, next, rows)
      BY <3>2
    <3>4. next \in CallSteps /\ call[c].at = from
      BY <3>3 DEF See, CallSteps
    <3>5. QED BY <3>3, <3>4, SeeType DEF IInv
  <2>2. CASE ~(SeeFamily(c) \/ SeeSessions(c))
    <3>1. call[c].at \notin {"idle", "done"}
          /\ \E next \in CallSteps \ {"idle"} : Goto(c, next)
      BY <2>2 DEF CallContinues, IssueSession, Spend, SpendRefused, AfterRefusal,
           CommitRotation, RevokeFamily, RevokePresented, Supersede, IssueGrant, EnterReset,
           RevokeAll, CommitReset, CallSteps
    <3>2. QED BY <3>1, GotoFields DEF IInv
  <2>3. QED BY <2>1, <2>2
<1>2. Remembers
  BY <1>1 DEF Remembers
<1>3. Ages /\ (NoneIssued \/ IssueSession(c) \/ CommitRotation(c))
  <2>1. CASE IssueSession(c)
    <3>1. ~Exists(c)
      BY <2>1 DEF IssueSession, IInv, RowInv, BirthInv
    <3>2. \A t \in Calls : t # c => tokens'[t] = tokens[t]
      BY <2>1 DEF IssueSession, IInv, TypeOK
    <3>3. QED BY <2>1, <3>1, <3>2 DEF Ages, Exists
  <2>2. CASE CommitRotation(c)
    <3>1. PICK p \in Calls : p = call[c].presented
      BY <2>2, RotationFacts DEF IInv
    <3>2. /\ ~Exists(c) /\ Live(p)
          /\ tokens'[p].state = "revoked" /\ tokens'[p].family = tokens[p].family
          /\ \A t \in Calls : t # c /\ t # p => tokens'[t] = tokens[t]
      BY <2>2, <3>1, RotationFacts DEF IInv
    <3>3. QED BY <2>2, <3>2 DEF Ages, Exists, Live
  <2>3. CASE RevokeFamily(c) \/ RevokePresented(c) \/ CommitReset(c)
    <3>1. \E rows \in SUBSET Calls :
             (\A t \in rows : Exists(t)) /\ tokens' = AfterRevoking(rows)
      <4>1. CASE RevokeFamily(c)
        BY <4>1, StillLiveType DEF RevokeFamily, IInv
      <4>2. CASE RevokePresented(c)
        <5>1. call[c].presented \in Calls /\ Exists(call[c].presented)
          BY <4>2 DEF RevokePresented, IInv, RowInv, PresentedInv
        <5>2. tokens' = AfterRevoking({call[c].presented})
          BY <4>2, <5>1 DEF RevokePresented, AfterRevoking, IInv, TypeOK
        <5>3. QED BY <5>1, <5>2
      <4>3. CASE CommitReset(c)
        BY <4>3, NoneAssumption DEF CommitReset, HeldBy, IInv, RowInv, LockInv, Exists, Live
      <4>4. QED BY <2>3, <4>1, <4>2, <4>3
    <3>2. PICK rows \in SUBSET Calls :
             (\A t \in rows : Exists(t)) /\ tokens' = AfterRevoking(rows)
      BY <3>1
    <3>3. \A t \in Calls :
            /\ tokens'[t].family = tokens[t].family
            /\ t \in rows => tokens[t].state # "none" /\ tokens'[t].state = "revoked"
            /\ t \notin rows => tokens'[t].state = tokens[t].state
      BY <3>2, AfterRevokingRows DEF IInv
    <3>4. QED BY <3>3 DEF Ages, NoneIssued, Exists
  <2>4. CASE UNCHANGED tokens
    BY <2>4 DEF Ages, NoneIssued, Exists
  <2>5. QED
    BY <2>1, <2>2, <2>3, <2>4
    DEF CallContinues, Spend, SpendRefused, SeeFamily, Supersede, IssueGrant,
        EnterReset, SeeSessions, RevokeAll, See
<1>4. QED BY <1>1, <1>2, <1>3

\* Rows that only age leave a family's last token the last one.
LEMMA AgingLast ==
  ASSUME LastInv, Ages, NoneIssued, Remembers PROVE LastInv'
<1> SUFFICES ASSUME NEW t \in Calls, NEW u \in Calls, t # u,
                    Exists(t)', Live(u)', tokens'[t].family = tokens'[u].family
             PROVE  Renewed(t)'
  BY DEF LastInv
<1>1. Exists(t) /\ Live(u) /\ tokens[t].family = tokens[u].family
  BY DEF Ages, NoneIssued, Exists, Live
<1>2. PICK d \in Calls : /\ call[d].at # "idle" /\ call[d].kind = "refresh"
                         /\ call[d].presented = t
  BY <1>1 DEF LastInv, Renewed
<1>3. QED BY <1>2 DEF Remembers, Renewed

\* A login begins a family of its own; a successor follows a token that was
\* the last of its family, and that it has presented.
LEMMA ContinueLast ==
  ASSUME IInv, IInv', LastInv, NEW c \in Calls, CallContinues(c) PROVE LastInv'
<1>1. Ages /\ Remembers
  BY ContinueAges
<1>2. CASE NoneIssued
  BY <1>1, <1>2, AgingLast
<1>3. CASE IssueSession(c) \/ CommitRotation(c)
  <2> SUFFICES ASSUME NEW t \in Calls, NEW u \in Calls, t # u,
                      Exists(t)', Live(u)', tokens'[t].family = tokens'[u].family
               PROVE  Renewed(t)'
    BY DEF LastInv
  <2>1. CASE IssueSession(c)
    <3>1. /\ ~Exists(c) /\ tokens'[c].family = c
          /\ \A v \in Calls : v # c => tokens'[v] = tokens[v]
      BY <2>1 DEF IssueSession, IInv, TypeOK, RowInv, BirthInv
    <3>2. \A v \in Calls : Exists(v) => tokens[v].family # c
      BY <3>1 DEF IInv, LineageInv, FamilyInv
    <3>3. t # c /\ u # c
      BY <3>1, <3>2 DEF Exists, Live
    <3>4. Exists(t) /\ Live(u) /\ tokens[t].family = tokens[u].family
      BY <3>1, <3>3 DEF Exists, Live
    <3>5. PICK d \in Calls : /\ call[d].at # "idle" /\ call[d].kind = "refresh"
                             /\ call[d].presented = t
      BY <3>4 DEF LastInv, Renewed
    <3>6. QED BY <1>1, <3>5 DEF Remembers, Renewed
  <2>2. CASE CommitRotation(c)
    <3>1. PICK p \in Calls : p = call[c].presented
      BY <2>2, RotationFacts DEF IInv
    <3>2. /\ ~Exists(c) /\ Live(p) /\ call[c].kind = "refresh" /\ call[c].at = "commit"
          /\ tokens'[c].state = "live" /\ tokens'[c].family = tokens[p].family
          /\ tokens'[p].state = "revoked" /\ tokens'[p].family = tokens[p].family
          /\ \A v \in Calls : v # c /\ v # p => tokens'[v] = tokens[v]
      BY <2>2, <3>1, RotationFacts DEF IInv
    <3>3. t # c
      BY <3>2 DEF IInv, LineageInv, OneLive, Live
    <3>4. CASE t = p
      BY <1>1, <3>1, <3>2, <3>4 DEF Remembers, Renewed
    <3>5. CASE t # p
      <4>1. PICK v \in Calls : /\ Exists(t) /\ Live(v) /\ t # v
                               /\ tokens[t].family = tokens[v].family
        BY <3>2, <3>3, <3>5 DEF Exists, Live
      <4>2. PICK d \in Calls : /\ call[d].at # "idle" /\ call[d].kind = "refresh"
                               /\ call[d].presented = t
        BY <4>1 DEF LastInv, Renewed
      <4>3. QED BY <1>1, <4>2 DEF Remembers, Renewed
    <3>6. QED BY <3>4, <3>5
  <2>3. QED BY <1>3, <2>1, <2>2
<1>4. QED BY <1>2, <1>3, ContinueAges

-----------------------------------------------------------------------------
(* The browser: every step keeps what its requests carry.                   *)

\* A step of the server that leaves the requests of the tabs alone.
LEMMA ServerLogout ==
  ASSUME WireOK, LogoutInv, Ages, NEW c \in Calls,
         UNCHANGED wire,
         \A d \in Calls : d # c => call'[d] = call[d],
         wire[c].kind = "logout" /\ wire[c].is = "received" => LogoutOf(c)'
  PROVE  LogoutInv'
<1> SUFFICES ASSUME NEW d \in Calls, wire[d].kind = "logout" PROVE LogoutOf(d)'
  BY DEF LogoutInv, LogoutOf
<1> PICK r \in Calls \cup {None} : r = wire[d].bears
  BY DEF WireOK, Request
<1>1. LogoutOf(d)
  BY DEF LogoutInv
<1>2. r # None => Exists(r)
  BY <1>1 DEF LogoutOf
<1>3. (r # None => Exists(r)') /\ (r = None \/ ~Live(r) => r = None \/ ~Live(r)')
  BY <1>2 DEF Ages, Exists, Live
<1>4. CASE d = c /\ wire[d].is = "received"
  BY <1>4
<1>5. CASE d # c \/ wire[d].is # "received"
  BY <1>1, <1>3, <1>5 DEF LogoutOf
<1>6. QED BY <1>4, <1>5

\* The same of the cookie.
LEMMA ServerWire ==
  ASSUME WireOK, Ages, UNCHANGED <<jar, wire>> PROVE WireOK'
BY DEF WireOK, Ages, Exists

LEMMA ContinueBInv ==
  ASSUME BInv, NEW c \in Calls, ServerGoesOn(c) PROVE BInv'
<1>1. CallContinues(c) /\ UNCHANGED <<jar, wire>>
  BY DEF ServerGoesOn
<1>2. IInv /\ TabsInv /\ WireOK /\ LogoutInv /\ LastInv
  BY DEF BInv
<1>3. IInv' /\ TabsInv'
  BY <1>1, <1>2, NextIInv, CallContinuesTabs DEF Next
<1>4. /\ Ages /\ call[c].at \notin {"idle", "done"}
      /\ \A d \in Calls : d # c => call'[d] = call[d]
  BY <1>1, <1>2, ContinueAges
<1>5. WireOK' /\ LastInv'
  BY <1>1, <1>2, <1>3, <1>4, ServerWire, ContinueLast
<1>6. ASSUME wire[c].kind = "logout", wire[c].is = "received" PROVE LogoutOf(c)'
  <2> PICK r \in Calls \cup {None} : r = wire[c].bears
    BY <1>2 DEF WireOK, Request
  <2>1. call[c].at = "logout" /\ call[c].presented = r /\ (r # None => Exists(r))
    BY <1>2, <1>4, <1>6 DEF LogoutInv, LogoutOf
  <2>2. RevokePresented(c) /\ r \in Calls
    BY <1>1, <1>2, <2>1
    DEF CallContinues, IssueSession, Spend, SpendRefused, CommitRotation, SeeFamily,
        RevokeFamily, Supersede, IssueGrant, EnterReset, SeeSessions, RevokeAll, CommitReset,
        See, IInv, RowInv, PresentedInv
  <2>3. call'[c].at = "done" /\ call'[c].presented = r
    BY <1>2, <2>1, <2>2, GotoFields DEF RevokePresented, IInv, CallSteps
  <2>4. tokens'[r].state = "revoked"
    <3>1. tokens' = [tokens EXCEPT ![r] = Revoked(r)]
      BY <2>1, <2>2 DEF RevokePresented
    <3>2. QED BY NoneAssumption, <1>2, <2>1, <2>2, <3>1, RevokedType DEF IInv, TypeOK
  <2>5. Exists(r)' /\ ~Live(r)'
    BY <2>4 DEF Exists, Live
  <2>6. wire'[c].bears = r /\ wire'[c].is = "received"
    BY <1>1, <1>6
  <2>7. QED BY <2>3, <2>5, <2>6 DEF LogoutOf
<1>7. LogoutInv'
  BY <1>1, <1>2, <1>4, <1>6, ServerLogout
<1>8. QED BY <1>3, <1>5, <1>7 DEF BInv

\* A call that began elsewhere, and one past its leeway.
LEMMA OutsideBInv ==
  ASSUME BInv, Outside PROVE BInv'
<1> PICK c \in Calls : c = NewCall /\ c \in Unused
  BY DEF Outside, NewCall, Unused
<1>1. CallBegins(c) /\ UNCHANGED <<jar, wire>>
  BY DEF Outside
<1>2. IInv /\ TabsInv /\ WireOK /\ LogoutInv /\ LastInv
  BY DEF BInv
<1>3. IInv' /\ TabsInv'
  BY <1>1, <1>2, NextIInv, CallBeginsTabs DEF Next
<1>4. Ages /\ Remembers /\ NoneIssued /\ \A d \in Calls : d # c => call'[d] = call[d]
  BY <1>1, <1>2, BeginAges DEF NoneIssued, Exists
<1>5. wire[c].is = "unsent"
  BY DEF Unused
<1>6. LogoutInv'
  BY <1>1, <1>2, <1>4, <1>5, ServerLogout
<1>7. QED BY <1>1, <1>2, <1>3, <1>4, <1>6, ServerWire, AgingLast DEF BInv

LEMMA LeewayBInv ==
  ASSUME BInv, NEW t \in Calls, LeewayPasses(t), UNCHANGED <<jar, wire>> PROVE BInv'
<1>1. IInv /\ TabsInv /\ WireOK /\ LogoutInv /\ LastInv
  BY DEF BInv
<1>2. IInv' /\ TabsInv'
  BY <1>1, NextIInv, OtherStepsTabs DEF Next
<1>3. /\ \A u \in Calls : /\ tokens'[u].state = tokens[u].state
                          /\ tokens'[u].family = tokens[u].family
      /\ UNCHANGED call
  BY <1>1 DEF LeewayPasses, IInv, TypeOK, Token
<1>4. Ages /\ Remembers /\ NoneIssued
  BY <1>3 DEF Ages, Remembers, NoneIssued, Exists
<1>5. (\A c \in Calls : LogoutOf(c)) /\ UNCHANGED <<wire, call>>
  BY <1>1, <1>3 DEF LogoutInv
<1>6. LogoutInv'
  <2> SUFFICES ASSUME NEW c \in Calls, wire[c].kind = "logout" PROVE LogoutOf(c)'
    BY DEF LogoutInv, LogoutOf
  <2> PICK r \in Calls \cup {None} : r = wire[c].bears
    BY <1>1 DEF WireOK, Request
  <2>1. r # None => (Exists(r)' <=> Exists(r)) /\ (Live(r)' <=> Live(r))
    BY <1>3 DEF Exists, Live
  <2>2. LogoutOf(c)
    BY <1>5
  <2>3. QED BY <1>5, <2>1, <2>2 DEF LogoutOf
<1>7. QED BY <1>1, <1>2, <1>4, <1>6, ServerWire, AgingLast DEF BInv

\* A request reaches the server; with it, it may be refused at once.
LEMMA ReachBInv ==
  ASSUME BInv, NEW c \in Calls, Reach(c) PROVE BInv'
<1>1. IInv /\ TabsInv /\ WireOK /\ LogoutInv /\ LastInv
  BY DEF BInv
<1> PICK r \in Calls \cup {None} : r = wire[c].bears
  BY <1>1 DEF WireOK, Request
<1>2. /\ UNCHANGED <<tokens, jar>>
      /\ call[c].at = "idle" /\ call'[c].kind = wire[c].kind
      /\ \A d \in Calls : d # c => call'[d] = call[d]
  BY <1>1, ReachFacts
<1>3. IInv'
  BY <1>1, ReachIInv
<1>4. TabsInv'
  <2>1. call[c].kind = "none"
    BY <1>1, <1>2 DEF TabsInv, KindInv, KindOf
  <2>2. KindOf(c)'
    BY <1>1, ReachFacts DEF KindOf
  <2>3. call'[c].at \in {"reuse", "sweep"} => ~Peaceful
    <3>1. ASSUME call'[c].at \in {"reuse", "sweep"}
          PROVE  call'[c].presented \in Calls /\ Replayed(call'[c].presented)
      BY <1>1, <3>1, ReachFacts
    <3>2. QED BY <3>1 DEF Replayed, Peaceful
  <2>4. QED BY <1>1, <1>2, <2>1, <2>2, <2>3, RowsAloneTabs
<1>5. Ages /\ Remembers /\ NoneIssued
  BY <1>2 DEF Ages, Remembers, NoneIssued, Exists
<1>6. \E is \in {"refused", "received"} : wire' = [wire EXCEPT ![c].is = is]
  BY DEF Reach
<1>7. PICK is \in {"refused", "received"} : wire' = [wire EXCEPT ![c].is = is]
  BY <1>6
<1> PICK v : v = [wire[c] EXCEPT !.is = is]
  OBVIOUS
<1>8. /\ v \in Request /\ v.kind = wire[c].kind /\ v.bears = r /\ v.is = is
      /\ wire' = [wire EXCEPT ![c] = v]
  <2>1. wire[c] \in Request
    BY <1>1 DEF WireOK
  <2>2. v \in Request /\ v.kind = wire[c].kind /\ v.bears = r /\ v.is = is
    BY <2>1 DEF Request
  <2>3. QED BY <1>7, <2>2
<1>9. /\ wire' \in [Calls -> Request] /\ wire'[c] = v
      /\ \A d \in Calls : d # c => wire'[d] = wire[d]
  BY <1>1, <1>8 DEF WireOK
<1>10. WireOK'
  BY <1>1, <1>2, <1>9 DEF WireOK, Exists
<1>11. LogoutInv'
  <2> SUFFICES ASSUME NEW d \in Calls PROVE LogoutOf(d)'
    BY DEF LogoutInv
  <2>1. LogoutOf(d)
    BY <1>1 DEF LogoutInv
  <2>2. CASE d # c
    BY <1>2, <1>9, <2>1, <2>2 DEF LogoutOf, Exists, Live
  <2>3. CASE d = c
    <3> SUFFICES ASSUME wire[c].kind = "logout" PROVE LogoutOf(c)'
      BY <1>8, <1>9, <2>3 DEF LogoutOf
    <3>1. r # None => Exists(r)
      BY <2>1, <2>3 DEF LogoutOf
    <3>2. /\ call'[c].at \in {"logout", "done"} /\ call'[c].presented = r
          /\ call'[c].at = "done" => r = None \/ ~Live(r)
      BY <1>1, ReachFacts
    <3>3. Exists(r)' = Exists(r) /\ Live(r)' = Live(r)
      BY <1>2 DEF Exists, Live
    <3>4. QED BY <1>8, <1>9, <3>1, <3>2, <3>3 DEF LogoutOf
  <2>4. QED BY <2>2, <2>3
<1>12. QED BY <1>1, <1>3, <1>4, <1>5, <1>10, <1>11, AgingLast DEF BInv

\* The requests of the tabs, where a step moves one on and leaves the server.
LEMMA AnswerLogout ==
  ASSUME WireOK, LogoutInv, UNCHANGED tokens,
         \A d \in Calls :
           /\ wire'[d].kind = wire[d].kind /\ wire'[d].bears = wire[d].bears
           /\ wire'[d].is = "received" => /\ wire[d].is = "received"
                                          /\ call'[d] = call[d]
           /\ wire'[d].is = "accepted" =>
                \/ wire[d].is = "accepted"
                \/ wire[d].is = "received" /\ call[d].at = "done"
  PROVE  LogoutInv'
<1> SUFFICES ASSUME NEW d \in Calls, wire[d].kind = "logout" PROVE LogoutOf(d)'
  BY DEF LogoutInv, LogoutOf
<1> PICK r \in Calls \cup {None} : r = wire[d].bears
  BY DEF WireOK, Request
<1>1. LogoutOf(d)
  BY DEF LogoutInv
<1>2. (Exists(r)' <=> Exists(r)) /\ (Live(r)' <=> Live(r))
  BY DEF Exists, Live
<1>3. r # None => Exists(r)
  BY <1>1 DEF LogoutOf
<1>4. wire'[d].is = "received" =>
        /\ call'[d].at \in {"logout", "done"}
        /\ call'[d].presented = r
        /\ call'[d].at = "done" => r = None \/ ~Live(r)
  BY <1>1 DEF LogoutOf
<1>5. wire'[d].is = "accepted" => r = None \/ ~Live(r)
  BY <1>1 DEF LogoutOf
<1>6. QED BY <1>2, <1>3, <1>4, <1>5 DEF LogoutOf

\* A call cut off is answered with an error, or broke no request of a tab.
LEMMA FailBInv ==
  ASSUME BInv, NEW c \in Calls, Fail(c) PROVE BInv'
<1>1. IInv /\ TabsInv /\ WireOK /\ LogoutInv /\ LastInv
  BY DEF BInv
<1>2. CutOff(c) /\ UNCHANGED <<tokens, jar>>
  BY DEF Fail, CutOff
<1>3. IInv' /\ TabsInv'
  BY <1>1, <1>2, NextIInv, OtherStepsTabs DEF Next
<1>4. /\ call[c].at # "idle" /\ call'[c].at = "done" /\ call'[c].kind = call[c].kind
      /\ call'[c].presented = call[c].presented
      /\ \A d \in Calls : d # c => call'[d] = call[d]
  BY <1>1, <1>2, GotoFields DEF CutOff, Working, IInv, CallSteps
<1>5. Ages /\ Remembers /\ NoneIssued
  BY <1>2, <1>4 DEF Ages, Remembers, NoneIssued, Exists
<1>6. PICK is : /\ is = IF wire[c].is = "received" THEN "refused" ELSE wire[c].is
                /\ wire' = [wire EXCEPT ![c].is = is]
  BY DEF Fail
<1> PICK v : v = [wire[c] EXCEPT !.is = is]
  OBVIOUS
<1>7. /\ v \in Request /\ v.kind = wire[c].kind /\ v.bears = wire[c].bears /\ v.is = is
      /\ wire' = [wire EXCEPT ![c] = v]
  <2>1. wire[c] \in Request
    BY <1>1 DEF WireOK
  <2>2. /\ v \in Request /\ v.kind = wire[c].kind /\ v.bears = wire[c].bears
        /\ v.is = is
    BY <1>6, <2>1 DEF Request
  <2>3. QED BY <1>6, <2>2
<1>8. /\ wire' \in [Calls -> Request] /\ wire'[c] = v
      /\ \A d \in Calls : d # c => wire'[d] = wire[d]
  BY <1>1, <1>7 DEF WireOK
<1>9. WireOK'
  BY <1>1, <1>2, <1>8 DEF WireOK, Exists
<1>10. is # "received" /\ (is = "accepted" => wire[c].is = "accepted")
  BY <1>6
<1>11. LogoutInv'
  BY <1>1, <1>2, <1>4, <1>7, <1>8, <1>10, AnswerLogout
<1>12. QED BY <1>1, <1>3, <1>5, <1>9, <1>11, AgingLast DEF BInv

\* A step of a tab leaves the server and the cookie alone.
LEMMA QuietBInv ==
  ASSUME BInv, IInv', UNCHANGED <<tokens, call>>, WireOK', LogoutInv' PROVE BInv'
<1>1. TabsInv' /\ LastInv'
  BY DEF BInv, TabsInv, KindInv, KindOf, Peaceful, NoReplay, SessionsLive, Family,
         LastInv, Renewed, Exists, Live
<1>2. QED BY <1>1 DEF BInv

LEMMA ServerIdle ==
  ASSUME IInv, UNCHANGED server PROVE IInv'
BY StutterIInv DEF server, vars

\* The requests move on: answered, lost, abandoned or left as they were.
LEMMA WireMoves ==
  ASSUME WireOK, UNCHANGED tokens,
         jar' \in Calls \cup {None}, jar' # None => Exists(jar'),
         NEW c \in Calls, NEW v \in Request,
         wire' = [wire EXCEPT ![c] = v]
  PROVE  /\ WireOK' /\ wire'[c] = v
         /\ \A d \in Calls : d # c => wire'[d] = wire[d]
BY DEF WireOK, Exists

LEMMA ArriveBInv ==
  ASSUME BInv, NEW c \in Calls, Arrive(c) PROVE BInv'
<1>1. IInv /\ WireOK /\ LogoutInv /\ UNCHANGED <<tokens, call>>
  BY DEF BInv, Arrive, server
<1>2. IInv'
  BY <1>1, ServerIdle DEF Arrive
<1>3. /\ jar' = JarAfter(c) /\ Answered(c)
      /\ wire' = [wire EXCEPT ![c].is = IF Succeeded(c) THEN "accepted" ELSE "rejected"]
  BY DEF Arrive
<1>4. jar' \in Calls \cup {None} /\ (jar' # None => Exists(jar'))
  BY <1>1, <1>3 DEF JarAfter, Succeeded, WireOK
<1>5. PICK is : /\ is = (IF Succeeded(c) THEN "accepted" ELSE "rejected")
                /\ wire' = [wire EXCEPT ![c].is = is]
  BY <1>3
<1> PICK v : v = [wire[c] EXCEPT !.is = is]
  OBVIOUS
<1>6. /\ v \in Request /\ v.kind = wire[c].kind /\ v.bears = wire[c].bears /\ v.is = is
      /\ wire' = [wire EXCEPT ![c] = v]
  <2>1. wire[c] \in Request
    BY <1>1 DEF WireOK
  <2>2. /\ v \in Request /\ v.kind = wire[c].kind /\ v.bears = wire[c].bears
        /\ v.is = is
    BY <1>5, <2>1 DEF Request
  <2>3. QED BY <1>5, <2>2
<1>7. WireOK' /\ wire'[c] = v /\ \A d \in Calls : d # c => wire'[d] = wire[d]
  BY <1>1, <1>4, <1>6, WireMoves
<1>8. is # "received"
      /\ (is = "accepted" => wire[c].is = "received" /\ call[c].at = "done")
  BY <1>3, <1>5 DEF Succeeded, Answered
<1>9. LogoutInv'
  BY <1>1, <1>6, <1>7, <1>8, AnswerLogout
<1>10. QED BY <1>1, <1>2, <1>7, <1>9, QuietBInv

LEMMA LoseBInv ==
  ASSUME BInv, NEW c \in Calls, Lose(c) PROVE BInv'
<1>1. IInv /\ WireOK /\ LogoutInv /\ UNCHANGED <<tokens, call, jar>>
  BY DEF BInv, Lose
<1>2. IInv'
  BY <1>1, LoseIInv
<1> PICK v : v = [wire[c] EXCEPT !.is = "rejected"]
  OBVIOUS
<1>3. /\ v \in Request /\ v.kind = wire[c].kind /\ v.bears = wire[c].bears
      /\ v.is = "rejected" /\ wire' = [wire EXCEPT ![c] = v]
  <2>1. wire[c] \in Request
    BY <1>1 DEF WireOK
  <2>2. /\ v \in Request /\ v.kind = wire[c].kind /\ v.bears = wire[c].bears
        /\ v.is = "rejected"
    BY <2>1 DEF Request
  <2>3. wire' = [wire EXCEPT ![c].is = "rejected"]
    BY DEF Lose
  <2>4. QED BY <2>2, <2>3
<1>4. WireOK' /\ wire'[c] = v /\ \A d \in Calls : d # c => wire'[d] = wire[d]
  BY <1>1, <1>3, WireMoves DEF WireOK
<1>5. LogoutInv'
  BY <1>1, <1>3, <1>4, AnswerLogout
<1>6. QED BY <1>1, <1>2, <1>4, <1>5, QuietBInv

\* Only a tab that knows who is signed in, or that a cookie lets hope, renews.
Sends(b, kind, bears) ==
  /\ Send(b, kind, bears)
  /\ kind \in {"logout", "refresh"} => bears = jar
  /\ kind = "refresh" => jar # None \/ tab[b].user # "unknown" \/ tab[b].stale

\* What a tab does to the requests: nothing, abandon its own, or send one.
LEMMA TabMovesFacts ==
  ASSUME NEW b \in Tabs, TabMoves(b)
  PROVE  /\ UNCHANGED <<server, jar>>
         /\ \/ UNCHANGED wire
            \/ \E p \in Pages[b] : Visit(b, p)
            \/ \E kind \in AllCallKinds, bears \in Calls \cup {None, jar} : Sends(b, kind, bears)
<1>1. CASE \E p \in Pages[b] : Visit(b, p)
  BY <1>1 DEF Visit
<1>2. CASE \/ \E p \in Pages[b] : Follow(b, p)
           \/ TurnAway(b) \/ AccessTokenExpires(b) \/ RegisterNext(b) \/ RegisterBack(b)
           \/ PreviewInvitation(b) \/ CooldownEnds(b)
  BY <1>2 DEF Follow, TurnAway, AccessTokenExpires, RegisterNext, RegisterBack,
              PreviewInvitation, CooldownEnds
<1>3. CASE Restore(b) \/ StartRead(b) \/ ReadUnauthorized(b)
  BY <1>3 DEF Restore, StartRead, ReadUnauthorized, Renew, Status, SignedInFlag, Sends,
              AllCallKinds
<1>4. CASE SignOut(b)
  BY <1>4 DEF SignOut, Sends, AllCallKinds
<1>5. CASE SubmitLogin(b) \/ SubmitRegister(b) \/ SubmitInvite(b) \/ SubmitForgot(b)
  BY <1>5 DEF SubmitLogin, SubmitRegister, SubmitInvite, SubmitForgot, Sends,
              AllCallKinds
<1>6. CASE SubmitReset(b)
  BY <1>6 DEF SubmitReset, Sends, AllCallKinds
<1>7. QED BY <1>1, <1>2, <1>3, <1>4, <1>5, <1>6 DEF TabMoves

LEMMA TabMovesBInv ==
  ASSUME BInv, NEW b \in Tabs, TabMoves(b) PROVE BInv'
<1>1. IInv /\ WireOK /\ LogoutInv /\ UNCHANGED <<tokens, call, jar>>
  BY TabMovesFacts DEF BInv, server
<1>2. IInv'
  BY <1>1, TabMovesFacts, ServerIdle
<1>3. CASE UNCHANGED wire
  <2>1. WireOK'
    BY <1>1, <1>3 DEF WireOK, Exists
  <2>2. LogoutInv'
    BY <1>1, <1>3 DEF LogoutInv, LogoutOf, Exists, Live
  <2>3. QED BY <1>1, <1>2, <2>1, <2>2, QuietBInv
<1>4. CASE \E p \in Pages[b] : Visit(b, p)
  <2>1. wire' = [c \in Calls |->
                  IF Flying(c) /\ wire[c].by = b THEN [wire[c] EXCEPT !.by = None]
                  ELSE wire[c]]
    BY <1>4 DEF Visit
  <2>2. \A c \in Calls : /\ wire'[c] \in Request
                         /\ wire'[c].kind = wire[c].kind
                         /\ wire'[c].bears = wire[c].bears
                         /\ wire'[c].is = wire[c].is
    <3> SUFFICES ASSUME NEW c \in Calls
                 PROVE  /\ wire'[c] \in Request
                        /\ wire'[c].kind = wire[c].kind
                        /\ wire'[c].bears = wire[c].bears
                        /\ wire'[c].is = wire[c].is
      OBVIOUS
    <3>1. wire[c] \in Request
      BY <1>1 DEF WireOK
    <3>2. wire'[c] = wire[c] \/ wire'[c] = [wire[c] EXCEPT !.by = None]
      BY <2>1
    <3>3. QED BY <3>1, <3>2 DEF Request
  <2>3. wire' \in [Calls -> Request]
    BY <2>1, <2>2
  <2>4. WireOK'
    BY <1>1, <2>3 DEF WireOK, Exists
  <2>5. LogoutInv'
    BY <1>1, <2>2 DEF LogoutInv, LogoutOf, Exists, Live
  <2>6. QED BY <1>1, <1>2, <2>4, <2>5, QuietBInv
<1>5. CASE \E kind \in AllCallKinds, bears \in Calls \cup {None, jar} : Sends(b, kind, bears)
  <2>1. PICK kind \in AllCallKinds, bears \in Calls \cup {None, jar} :
               Send(b, kind, bears) /\ (kind = "logout" => bears = jar)
    BY <1>5 DEF Sends
  <2>2. bears \in Calls \cup {None} /\ (kind = "logout" /\ bears # None => Exists(bears))
    BY <1>1, <2>1 DEF WireOK
  <2> PICK c \in Calls : c = NewCall
    BY <2>1 DEF Send, NewCall, Unused
  <2> PICK v : v = [by |-> b, kind |-> kind, is |-> "sent", bears |-> bears]
    OBVIOUS
  <2>3. v \in Request /\ v.kind = kind /\ v.is = "sent" /\ v.bears = bears
    BY <2>2 DEF Request
  <2>4. wire' = [wire EXCEPT ![c] = v]
    BY <2>1 DEF Send
  <2>5. WireOK' /\ wire'[c] = v /\ \A d \in Calls : d # c => wire'[d] = wire[d]
    BY <1>1, <2>3, <2>4, WireMoves DEF WireOK
  <2>6. LogoutInv'
    <3> SUFFICES ASSUME NEW d \in Calls PROVE LogoutOf(d)'
      BY DEF LogoutInv
    <3>1. CASE d = c
      BY <1>1, <2>2, <2>3, <2>5, <3>1 DEF LogoutOf, Exists
    <3>2. CASE d # c
      BY <1>1, <2>5, <3>2 DEF LogoutInv, LogoutOf, Exists, Live
    <3>3. QED BY <3>1, <3>2
  <2>7. QED BY <1>1, <1>2, <2>5, <2>6, QuietBInv
<1>6. QED BY <1>3, <1>4, <1>5, TabMovesFacts

LEMMA InitBInv == BInit => BInv
<1> SUFFICES ASSUME BInit PROVE BInv
  OBVIOUS
<1>1. IInv
  BY InitIInv DEF BInit
<1>2. TabsInv
  BY DEF BInit, Init, NoToken, TabsInv, KindInv, KindOf, NoReplay, SessionsLive, Family,
         Exists
<1>3. WireOK /\ LogoutInv
  BY DEF BInit, WireOK, LogoutInv, LogoutOf, Request, NoRequest
<1>4. LastInv
  BY DEF BInit, Init, NoToken, LastInv, Exists
<1>5. QED BY <1>1, <1>2, <1>3, <1>4 DEF BInv

LEMMA NextBInv == ASSUME BInv, BNext PROVE BInv'
<1>1. ASSUME NEW c \in Calls, Reach(c) \/ ServerGoesOn(c) \/ Fail(c) \/ Arrive(c) \/ Lose(c)
      PROVE  BInv'
  BY <1>1, ReachBInv, ContinueBInv, FailBInv, ArriveBInv, LoseBInv
<1>2. ASSUME NEW t \in Calls, LeewayPasses(t) /\ UNCHANGED <<jar, wire, tab>> PROVE BInv'
  BY <1>2, LeewayBInv
<1>3. QED BY <1>1, <1>2, TabMovesBInv, OutsideBInv DEF BNext

LEMMA StutterBInv == ASSUME BInv, UNCHANGED bvars PROVE BInv'
<1>1. IInv' /\ UNCHANGED <<tokens, call, jar, wire>>
  BY ServerIdle DEF BInv, bvars, server
<1>2. WireOK' /\ LogoutInv'
  BY <1>1 DEF BInv, WireOK, LogoutInv, LogoutOf, Exists, Live
<1>3. QED BY <1>1, <1>2, QuietBInv

LEMMA BrowserInvariant == BSpec => []BInv
BY InitBInv, NextBInv, StutterBInv, PTL DEF BSpec

\* What holds of the server holds with a browser in front of it, whose requests
\* arrive late, are refused, are lost or are made twice.
THEOREM ServedBrowsersToo == BSpec => [](OneSuccessor /\ TabsNeverSignOut)
<1>1. BInv => OneSuccessor /\ TabsNeverSignOut
  BY DEF BInv, IInv, LineageInv, TabsInv, Peaceful, SessionsLive, TabsNeverSignOut
<1>2. QED BY <1>1, BrowserInvariant, PTL

\* Signing out ends the session: once the answer is in, no token of the family
\* is live, unless a renewal has presented the same token.
THEOREM SigningOutEndsTheSession == BSpec => []SignOutEnds
<1>1. ASSUME BInv PROVE SignOutEnds
  <2> SUFFICES ASSUME NEW c \in Calls,
                      wire[c].kind = "logout", wire[c].is = "accepted",
                      wire[c].bears # None,
                      \A d \in Calls : call[d].kind = "refresh" =>
                                         call[d].presented # wire[c].bears,
                      NEW u \in Family(tokens[wire[c].bears].family), Live(u)
               PROVE  FALSE
    BY DEF SignOutEnds
  <2> PICK t \in Calls : t = wire[c].bears
    BY <1>1 DEF BInv, WireOK, Request
  <2>1. Exists(t) /\ ~Live(t)
    BY <1>1 DEF BInv, LogoutInv, LogoutOf
  <2>2. u \in Calls /\ u # t /\ tokens[u].family = tokens[t].family
    BY <2>1 DEF Family
  <2>3. Renewed(t)
    BY <1>1, <2>1, <2>2 DEF BInv, LastInv
  <2>4. QED BY <2>3 DEF Renewed
<1>2. QED BY <1>1, BrowserInvariant, PTL

-----------------------------------------------------------------------------
(* The browser and the refinement.                                          *)

\* With the browser in front of them, the calls still implement sessions.
THEOREM BrowsedCallsRefineSessions == BSpec => ImplementsSession
<1>1. ASSUME BInv, BInv', BNext
      PROVE  S!SessionNext \/ UNCHANGED <<Issued, [f \in Calls |-> ValidToken(f)]>>
  <2>1. IInv /\ IInv' /\ OneLive /\ OneLive'
    BY <1>1 DEF BInv, IInv, LineageInv
  <2>2. CASE Next
    BY <2>1, <2>2, StepRefines
  <2>3. CASE UNCHANGED tokens
    BY <2>1, <2>3, RowsAloneEnds DEF S!SessionNext
  <2>4. Next \/ UNCHANGED tokens
    <3>1. ASSUME NEW b \in Tabs, TabMoves(b) PROVE UNCHANGED tokens
      BY <3>1, TabMovesFacts DEF server
    <3>2. ASSUME NEW c \in Calls,
                 Reach(c) \/ ServerGoesOn(c) \/ Fail(c) \/ Arrive(c) \/ Lose(c)
          PROVE  Next \/ UNCHANGED tokens
      BY <3>2 DEF Reach, ServerGoesOn, Fail, Arrive, Lose, server, Next
    <3>3. Outside => Next
      BY DEF Outside, NewCall, Unused, Next
    <3>4. QED BY <1>1, <3>1, <3>2, <3>3 DEF BNext, Next
  <2>5. QED BY <2>2, <2>3, <2>4
<1>2. ASSUME UNCHANGED bvars
      PROVE  UNCHANGED <<Issued, [f \in Calls |-> ValidToken(f)]>>
  BY <1>2, StutterRefines DEF bvars, vars
<1>3. BInit => S!SessionInit
  BY InitRefines DEF BInit
<1>4. QED
  BY <1>1, <1>2, <1>3, BrowserInvariant, PTL DEF BSpec, ImplementsSession, S!SessionSpec

-----------------------------------------------------------------------------
(* The browser: what each tab knows.                                        *)

LEMMA ProxyType ==
  ASSUME NEW p \in AllPages, NEW cookie PROVE Proxy(p, cookie) \in AllPages
BY DEF Proxy, AllPages

TabsOK == tab \in [Tabs -> Tab]

LEMMA ShowsType ==
  ASSUME NEW t \in Tab, NEW p \in AllPages
  PROVE  /\ Shows(t, p) \in Tab
         /\ Shows(t, p).user = t.user /\ Shows(t, p).stale = t.stale
<1>1. FirstStage(p) \in {"shown", "company", "checking"}
  BY DEF FirstStage
<1>2. PICK s : s = FirstStage(p)
  OBVIOUS
<1>3. PICK h : h = [t EXCEPT !.page = p]
  OBVIOUS
<1>4. h \in Tab /\ h.user = t.user /\ h.stale = t.stale
  BY <1>3 DEF Tab
<1>5. PICK k : k = [h EXCEPT !.stage = s]
  OBVIOUS
<1>6. k \in Tab /\ k.user = h.user /\ k.stale = h.stale
  BY <1>1, <1>2, <1>4, <1>5 DEF Tab
<1>7. Shows(t, p) = k
  BY <1>2, <1>3, <1>5 DEF Shows
<1>8. QED BY <1>4, <1>6, <1>7

LEMMA MountedType ==
  ASSUME NEW p \in AllPages \cup {"closed"}
  PROVE  /\ Mounted(p) \in Tab /\ Mounted(p).user = "unknown" /\ ~Mounted(p).stale
<1>1. FirstStage(p) \in {"shown", "company", "checking"}
  BY DEF FirstStage
<1>2. QED BY <1>1 DEF Mounted, Tab

LEMMA AdoptedType ==
  ASSUME NEW t \in Tab PROVE Adopted(t) \in Tab /\ Cleared(t) \in Tab
<1>1. PICK h : h = [t EXCEPT !.user = "in"]
  OBVIOUS
<1>2. PICK k : k = [t EXCEPT !.user = "out"]
  OBVIOUS
<1>3. h \in Tab /\ k \in Tab
  BY <1>1, <1>2 DEF Tab
<1>4. [h EXCEPT !.token = "good"] \in Tab /\ [k EXCEPT !.token = "none"] \in Tab
  BY <1>3 DEF Tab
<1>5. QED BY <1>1, <1>2, <1>4 DEF Adopted, Cleared

\* An answer that is no session's leaves the tab as it was, but for the form.
LEMMA TabAfterType ==
  ASSUME NEW t \in Tab, NEW kind \in AllCallKinds \cup {"none"}, NEW ok \in BOOLEAN,
         NEW cookie
  PROVE  /\ TabAfter(t, kind, ok, cookie) \in Tab
         /\ kind \notin {"refresh", "logout"} /\ ~(kind = "login" /\ ok) =>
              /\ TabAfter(t, kind, ok, cookie).user = t.user
              /\ TabAfter(t, kind, ok, cookie).stale = t.stale
<1>1. Adopted(t) \in Tab /\ Cleared(t) \in Tab
  BY AdoptedType
<1>2. Proxy("app", cookie) \in AllPages /\ Proxy("login", cookie) \in AllPages
  BY ProxyType DEF AllPages
<1>3. CASE kind = "refresh"
  <2>1. PICK h : h = IF ok THEN Adopted(t) ELSE Cleared(t)
    OBVIOUS
  <2>2. h \in Tab
    BY <1>1, <2>1
  <2>3. [h EXCEPT !.renewal = None] \in Tab
    BY <2>2 DEF Tab
  <2>4. TabAfter(t, kind, ok, cookie) = [h EXCEPT !.renewal = None]
    BY <1>3, <2>1 DEF TabAfter, AfterRenewal
  <2>5. QED BY <1>3, <2>3, <2>4
<1>4. CASE kind = "login" /\ ok
  <2>1. TabAfter(t, kind, ok, cookie) = Shows(Adopted(t), Proxy("app", cookie))
    BY <1>4 DEF TabAfter
  <2>2. QED BY <1>1, <1>2, <1>4, <2>1, ShowsType
<1>5. CASE kind = "logout"
  <2>1. TabAfter(t, kind, ok, cookie) = Shows(Cleared(t), Proxy("login", cookie))
    BY <1>5 DEF TabAfter
  <2>2. QED BY <1>1, <1>2, <1>5, <2>1, ShowsType
<1>6. CASE kind \notin {"refresh", "logout"} /\ ~(kind = "login" /\ ok)
  <2>1. \/ TabAfter(t, kind, ok, cookie) = t
        \/ TabAfter(t, kind, ok, cookie) = [t EXCEPT !.stage = "cooling"]
        \/ TabAfter(t, kind, ok, cookie) = [t EXCEPT !.stage = "done"]
    BY <1>6 DEF TabAfter
  <2>2. \A s \in {"cooling", "done"} :
           /\ [t EXCEPT !.stage = s] \in Tab
           /\ [t EXCEPT !.stage = s].user = t.user
           /\ [t EXCEPT !.stage = s].stale = t.stale
    BY DEF Tab
  <2>3. QED BY <2>1, <2>2
<1>7. QED BY <1>3, <1>4, <1>5, <1>6

Blank(t) == t.user = "unknown" /\ ~t.stale

\* A tab that renews has its shared request, the one under way or a new one.
LEMMA RenewTab ==
  ASSUME TabsOK, NEW b \in Tabs, Renew(b)
  PROVE  \E v \in Tab : tab' = [tab EXCEPT ![b] = v] /\ v.user = tab[b].user /\ ~v.stale
<1>1. tab[b] \in Tab
  BY DEF TabsOK
<1>2. PICK h : h = [tab[b] EXCEPT !.stale = FALSE]
  OBVIOUS
<1>3. h \in Tab /\ h.user = tab[b].user /\ ~h.stale
  BY <1>1, <1>2 DEF Tab
<1>4. CASE RenewalShared(b)
  <2>1. tab' = [tab EXCEPT ![b] = h]
    BY <1>2, <1>4 DEF Renew
  <2>2. QED BY <1>3, <2>1
<1>5. CASE ~RenewalShared(b)
  <2>1. NewCall \in Calls
    BY <1>5 DEF Renew, Send, NewCall, Unused
  <2>2. PICK n \in Calls : n = NewCall
    BY <2>1
  <2>3. PICK k : k = [h EXCEPT !.renewal = n]
    OBVIOUS
  <2>4. k \in Tab /\ k.user = h.user /\ ~k.stale
    BY <1>3, <2>2, <2>3 DEF Tab
  <2>5. tab' = [tab EXCEPT ![b].stale = FALSE, ![b].renewal = n]
    BY <1>5, <2>2 DEF Renew
  <2>6. tab' = [tab EXCEPT ![b] = k]
    BY <1>1, <1>2, <2>3, <2>5 DEF TabsOK
  <2>7. QED BY <1>3, <2>4, <2>6
<1>6. QED BY <1>4, <1>5

\* A tab keeps to its type; one that knows nothing, in a browser without a
\* cookie, learns nothing by itself.
LEMMA TabMovesTab ==
  ASSUME TabsOK, NEW b \in Tabs, TabMoves(b)
  PROVE  \E v \in Tab : /\ tab' = [tab EXCEPT ![b] = v]
                        /\ jar = None /\ Blank(tab[b]) => Blank(v)
<1>1. tab[b] \in Tab
  BY DEF TabsOK
<1>2. CASE UNCHANGED tab
  BY <1>1, <1>2 DEF TabsOK
<1>3. CASE \E p \in Pages[b] : Visit(b, p)
  <2>1. PICK p \in Pages[b] : Visit(b, p)
    BY <1>3
  <2>2. Proxy(p, jar) \in AllPages
    BY PagesAssumption, ProxyType
  <2>3. Mounted(Proxy(p, jar)) \in Tab /\ Blank(Mounted(Proxy(p, jar)))
    BY <2>2, MountedType DEF Blank
  <2>4. QED BY <2>1, <2>3 DEF Visit
<1>4. CASE TurnAway(b) \/ \E p \in Pages[b] : Follow(b, p)
  <2>1. \E p \in AllPages : tab' = [tab EXCEPT ![b] = Shows(tab[b], p)]
    BY <1>4, PagesAssumption, ProxyType DEF TurnAway, Follow, AllPages
  <2>2. PICK p \in AllPages : tab' = [tab EXCEPT ![b] = Shows(tab[b], p)]
    BY <2>1
  <2>3. PICK v : v = Shows(tab[b], p)
    OBVIOUS
  <2>4. v \in Tab /\ v.user = tab[b].user /\ v.stale = tab[b].stale
    BY <1>1, <2>3, ShowsType
  <2>5. tab' = [tab EXCEPT ![b] = v]
    BY <2>2, <2>3
  <2>6. QED BY <2>4, <2>5 DEF Blank
<1>5. CASE Restore(b) \/ ReadUnauthorized(b) \/ (StartRead(b) /\ tab[b].token = "none")
  <2>1. Renew(b)
    BY <1>5 DEF Restore, ReadUnauthorized, StartRead
  <2>2. QED BY <2>1, RenewTab DEF Blank
<1>6. CASE StartRead(b) /\ tab[b].token # "none"
  <2>1. [tab[b] EXCEPT !.stale = TRUE] \in Tab
    BY <1>1 DEF Tab
  <2>2. tab' = [tab EXCEPT ![b] = [tab[b] EXCEPT !.stale = TRUE]] /\ tab[b].user # "unknown"
    BY <1>6 DEF StartRead
  <2>3. QED BY <2>1, <2>2 DEF Blank
<1>7. CASE AccessTokenExpires(b)
  <2>1. PICK v : v = [tab[b] EXCEPT !.token = "expired"]
    OBVIOUS
  <2>2. v \in Tab /\ v.user = tab[b].user /\ v.stale = tab[b].stale
    BY <1>1, <2>1 DEF Tab
  <2>3. tab' = [tab EXCEPT ![b] = v]
    BY <1>7, <2>1 DEF AccessTokenExpires
  <2>4. QED BY <2>2, <2>3 DEF Blank
<1>8. CASE RegisterNext(b) \/ RegisterBack(b) \/ PreviewInvitation(b) \/ CooldownEnds(b)
  <2>1. PICK s \in {"account", "company", "shown", "invalid", "again"} :
               tab' = [tab EXCEPT ![b].stage = s]
    BY <1>8 DEF RegisterNext, RegisterBack, PreviewInvitation, CooldownEnds
  <2>2. PICK v : v = [tab[b] EXCEPT !.stage = s]
    OBVIOUS
  <2>3. v \in Tab /\ v.user = tab[b].user /\ v.stale = tab[b].stale
    BY <1>1, <2>2 DEF Tab
  <2>4. tab' = [tab EXCEPT ![b] = v]
    BY <2>1, <2>2
  <2>5. QED BY <2>3, <2>4 DEF Blank
<1>9. QED
  BY <1>2, <1>3, <1>4, <1>5, <1>6, <1>7, <1>8
  DEF TabMoves, SubmitLogin, SubmitRegister, SubmitInvite, SubmitForgot, SubmitReset,
      SignOut

-----------------------------------------------------------------------------
(* The browser: its requests and the calls that serve them.                 *)

\* A request and the call that serves it.
ServedOf(c) ==
  /\ wire[c].is = "unsent" => wire[c].kind = "none"
  /\ wire[c].is = "sent" => call[c].at = "idle"
  /\ wire[c].is \in {"received", "refused"} =>
       /\ call[c].at # "idle"
       /\ call[c].kind = wire[c].kind
       /\ wire[c].kind = "refresh" => call[c].presented = wire[c].bears
  /\ wire[c].is # "unsent" /\ Working(c) => wire[c].is = "received"

ServedInv == \A c \in Calls : ServedOf(c)

\* A cookie came with an answer that was taken.
CookieInv ==
  /\ jar # None => wire[jar].is = "accepted"
  /\ \A c \in Calls :
       wire[c].kind = "refresh" /\ wire[c].bears # None => wire[wire[c].bears].is = "accepted"

LEMMA WireFields ==
  ASSUME wire \in [Calls -> Request], NEW c \in Calls, NEW is,
         wire' = [wire EXCEPT ![c].is = is]
  PROVE  /\ wire'[c].is = is /\ wire'[c].kind = wire[c].kind
         /\ wire'[c].bears = wire[c].bears /\ wire'[c].by = wire[c].by
         /\ \A d \in Calls : d # c => wire'[d] = wire[d]
<1>1. wire[c] \in Request
  OBVIOUS
<1>2. PICK v : v = [wire[c] EXCEPT !.is = is]
  OBVIOUS
<1>3. v.is = is /\ v.kind = wire[c].kind /\ v.bears = wire[c].bears /\ v.by = wire[c].by
  BY <1>1, <1>2 DEF Request
<1>4. wire' = [wire EXCEPT ![c] = v]
  BY <1>2
<1>5. QED BY <1>3, <1>4

LEMMA ArriveWire ==
  ASSUME WireOK, NEW c \in Calls, Arrive(c)
  PROVE  /\ wire[c].by \in Tabs
         /\ wire'[c].is \in {"accepted", "rejected"}
         /\ wire'[c].is = "accepted" <=> Succeeded(c)
         /\ wire'[c].kind = wire[c].kind /\ wire'[c].bears = wire[c].bears
         /\ wire'[c].by = wire[c].by
         /\ \A d \in Calls : d # c => wire'[d] = wire[d]
<1>1. PICK is : /\ is = (IF Succeeded(c) THEN "accepted" ELSE "rejected")
                /\ wire' = [wire EXCEPT ![c].is = is]
  BY DEF Arrive
<1>2. wire[c].by \in Tabs
  BY DEF Arrive, WireOK, Request
<1>3. wire \in [Calls -> Request]
  BY DEF WireOK
<1>4. QED BY <1>1, <1>2, <1>3, WireFields

LEMMA ReachWire ==
  ASSUME WireOK, NEW c \in Calls, Reach(c)
  PROVE  /\ wire[c].is = "sent"
         /\ wire'[c].is \in {"received", "refused"}
         /\ wire'[c].is = "refused" => Refused(wire[c].kind, wire[c].bears)
         /\ wire'[c].kind = wire[c].kind /\ wire'[c].bears = wire[c].bears
         /\ wire'[c].by = wire[c].by
         /\ \A d \in Calls : d # c => wire'[d] = wire[d]
<1>1. PICK is :
        /\ is = (IF Refused(wire[c].kind, wire[c].bears) THEN "refused" ELSE "received")
        /\ wire' = [wire EXCEPT ![c].is = is]
  BY DEF Reach
<1>2. wire[c].is = "sent" /\ wire \in [Calls -> Request]
  BY DEF WireOK, Reach
<1>3. QED BY <1>1, <1>2, WireFields

\* What is refused at once is over at once.
LEMMA RefusedIsDone ==
  ASSUME IInv, NEW c \in Calls, wire[c].bears \in Calls \cup {None}, Reach(c),
         Refused(wire[c].kind, wire[c].bears)
  PROVE  call'[c].at = "done"
<1> PICK r \in Calls \cup {None} : r = wire[c].bears
  OBVIOUS
<1> PICK kind : kind = wire[c].kind
  OBVIOUS
<1>1. Receive(c, kind, r) /\ Refused(kind, r)
  BY DEF Reach
<1>2. Begin(c, kind, "done", r) \/ call[c].at # "idle"
  BY <1>1 DEF Receive, Refused, Live, Replayed
<1>3. Begin(c, kind, "done", r)
  BY <1>1, <1>2 DEF Receive, Begin
<1>4. QED BY <1>3 DEF Begin, IInv, TypeOK

LEMMA FailWire ==
  ASSUME BInv, NEW c \in Calls, Fail(c)
  PROVE  /\ call'[c].at = "done" /\ call'[c].kind = call[c].kind
         /\ call'[c].presented = call[c].presented
         /\ \A d \in Calls : d # c => call'[d] = call[d]
         /\ UNCHANGED <<tokens, jar, tab>>
         /\ failures' # 0
         /\ wire'[c].is = (IF wire[c].is = "received" THEN "refused" ELSE wire[c].is)
         /\ wire'[c].kind = wire[c].kind /\ wire'[c].bears = wire[c].bears
         /\ wire'[c].by = wire[c].by
         /\ \A d \in Calls : d # c => wire'[d] = wire[d]
<1>1. TypeOK /\ wire \in [Calls -> Request]
  BY DEF BInv, IInv, WireOK
<1>2. CutOff(c) /\ UNCHANGED <<tokens, jar, tab>>
  BY DEF Fail, CutOff
<1>3. /\ call'[c].at = "done" /\ call'[c].kind = call[c].kind
      /\ call'[c].presented = call[c].presented
      /\ \A d \in Calls : d # c => call'[d] = call[d]
  BY <1>1, <1>2, GotoFields DEF CutOff, CallSteps
<1>4. failures' # 0
  BY <1>1, <1>2, MaxFailuresAssumption DEF CutOff, TypeOK
<1>5. PICK is : /\ is = (IF wire[c].is = "received" THEN "refused" ELSE wire[c].is)
                /\ wire' = [wire EXCEPT ![c].is = is]
  BY DEF Fail
<1>6. QED BY <1>1, <1>2, <1>3, <1>4, <1>5, WireFields

LEMMA LoseWire ==
  ASSUME BInv, NEW c \in Calls, Lose(c)
  PROVE  /\ failures' # 0
         /\ wire[c].by \in Tabs
         /\ wire[c].is = "sent" \/ Answered(c)
         /\ wire'[c].is = "rejected"
         /\ wire'[c].kind = wire[c].kind /\ wire'[c].bears = wire[c].bears
         /\ wire'[c].by = wire[c].by
         /\ \A d \in Calls : d # c => wire'[d] = wire[d]
<1>1. TypeOK /\ wire \in [Calls -> Request]
  BY DEF BInv, IInv, WireOK
<1>2. failures' # 0
  BY <1>1, MaxFailuresAssumption DEF Lose, TypeOK
<1>3. wire' = [wire EXCEPT ![c].is = "rejected"]
  BY DEF Lose
<1>4. wire[c].by \in Tabs /\ (wire[c].is = "sent" \/ Answered(c))
  BY <1>1 DEF Lose, Request
<1>5. QED BY <1>1, <1>2, <1>3, <1>4, WireFields

\* What a tab does to the requests: it abandons its own, or sends one.
LEMMA TabMovesWire ==
  ASSUME BInv, NEW b \in Tabs, TabMoves(b)
  PROVE  \/ \A d \in Calls : /\ wire'[d].is = wire[d].is /\ wire'[d].kind = wire[d].kind
                             /\ wire'[d].bears = wire[d].bears
                             /\ wire'[d].by \in {wire[d].by, None}
         \/ \E c \in Calls :
              /\ call[c].at = "idle" /\ wire[c].is = "unsent"
              /\ wire'[c].is = "sent"
              /\ wire'[c].kind = "refresh" =>
                   /\ wire'[c].bears = jar
                   /\ jar # None \/ ~Blank(tab[b])
              /\ \A d \in Calls : d # c => wire'[d] = wire[d]
<1>1. wire \in [Calls -> Request]
  BY DEF BInv, WireOK
<1>2. CASE UNCHANGED wire
  BY <1>2
<1>3. CASE \E p \in Pages[b] : Visit(b, p)
  <2>1. wire' = [c \in Calls |->
                  IF Flying(c) /\ wire[c].by = b THEN [wire[c] EXCEPT !.by = None]
                  ELSE wire[c]]
    BY <1>3 DEF Visit
  <2>2. ASSUME NEW d \in Calls
        PROVE  /\ wire'[d].is = wire[d].is /\ wire'[d].kind = wire[d].kind
               /\ wire'[d].bears = wire[d].bears
               /\ wire'[d].by \in {wire[d].by, None}
    <3>1. wire[d] \in Request
      BY <1>1
    <3>2. wire'[d] = wire[d] \/ wire'[d] = [wire[d] EXCEPT !.by = None]
      BY <2>1
    <3>3. QED BY <3>1, <3>2 DEF Request
  <2>3. QED BY <2>2
<1>4. CASE \E kind \in AllCallKinds, bears \in Calls \cup {None, jar} : Sends(b, kind, bears)
  <2>1. PICK kind \in AllCallKinds, bears \in Calls \cup {None, jar} : Sends(b, kind, bears)
    BY <1>4
  <2>2. PICK c \in Calls : c = NewCall /\ call[c].at = "idle" /\ wire[c].is = "unsent"
    BY <2>1 DEF Sends, Send, NewCall, Unused
  <2>3. PICK v : v = [by |-> b, kind |-> kind, is |-> "sent", bears |-> bears]
    OBVIOUS
  <2>4. wire' = [wire EXCEPT ![c] = v] /\ v.kind = kind /\ v.is = "sent" /\ v.bears = bears
    BY <2>1, <2>2, <2>3 DEF Sends, Send
  <2>5. wire'[c] = v /\ \A d \in Calls : d # c => wire'[d] = wire[d]
    BY <1>1, <2>4
  <2>6. kind = "refresh" => bears = jar /\ (jar # None \/ ~Blank(tab[b]))
    BY <2>1 DEF Sends, Blank
  <2>7. QED BY <2>2, <2>4, <2>5, <2>6
<1>5. QED BY <1>2, <1>3, <1>4, TabMovesFacts

LEMMA ServedNext ==
  ASSUME BInv, ServedInv, BNext PROVE ServedInv'
<1>1. IInv /\ WireOK
  BY DEF BInv
<1>2. ASSUME NEW b \in Tabs, TabMoves(b) PROVE ServedInv'
  <2>1. UNCHANGED call
    BY <1>2, TabMovesFacts DEF server
  <2>2. CASE \A d \in Calls : /\ wire'[d].is = wire[d].is /\ wire'[d].kind = wire[d].kind
                              /\ wire'[d].bears = wire[d].bears
    BY <2>1, <2>2 DEF ServedInv, ServedOf, Working
  <2>3. CASE \E c \in Calls :
               /\ call[c].at = "idle" /\ wire[c].is = "unsent" /\ wire'[c].is = "sent"
               /\ \A d \in Calls : d # c => wire'[d] = wire[d]
    BY <2>1, <2>3 DEF ServedInv, ServedOf, Working
  <2>4. QED BY <1>2, <2>2, <2>3, TabMovesWire
<1>3. ASSUME NEW c \in Calls, Reach(c) PROVE ServedInv'
  <2>1. wire[c].bears \in Calls \cup {None}
    BY <1>1 DEF WireOK, Request
  <2>2. /\ wire'[c].is \in {"received", "refused"}
        /\ wire'[c].is = "refused" => call'[c].at = "done"
        /\ wire'[c].kind = wire[c].kind /\ wire'[c].bears = wire[c].bears
        /\ \A d \in Calls : d # c => wire'[d] = wire[d]
    BY <1>1, <1>3, <2>1, ReachWire, RefusedIsDone
  <2>3. /\ call'[c].at # "idle" /\ call'[c].kind = wire[c].kind
        /\ wire[c].kind = "refresh" => call'[c].presented = wire[c].bears
        /\ \A d \in Calls : d # c => call'[d] = call[d]
    BY <1>1, <1>3, <2>1, ReachFacts
  <2>4. ServedOf(c)'
    BY <2>2, <2>3 DEF ServedOf, Working
  <2>5. \A d \in Calls : d # c => ServedOf(d)'
    BY <2>2, <2>3 DEF ServedInv, ServedOf, Working
  <2>6. QED BY <2>4, <2>5 DEF ServedInv
<1>4. ASSUME NEW c \in Calls, ServerGoesOn(c) PROVE ServedInv'
  <2>1. /\ Remembers /\ call[c].at \notin {"idle", "done"} /\ UNCHANGED wire
        /\ \A d \in Calls : d # c => call'[d] = call[d]
    BY <1>1, <1>4, ContinueAges DEF ServerGoesOn
  <2>2. ServedOf(c)'
    BY <2>1 DEF ServedInv, ServedOf, Working, Remembers
  <2>3. \A d \in Calls : d # c => ServedOf(d)'
    BY <2>1 DEF ServedInv, ServedOf, Working
  <2>4. QED BY <2>2, <2>3 DEF ServedInv
<1>5. ASSUME NEW c \in Calls, Fail(c) PROVE ServedInv'
  <2>1. call[c].at # "idle"
    BY <1>5 DEF Fail, CutOff, Working
  <2>2. ServedOf(c)'
    BY <1>5, <2>1, FailWire DEF ServedInv, ServedOf, Working
  <2>3. \A d \in Calls : d # c => ServedOf(d)'
    BY <1>5, FailWire DEF ServedInv, ServedOf, Working
  <2>4. QED BY <2>2, <2>3 DEF ServedInv
<1>6. ASSUME NEW c \in Calls, Arrive(c) PROVE ServedInv'
  <2>1. ~Working(c) /\ UNCHANGED call
    BY <1>6 DEF Arrive, Answered, ServedInv, ServedOf, Working, server
  <2>2. ServedOf(c)'
    BY <1>1, <1>6, <2>1, ArriveWire DEF ServedInv, ServedOf, Working
  <2>3. \A d \in Calls : d # c => ServedOf(d)'
    BY <1>1, <1>6, <2>1, ArriveWire DEF ServedInv, ServedOf, Working
  <2>4. QED BY <2>2, <2>3 DEF ServedInv
<1>7. ASSUME NEW c \in Calls, Lose(c) PROVE ServedInv'
  <2>1. UNCHANGED call
    BY <1>7 DEF Lose
  <2>2. ~Working(c)
    BY <1>7, LoseWire DEF Answered, ServedInv, ServedOf, Working
  <2>3. ServedOf(c)'
    BY <1>7, <2>1, <2>2, LoseWire DEF ServedInv, ServedOf, Working
  <2>4. \A d \in Calls : d # c => ServedOf(d)'
    BY <1>7, <2>1, LoseWire DEF ServedInv, ServedOf, Working
  <2>5. QED BY <2>3, <2>4 DEF ServedInv
<1>8. ASSUME NEW t \in Calls, LeewayPasses(t), UNCHANGED <<jar, wire, tab>> PROVE ServedInv'
  BY <1>8 DEF LeewayPasses, ServedInv, ServedOf, Working
<1>9. ASSUME Outside PROVE ServedInv'
  <2>1. PICK c \in Calls : c = NewCall /\ wire[c].is = "unsent"
    BY <1>9 DEF Outside, NewCall, Unused
  <2>2. CallBegins(c) /\ UNCHANGED wire
    BY <1>9, <2>1 DEF Outside
  <2>3. \A d \in Calls : d # c => call'[d] = call[d]
    BY <1>1, <2>2, BeginAges
  <2>4. QED BY <2>1, <2>2, <2>3 DEF ServedInv, ServedOf, Working
<1>10. QED BY <1>2, <1>3, <1>4, <1>5, <1>6, <1>7, <1>8, <1>9 DEF BNext

\* A cookie that a request bears, or that the jar takes, is an answer's.
LEMMA CookieMoves ==
  ASSUME WireOK, CookieInv,
         \A d \in Calls : wire[d].is = "accepted" => wire'[d].is = "accepted",
         jar' # jar /\ jar' # None => jar' \in Calls /\ wire'[jar'].is = "accepted",
         \A c \in Calls :
           wire'[c].kind = "refresh" =>
             \/ wire[c].kind = "refresh" /\ wire'[c].bears = wire[c].bears
             \/ wire'[c].bears = jar
  PROVE  CookieInv'
<1>1. jar' # None => wire'[jar'].is = "accepted"
  BY DEF WireOK, CookieInv
<1>2. ASSUME NEW c \in Calls, wire'[c].kind = "refresh", wire'[c].bears # None
      PROVE  wire'[wire'[c].bears].is = "accepted"
  <2>1. CASE wire[c].kind = "refresh" /\ wire'[c].bears = wire[c].bears
    <3>1. wire[c].bears \in Calls
      BY <1>2, <2>1 DEF WireOK, Request
    <3>2. QED BY <1>2, <2>1, <3>1 DEF CookieInv
  <2>2. CASE wire'[c].bears = jar
    BY <1>2, <2>2 DEF WireOK, CookieInv
  <2>3. QED BY <1>2, <2>1, <2>2
<1>3. QED BY <1>1, <1>2 DEF CookieInv

LEMMA CookieNext ==
  ASSUME BInv, ServedInv, CookieInv, BNext PROVE CookieInv'
<1>1. WireOK
  BY DEF BInv
<1>2. ASSUME NEW b \in Tabs, TabMoves(b) PROVE CookieInv'
  <2>1. UNCHANGED jar
    BY <1>2, TabMovesFacts
  <2>2. /\ \A d \in Calls : wire[d].is = "accepted" => wire'[d].is = "accepted"
        /\ \A c \in Calls :
             wire'[c].kind = "refresh" =>
               \/ wire[c].kind = "refresh" /\ wire'[c].bears = wire[c].bears
               \/ wire'[c].bears = jar
    BY <1>2, TabMovesWire
  <2>3. QED BY <1>1, <2>1, <2>2, CookieMoves
<1>3. ASSUME NEW c \in Calls, Reach(c) PROVE CookieInv'
  <2>1. UNCHANGED jar
    BY <1>3 DEF Reach
  <2>2. QED BY <1>1, <1>3, <2>1, ReachWire, CookieMoves
<1>4. ASSUME UNCHANGED <<jar, wire>> PROVE CookieInv'
  BY <1>4 DEF CookieInv
<1>5. ASSUME NEW c \in Calls, Fail(c) PROVE CookieInv'
  BY <1>1, <1>5, FailWire, CookieMoves
<1>6. ASSUME NEW c \in Calls, Arrive(c) PROVE CookieInv'
  <2>1. wire[c].is # "accepted"
    BY <1>6 DEF Arrive, Answered
  <2>2. jar' # jar /\ jar' # None => jar' = c /\ Succeeded(c)
    BY <1>6 DEF Arrive, JarAfter
  <2>3. QED BY <1>1, <1>6, <2>1, <2>2, ArriveWire, CookieMoves
<1>7. ASSUME NEW c \in Calls, Lose(c) PROVE CookieInv'
  <2>1. wire[c].is # "accepted" /\ UNCHANGED jar
    BY <1>7 DEF Lose, Answered
  <2>2. QED BY <1>1, <1>7, <2>1, LoseWire, CookieMoves
<1>8. QED BY <1>2, <1>3, <1>4, <1>5, <1>6, <1>7 DEF BNext, ServerGoesOn, Outside

-----------------------------------------------------------------------------
(* The browser: behaviours in which nobody signs out and nothing breaks.    *)

\* So far the behaviour is one that JarSurvivesTabs speaks of.
Calm ==
  /\ failures = 0
  /\ \A t \in Calls : tokens[t].state = "revoked" => tokens[t].fresh
  /\ \A c \in Calls :
       /\ call[c].kind = "refresh" => wire[c].kind = "refresh"
       /\ Flying(c) => wire[c].by # None
       /\ call[c].kind \notin {"logout", "reset"}

\* Without a logout or a reset, what is past its leeway stays so.
LEMMA StaleStays ==
  ASSUME IInv, KindInv, NEW c \in Calls, CallContinues(c),
         call[c].kind \notin {"logout", "reset"}
  PROVE  \A t \in Calls : tokens[t].state = "revoked" => tokens'[t] = tokens[t]
<1>1. CASE IssueSession(c)
  <2>1. ~Exists(c)
    BY <1>1 DEF IssueSession, IInv, RowInv, BirthInv
  <2>2. \A t \in Calls : t # c => tokens'[t] = tokens[t]
    BY <1>1 DEF IssueSession, IInv, TypeOK
  <2>3. QED BY <2>1, <2>2 DEF Exists
<1>2. CASE CommitRotation(c)
  <2>1. PICK p \in Calls : p = call[c].presented
    BY <1>2, RotationFacts DEF IInv
  <2>2. /\ ~Exists(c) /\ Live(p)
        /\ \A t \in Calls : t # c /\ t # p => tokens'[t] = tokens[t]
    BY <1>2, <2>1, RotationFacts DEF IInv
  <2>3. QED BY <2>2 DEF Exists, Live
<1>3. CASE RevokeFamily(c)
  BY <1>3 DEF RevokeFamily, AfterRevoking, StillLive, Live
<1>4. CASE RevokePresented(c) \/ CommitReset(c)
  BY <1>4 DEF RevokePresented, CommitReset, KindInv, KindOf
<1>5. CASE UNCHANGED tokens
  BY <1>5
<1>6. QED
  BY <1>1, <1>2, <1>3, <1>4, <1>5
  DEF CallContinues, Spend, SpendRefused, SeeFamily, Supersede, IssueGrant, EnterReset,
      SeeSessions, RevokeAll, See

\* A behaviour that was not calm never becomes calm.
LEMMA CalmBefore ==
  ASSUME BInv, ServedInv, BNext, Calm' PROVE Calm
<1>1. IInv /\ WireOK /\ KindInv
  BY DEF BInv, TabsInv
<1>2. \A c \in Calls : call[c].at = "idle" => call[c].kind = "none"
  BY <1>1 DEF KindInv, KindOf
<1>3. ASSUME NEW b \in Tabs, TabMoves(b) PROVE Calm
  <2>1. UNCHANGED <<tokens, call, failures>>
    BY <1>3, TabMovesFacts DEF server
  <2>2. ASSUME NEW d \in Calls
        PROVE  /\ call[d].kind = "refresh" => wire[d].kind = "refresh"
               /\ Flying(d) => wire[d].by # None
               /\ call[d].kind \notin {"logout", "reset"}
    <3>1. \/ /\ wire'[d].is = wire[d].is /\ wire'[d].kind = wire[d].kind
             /\ wire'[d].by \in {wire[d].by, None}
          \/ call[d].at = "idle" /\ wire[d].is = "unsent"
      BY <1>3, TabMovesWire
    <3>2. QED BY <1>2, <2>1, <3>1 DEF Calm, Flying
  <2>3. QED BY <2>1, <2>2 DEF Calm
<1>4. ASSUME NEW c \in Calls, Reach(c) PROVE Calm
  <2>1. wire[c].bears \in Calls \cup {None}
    BY <1>1 DEF WireOK, Request
  <2>2. /\ UNCHANGED <<tokens, failures>> /\ call[c].kind = "none"
        /\ \A d \in Calls : d # c => call'[d] = call[d]
    BY <1>1, <1>2, <1>4, <2>1, ReachFacts
  <2>3. ASSUME NEW d \in Calls
        PROVE  /\ call[d].kind = "refresh" => wire[d].kind = "refresh"
               /\ Flying(d) => wire[d].by # None
               /\ call[d].kind \notin {"logout", "reset"}
    BY <1>1, <1>4, <2>2, ReachWire DEF Calm, Flying
  <2>4. QED BY <2>2, <2>3 DEF Calm
<1>5. ASSUME NEW c \in Calls, ServerGoesOn(c) PROVE Calm
  <2>1. /\ Remembers /\ call[c].at \notin {"idle", "done"} /\ UNCHANGED wire
        /\ \A d \in Calls : d # c => call'[d] = call[d]
    BY <1>1, <1>5, ContinueAges DEF ServerGoesOn
  <2>2. call'[c].kind = call[c].kind
    BY <2>1 DEF Remembers
  <2>3. \A d \in Calls : call'[d].kind = call[d].kind
    BY <2>1, <2>2
  <2>4. \A t \in Calls : tokens[t].state = "revoked" => tokens'[t] = tokens[t]
    BY <1>1, <1>5, <2>2, StaleStays DEF ServerGoesOn, Calm
  <2>5. failures' = failures
    BY <1>5
    DEF ServerGoesOn, CallContinues, IssueSession, Spend, SpendRefused, CommitRotation,
        SeeFamily, RevokeFamily, RevokePresented, Supersede, IssueGrant, EnterReset,
        SeeSessions, RevokeAll, CommitReset, See
  <2>6. QED BY <2>1, <2>3, <2>4, <2>5 DEF Calm, Flying
<1>6. ASSUME NEW c \in Calls, Fail(c) \/ Lose(c) PROVE Calm
  BY <1>6, FailWire, LoseWire DEF Calm
<1>7. ASSUME NEW c \in Calls, Arrive(c) PROVE Calm
  <2>1. UNCHANGED <<tokens, call, failures>> /\ wire[c].by # None
    BY <1>7 DEF Arrive, server
  <2>2. ASSUME NEW d \in Calls
        PROVE  /\ call[d].kind = "refresh" => wire[d].kind = "refresh"
               /\ Flying(d) => wire[d].by # None
               /\ call[d].kind \notin {"logout", "reset"}
    BY <1>1, <1>7, <2>1, ArriveWire DEF Calm, Flying
  <2>3. QED BY <2>1, <2>2 DEF Calm
<1>8. ASSUME NEW t \in Calls, LeewayPasses(t) PROVE FALSE
  <2>1. tokens'[t].state = "revoked" /\ ~tokens'[t].fresh
    BY <1>1, <1>8 DEF LeewayPasses, IInv, TypeOK, Token
  <2>2. QED BY <2>1 DEF Calm
<1>9. ASSUME Outside PROVE Calm
  <2>1. PICK c \in Calls : c = NewCall /\ call[c].at = "idle"
    BY <1>9 DEF Outside, NewCall, Unused
  <2>2. CallBegins(c) /\ UNCHANGED <<wire, failures>>
    BY <1>9, <2>1
    DEF Outside, CallBegins, BeginLogin, BeginRefresh, BeginLogout, BeginForgot, BeginReset
  <2>3. UNCHANGED tokens /\ \A d \in Calls : d # c => call'[d] = call[d]
    BY <1>1, <2>2, BeginAges
  <2>4. call[c].kind = "none"
    BY <1>2, <2>1
  <2>5. QED BY <2>2, <2>3, <2>4 DEF Calm, Flying
<1>10. QED BY <1>3, <1>4, <1>5, <1>6, <1>7, <1>8, <1>9 DEF BNext

\* Before the first session no tab has anything to renew.
BlankInv ==
  jar = None =>
    /\ \A b \in Tabs : Blank(tab[b])
    /\ \A c \in Calls : /\ wire[c].kind # "refresh"
                        /\ wire[c].kind = "login" => wire[c].is # "accepted"

BearsInv == \A c \in Calls : wire[c].kind = "refresh" => wire[c].bears # None

Issues(c) == wire[c].kind \in {"login", "refresh"}

\* A token whose answer has not been taken is not spent.
UntakenInv == \A c \in Calls : wire[c].is = "received" /\ Issues(c) /\ Exists(c) => Live(c)

\* The answer that brings the successor of t is on its way.
Replacing(t, c) ==
  wire[c].kind = "refresh" /\ wire[c].bears = t /\ wire[c].is = "received" /\ Exists(c)

JarInv == jar # None => Live(jar) \/ \E c \in Calls : Replacing(jar, c)

AtPeace == NoReplay /\ BlankInv /\ BearsInv /\ UntakenInv /\ JarInv

JInv == BInv /\ TabsOK /\ ServedInv /\ CookieInv /\ (Calm => AtPeace)

LEMMA TabMovesPeace ==
  ASSUME BInv, TabsOK, AtPeace, NEW b \in Tabs, TabMoves(b) PROVE AtPeace'
<1>1. UNCHANGED <<tokens, call, jar>>
  BY TabMovesFacts DEF server
<1>2. NoReplay'
  BY <1>1 DEF AtPeace, NoReplay
<1>3. ASSUME jar = None PROVE \A e \in Tabs : Blank(tab'[e])
  <2>1. \A e \in Tabs : Blank(tab[e])
    BY <1>3 DEF AtPeace, BlankInv
  <2>2. PICK v \in Tab : tab' = [tab EXCEPT ![b] = v] /\ Blank(v)
    BY <1>3, <2>1, TabMovesTab
  <2>3. QED BY <2>1, <2>2 DEF TabsOK
<1>4. CASE \A d \in Calls : /\ wire'[d].is = wire[d].is /\ wire'[d].kind = wire[d].kind
                            /\ wire'[d].bears = wire[d].bears
  <2>1. BlankInv'
    BY <1>1, <1>3, <1>4 DEF AtPeace, BlankInv, Blank
  <2>2. BearsInv' /\ UntakenInv'
    BY <1>1, <1>4 DEF AtPeace, BearsInv, UntakenInv, Issues, Exists, Live
  <2>3. JarInv'
    BY <1>1, <1>4 DEF AtPeace, JarInv, Replacing, Exists, Live
  <2>4. QED BY <1>2, <2>1, <2>2, <2>3 DEF AtPeace
<1>5. CASE \E c \in Calls :
             /\ call[c].at = "idle" /\ wire[c].is = "unsent"
             /\ wire'[c].is = "sent"
             /\ wire'[c].kind = "refresh" =>
                  wire'[c].bears = jar /\ (jar # None \/ ~Blank(tab[b]))
             /\ \A d \in Calls : d # c => wire'[d] = wire[d]
  <2>1. PICK c \in Calls :
             /\ wire[c].is = "unsent" /\ wire'[c].is = "sent"
             /\ wire'[c].kind = "refresh" =>
                  wire'[c].bears = jar /\ (jar # None \/ ~Blank(tab[b]))
             /\ \A d \in Calls : d # c => wire'[d] = wire[d]
    BY <1>5
  <2>2. wire'[c].kind = "refresh" => wire'[c].bears = jar /\ jar # None
    BY <2>1 DEF AtPeace, BlankInv
  <2>3. BlankInv'
    BY <1>1, <1>3, <2>1, <2>2 DEF AtPeace, BlankInv, Blank
  <2>4. BearsInv'
    BY <2>1, <2>2 DEF AtPeace, BearsInv
  <2>5. UntakenInv'
    BY <1>1, <2>1 DEF AtPeace, UntakenInv, Issues, Exists, Live
  <2>6. JarInv'
    BY <1>1, <2>1 DEF AtPeace, JarInv, Replacing, Exists, Live
  <2>7. QED BY <1>2, <2>3, <2>4, <2>5, <2>6 DEF AtPeace
<1>6. QED BY <1>4, <1>5, TabMovesWire

LEMMA ReachPeace ==
  ASSUME BInv, Calm, AtPeace, NEW c \in Calls, Reach(c) PROVE AtPeace'
<1>1. IInv /\ WireOK /\ UNCHANGED <<tokens, jar, tab>>
  BY DEF BInv, Reach
<1>2. wire[c].bears \in Calls \cup {None}
  BY <1>1 DEF WireOK, Request
<1>3. /\ call[c].at = "idle"
      /\ call'[c].at \notin {"sweep"}
      /\ call'[c].at = "reuse" => call'[c].presented \in Calls /\ Replayed(call'[c].presented)
      /\ \A d \in Calls : d # c => call'[d] = call[d]
  BY <1>1, <1>2, ReachFacts
<1>4. NoReplay'
  BY <1>3 DEF AtPeace, NoReplay, Replayed, Calm
<1>5. /\ wire[c].is = "sent" /\ wire'[c].is \in {"received", "refused"}
      /\ wire'[c].kind = wire[c].kind /\ wire'[c].bears = wire[c].bears
      /\ \A d \in Calls : d # c => wire'[d] = wire[d]
  BY <1>1, ReachWire
<1>6. ~Exists(c)
  BY <1>1, <1>3 DEF IInv, RowInv, BirthInv
<1>7. BlankInv' /\ BearsInv'
  BY <1>1, <1>5 DEF AtPeace, BlankInv, Blank, BearsInv
<1>8. UntakenInv'
  BY <1>1, <1>5, <1>6 DEF AtPeace, UntakenInv, Issues, Exists, Live
<1>9. JarInv'
  BY <1>1, <1>5 DEF AtPeace, JarInv, Replacing, Exists, Live
<1>10. QED BY <1>4, <1>7, <1>8, <1>9 DEF AtPeace

\* A renewal spends only a cookie that was taken, and it may be the jar's.
LEMMA ContinuePeace ==
  ASSUME BInv, ServedInv, CookieInv, Calm, AtPeace, NEW c \in Calls, ServerGoesOn(c)
  PROVE  AtPeace'
<1>1. IInv /\ WireOK /\ KindInv /\ CallContinues(c) /\ UNCHANGED <<jar, wire, tab>>
  BY DEF BInv, TabsInv, ServerGoesOn
<1>2. /\ Ages /\ call[c].at \notin {"idle", "done"}
      /\ \A d \in Calls : d # c => call'[d] = call[d]
  BY <1>1, ContinueAges
<1>3. call[c].at \notin {"reuse", "sweep", "logout", "reset", "snapshot", "revokeall",
                         "commitreset"}
  BY <1>1 DEF AtPeace, NoReplay, Calm, KindInv, KindOf
<1>4. \/ IssueSession(c) \/ Spend(c) \/ SpendRefused(c) \/ CommitRotation(c)
      \/ Supersede(c) \/ IssueGrant(c)
  BY <1>1, <1>3
  DEF CallContinues, SeeFamily, RevokeFamily, RevokePresented, EnterReset, SeeSessions,
      RevokeAll, CommitReset, See
<1>5. NoReplay'
  <2>1. \E next \in {"done", "commit", "grant"} : Goto(c, next)
    BY <1>4
    DEF IssueSession, Spend, SpendRefused, AfterRefusal, CommitRotation, Supersede, IssueGrant
  <2>2. call'[c].at \in {"done", "commit", "grant"}
    BY <1>1, <2>1, GotoFields DEF IInv, CallSteps
  <2>3. QED BY <1>2, <2>2 DEF AtPeace, NoReplay
<1>6. BlankInv' /\ BearsInv'
  BY <1>1 DEF AtPeace, BlankInv, Blank, BearsInv
<1>7. ASSUME NEW d \in Calls, Exists(d) PROVE Exists(d)'
  BY <1>2, <1>7 DEF Ages, Exists
<1>8. CASE IssueSession(c)
  <2>1. tokens'[c].state = "live" /\ \A t \in Calls : t # c => tokens'[t] = tokens[t]
    BY <1>1, <1>8 DEF IssueSession, IInv, TypeOK
  <2>2. UntakenInv'
    BY <1>1, <2>1 DEF AtPeace, UntakenInv, Issues, Exists, Live
  <2>3. JarInv'
    <3>1. ASSUME jar # None, Live(jar) PROVE Live(jar)'
      BY <1>1, <2>1, <3>1 DEF WireOK, Live
    <3>2. \A d \in Calls : Replacing(jar, d) => Replacing(jar, d)'
      BY <1>1, <1>7 DEF Replacing
    <3>3. QED BY <1>1, <3>1, <3>2 DEF AtPeace, JarInv
  <2>4. QED BY <1>5, <1>6, <2>2, <2>3 DEF AtPeace
<1>9. CASE CommitRotation(c)
  <2>1. PICK p \in Calls : p = call[c].presented
    BY <1>1, <1>9, RotationFacts DEF IInv
  <2>2. /\ call[c].kind = "refresh" /\ p # c
        /\ tokens'[c].state = "live"
        /\ \A t \in Calls : t # c /\ t # p => tokens'[t] = tokens[t]
    BY <1>1, <1>9, <2>1, RotationFacts DEF IInv
  <2>3. wire[c].kind = "refresh" /\ wire[c].is = "received" /\ wire[c].bears = p
    BY <1>2, <2>1, <2>2 DEF Calm, ServedInv, ServedOf, Working
  <2>4. wire[p].is = "accepted"
    BY <2>3, NoneAssumption DEF CookieInv
  <2>5. UntakenInv'
    BY <1>1, <2>2, <2>4 DEF AtPeace, UntakenInv, Issues, Exists, Live
  <2>6. Replacing(p, c)'
    BY <1>1, <2>2, <2>3 DEF Replacing, Exists
  <2>7. JarInv'
    <3>1. CASE jar = p
      BY <1>1, <2>6, <3>1 DEF JarInv, Replacing, Exists
    <3>2. CASE jar # p
      <4>1. jar # None => jar # c
        BY <2>3 DEF CookieInv
      <4>2. ASSUME jar # None, Live(jar) PROVE Live(jar)'
        BY <1>1, <2>2, <3>2, <4>1, <4>2 DEF WireOK, Live
      <4>3. \A d \in Calls : Replacing(jar, d) => Replacing(jar, d)'
        BY <1>1, <1>7 DEF Replacing
      <4>4. QED BY <1>1, <4>2, <4>3 DEF AtPeace, JarInv
    <3>3. QED BY <3>1, <3>2
  <2>8. QED BY <1>5, <1>6, <2>5, <2>7 DEF AtPeace
<1>10. CASE UNCHANGED tokens
  <2>1. UntakenInv' /\ JarInv'
    BY <1>1, <1>10 DEF AtPeace, UntakenInv, Issues, JarInv, Replacing, Exists, Live
  <2>2. QED BY <1>5, <1>6, <2>1 DEF AtPeace
<1>11. QED
  BY <1>4, <1>8, <1>9, <1>10 DEF Spend, SpendRefused, Supersede, IssueGrant

LEMMA ArrivePeace ==
  ASSUME BInv, TabsOK, ServedInv, Calm, AtPeace, NEW c \in Calls, Arrive(c)
  PROVE  AtPeace'
<1>1. WireOK /\ UNCHANGED <<tokens, call>> /\ jar' = JarAfter(c)
  BY DEF BInv, Arrive, server
<1>2. wire[c].is \in {"received", "refused"}
  BY DEF Arrive, Answered
<1>3. wire[c].kind \notin {"logout", "reset"}
  BY <1>2 DEF ServedInv, ServedOf, Calm
<1>4. \/ jar' = c /\ wire[c].is = "received" /\ Exists(c) /\ Issues(c)
      \/ jar' = jar /\ ~(Succeeded(c) /\ Issues(c))
  BY <1>1, <1>3 DEF JarAfter, Succeeded, Issues, AtPeace, BearsInv
<1>5. /\ wire[c].by \in Tabs
      /\ wire'[c].is \in {"accepted", "rejected"}
      /\ wire'[c].is = "accepted" => Succeeded(c)
      /\ wire'[c].kind = wire[c].kind /\ wire'[c].bears = wire[c].bears
      /\ \A d \in Calls : d # c => wire'[d] = wire[d]
  BY <1>1, ArriveWire
<1>6. NoReplay' /\ BearsInv'
  BY <1>1, <1>5 DEF AtPeace, NoReplay, BearsInv
<1>7. BlankInv'
  <2> SUFFICES ASSUME jar' = None PROVE BlankInv'
    BY DEF BlankInv
  <2>1. jar = None /\ ~(Succeeded(c) /\ Issues(c))
    BY <1>4, NoneAssumption
  <2>2. /\ \A e \in Tabs : Blank(tab[e])
        /\ \A d \in Calls : /\ wire[d].kind # "refresh"
                            /\ wire[d].kind = "login" => wire[d].is # "accepted"
    BY <2>1 DEF AtPeace, BlankInv
  <2>3. PICK b \in Tabs : b = wire[c].by
    BY <1>5
  <2>4. PICK kind \in AllCallKinds \cup {"none"} : kind = wire[c].kind
    BY <1>1 DEF WireOK, Request
  <2>5. PICK ok \in BOOLEAN : ok <=> Succeeded(c)
    OBVIOUS
  <2>6. PICK v : v = TabAfter(tab[b], kind, ok, None)
    OBVIOUS
  <2>7. tab' = [tab EXCEPT ![b] = v]
    <3>1. ok = Succeeded(c)
      BY <2>5 DEF Succeeded
    <3>2. tab' = [tab EXCEPT ![b] = TabAfter(@, wire[c].kind, Succeeded(c), jar')]
      BY <2>3 DEF Arrive
    <3>3. QED BY <2>4, <2>6, <3>1, <3>2
  <2>8. kind \notin {"refresh", "logout"} /\ ~(kind = "login" /\ ok)
    BY <1>3, <2>1, <2>2, <2>4, <2>5 DEF Issues
  <2>9. tab[b] \in Tab
    BY DEF TabsOK
  <2>10. v.user = tab[b].user /\ v.stale = tab[b].stale
    BY <2>6, <2>8, <2>9, TabAfterType
  <2>11. \A e \in Tabs : Blank(tab'[e])
    BY <2>2, <2>7, <2>10 DEF TabsOK, Blank
  <2>12. \A d \in Calls : /\ wire'[d].kind # "refresh"
                          /\ wire'[d].kind = "login" => wire'[d].is # "accepted"
    BY <1>5, <2>1, <2>2 DEF Issues
  <2>13. QED BY <2>11, <2>12 DEF BlankInv, Blank
<1>8. UntakenInv'
  BY <1>1, <1>5 DEF AtPeace, UntakenInv, Issues, Exists, Live
<1>9. JarInv'
  <2>1. CASE jar' = c /\ wire[c].is = "received" /\ Exists(c) /\ Issues(c)
    <3>1. Live(c)
      BY <2>1 DEF AtPeace, UntakenInv
    <3>2. QED BY <1>1, <2>1, <3>1 DEF JarInv, Live
  <2>2. CASE jar' = jar /\ ~(Succeeded(c) /\ Issues(c))
    <3>1. ASSUME NEW d \in Calls, Replacing(jar, d) PROVE Replacing(jar, d)'
      <4>1. d # c
        BY <2>2, <3>1 DEF Replacing, Succeeded, Issues
      <4>2. QED BY <1>1, <1>5, <2>2, <3>1, <4>1 DEF Replacing, Exists
    <3>2. QED BY <1>1, <2>2, <3>1 DEF AtPeace, JarInv, Live
  <2>3. QED BY <1>4, <2>1, <2>2
<1>10. QED BY <1>6, <1>7, <1>8, <1>9 DEF AtPeace

LEMMA OutsidePeace ==
  ASSUME BInv, BInv', ServedInv, Calm', AtPeace, Outside PROVE AtPeace'
<1>1. PICK c \in Calls : c = NewCall /\ wire[c].is = "unsent"
  BY DEF Outside, NewCall, Unused
<1>2. CallBegins(c) /\ UNCHANGED <<jar, wire, tab>>
  BY <1>1 DEF Outside
<1>3. UNCHANGED tokens /\ \A d \in Calls : d # c => call'[d] = call[d]
  BY <1>2, BeginAges DEF BInv
<1>4. NoReplay'
  <2>1. call'[c].kind # "refresh"
    BY <1>1, <1>2 DEF Calm, ServedInv, ServedOf
  <2>2. call'[c].at \notin {"reuse", "sweep"}
    BY <2>1 DEF BInv, TabsInv, KindInv, KindOf
  <2>3. QED BY <1>3, <2>2 DEF AtPeace, NoReplay
<1>5. BlankInv' /\ BearsInv'
  BY <1>2 DEF AtPeace, BlankInv, Blank, BearsInv
<1>6. UntakenInv' /\ JarInv'
  BY <1>2, <1>3 DEF AtPeace, UntakenInv, Issues, JarInv, Replacing, Exists, Live
<1>7. QED BY <1>4, <1>5, <1>6 DEF AtPeace

LEMMA TabsNext ==
  ASSUME BInv, TabsOK, BNext PROVE TabsOK'
<1>1. ASSUME NEW b \in Tabs, TabMoves(b) PROVE TabsOK'
  BY <1>1, TabMovesTab DEF TabsOK
<1>2. ASSUME NEW c \in Calls, Arrive(c) \/ Lose(c) PROVE TabsOK'
  <2>1. wire[c].by \in Tabs
    BY <1>2, ArriveWire, LoseWire DEF BInv
  <2>2. PICK b \in Tabs : b = wire[c].by
    BY <2>1
  <2>3. PICK kind \in AllCallKinds \cup {"none"} : kind = wire[c].kind
    BY DEF BInv, WireOK, Request
  <2>4. \E ok \in BOOLEAN, cookie \in {jar, jar'} :
           tab' = [tab EXCEPT ![b] = TabAfter(@, kind, ok, cookie)]
    <3>1. CASE Arrive(c)
      <4>1. Succeeded(c) \in BOOLEAN
        BY DEF Succeeded
      <4>2. tab' = [tab EXCEPT ![b] = TabAfter(@, kind, Succeeded(c), jar')]
        BY <2>2, <2>3, <3>1 DEF Arrive
      <4>3. QED BY <4>1, <4>2
    <3>2. CASE Lose(c)
      BY <2>2, <2>3, <3>2 DEF Lose
    <3>3. QED BY <1>2, <3>1, <3>2
  <2>5. PICK ok \in BOOLEAN, cookie \in {jar, jar'} :
           tab' = [tab EXCEPT ![b] = TabAfter(@, kind, ok, cookie)]
    BY <2>4
  <2>6. TabAfter(tab[b], kind, ok, cookie) \in Tab
    BY TabAfterType DEF TabsOK
  <2>7. QED BY <2>5, <2>6 DEF TabsOK
<1>3. ASSUME UNCHANGED tab PROVE TabsOK'
  BY <1>3 DEF TabsOK
<1>4. QED BY <1>1, <1>2, <1>3 DEF BNext, Reach, ServerGoesOn, Fail, Outside

LEMMA InitJInv == BInit => JInv
<1> SUFFICES ASSUME BInit PROVE JInv
  OBVIOUS
<1>1. BInv
  BY InitBInv
<1>2. tab = [b \in Tabs |-> Mounted("closed")]
  BY DEF BInit
<1>3. Mounted("closed") \in Tab /\ Blank(Mounted("closed"))
  BY MountedType DEF Blank
<1>4. TabsOK /\ \A b \in Tabs : Blank(tab[b])
  BY <1>2, <1>3 DEF TabsOK
<1>5. /\ jar = None
      /\ \A c \in Calls : /\ wire[c].is = "unsent" /\ wire[c].kind = "none"
                          /\ call[c].at = "idle"
  BY DEF BInit, Init, NoRequest
<1>6. ServedInv /\ CookieInv
  BY <1>5 DEF ServedInv, ServedOf, Working, CookieInv
<1>7. AtPeace
  BY <1>4, <1>5
  DEF AtPeace, NoReplay, BlankInv, BearsInv, UntakenInv, JarInv
<1>8. QED BY <1>1, <1>4, <1>6, <1>7 DEF JInv

LEMMA NextJInv == ASSUME JInv, BNext PROVE JInv'
<1>1. BInv' /\ TabsOK' /\ ServedInv' /\ CookieInv'
  BY NextBInv, TabsNext, ServedNext, CookieNext DEF JInv
<1>2. ASSUME Calm' PROVE AtPeace'
  <2>1. BInv /\ TabsOK /\ ServedInv /\ CookieInv /\ Calm /\ AtPeace
    BY <1>2, CalmBefore DEF JInv
  <2>2. ASSUME NEW b \in Tabs, TabMoves(b) PROVE AtPeace'
    BY <2>1, <2>2, TabMovesPeace
  <2>3. ASSUME NEW c \in Calls, Reach(c) \/ ServerGoesOn(c) \/ Arrive(c) PROVE AtPeace'
    BY <2>1, <2>3, ReachPeace, ContinuePeace, ArrivePeace
  <2>4. ASSUME NEW c \in Calls, Fail(c) \/ Lose(c) PROVE FALSE
    BY <1>2, <2>1, <2>4, FailWire, LoseWire DEF Calm
  <2>5. ASSUME NEW t \in Calls, LeewayPasses(t) PROVE FALSE
    <3>1. tokens'[t].state = "revoked" /\ ~tokens'[t].fresh
      BY <2>1, <2>5 DEF LeewayPasses, BInv, IInv, TypeOK, Token
    <3>2. QED BY <1>2, <3>1 DEF Calm
  <2>6. ASSUME Outside PROVE AtPeace'
    BY <1>1, <1>2, <2>1, <2>6, OutsidePeace
  <2>7. QED BY <2>2, <2>3, <2>4, <2>5, <2>6 DEF BNext
<1>3. QED BY <1>1, <1>2 DEF JInv

LEMMA StutterJInv == ASSUME JInv, UNCHANGED bvars PROVE JInv'
<1>1. BInv'
  BY StutterBInv DEF JInv
<1>2. TabsOK' /\ ServedInv' /\ CookieInv'
  BY DEF JInv, bvars, TabsOK, ServedInv, ServedOf, Working, CookieInv
<1>3. ASSUME Calm' PROVE AtPeace'
  <2>1. Calm
    BY <1>3 DEF bvars, Calm, Flying
  <2>2. QED
    BY <2>1
    DEF JInv, bvars, AtPeace, NoReplay, BlankInv, Blank, BearsInv, UntakenInv, Issues,
        JarInv, Replacing, Exists, Live
<1>4. QED BY <1>1, <1>2, <1>3 DEF JInv

LEMMA CookieInvariant == BSpec => []JInv
BY InitJInv, NextJInv, StutterJInv, PTL DEF BSpec

\* The tabs, their requests and the jar keep to their types, and so does the
\* server behind them.
THEOREM BrowserTypeCorrect ==
  BSpec => [](TypeOK /\ wire \in [Calls -> Request] /\ jar \in Calls \cup {None}
                     /\ tab \in [Tabs -> Tab])
<1>1. JInv => TypeOK /\ wire \in [Calls -> Request] /\ jar \in Calls \cup {None}
                     /\ tab \in [Tabs -> Tab]
  BY DEF JInv, BInv, IInv, WireOK, TabsOK
<1>2. QED BY <1>1, CookieInvariant, PTL

\* A browser that has signed in, never signs out and loses no answer ends up
\* with a live token in its jar, however the renewals and the sign-ins of its
\* tabs overtook each other.
THEOREM TheJarSurvives == BSpec => []JarSurvivesTabs
<1>1. ASSUME JInv PROVE JarSurvivesTabs
  <2> SUFFICES ASSUME Undisturbed,
                      \A t \in Calls : tokens[t].state = "revoked" => tokens[t].fresh,
                      NEW c \in Calls, wire[c].kind = "login", wire[c].is = "accepted"
               PROVE  jar # None /\ Live(jar)
    BY DEF JarSurvivesTabs
  <2>1. Calm
    BY DEF Undisturbed, Calm, Flying
  <2>2. AtPeace
    BY <1>1, <2>1 DEF JInv
  <2>3. jar # None
    BY <2>2 DEF AtPeace, BlankInv
  <2>4. \A d \in Calls : ~Replacing(jar, d)
    BY DEF Undisturbed, Replacing
  <2>5. QED BY <2>2, <2>3, <2>4 DEF AtPeace, JarInv
<1>2. QED BY <1>1, CookieInvariant, PTL

=============================================================================
