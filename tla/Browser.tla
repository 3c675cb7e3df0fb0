------------------------------ MODULE Browser ------------------------------
(***************************************************************************)
(* One browser of the user: its cookie jar, and the tabs that share it.    *)
(* The tabs post the requests of RefreshTokens; other clients make theirs  *)
(* beside them.                                                            *)
(*                                                                         *)
(* A request is sent with the cookie the jar holds at that moment, reaches *)
(* the server later, and its answer arrives later still, in any order with *)
(* the answers of other requests.  A page load abandons the requests of    *)
(* the page before it: the server may still serve them, and nobody takes   *)
(* their answers or their cookies.                                         *)
(*                                                                         *)
(* Registering and accepting an invitation issue a session as logging in   *)
(* does; who the session is for is left out.                               *)
(***************************************************************************)
EXTENDS RefreshTokens, FiniteSets

CONSTANTS
  Tabs,          \* the tabs of the browser
  Pages,         \* the pages each of them visits
  Readers,       \* the tabs whose pages read
  MaxSent,       \* bound on the requests of the tabs
  OutsideKinds   \* the operations other clients perform

\* "app" stands for the seven pages behind the session.
AllPages == {"app", "login", "register", "forgot", "reset", "invite"}

ASSUME PagesAssumption == Pages \in [Tabs -> SUBSET AllPages]
ASSUME ReadersAssumption == Readers \subseteq Tabs
ASSUME MaxSentAssumption == MaxSent \in Nat
ASSUME OutsideAssumption == OutsideKinds \subseteq CallKinds

VARIABLES
  jar,    \* the refresh cookie: a token row, or None
  wire,   \* the requests of the tabs
  tab     \* what each tab shows and holds

server == <<tokens, grants, password, lock, call, failures>>
bvars == <<tokens, grants, password, lock, call, failures, jar, wire, tab>>

-----------------------------------------------------------------------------
(* State.                                                                   *)

\* by: the tab that waits for the answer; bears: the cookie or the link sent.
Request == [by : Tabs \cup {None}, kind : AllCallKinds \cup {"none"},
            is : {"unsent", "sent", "received", "refused", "accepted", "rejected"},
            bears : Calls \cup {None}]

NoRequest == [by |-> None, kind |-> "none", is |-> "unsent", bears |-> None]

\* user: what the session provider knows; renewal: its shared request;
\* stale: a call with an expired access token is on its way.
Tab == [page : AllPages \cup {"closed"},
        stage : {"shown", "company", "account", "checking", "invalid", "cooling",
                 "again", "done"},
        user : {"unknown", "in", "out"},
        token : {"none", "good", "expired"},
        renewal : Calls \cup {None},
        stale : BOOLEAN]

FirstStage(p) ==
  CASE p = "register" -> "company"
    [] p = "invite"   -> "checking"
    [] OTHER          -> "shown"

Mounted(p) == [page |-> p, stage |-> FirstStage(p), user |-> "unknown",
               token |-> "none", renewal |-> None, stale |-> FALSE]

BInit ==
  /\ Init
  /\ jar = None
  /\ wire = [c \in Calls |-> NoRequest]
  /\ tab = [b \in Tabs |-> Mounted("closed")]

-----------------------------------------------------------------------------
(* Where a navigation ends up.                                              *)

\* docuflow_session is set and cleared with the refresh cookie.
SignedInFlag(cookie) == cookie # None

Protected == {"app"}
AuthOnly == {"login", "register", "forgot"}

Proxy(p, cookie) ==
  CASE ~SignedInFlag(cookie) /\ p \in Protected -> "login"
    [] SignedInFlag(cookie) /\ p \in AuthOnly   -> "app"
    [] OTHER                                    -> p

\* A navigation inside the application keeps the session provider.
Shows(t, p) == [t EXCEPT !.page = p, !.stage = FirstStage(p)]

Status(b) ==
  CASE tab[b].user = "in"  -> "authenticated"
    [] tab[b].user = "unknown" /\ SignedInFlag(jar) -> "restoring"
    [] OTHER               -> "anonymous"

\* Reads the tabs' requests in the order they are made.
Unused == {c \in Calls : call[c].at = "idle" /\ wire[c].is = "unsent"}
NewCall == CHOOSE c \in Unused : TRUE

Send(b, kind, bears) ==
  /\ Unused # {}
  /\ Cardinality({c \in Calls : wire[c].is # "unsent"}) < MaxSent
  /\ kind \in CallKinds
  /\ wire' = [wire EXCEPT ![NewCall] =
                [by |-> b, kind |-> kind, is |-> "sent", bears |-> bears]]

Flying(c) == wire[c].is \in {"sent", "received", "refused"}
Waiting(b, kind) == \E c \in Calls : Flying(c) /\ wire[c].by = b /\ wire[c].kind = kind

\* A page load: the provider starts over, and what was in flight is abandoned.
Visit(b, p) ==
  /\ tab' = [tab EXCEPT ![b] = Mounted(Proxy(p, jar))]
  /\ wire' = [c \in Calls |->
                IF Flying(c) /\ wire[c].by = b THEN [wire[c] EXCEPT !.by = None]
                ELSE wire[c]]
  /\ UNCHANGED <<server, jar>>

Follow(b, p) ==
  /\ tab[b].page \notin {"closed", Proxy(p, jar)}
  /\ tab' = [tab EXCEPT ![b] = Shows(tab[b], Proxy(p, jar))]
  /\ UNCHANGED <<server, jar, wire>>

\* AppShell turns an anonymous visitor away, as far as the proxy lets it.
TurnAway(b) ==
  /\ tab[b].page = "app"
  /\ Status(b) = "anonymous"
  /\ tab' = [tab EXCEPT ![b] = Shows(tab[b], Proxy("login", jar))]
  /\ UNCHANGED <<server, jar, wire>>

-----------------------------------------------------------------------------
(* The session provider.                                                    *)

RenewalShared(b) == tab[b].renewal # None

\* renew: joins the renewal in flight or starts one.  Whoever waits for it
\* goes on with its token, or with its error, once the answer is in.
Renew(b) ==
  IF RenewalShared(b)
  THEN /\ tab' = [tab EXCEPT ![b].stale = FALSE]
       /\ UNCHANGED wire
  ELSE /\ Send(b, "refresh", jar)
       /\ tab' = [tab EXCEPT ![b].stale = FALSE, ![b].renewal = NewCall]

\* The cold load restores a session when the flag says there may be one.
Restore(b) ==
  /\ tab[b].page # "closed"
  /\ Status(b) = "restoring"
  /\ tab[b].renewal = None
  /\ Renew(b)
  /\ UNCHANGED <<server, jar>>

\* withToken: without a token the renewal comes first; with an expired one the
\* call is sent and refused.  A call with a good token ends by itself.
StartRead(b) ==
  /\ b \in Readers
  /\ tab[b].page = "app"
  /\ tab[b].user # "unknown"
  /\ ~tab[b].stale
  /\ \/ tab[b].token = "none" /\ Renew(b)
     \/ /\ tab[b].token = "expired"
        /\ tab' = [tab EXCEPT ![b].stale = TRUE]
        /\ UNCHANGED wire
  /\ UNCHANGED <<server, jar>>

\* The 401 for it; the call is replayed once the renewal is there.
ReadUnauthorized(b) ==
  /\ tab[b].stale
  /\ Renew(b)
  /\ UNCHANGED <<server, jar>>

AccessTokenExpires(b) ==
  /\ b \in Readers
  /\ tab[b].token = "good"
  /\ tab' = [tab EXCEPT ![b].token = "expired"]
  /\ UNCHANGED <<server, jar, wire>>

Adopted(t) == [t EXCEPT !.user = "in", !.token = "good"]
Cleared(t) == [t EXCEPT !.user = "out", !.token = "none"]

AfterRenewal(t, ok) ==
  [(IF ok THEN Adopted(t) ELSE Cleared(t)) EXCEPT !.renewal = None]

-----------------------------------------------------------------------------
(* The forms.                                                               *)

SubmitLogin(b) ==
  /\ tab[b].page = "login"
  /\ ~Waiting(b, "login")
  /\ Send(b, "login", None)
  /\ UNCHANGED <<server, jar, tab>>

\* The first step of the registration form asks for the company.
RegisterNext(b) ==
  /\ tab[b].page = "register"
  /\ tab[b].stage = "company"
  /\ tab' = [tab EXCEPT ![b].stage = "account"]
  /\ UNCHANGED <<server, jar, wire>>

RegisterBack(b) ==
  /\ tab[b].page = "register"
  /\ tab[b].stage = "account"
  /\ tab' = [tab EXCEPT ![b].stage = "company"]
  /\ UNCHANGED <<server, jar, wire>>

SubmitRegister(b) ==
  /\ tab[b].page = "register"
  /\ tab[b].stage = "account"
  /\ ~Waiting(b, "login")
  /\ Send(b, "login", None)
  /\ UNCHANGED <<server, jar, tab>>

\* The link is looked at before the form is shown.
PreviewInvitation(b) ==
  /\ tab[b].page = "invite"
  /\ tab[b].stage = "checking"
  /\ \E found \in {"shown", "invalid"} : tab' = [tab EXCEPT ![b].stage = found]
  /\ UNCHANGED <<server, jar, wire>>

\* Nothing in this handler keeps a second submission back.
SubmitInvite(b) ==
  /\ tab[b].page = "invite"
  /\ tab[b].stage = "shown"
  /\ Send(b, "login", None)
  /\ UNCHANGED <<server, jar, tab>>

\* "Send again" does not look at the request under way either.
SubmitForgot(b) ==
  /\ tab[b].page = "forgot"
  /\ \/ tab[b].stage = "shown" /\ ~Waiting(b, "forgot")
     \/ tab[b].stage = "again"
  /\ Send(b, "forgot", None)
  /\ UNCHANGED <<server, jar, tab>>

CooldownEnds(b) ==
  /\ tab[b].page = "forgot"
  /\ tab[b].stage = "cooling"
  /\ tab' = [tab EXCEPT ![b].stage = "again"]
  /\ UNCHANGED <<server, jar, wire>>

\* The link names a grant that was issued, used since or not.
SubmitReset(b) ==
  /\ tab[b].page = "reset"
  /\ tab[b].stage = "shown"
  /\ ~Waiting(b, "reset")
  /\ \E g \in Calls : grants[g] # "none" /\ Send(b, "reset", g)
  /\ UNCHANGED <<server, jar, tab>>

\* The account menu, which is there while the provider has a user.
SignOut(b) ==
  /\ tab[b].page = "app"
  /\ tab[b].user = "in"
  /\ ~Waiting(b, "logout")
  /\ Send(b, "logout", jar)
  /\ UNCHANGED <<server, jar, tab>>

-----------------------------------------------------------------------------
(* The server receives a request, and its answer comes back.                *)

\* A refresh without a usable cookie, and a reset with a used link, are
\* refused at once; a logout without a live token has nothing to do.
Refused(kind, r) ==
  \/ kind = "refresh" /\ (r = None \/ (r # None /\ ~Live(r) /\ ~Replayed(r)))
  \/ kind = "reset" /\ grants[r] # "open"

Receive(c, kind, r) ==
  \/ kind = "login" /\ Begin(c, kind, "issue", None)
  \/ kind = "refresh" /\ r # None /\ Live(r) /\ Begin(c, kind, "rotate", r)
  \/ kind = "refresh" /\ r # None /\ Replayed(r) /\ Begin(c, kind, "reuse", r)
  \/ kind = "logout" /\ r # None /\ Live(r) /\ Begin(c, kind, "logout", r)
  \/ kind = "logout" /\ (r = None \/ (r # None /\ ~Live(r))) /\ Begin(c, kind, "done", r)
  \/ kind = "forgot" /\ Begin(c, kind, "supersede", None)
  \/ kind = "reset" /\ grants[r] = "open" /\ Begin(c, kind, "reset", r)
  \/ Refused(kind, r) /\ Begin(c, kind, "done", r)

Reach(c) ==
  /\ wire[c].is = "sent"
  /\ Receive(c, wire[c].kind, wire[c].bears)
  /\ wire' = [wire EXCEPT ![c].is =
                IF Refused(wire[c].kind, wire[c].bears) THEN "refused" ELSE "received"]
  /\ UNCHANGED <<tokens, grants, password, lock, failures, jar, tab>>

\* An error or a crash is an answer too: nothing is set or cleared.
Fail(c) ==
  /\ CutOff(c)
  /\ wire' = [wire EXCEPT ![c].is = IF @ = "received" THEN "refused" ELSE @]
  /\ UNCHANGED <<jar, tab>>

Answered(c) == wire[c].is = "refused" \/ (wire[c].is = "received" /\ call[c].at = "done")

\* startSession needs the token the call has minted.
Succeeded(c) ==
  /\ wire[c].is = "received"
  /\ wire[c].kind \in {"login", "refresh"} => Exists(c)

\* Mutant: a refused refresh drops the cookie, as one without a cookie does.
ClearsOnRefusal(c) == IF Succeeded(c) /\ wire[c].kind \in {"login", "refresh"} THEN c
                      ELSE IF wire[c].kind \in {"logout", "reset", "refresh"} THEN None
                      ELSE jar

\* startSession and clearSession
JarAfter(c) ==
  CASE Succeeded(c) /\ wire[c].kind \in {"login", "refresh"} -> c
    [] Succeeded(c) /\ wire[c].kind \in {"logout", "reset"}  -> None
    [] wire[c].kind = "refresh" /\ wire[c].bears = None      -> None
    [] OTHER                                                 -> jar

\* What the tab does with an answer; the jar has taken its cookies before.
TabAfter(t, kind, ok, cookie) ==
  CASE kind = "refresh"       -> AfterRenewal(t, ok)
    [] kind = "login" /\ ok   -> Shows(Adopted(t), Proxy("app", cookie))
    [] kind = "logout"        -> Shows(Cleared(t), Proxy("login", cookie))
    [] kind = "forgot" /\ ok /\ t.page = "forgot" -> [t EXCEPT !.stage = "cooling"]
    [] kind = "reset" /\ ok /\ t.page = "reset"   -> [t EXCEPT !.stage = "done"]
    [] OTHER                  -> t

Arrive(c) ==
  LET b == wire[c].by
  IN  /\ b # None
      /\ Answered(c)
      /\ jar' = JarAfter(c)
      /\ tab' = [tab EXCEPT ![b] = TabAfter(@, wire[c].kind, Succeeded(c), jar')]
      /\ wire' = [wire EXCEPT ![c].is = IF Succeeded(c) THEN "accepted" ELSE "rejected"]
      /\ UNCHANGED server

\* The connection breaks before the request arrives or before its answer does.
Lose(c) ==
  LET b == wire[c].by
  IN  /\ b # None
      /\ wire[c].is = "sent" \/ Answered(c)
      /\ failures < MaxFailures
      /\ failures' = failures + 1
      /\ tab' = [tab EXCEPT ![b] = TabAfter(@, wire[c].kind, FALSE, jar)]
      /\ wire' = [wire EXCEPT ![c].is = "rejected"]
      /\ UNCHANGED <<tokens, grants, password, lock, call, jar>>

-----------------------------------------------------------------------------

TabMoves(b) ==
  \/ \E p \in Pages[b] : Visit(b, p) \/ Follow(b, p)
  \/ TurnAway(b) \/ Restore(b) \/ SignOut(b)
  \/ StartRead(b) \/ ReadUnauthorized(b) \/ AccessTokenExpires(b)
  \/ SubmitLogin(b)
  \/ RegisterNext(b) \/ RegisterBack(b) \/ SubmitRegister(b)
  \/ PreviewInvitation(b) \/ SubmitInvite(b)
  \/ SubmitForgot(b) \/ CooldownEnds(b)
  \/ SubmitReset(b)

\* Another client: its requests are not the browser's.
Outside ==
  /\ Unused # {}
  /\ CallBegins(NewCall)
  /\ call'[NewCall].kind \in OutsideKinds
  /\ UNCHANGED <<jar, wire, tab>>

ServerGoesOn(c) == CallContinues(c) /\ UNCHANGED <<jar, wire, tab>>

BNext ==
  \/ \E b \in Tabs : TabMoves(b)
  \/ \E c \in Calls : Reach(c) \/ ServerGoesOn(c) \/ Fail(c) \/ Arrive(c) \/ Lose(c)
  \/ \E t \in Calls : LeewayPasses(t) /\ UNCHANGED <<jar, wire, tab>>
  \/ Outside

BSpec == BInit /\ [][BNext]_bvars

BFairSpec == BSpec /\ \A c \in Calls : WF_bvars(ServerGoesOn(c))

-----------------------------------------------------------------------------
(* Properties.                                                              *)

\* The browser made every request that presented a token, no page load or
\* error has cost it an answer, and all of them are in.
Undisturbed ==
  /\ failures = 0
  /\ \A c \in Calls :
       /\ call[c].kind = "refresh" => wire[c].kind = "refresh"
       /\ wire[c].is \in {"unsent", "accepted", "rejected"}
       /\ call[c].kind \notin {"logout", "reset"}

\* "Treating that as a breach would sign the user out everywhere for opening
\* tabs" (rotate): a browser that has signed in and never signs out ends up
\* with a live token in its jar, however its tabs' renewals and sign-ins
\* overtook each other, as long as no request was slower than the leeway.
JarSurvivesTabs ==
  /\ Undisturbed
  /\ \A t \in Calls : tokens[t].state = "revoked" => tokens[t].fresh
  /\ \E c \in Calls : wire[c].kind = "login" /\ wire[c].is = "accepted"
  => jar # None /\ Live(jar)

\* Signing out ends the session on the server: once the answer is in, no
\* token of the family is live, unless a renewal presented the same token
\* (the row is read, and revoked by its id, in two steps).
SignOutEnds ==
  \A c \in Calls :
    LET t == wire[c].bears
    IN  /\ wire[c].kind = "logout" /\ wire[c].is = "accepted" /\ t # None
        /\ \A d \in Calls : call[d].kind = "refresh" => call[d].presented # t
        => \A u \in Family(tokens[t].family) : ~Live(u)

=============================================================================
