------------------------------- MODULE Feeds -------------------------------
(***************************************************************************)
(* The screens that list a table of the server a page at a time and keep   *)
(* the list while the reader changes what is asked for: the approvals      *)
(* queue, the activity trail and the full-text search.                     *)
(*                                                                         *)
(* A request is sent, answered from the tables as they then are, and       *)
(* arrives - three steps, in any order with those of the others.  The      *)
(* delay before a typed term is searched for is not modelled: an ask       *)
(* begins when it has passed.                                              *)
(*                                                                         *)
(* The event stream belongs to the layout around the screens: it may be    *)
(* open or not when one is opened, it is lost and opened again, and what   *)
(* fires meanwhile or is still on its way is gone (LiveProvider), as is    *)
(* one that Redis does not take (EventsService.publish).  No screen here   *)
(* asks again when the stream reopens.                                     *)
(***************************************************************************)
EXTENDS Naturals, Sequences

CONSTANTS
  Screens,      \* those among "approvals", "trail" and "search" that are looked at
  Asks,         \* what a list can be narrowed to: a tab, a filter, a term with a tag
  Blank,        \* no term, on the search screen
  FirstRows,    \* how many rows there are at the start
  PageSize,     \* PAGE_SIZE, DEFAULT_PAGE_SIZE, limit
  MaxOffset,    \* MAX_OFFSET of the search
  MaxRequests,  \* bound on the requests of the screen
  MaxChanges,   \* bound on what others change meanwhile
  MaxRefusals   \* bound on the requests that fail

AllScreens == {"approvals", "trail", "search"}

ASSUME ScreensAssumption == Screens \subseteq AllScreens /\ Blank \notin Asks
ASSUME FeedBoundsAssumption ==
  /\ {PageSize, MaxRequests} \subseteq Nat \ {0}
  /\ {FirstRows, MaxOffset, MaxChanges, MaxRefusals} \subseteq Nat

VARIABLES
  screen,   \* the one that is open
  listing,  \* the rows in the order the server lists them: newest first, or by rank
  fits,     \* what each row is listed for
  pending,  \* the approval requests that are not settled
  feed,     \* what the screen shows and remembers
  sent,     \* its requests under way
  live,     \* the stream is open and delivers
  told,     \* approval.changed events on their way to it
  spent,    \* how much of each bound is used
  missed,   \* for the properties only: an event was lost since the list was last
            \* asked for
  crossed   \* for the properties only: rows were appended that do not continue
            \* the list they were appended to

feedTables == <<screen, listing, fits, pending>>
feedVars == <<feedTables, feed, sent, live, told, spent, missed, crossed>>

-----------------------------------------------------------------------------
(* State.                                                                   *)

FeedRows == 1..(FirstRows + MaxChanges)

\* for is the ask of the request that brought it.
ShownRow == [row : FeedRows, open : BOOLEAN, for : Asks]

\* No cursor, no offset, no request.
Nil == 0

\* turn is the request whose answer is waited for, resultsFor what the rows are
\* said to belong to, deciding the request in the dialog, and refetching,
\* loadingMore and busy the signs of work.
Feed == [ask : Asks \cup {Blank}, turn : Nat, shown : Seq(ShownRow), cursor : Nat,
         load : {"loading", "ready", "error"}, resultsFor : Asks \cup {Blank},
         message : BOOLEAN, deciding : FeedRows \cup {Nil},
         refetching : BOOLEAN, loadingMore : BOOLEAN, busy : BOOLEAN]

Reply == [at : {"asked", "answered", "failed"}, rows : Seq(ShownRow), next : Nat]

Unanswered == [at |-> "asked", rows |-> <<>>, next |-> Nil]

FeedRequest == [id : Nat, kind : {"load", "more", "decide", "withdraw"}, ask : Asks,
            cursor : Nat, turn : Nat, row : FeedRows \cup {Nil}, reply : Reply]

NewRequest == [id |-> spent.requests + 1, kind |-> "load", ask |-> feed.ask, cursor |-> Nil,
               turn |-> feed.turn, row |-> Nil, reply |-> Unanswered]

FeedTypeOK ==
  /\ screen \in Screens
  /\ listing \in Seq(FeedRows)
  /\ fits \in [FeedRows -> SUBSET Asks]
  /\ pending \subseteq FeedRows
  /\ feed \in Feed
  /\ sent \subseteq FeedRequest
  /\ live \in BOOLEAN
  /\ told \in Nat
  /\ spent \in [requests : 0..MaxRequests, changes : 0..MaxChanges, refusals : 0..MaxRefusals]
  /\ missed \in BOOLEAN
  /\ crossed \in BOOLEAN

\* The screen has just been opened: the search waits for a term, the others ask.
FeedInit ==
  /\ screen \in Screens
  /\ listing = [i \in 1..FirstRows |-> FirstRows + 1 - i]
  /\ fits \in [FeedRows -> (SUBSET Asks) \ {{}}]
  /\ \A r \in FeedRows : r > FirstRows => fits[r] = Asks
  /\ pending = IF screen = "approvals" THEN 1..FirstRows ELSE {}
  /\ \E a \in Asks :
       LET first == IF screen = "search" THEN Blank ELSE a
           begun == IF screen = "search" THEN 0 ELSE 1
       IN  /\ feed = [ask |-> first, turn |-> begun, shown |-> <<>>, cursor |-> Nil,
                      load |-> "loading", resultsFor |-> Blank, message |-> FALSE,
                      deciding |-> Nil, refetching |-> FALSE, loadingMore |-> FALSE, busy |-> FALSE]
           /\ sent = IF screen = "search" THEN {}
                     ELSE {[id |-> 1, kind |-> "load", ask |-> a, cursor |-> Nil, turn |-> 1,
                            row |-> Nil, reply |-> Unanswered]}
           /\ spent = [requests |-> begun, changes |-> 0, refusals |-> 0]
  /\ live \in BOOLEAN
  /\ told = 0
  /\ missed = FALSE
  /\ crossed = FALSE

-----------------------------------------------------------------------------
(* The reader, and what makes the screen ask again.                         *)

MaySend == spent.requests < MaxRequests

Issue(request) ==
  /\ MaySend
  /\ sent' = sent \cup {request}
  /\ spent' = [spent EXCEPT !.requests = @ + 1]

\* The effect runs again, and only the answer of this run will be shown.
Reload(page) ==
  /\ Issue([NewRequest EXCEPT !.ask = page.ask, !.turn = spent.requests + 1])
  /\ feed' = [page EXCEPT !.turn = spent.requests + 1]
  /\ missed' = FALSE

\* Nothing behind the dialog can be pressed.
NoDialog == feed.deciding = Nil

\* What is shown stays until the answer is there.
Narrow(a) ==
  /\ NoDialog
  /\ feed.ask # a
  /\ Reload([feed EXCEPT !.ask = a, !.refetching = (screen = "approvals")])
  /\ UNCHANGED <<feedTables, live, told, crossed>>

\* An empty search field: nothing is asked, and nothing given up.
ClearTerm ==
  /\ screen = "search"
  /\ feed.ask # Blank
  /\ feed' = [feed EXCEPT !.ask = Blank]
  /\ UNCHANGED <<feedTables, sent, live, told, spent, missed, crossed>>

\* What the search screen says of itself.
SearchLoad == CASE feed.ask = Blank -> "idle"
                [] feed.ask # Blank /\ feed.resultsFor # feed.ask -> "loading"
                [] OTHER -> IF feed.message THEN "error" ELSE "ready"

Says == IF screen = "search" THEN SearchLoad ELSE feed.load

RetryLoad ==
  /\ NoDialog
  /\ Says = "error"
  /\ Reload(CASE screen = "approvals" -> [feed EXCEPT !.refetching = TRUE]
              [] screen = "trail" -> [feed EXCEPT !.load = "loading"]
              [] screen = "search" -> [feed EXCEPT !.resultsFor = Blank])
  /\ UNCHANGED <<feedTables, live, told, crossed>>

\* The button under the list: only the trail remembers that it was pressed.
LoadMore ==
  /\ NoDialog
  /\ feed.cursor # Nil
  /\ feed.shown # <<>>
  /\ Says = "ready" \/ (screen = "search" /\ Says = "loading")
  /\ ~feed.loadingMore
  /\ Issue([NewRequest EXCEPT !.kind = "more", !.cursor = feed.cursor])
  /\ feed' = [feed EXCEPT !.loadingMore = (screen = "trail")]
  /\ UNCHANGED <<feedTables, live, told, missed, crossed>>

\* A card offers what can be done while its request is pending, as it shows it.
Offered(i) == screen = "approvals" /\ Says = "ready" /\ NoDialog /\ feed.shown[i].open

\* onDecide: the dialog keeps its request, whatever becomes of the list behind it.
OpenDecision(i) ==
  /\ Offered(i)
  /\ feed' = [feed EXCEPT !.deciding = feed.shown[i].row]
  /\ UNCHANGED <<feedTables, sent, live, told, spent, missed, crossed>>

CloseDecision ==
  /\ feed.deciding # Nil
  /\ feed' = [feed EXCEPT !.deciding = Nil]
  /\ UNCHANGED <<feedTables, sent, live, told, spent, missed, crossed>>

\* submitDecision: not sent twice at a time.
SubmitDecision ==
  /\ feed.deciding # Nil
  /\ ~feed.busy
  /\ Issue([NewRequest EXCEPT !.kind = "decide", !.row = feed.deciding])
  /\ feed' = [feed EXCEPT !.busy = TRUE]
  /\ UNCHANGED <<feedTables, live, told, missed, crossed>>

Withdraw(i) ==
  /\ Offered(i)
  /\ Issue([NewRequest EXCEPT !.kind = "withdraw", !.row = feed.shown[i].row])
  /\ UNCHANGED <<feedTables, feed, live, told, missed, crossed>>

\* Mutant: an event is passed over while the screen is asking already.
HeardWhenIdle == ~feed.refetching

HeardAlways == TRUE

\* Somebody asked for an approval or settled one.
HearChange ==
  /\ told > 0
  /\ told' = told - 1
  /\ IF HeardAlways THEN Reload([feed EXCEPT !.refetching = TRUE])
                    ELSE UNCHANGED <<feed, sent, spent, missed>>
  /\ UNCHANGED <<feedTables, live, crossed>>

OpenStream ==
  /\ screen = "approvals"
  /\ ~live
  /\ live' = TRUE
  /\ UNCHANGED <<feedTables, feed, sent, told, spent, missed, crossed>>

LoseStream ==
  /\ screen = "approvals"
  /\ live
  /\ live' = FALSE
  /\ told' = 0
  /\ missed' = (missed \/ told > 0)
  /\ UNCHANGED <<feedTables, feed, sent, spent, crossed>>

-----------------------------------------------------------------------------
(* The server.                                                              *)

\* What a WHERE leaves of the rows, in their order.
Those(rows, wanted) ==
  LET upTo[i \in 0..Len(rows)] ==
        IF i = 0 THEN <<>>
        ELSE IF rows[i] \in wanted THEN Append(upTo[i - 1], rows[i]) ELSE upTo[i - 1]
  IN  upTo[Len(rows)]

Fitting(a) == Those(listing, {r \in FeedRows : a \in fits[r]})

Place(r) == CHOOSE i \in DOMAIN listing : listing[i] = r

\* The rows from the one the cursor names on, without the first of them.
AfterCursor(a, cursor) ==
  LET older == {listing[i] : i \in Place(cursor)..Len(listing)}
      from == IF cursor = Nil THEN Fitting(a) ELSE Those(Fitting(a), older)
  IN  IF cursor = Nil \/ from = <<>> THEN from ELSE Tail(from)

AfterOffset(a, offset) == SubSeq(Fitting(a), offset + 1, Len(Fitting(a)))

\* Mutant: the lists are paged by how many rows have been shown.
PagedByCount(a, cursor) ==
  AfterOffset(a, IF cursor = Nil THEN 0 ELSE Len(feed.shown))

Rest(a, cursor) ==
  IF screen = "search" THEN AfterOffset(a, cursor) ELSE AfterCursor(a, cursor)

NextCursor(rest, cursor) ==
  CASE Len(rest) <= PageSize -> Nil
    [] screen # "search" /\ Len(rest) > PageSize -> rest[PageSize]
    [] OTHER -> IF cursor + PageSize <= MaxOffset THEN cursor + PageSize ELSE Nil

Page(q) ==
  LET rest == Rest(q.ask, q.cursor)
      size == IF Len(rest) > PageSize THEN PageSize ELSE Len(rest)
  IN  [at |-> "answered", next |-> NextCursor(rest, q.cursor),
       rows |-> [i \in 1..size |-> [row |-> rest[i], open |-> rest[i] \in pending, for |-> q.ask]]]

Replied(q, reply) == sent' = (sent \ {q}) \cup {[q EXCEPT !.reply = reply]}

\* publish: the stream carries the event, or it is gone, for the stream is down
\* or Redis did not take it.
Publish ==
  \/ live /\ told' = told + 1 /\ UNCHANGED missed
  \/ missed' = TRUE /\ UNCHANGED told

Silent == UNCHANGED <<told, missed>>

GivePage(q) ==
  /\ q.kind \in {"load", "more"}
  /\ Replied(q, Page(q))
  /\ Silent
  /\ UNCHANGED <<feedTables, spent>>

\* decide and cancel write only while the request is pending; the event goes out
\* before the answer.
SettleIt(q) ==
  /\ q.kind \in {"decide", "withdraw"}
  /\ q.row \in pending
  /\ pending' = pending \ {q.row}
  /\ Publish
  /\ Replied(q, [Unanswered EXCEPT !.at = "answered"])
  /\ UNCHANGED <<screen, listing, fits, spent>>

RefuseIt(q) ==
  /\ q.kind \in {"decide", "withdraw"}
  /\ q.row \notin pending
  /\ Replied(q, [Unanswered EXCEPT !.at = "failed"])
  /\ Silent
  /\ UNCHANGED <<feedTables, spent>>

\* The request, or the way to the server, fails.
FailIt(q) ==
  /\ spent.refusals < MaxRefusals
  /\ spent' = [spent EXCEPT !.refusals = @ + 1]
  /\ Replied(q, [Unanswered EXCEPT !.at = "failed"])
  /\ Silent
  /\ UNCHANGED feedTables

Serve == /\ \E q \in sent : /\ q.reply.at = "asked"
                            /\ GivePage(q) \/ SettleIt(q) \/ RefuseIt(q) \/ FailIt(q)
         /\ UNCHANGED <<feed, live, crossed>>

Change == /\ spent.changes < MaxChanges
          /\ spent' = [spent EXCEPT !.changes = @ + 1]
          /\ UNCHANGED <<screen, feed, sent, live, crossed>>

\* A new approval request, audit entry or processed document.
Appear ==
  \E place \in 0..Len(listing) :
    LET r == Len(listing) + 1
    IN  /\ Change
        /\ screen # "search" => place = 0
        /\ listing' = SubSeq(listing, 1, place) \o <<r>> \o SubSeq(listing, place + 1, Len(listing))
        /\ pending' = IF screen = "approvals" THEN pending \cup {r} ELSE pending
        /\ IF screen = "approvals" THEN Publish ELSE Silent
        /\ UNCHANGED fits

SettledByOther ==
  \E r \in pending :
    /\ Change
    /\ pending' = pending \ {r}
    /\ Publish
    /\ UNCHANGED <<listing, fits>>

\* A document is tagged, processed anew or trashed.
Rematch ==
  \E i \in DOMAIN listing, to \in SUBSET Asks :
    /\ screen = "search"
    /\ Change
    /\ fits[listing[i]] # to
    /\ fits' = [fits EXCEPT ![listing[i]] = to]
    /\ Silent
    /\ UNCHANGED <<listing, pending>>

-----------------------------------------------------------------------------
(* Answers.                                                                 *)

\* Mutant: whatever answer comes is shown.
AnyAnswer(q) == TRUE

LatestAnswer(q) == q.turn = feed.turn

\* Mutant: a failed search does not say which search it was.
Unsaid(q) == feed.resultsFor

FailedFor(q) == q.ask

ShowLoad(q) ==
  feed' = IF q.reply.at = "answered"
          THEN [feed EXCEPT !.shown = q.reply.rows, !.cursor = q.reply.next, !.load = "ready",
                            !.refetching = FALSE, !.resultsFor = q.ask, !.message = FALSE]
          ELSE [feed EXCEPT !.load = "error", !.refetching = FALSE, !.resultsFor = FailedFor(q),
                            !.message = TRUE]

\* Whatever has become of the list meanwhile.
ShowMore(q) ==
  feed' = CASE q.reply.at = "answered" ->
                 [feed EXCEPT !.shown = @ \o q.reply.rows, !.cursor = q.reply.next,
                              !.loadingMore = FALSE]
            [] q.reply.at = "failed" /\ screen = "search" ->
                 [feed EXCEPT !.message = TRUE, !.resultsFor = q.ask]
            [] OTHER -> [feed EXCEPT !.loadingMore = FALSE]

\* A decision that is through closes the dialog, whatever request it is open for.
ShowSettled(q) ==
  LET patched(x) == [x EXCEPT !.open = @ /\ x.row # q.row]
      ready == [feed EXCEPT !.busy = @ /\ q.kind # "decide"]
  IN  feed' = IF q.reply.at = "failed" THEN ready
              ELSE [ready EXCEPT !.shown = [i \in DOMAIN @ |-> patched(@[i])],
                                 !.deciding = IF q.kind = "decide" THEN Nil ELSE @]

Continues(q) == q.turn = feed.turn /\ q.cursor = feed.cursor

Land(q) ==
  /\ q.reply.at # "asked"
  /\ sent' = sent \ {q}
  /\ CASE q.kind = "load" -> IF LatestAnswer(q) THEN ShowLoad(q) ELSE UNCHANGED feed
       [] q.kind = "more" -> ShowMore(q)
       [] OTHER -> ShowSettled(q)
  /\ crossed' = CASE q.kind = "load" -> crossed /\ (q.turn # feed.turn \/ q.reply.at = "failed")
                  [] q.kind = "more" -> crossed \/ ~Continues(q)
                  [] OTHER -> crossed
  /\ UNCHANGED <<feedTables, live, told, spent, missed>>

FeedNext ==
  \/ \E a \in Asks : Narrow(a)
  \/ ClearTerm \/ RetryLoad \/ LoadMore
  \/ \E i \in DOMAIN feed.shown : OpenDecision(i) \/ Withdraw(i)
  \/ CloseDecision \/ SubmitDecision
  \/ OpenStream \/ LoseStream \/ HearChange
  \/ Serve \/ Appear \/ SettledByOther \/ Rematch
  \/ \E q \in sent : Land(q)

FeedSpec == FeedInit /\ [][FeedNext]_feedVars

-----------------------------------------------------------------------------
(* Properties.                                                              *)

Expected == \E q \in sent : q.kind = "load" /\ q.turn = feed.turn

ShownRows == [i \in DOMAIN feed.shown |-> feed.shown[i].row]

\* Once the answer that is waited for is there, the rows on the screen were read
\* for what the reader asked last, however the answers overtook each other; but
\* for a "load more" that was pressed before the list changed and arrived after
\* it: loadMore compares nothing (ApprovalsView, ActivityView, SearchView).
ShownIsAsked ==
  Says = "ready" /\ ~Expected /\ ~crossed =>
    \A i \in DOMAIN feed.shown : feed.shown[i].for = feed.ask

\* The pages of the queue and the trail join: the rows shown are consecutive
\* rows of the list, none twice and none missed, though rows are added above
\* them between two pages; and without a cursor the last row is reached
\* (ApprovalsService.list, AuditQueryService.list, loadMore).
PagesJoin ==
  screen # "search" /\ Says = "ready" /\ ~Expected /\ ~crossed =>
    LET all == Fitting(feed.ask)
        n == Len(feed.shown)
    IN  \E i \in 0..(Len(all) - n) : /\ ShownRows = SubSeq(all, i + 1, i + n)
                                     /\ feed.cursor = Nil => i + n = Len(all)

\* When nothing is on its way, the queue shows the newest requests as they are,
\* although others ask and decide while the reader does, and answers are older
\* than the events that come before them; but for an event that was lost and after
\* which the list was not asked for again: the events of an outage are gone, and
\* reopening the stream asks for the unread count only (useLiveEvent,
\* submitDecision, withdraw, LiveProvider, EventsService.publish).
QueueCurrent ==
  screen = "approvals" /\ Says = "ready" /\ sent = {} /\ told = 0 /\ ~missed /\ ~crossed =>
    /\ ShownRows = SubSeq(Fitting(feed.ask), 1, Len(feed.shown))
    /\ \A i \in DOMAIN feed.shown : feed.shown[i].open <=> feed.shown[i].row \in pending

\* A screen that shows it is waiting is waiting for something: the search does
\* not keep its skeleton, the queue its dim, or the trail's button its spinner,
\* when no answer is to come.  A failed "load more" of an earlier search can
\* leave the search so, and only that (SearchView.loadMore).
WaitsForSomething ==
  /\ screen = "search" /\ Says = "loading" => Expected \/ crossed
  /\ feed.refetching => Expected
  /\ feed.loadingMore => \E q \in sent : q.kind = "more"
  /\ feed.busy => \E q \in sent : q.kind = "decide"

=============================================================================
