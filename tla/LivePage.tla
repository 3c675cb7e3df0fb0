------------------------------ MODULE LivePage ------------------------------
(***************************************************************************)
(* An open page of one person: the connection its provider keeps to the    *)
(* live events, the badge of the bell, and the thread of the document's    *)
(* comments (LiveProvider, NotificationBell, CommentThread), over what     *)
(* everybody does on the server.                                           *)
(***************************************************************************)
EXTENDS Collaboration

VARIABLES
  page,      \* the connection, the badge and the thread as they are shown
  mine,      \* comments that this page has just written
  fetch,     \* the refetch of the thread under way
  unheard,   \* for the properties only: the calls under way while the page did
             \* not hear of events, since the badge was last read
  missed,    \* the same, since the thread was opened
  crossed    \* for the properties only: the calls of this page on the thread
             \* that a refetch met

ghosts == <<unheard, missed, crossed>>
server == <<rows, rest, call>>
vars == <<server, fanout, page, mine, fetch, ghosts>>

-----------------------------------------------------------------------------
(* State.                                                                   *)

\* A comment as it is shown: which one, and the call that wrote its body.
Shown == Comments \X (Calls \cup {None})

Page == [at : {"counting", "counted", "opening", "open"}, stream : Streams \cup {None},
         count : Nat, badge : Nat, shown : SUBSET Shown, total : Nat]

Fetch == [asked : BOOLEAN, got : SUBSET {"rows", "total"}, shown : SUBSET Shown, total : Nat]

NoFetch == [asked |-> FALSE, got |-> {}, shown |-> {}, total |-> 0]

Thread == {<<k, comments[k].body>> : k \in LiveComments}

TypeOK ==
  /\ CollaborationTypeOK
  /\ FanoutTypeOK
  /\ page \in Page
  /\ mine \subseteq Comments
  /\ fetch \in Fetch
  /\ fetch.got # {} => fetch.asked
  /\ page.at = "open" <=> page.stream # None
  /\ unheard \cup missed \cup crossed \subseteq Calls

\* The thread is loaded, the stream not yet open.
Init ==
  /\ CollaborationInit
  /\ FanoutInit
  /\ page = [at |-> "counting", stream |-> None, count |-> 0, badge |-> 0,
             shown |-> Thread, total |-> Cardinality(LiveComments)]
  /\ mine = {}
  /\ fetch = NoFetch
  /\ unheard = {}
  /\ missed = {}
  /\ crossed = {}

-----------------------------------------------------------------------------
(* The connection: the badge is read, then the stream is opened.            *)

ReadBadge ==
  /\ Uses({"streams"})
  /\ page.at = "counting"
  /\ page' = [page EXCEPT !.at = "counted", !.count = Cardinality(Unread(Me))]
  /\ UNCHANGED <<server, fanout, mine, fetch>>

\* Mutant: the badge is left to the events.
LeftToEvents == page.badge

ReadAtConnect == page.count

ShowBadge ==
  /\ page.at = "counted"
  /\ page' = [page EXCEPT !.at = "opening", !.badge = ReadAtConnect, !.count = 0]
  /\ UNCHANGED <<server, fanout, mine, fetch>>

MayOpen(bound) == Cardinality({t \in Streams : streams[t].at # "off"}) < bound

OpenStream ==
  \E s \in Streams :
    /\ page.at = "opening"
    /\ MayOpen(mix["streams"])
    /\ Attach(s)
    /\ page' = [page EXCEPT !.at = "open", !.stream = s]
    /\ UNCHANGED <<server, mine, fetch>>

\* The connection breaks, and the provider begins anew; the server may learn of
\* it later.
LoseStream ==
  /\ page.at = "open"
  /\ MayOpen(mix["streams"])
  /\ page' = [page EXCEPT !.at = "counting", !.stream = None]
  /\ UNCHANGED <<server, fanout, mine, fetch>>

\* A stream that is not, or is no longer, the page's own.
OthersStream ==
  \E s \in Streams \ {page.stream} :
    /\ \/ Uses({"visitors"}) /\ MayOpen(mix["visitors"]) /\ Attach(s)
       \/ Detach(s)
    /\ UNCHANGED <<server, page, mine, fetch>>

-----------------------------------------------------------------------------
(* Events and answers.                                                      *)

\* Reload cancels a refetch that is under way.
Reload == [NoFetch EXCEPT !.asked = TRUE]

\* An event of something this page wrote is passed over, once.
Forgotten(k) == mine \ {k}

Hears(event) ==
  CASE event.type = "notification" ->
         page' = [page EXCEPT !.badge = event.unread] /\ UNCHANGED <<mine, fetch>>
    [] event.type = "comment" /\ event.about \in mine ->
         mine' = Forgotten(event.about) /\ UNCHANGED <<page, fetch>>
    [] event.type = "comment" /\ event.about \notin mine ->
         fetch' = Reload /\ UNCHANGED <<page, mine>>
    [] OTHER -> UNCHANGED <<page, mine, fetch>>

ReadEvent ==
  LET event == Head(wire)
  IN  /\ wire # <<>>
      /\ event.type # "reply"
      /\ IF page.stream \in Listening THEN Hears(event) ELSE UNCHANGED <<page, mine, fetch>>
      /\ wire' = Tail(wire)
      /\ UNCHANGED <<server, streams, registered, members, orders, subscribed>>

\* forDocument reads the page of comments and the total side by side.
FetchRows ==
  /\ fetch.asked
  /\ "rows" \notin fetch.got
  /\ fetch' = [fetch EXCEPT !.got = @ \cup {"rows"}, !.shown = Thread]
  /\ UNCHANGED <<server, fanout, page, mine>>

FetchTotal ==
  /\ fetch.asked
  /\ "total" \notin fetch.got
  /\ fetch' = [fetch EXCEPT !.got = @ \cup {"total"}, !.total = Cardinality(LiveComments)]
  /\ UNCHANGED <<server, fanout, page, mine>>

ShowThread ==
  /\ fetch.got = {"rows", "total"}
  /\ page' = [page EXCEPT !.shown = fetch.shown, !.total = fetch.total]
  /\ fetch' = NoFetch
  /\ UNCHANGED <<server, fanout, mine>>

\* Mutant: what this page removes is left to the event, which is passed over.
LeftToEvent(k) == page.shown

Without(k) == {x \in page.shown : x[1] # k}

\* readOne, readAll: what is left unread, which for all of them is nothing.
ShowRead(c) ==
  /\ page' = [page EXCEPT !.badge = IF call[c].kind = "readAll" THEN 0 ELSE call[c].unread]
  /\ UNCHANGED mine

Answer(c) ==
  LET k == call[c].target
      show(shown, total) == page' = [page EXCEPT !.shown = shown, !.total = total]
      wrote(comment) == mine' = mine \cup {comment}
  IN  /\ call[c].at = "answered"
      /\ CASE call[c].kind = "create" ->
                show(page.shown \cup {<<c, c>>}, page.total + 1) /\ wrote(c)
           [] call[c].kind = "update" ->
                show(IF Without(k) = page.shown THEN page.shown ELSE Without(k) \cup {<<k, c>>}, page.total)
                /\ wrote(k)
           [] call[c].kind = "remove" ->
                show(Without(k), IF page.total = 0 THEN 0 ELSE page.total - 1) /\ wrote(k)
           [] OTHER -> ShowRead(c)
      /\ Goto(c, "done")
      /\ UNCHANGED <<rows, rest, fanout, fetch>>

-----------------------------------------------------------------------------

PageStep == ReadBadge \/ ShowBadge \/ OpenStream \/ LoseStream \/ OthersStream
            \/ ReadEvent \/ FetchRows \/ FetchTotal \/ ShowThread
            \/ (\E c \in Calls : Answer(c))

\* The page changes what it shows.
Offered(target) == target \in Comments => \E x \in page.shown : x[1] = target

ServerStep ==
  /\ \/ Trash
     \/ \E c \in Calls : CallStep(c) /\ (call'[c].page => Offered(call'[c].target))
     \/ FanoutStep /\ UNCHANGED server
  /\ UNCHANGED <<page, mine, fetch>>

Hearing == /\ page.at = "open"
           /\ streams[page.stream].at = "attached"
           /\ page.stream \in Listening
           /\ subscribed

AtWork == {c \in Calls : UnderWay(c) \/ InFlight(c)}

\* The calls of this page on the thread that it has not both an answer and the
\* event of.
OwnAtWork == {c \in Calls : /\ call[c].page /\ call[c].kind \in {"create", "update", "remove"}
                            /\ call[c].at # "done" \/ InFlight(c)}

\* For the properties only.
WatchCalls ==
  /\ unheard' = (IF page.at = "counting" THEN {} ELSE unheard)
                \cup (IF Hearing' THEN {} ELSE AtWork')
  /\ missed' = missed \cup (IF Hearing' THEN {} ELSE AtWork')
  /\ crossed' = crossed \cup (IF fetch'.asked THEN OwnAtWork' ELSE {})

Watch == IF Uses({"streams"}) THEN WatchCalls ELSE UNCHANGED ghosts

Next == (PageStep \/ ServerStep) /\ Watch

Spec == Init /\ [][Next]_vars

-----------------------------------------------------------------------------
(* Properties.                                                              *)

\* Nothing is under way anywhere, and the page hears of events.
Quiet == /\ \A c \in Calls : call[c].at \in {"idle", "done"}
         /\ wire = <<>>
         /\ orders = <<>>
         /\ Hearing
         /\ ~fetch.asked

Crossing(kinds) ==
  \E c, d \in Calls : Answered(c, kinds) /\ Answered(d, kinds) /\ Overlap(c, d)

\* The badge ends up at the number of unread notifications, whatever the order
\* of connections, events and answers, but for two races: the counts that two
\* calls under way together read are not shown in the order they were read, and
\* a call that ran between the reading of the count and the opening of the
\* stream is not heard of (LiveProvider.connect, announce, NotificationBell).
BadgeCurrent ==
  Quiet => \/ page.badge = Cardinality(Unread(Me))
           \/ unheard # {}
           \/ Crossing(AllCallKinds)

\* The thread ends up as it is on the server, its total included, but for the
\* calls that the page did not hear of, calls on the thread that were under way
\* together, and those of its own that met a refetch.  That their own event
\* starts one is the common case: it is sent before the answer, and when it
\* comes first "mine" is left with a comment whose event has passed, and
\* swallows the next one (CommentThread).
ThreadCurrent ==
  Quiet => \/ page.shown = Thread /\ page.total = Cardinality(LiveComments)
           \/ missed # {}
           \/ crossed # {}
           \/ Crossing({"create", "update", "remove"})

=============================================================================
