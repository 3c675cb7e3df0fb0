--------------------------- MODULE Collaboration ---------------------------
(***************************************************************************)
(* What people do around one document: ask for its approval and decide,    *)
(* discuss it, star it - and the notifications and live events that tell   *)
(* the others.                                                             *)
(*                                                                         *)
(* A call is one request, and every await that reaches PostgreSQL or Redis *)
(* is a step of its own, except that the audit row and the notifications   *)
(* of a call are written together: nothing is read in between.  A call     *)
(* that crashes is one that takes no further step.                         *)
(***************************************************************************)
EXTENDS EventFanout

CONSTANTS
  Calls,             \* the requests made over the behaviour; what a call
                     \* creates is named by it
  Mixes,             \* how often each operation is performed at most: a
                     \* behaviour performs one of these
  People,            \* the members of the company
  DocOwner,          \* documents.owner_id
  Approvers,         \* those who hold documents.approve
  Moderators,        \* those who hold comments.moderate
  Me,                \* the person at the page, see LivePage
  Said,              \* the comments there are at the start
  Asked,             \* the approval request there may be at the start
  MaxStatusChanges   \* bound on the document being trashed and restored

AllCallKinds == {"request", "decide", "cancel", "create", "update", "remove",
                 "star", "unstar", "readAll", "readOne", "panel"}

\* Besides its calls, how many streams a behaviour opens: those of the page, and
\* those of other pages in the company.
AllKinds == AllCallKinds \cup {"streams", "visitors"}

Requests == Calls \cup {Asked}
Comments == Calls \cup Said

ASSUME PeopleAssumption == /\ {DocOwner, Me} \cup Approvers \cup Moderators \subseteq People
                           /\ None \notin People \cup Requests \cup Comments
ASSUME FinitenessAssumption == IsFiniteSet(People) /\ IsFiniteSet(Calls) /\ IsFiniteSet(Said)
\* Nothing that is there at the start bears the name of what a call creates.
ASSUME NamesAssumption == /\ Asked \notin Calls
                          /\ Calls \cap Said = {}
                          /\ "document" \notin Comments
ASSUME MixesAssumption == \A m \in Mixes : \A kind \in DOMAIN m : kind \in AllKinds /\ m[kind] \in Nat
ASSUME ChangesAssumption == MaxStatusChanges \in Nat

VARIABLES
  trashed,    \* documents.deleted_at is set
  approvals,  \* the approval_requests rows
  comments,   \* the comments rows
  stars,      \* the document_favorites rows
  inbox,      \* the notifications rows: to whom, by which call, and read or not
  trail,      \* the audit rows of decisions and withdrawals
  call,       \* where each request is, and what it has read
  mix,        \* the operations of this behaviour, and how often each
  changes,    \* how often the document was trashed or restored
  late        \* for the properties only: the calls under way when the document
              \* was last trashed, and when each comment was deleted

rows == <<trashed, approvals, comments, stars, inbox, trail>>
rest == <<mix, changes, late>>

-----------------------------------------------------------------------------
(* State.                                                                   *)

Approval == [status : {"none", "PENDING", "APPROVED", "REJECTED", "CANCELLED"},
             by : People \cup {None}, assignee : People \cup {None},
             settled : Calls \cup {None}]

NoApproval == [status |-> "none", by |-> None, assignee |-> None, settled |-> None]

\* body is the call that wrote it last, deleted the one that deleted it.
Comment == [author : People \cup {None}, body : Calls \cup {None},
            deleted : Calls \cup {None}]

NoComment == [author |-> None, body |-> None, deleted |-> None]

Note == [to : People, by : Calls, read : BOOLEAN]

CallSteps == {"idle", "doc", "voices", "insert", "find", "write", "record",
              "announce", "count", "tell", "answered", "done"}

\* page: the request was made on the page of Me, which waits for the answer.
\* target is the request or comment it names, choice the assignee, the decision
\* or None.  told is whom the call notifies, unread the count it has read.
\* ok says how it was answered; before, kept for the properties only, collects
\* the calls that were over when it began.
Call == [kind : AllCallKinds \cup {"none"}, at : CallSteps, who : People \cup {None},
         page : BOOLEAN, target : Requests \cup Comments \cup {None},
         choice : People \cup {"APPROVED", "REJECTED", None}, told : SUBSET People,
         unread : Nat, ok : BOOLEAN, before : SUBSET Calls]

NoCall == [kind |-> "none", at |-> "idle", who |-> None, page |-> FALSE, target |-> None,
           choice |-> None, told |-> {}, unread |-> 0, ok |-> FALSE, before |-> {}]

PendingRequests == {a \in Requests : approvals[a].status = "PENDING"}
LiveComments == {k \in Comments : comments[k].author # None /\ comments[k].deleted = None}
Unread(p) == {n \in inbox : n.to = p /\ ~n.read}

CollaborationTypeOK ==
  /\ trashed \in BOOLEAN
  /\ approvals \in [Requests -> Approval]
  /\ Cardinality(PendingRequests) <= 1
  /\ comments \in [Comments -> Comment]
  /\ stars \subseteq People
  /\ inbox \subseteq Note
  /\ \A m, n \in inbox : m.to = n.to /\ m.by = n.by => m = n
  /\ trail \subseteq Calls \X Requests
  /\ call \in [Calls -> Call]
  /\ \A n \in inbox : n.to # call[n.by].who
  /\ mix \in Mixes
  /\ changes \in 0..MaxStatusChanges
  /\ late \in [Comments \cup {"document"} -> SUBSET Calls]

Uses(kinds) == (DOMAIN mix) \cap kinds # {}

\* A document that has been talked about and may be waiting for its approval,
\* as far as the operations of the behaviour look at that.
CollaborationInit ==
  /\ mix \in Mixes
  /\ trashed = FALSE
  /\ \E p \in People, q \in People \cup {None} :
       approvals = [a \in Requests |->
         IF a = Asked /\ Uses({"decide", "cancel"})
         THEN [NoApproval EXCEPT !.status = "PENDING", !.by = p, !.assignee = q]
         ELSE NoApproval]
  /\ \E author \in [Said -> People] :
       comments = [k \in Comments |->
         IF k \in Said /\ Uses({"create", "update", "remove"})
         THEN [NoComment EXCEPT !.author = author[k]] ELSE NoComment]
  /\ stars = {}
  /\ inbox = {}
  /\ trail = {}
  /\ call = [c \in Calls |-> NoCall]
  /\ changes = 0
  /\ late = [k \in Comments \cup {"document"} |-> {}]

-----------------------------------------------------------------------------
(* Steps of a call.                                                         *)

UnderWay(c) == call[c].at \notin {"idle", "answered", "done"}
InFlight(c) == \E i \in DOMAIN wire : wire[i].type # "reply" /\ wire[i].by = c

\* Answered, and so heard of wherever it is going to be.
Over(c) == call[c].ok /\ call[c].at = "done" /\ ~InFlight(c)

At(c, kinds, step) == call[c].kind \in kinds /\ call[c].at = step

Begin(c, request) ==
  /\ call[c].at = "idle"
  /\ request.kind \in DOMAIN mix
  /\ Cardinality({d \in Calls : call[d].kind = request.kind}) < mix[request.kind]
  /\ request.page => request.who = Me /\ Uses({"streams"})
  /\ call' = [call EXCEPT ![c] = [request EXCEPT !.before = {d \in Calls : Over(d)}]]
  /\ UNCHANGED <<rows, rest, fanout>>

Reads == UNCHANGED <<rows, rest, fanout>>
Goto(c, next) == call' = [call EXCEPT ![c].at = next]

\* The page of Me treats a refusal as if nothing had been asked.
Refuse(c) ==
  /\ call' = [call EXCEPT ![c] = [NoCall EXCEPT !.at = "done", !.kind = call[c].kind]]
  /\ Reads

Check(c, condition, next) == IF condition THEN Goto(c, next) /\ Reads ELSE Refuse(c)

\* The call is over on the server; its answer reaches the page, if one waits.
Finish(c) ==
  call' = [call EXCEPT ![c].at = IF call[c].page THEN "answered" ELSE "done", ![c].ok = TRUE]

-----------------------------------------------------------------------------
(* Telling the others: createMany and announce.                             *)

Audited == {"decide", "cancel"}

\* createMany: everybody once, and never who did it.
Recipients(c) == call[c].told \ {call[c].who}

\* The audit row, then the notifications.
Record(c) ==
  /\ call[c].at = "record"
  /\ trail' = IF call[c].kind \in Audited THEN trail \cup {<<c, call[c].target>>} ELSE trail
  /\ inbox' = inbox \cup [to : Recipients(c), by : {c}, read : {FALSE}]
  /\ Goto(c, "announce")
  /\ UNCHANGED <<trashed, approvals, comments, stars, rest, fanout>>

\* What a call created is named by it.
About(c) == IF call[c].kind \in {"request", "create"} THEN c ELSE call[c].target

Changed(c) == [type |-> IF call[c].kind \in {"request", "decide", "cancel"} THEN "approval" ELSE "comment",
               about |-> About(c), by |-> c]

\* The first event goes to the whole company.
Announce(c) ==
  /\ call[c].at = "announce"
  /\ Publish(Changed(c))
  /\ IF Me \in Recipients(c) THEN Goto(c, "count") ELSE Finish(c)
  /\ UNCHANGED <<rows, rest>>

\* Then every recipient's unread count is read and published.  Only the page of
\* Me looks at one.
CountUnread(c) ==
  /\ call[c].at = "count"
  /\ call' = [call EXCEPT ![c].at = "tell", ![c].unread = Cardinality(Unread(Me))]
  /\ Reads

Tell(c) ==
  /\ call[c].at = "tell"
  /\ Publish([type |-> "notification", unread |-> call[c].unread, by |-> c])
  /\ Finish(c)
  /\ UNCHANGED <<rows, rest>>

-----------------------------------------------------------------------------
(* Approvals.                                                               *)

BeginRequest(c) ==
  \E p \in People, q \in People \cup {None} :
     Begin(c, [NoCall EXCEPT !.kind = "request", !.at = "doc", !.who = p, !.choice = q])

\* Mutant: a document in the trash is found like any other.
EvenTrashed == TRUE

\* The document is looked up before anything is said about it.
DocumentFound == ~trashed

FindDocument(c) ==
  /\ call[c].at = "doc"
  /\ Check(c, DocumentFound,
           CASE call[c].kind = "create" -> "voices"
             [] call[c].kind \in {"star", "unstar"} -> "write"
             [] OTHER -> "insert")

\* The assignee, or usersWithPermission
Addressees(assignee) == IF assignee = None THEN Approvers ELSE {assignee}

\* The unique index on the document of a PENDING request.
AlreadyPending == PendingRequests # {}

InsertRequest(c) ==
  /\ At(c, {"request"}, "insert")
  /\ IF AlreadyPending
     THEN Refuse(c)
     ELSE /\ approvals' = [approvals EXCEPT ![c] =
                [NoApproval EXCEPT !.status = "PENDING", !.by = call[c].who,
                                   !.assignee = call[c].choice]]
          /\ call' = [call EXCEPT ![c].at = "record", ![c].told = Addressees(call[c].choice)]
          /\ UNCHANGED <<trashed, comments, stars, inbox, trail, rest, fanout>>

BeginDecide(c) ==
  \E p \in Approvers, a \in Requests, d \in {"APPROVED", "REJECTED"} :
     /\ approvals[a].status # "none"
     /\ Begin(c, [NoCall EXCEPT !.kind = "decide", !.at = "find", !.who = p,
                                !.target = a, !.choice = d])

BeginCancel(c) ==
  \E p \in People, a \in Requests :
     /\ approvals[a].status # "none"
     /\ Begin(c, [NoCall EXCEPT !.kind = "cancel", !.at = "find", !.who = p, !.target = a])

\* Nobody decides a request of their own, or one that names somebody else; only
\* the requester withdraws it.
Theirs(c) ==
  LET a == approvals[call[c].target]
  IN  IF call[c].kind = "cancel" THEN a.by = call[c].who
      ELSE a.by # call[c].who /\ a.assignee \in {None, call[c].who}

FindRequest(c) ==
  LET a == approvals[call[c].target]
  IN  /\ At(c, {"decide", "cancel"}, "find")
      /\ IF a.status = "PENDING" /\ Theirs(c)
         THEN /\ call' = [call EXCEPT ![c].at = "write",
                            ![c].told = IF call[c].kind = "decide" THEN {a.by}
                                        ELSE Addressees(a.assignee)]
              /\ Reads
         ELSE Refuse(c)

\* Mutant: the row is written by its id alone.
AnyStatus(a) == TRUE

\* The condition inside the UPDATE.
StillPending(a) == approvals[a].status = "PENDING"

Settle(c, status) ==
  approvals' = [approvals EXCEPT ![call[c].target].status = status,
                                 ![call[c].target].settled = c]

WriteDecision(c) ==
  /\ At(c, {"decide"}, "write")
  /\ IF StillPending(call[c].target)
     THEN /\ Settle(c, call[c].choice)
          /\ Goto(c, "record")
          /\ UNCHANGED <<trashed, comments, stars, inbox, trail, rest, fanout>>
     ELSE Refuse(c)

\* The count of the update is not looked at.
WriteCancel(c) ==
  /\ At(c, {"cancel"}, "write")
  /\ IF StillPending(call[c].target) THEN Settle(c, "CANCELLED") ELSE UNCHANGED approvals
  /\ Goto(c, "record")
  /\ UNCHANGED <<trashed, comments, stars, inbox, trail, rest, fanout>>

-----------------------------------------------------------------------------
(* Comments.                                                                *)

BeginCreate(c) ==
  \E p \in People, page \in BOOLEAN :
     Begin(c, [NoCall EXCEPT !.kind = "create", !.at = "doc", !.who = p, !.page = page])

Participants == {DocOwner} \cup {comments[k].author : k \in LiveComments}

ReadVoices(c) ==
  /\ At(c, {"create"}, "voices")
  /\ call' = [call EXCEPT ![c].at = "insert", ![c].told = Participants]
  /\ Reads

InsertComment(c) ==
  /\ At(c, {"create"}, "insert")
  /\ comments' = [comments EXCEPT ![c] = [NoComment EXCEPT !.author = call[c].who, !.body = c]]
  /\ Goto(c, "record")
  /\ UNCHANGED <<trashed, approvals, stars, inbox, trail, rest, fanout>>

\* A body that differs from the one there is; the same again changes nothing.
BeginUpdate(c) ==
  \E p \in People, k \in Comments, page \in BOOLEAN :
     /\ comments[k].author # None
     /\ Begin(c, [NoCall EXCEPT !.kind = "update", !.at = "find", !.who = p, !.target = k,
                                !.page = page])

BeginRemove(c) ==
  \E p \in People, k \in Comments, page \in BOOLEAN :
     /\ comments[k].author # None
     /\ Begin(c, [NoCall EXCEPT !.kind = "remove", !.at = "find", !.who = p, !.target = k,
                                !.page = page])

\* mustFind
Found(k) == k \in LiveComments

MayChange(c) ==
  \/ call[c].who = comments[call[c].target].author
  \/ call[c].kind = "remove" /\ call[c].who \in Moderators

FindComment(c) ==
  /\ At(c, {"update", "remove"}, "find")
  /\ Check(c, Found(call[c].target) /\ MayChange(c), "write")

\* By its id alone.
WriteBody(c) ==
  /\ At(c, {"update"}, "write")
  /\ comments' = [comments EXCEPT ![call[c].target].body = c]
  /\ Goto(c, "record")
  /\ UNCHANGED <<trashed, approvals, stars, inbox, trail, rest, fanout>>

\* The condition inside the UPDATE; the count is not looked at.
NotDeleted(k) == comments[k].deleted = None

WriteDeleted(c) ==
  LET k == call[c].target
  IN  /\ At(c, {"remove"}, "write")
      /\ IF NotDeleted(k)
         THEN /\ comments' = [comments EXCEPT ![k].deleted = c]
              /\ late' = [late EXCEPT ![k] = {d \in Calls : UnderWay(d)}]
         ELSE UNCHANGED <<comments, late>>
      /\ Goto(c, "record")
      /\ UNCHANGED <<trashed, approvals, stars, inbox, trail, mix, changes, fanout>>

-----------------------------------------------------------------------------
(* Favourites.                                                              *)

BeginStar(c) ==
  \E p \in People, kind \in {"star", "unstar"} :
     Begin(c, [NoCall EXCEPT !.kind = kind, !.at = "doc", !.who = p])

\* A star that is already there is left, one that is not is no error.
WriteStar(c) ==
  /\ At(c, {"star", "unstar"}, "write")
  /\ stars' = IF call[c].kind = "star" THEN stars \cup {call[c].who}
              ELSE stars \ {call[c].who}
  /\ Finish(c)
  /\ UNCHANGED <<trashed, approvals, comments, inbox, trail, rest, fanout>>

-----------------------------------------------------------------------------
(* The inbox, on the page of Me: marking everything read, and opening the   *)
(* panel, which reads the count again.                                      *)

BeginReadAll(c) ==
  Begin(c, [NoCall EXCEPT !.kind = "readAll", !.at = "write", !.who = Me, !.page = TRUE])

BeginReadOne(c) ==
  \E n \in Unread(Me) :
     Begin(c, [NoCall EXCEPT !.kind = "readOne", !.at = "write", !.who = Me, !.page = TRUE,
                             !.target = n.by])

\* markAllRead answers 0 without counting, markRead counts what is left.
WriteRead(c) ==
  /\ At(c, {"readAll", "readOne"}, "write")
  /\ inbox' = {IF n.to = Me /\ (call[c].kind = "readAll" \/ n.by = call[c].target)
               THEN [n EXCEPT !.read = TRUE] ELSE n : n \in inbox}
  /\ IF call[c].kind = "readAll" THEN Finish(c) ELSE Goto(c, "find")
  /\ UNCHANGED <<trashed, approvals, comments, stars, trail, rest, fanout>>

BeginPanel(c) ==
  Begin(c, [NoCall EXCEPT !.kind = "panel", !.at = "find", !.who = Me, !.page = TRUE])

ReadPanel(c) ==
  /\ At(c, {"panel", "readOne"}, "find")
  /\ call' = [call EXCEPT ![c].at = "answered", ![c].ok = TRUE,
                          ![c].unread = Cardinality(Unread(Me))]
  /\ Reads

-----------------------------------------------------------------------------

\* The document is moved to the trash, or restored.
Trash ==
  /\ Uses({"request", "create", "star"})
  /\ changes < MaxStatusChanges
  /\ trashed' = ~trashed
  /\ late' = [late EXCEPT !["document"] = {c \in Calls : UnderWay(c)}]
  /\ changes' = changes + 1
  /\ UNCHANGED <<approvals, comments, stars, inbox, trail, call, mix, fanout>>

ApprovalStep(c) == BeginRequest(c) \/ InsertRequest(c) \/ BeginDecide(c) \/ BeginCancel(c)
                   \/ FindRequest(c) \/ WriteDecision(c) \/ WriteCancel(c)
CommentStep(c) == BeginCreate(c) \/ ReadVoices(c) \/ InsertComment(c) \/ BeginUpdate(c)
                  \/ BeginRemove(c) \/ FindComment(c) \/ WriteBody(c) \/ WriteDeleted(c)
InboxStep(c) == BeginReadAll(c) \/ BeginReadOne(c) \/ WriteRead(c) \/ BeginPanel(c) \/ ReadPanel(c)
TellStep(c) == Record(c) \/ Announce(c) \/ CountUnread(c) \/ Tell(c)

CallStep(c) == FindDocument(c) \/ ApprovalStep(c) \/ CommentStep(c) \/ BeginStar(c) \/ WriteStar(c)
               \/ InboxStep(c) \/ TellStep(c)

-----------------------------------------------------------------------------
(* Properties.                                                              *)

Answered(c, kinds) == call[c].kind \in kinds /\ call[c].ok

\* Neither call had been answered when the other began.
Overlap(c, d) == c # d /\ c \notin call[d].before /\ d \notin call[c].before

\* What somebody was told is what stands: a decision that was answered has not
\* been overwritten, and it alone settled the request; a withdrawal that was
\* answered settled it too, unless a decision or another withdrawal under way
\* with it came first, when the trail holds both
\* (ApprovalsService.decide and cancel).
AnswersStand ==
  \A c \in Calls :
    LET a == approvals[call[c].target]
    IN  /\ Answered(c, {"decide"}) =>
             a.settled = c /\ a.status = call[c].choice
        /\ Answered(c, {"cancel"}) =>
             \/ a.settled = c /\ a.status = "CANCELLED"
             \/ \E d \in Calls : a.settled = d /\ Overlap(c, d)
        /\ \A e \in trail : e[1] = c /\ call[c].kind = "decide" =>
             approvals[e[2]].settled = c

\* Nothing is asked, said or starred about a document in the trash but by a call
\* that was under way when it got there (mustFindDocument, and request).
TrashLeftAlone ==
  \A c \in Calls :
    /\ trashed
    /\ call'[c] # call[c]
    /\ call[c].kind \in {"request", "create", "star", "unstar"}
    => c \in late["document"]

\* A comment once deleted keeps the moment of its deletion, and its body but for
\* an edit that was under way then (CommentsService.update writes by id).
RemovedLeftAlone ==
  \A k \in Comments :
    comments[k].deleted # None =>
      /\ comments'[k].deleted = comments[k].deleted
      /\ comments'[k].body # comments[k].body => comments'[k].body \in late[k]

\* What is gone is left alone by all but the calls that were under way when it
\* went: a document in the trash, and a comment that was deleted.
GoneIsLeftAlone == [][TrashLeftAlone /\ RemovedLeftAlone]_<<approvals, comments, stars>>

=============================================================================
