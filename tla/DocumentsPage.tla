---------------------------- MODULE DocumentsPage ----------------------------
(***************************************************************************)
(* The page that lists documents, and the page of the trash: what one      *)
(* reader sees of the library, and what happens to it while requests,      *)
(* answers and live events cross each other.                               *)
(*                                                                         *)
(* Folders are created and removed, and selections moved, by the calls of  *)
(* Library, step by step.  The other changes the page asks for are taken   *)
(* by the server in one step here: DocumentLifecycle has their steps.      *)
(* "folder", "archived" and "favorite" stand for the five filters, and the *)
(* stream of events is attached and in order (EventFanout has the rest).   *)
(***************************************************************************)
EXTENDS Library, Sequences, SequencesExt

CONSTANTS
  Newest,     \* the documents, newest first: the order of every list
  PageSize,   \* rows to a page
  MaxAsks,    \* bound on the requests of the page
  Plans       \* what may happen in a behaviour

Asks == 1..MaxAsks
Ops == {"filter", "more", "delete", "restore", "bulk", "reprocess", "upload",
        "createFolder", "removeFolder", "star", "lose", "elsewhere"}

\* A plan says which page is open, which documents exist, and how often each
\* operation is performed; mix is Library's part of it.
ASSUME PlansAssumption ==
  \A p \in Plans : /\ p.mix \in Mixes
                   /\ p.view \in {"none", "documents", "trash"}
                   /\ p.known \subseteq Docs
                   /\ \A op \in DOMAIN p.ops : op \in Ops /\ p.ops[op] \in Nat
ASSUME NewestAssumption == /\ Newest \in Seq(Docs) /\ Range(Newest) = Docs /\ IsInjective(Newest)
                           /\ None \notin Docs
ASSUME PageAssumption == PageSize \in Nat \ {0} /\ MaxAsks \in Nat \ {0}

VARIABLES
  plan,    \* the plan of this behaviour
  page,    \* the page's state
  ask,     \* its requests
  phase,   \* what the pipeline says of each document
  starred, \* the document_favorites rows of the reader
  pushed,  \* the events on their way to the page
  ghost    \* for the properties only

pvars == <<folders, docs, tags, labels, call, mix, changes, late,
           plan, page, ask, phase, starred, pushed, ghost>>

-----------------------------------------------------------------------------
(* State.                                                                   *)

Row == [doc : Docs, shown : {"busy", "settled", "archived"}, star : BOOLEAN]
Filter == [folder : Folders \cup {None}, archived : BOOLEAN, favorite : BOOLEAN]
AllFiles == [folder |-> None, archived |-> FALSE, favorite |-> FALSE]

\* under counts the changes of the filters: the identity of the memo.
\* reading is the read of the effect that ran last, queue the uploads shown.
Page == [filter : Filter, under : Nat, load : {"closed", "loading", "ready", "error"},
         rows : Seq(Row), more : Docs \cup {None}, tree : SUBSET Folders,
         ticked : [under : Nat, ids : SUBSET Docs],
         reading : Asks \cup {0}, queue : SUBSET Asks]

Actions == {"none", "delete", "restore", "archive", "unarchive", "move", "reprocess",
            "star", "unstar"}

\* filter and under are those of the render that sent the request.
Ask == [kind : Ops \cup {"none", "list"},
        is : {"unsent", "sent", "served", "refused", "taken"},
        under : Nat, filter : Filter, ids : SUBSET Docs, action : Actions,
        to : Folders \cup {Root, None}, call : Calls \cup {None},
        cursor : Docs \cup {None}, rows : Seq(Row), next : Docs \cup {None},
        tree : SUBSET Folders]

NoAsk == [kind |-> "none", is |-> "unsent", under |-> 0, filter |-> AllFiles, ids |-> {},
          action |-> "none", to |-> None, call |-> None, cursor |-> None, rows |-> <<>>,
          next |-> None, tree |-> {}]

\* steady[a]: the documents that have not changed since the request a was
\* served; steady[0]: since the first page of the list on screen was, less those
\* that a late answer of this page's took off it.  owner: who changed a document
\* last, and how.  crossed: the documents for which an answer or an event was
\* taken that a later change had overtaken, or whose answer was lost, or that a
\* list shows without their being in it.  chosen: what was ticked since the filters changed.
\* stray: the pages that were read from a document outside the list; slipped:
\* one of them, or a page of another list, has been appended.
Ghost == [steady : [{0} \cup DOMAIN ask -> SUBSET Docs],
          owner : [Docs -> {"other", "one", "run", "bulk", "star"}],
          crossed : SUBSET Docs, chosen : SUBSET Docs, stray : SUBSET Asks, slipped : BOOLEAN]

PageTypeOK ==
  /\ TypeOK
  /\ plan \in Plans /\ page \in Page /\ ask \in [DOMAIN ask -> Ask]
  /\ phase \in [Docs -> {"busy", "settled"}]
  /\ starred \subseteq Docs
  /\ pushed \in Seq(Docs)
  /\ ghost \in Ghost

Used(op) == Cardinality({a \in DOMAIN ask : ask[a].kind = op})
May(op) == op \in DOMAIN plan.ops /\ Used(op) < plan.ops[op]

Free == {a \in DOMAIN ask : ask[a].is = "unsent"}
NewAsk == CHOOSE a \in Free : \A b \in Free : a <= b

InFlight(a) == ask[a].is \in {"sent", "served", "refused"}
Waiting(kind) == \E a \in DOMAIN ask : ask[a].kind = kind /\ InFlight(a)

RowDocs(seq) == {seq[i].doc : i \in DOMAIN seq}
OnScreen == RowDocs(page.rows)

Reading(filter, under) ==
  [NoAsk EXCEPT !.kind = "list", !.is = "sent", !.filter = filter, !.under = under]

PInit ==
  /\ Init
  /\ plan \in {p \in Plans : p.mix = mix}
  /\ Known = plan.known
  /\ \A d \in Known : docs[d].status = IF plan.view = "trash" THEN "trashed" ELSE "active"
  /\ LET open == plan.view # "none"
     IN  /\ page = [filter |-> AllFiles, under |-> 0,
                    load |-> IF open THEN "loading" ELSE "closed", rows |-> <<>>, more |-> None,
                    tree |-> {}, ticked |-> [under |-> 0, ids |-> {}],
                    reading |-> IF open THEN 1 ELSE 0, queue |-> {}]
         /\ ask = [a \in IF open THEN Asks ELSE {} |-> IF a = 1 THEN Reading(AllFiles, 0) ELSE NoAsk]
  /\ phase = [d \in Docs |-> "settled"]
  /\ starred = {}
  /\ pushed = <<>>
  /\ ghost = [steady |-> [a \in {0} \cup DOMAIN ask |-> {}], owner |-> [d \in Docs |-> "other"],
              crossed |-> {}, chosen |-> {}, stray |-> {}, slipped |-> FALSE]

-----------------------------------------------------------------------------
(* What the server answers.                                                 *)

Belongs(d, filter) ==
  IF plan.view = "trash" THEN docs[d].status = "trashed"
  ELSE /\ docs[d].status \in IF filter.archived THEN {"active", "archived"} ELSE {"active"}
       /\ filter.folder \in {None, docs[d].folder}
       /\ filter.favorite => d \in starred

Shown(d) == IF docs[d].status = "archived" THEN "archived" ELSE phase[d]

\* The items of a sequence at these places, in their order.
NthOf(places, k) == CHOOSE i \in places : Cardinality({j \in places : j <= i}) = k
Kept(seq, places) == [k \in 1..Cardinality(places) |-> seq[NthOf(places, k)]]

PlaceOf(d) == CHOOSE i \in DOMAIN Newest : Newest[i] = d

\* Keyset pagination: the rows from the cursor's place on, and one row is
\* skipped, which is the cursor's own as long as it is in the list.
Listed(filter, cursor) ==
  LET from == IF cursor = None THEN 1 ELSE PlaceOf(cursor)
      found == Kept(Newest, {i \in DOMAIN Newest : i >= from /\ Belongs(Newest[i], filter)})
  IN  IF cursor = None \/ found = <<>> THEN found ELSE Tail(found)

\* Mutant: the page after next starts behind the extra row.
ExtraRow(found) == IF Len(found) > PageSize THEN found[PageSize + 1] ELSE None

NextCursor(found) == IF Len(found) > PageSize THEN found[PageSize] ELSE None

FirstRows(found) ==
  [i \in 1..(IF Len(found) > PageSize THEN PageSize ELSE Len(found)) |->
     [doc |-> found[i], shown |-> Shown(found[i]), star |-> found[i] \in starred]]

Unchanged == UNCHANGED <<folders, tags, labels, call, mix, changes, late, plan>>
NoNews == UNCHANGED <<docs, phase, starred, pushed>>

\* What a step that changes documents leaves behind, for the properties.
Note(who) ==
  LET moved == {d \in Docs : docs'[d] # docs[d]}
  IN  ghost' = [ghost EXCEPT
                  !.steady = [a \in DOMAIN @ |-> @[a] \ moved],
                  !.owner = [d \in Docs |-> IF d \in moved THEN who ELSE @[d]]]

\* listDocuments, and listFolders beside it.
ServeRead(a) ==
  LET found == Listed(ask[a].filter, ask[a].cursor)
  IN  /\ ask[a].kind \in {"list", "more"}
      /\ ask[a].is = "sent"
      /\ ask' = [ask EXCEPT ![a].is = "served", ![a].rows = FirstRows(found),
                            ![a].next = NextCursor(found),
                            ![a].tree = {f \in Folders : Live(f)}]
      /\ ghost' = [ghost EXCEPT !.steady[a] = Docs,
                     !.stray = IF ask[a].cursor # None
                                  /\ ~Belongs(ask[a].cursor, ask[a].filter)
                               THEN @ \cup {a} ELSE @]
      /\ UNCHANGED page /\ NoNews /\ Unchanged

\* The documents each action applies to; the others are reported as skipped.
Applies(d, action) ==
  CASE action = "delete"     -> docs[d].status \in {"active", "archived"}
    [] action = "restore"    -> docs[d].status = "trashed"
    [] action = "archive"    -> docs[d].status = "active" /\ phase[d] = "settled"
    [] action = "unarchive"  -> docs[d].status = "archived"
    [] action = "reprocess"  -> docs[d].status = "active" /\ phase[d] = "settled"

Outcome(action) ==
  CASE action = "delete"  -> "trashed"
    [] action = "archive" -> "archived"
    [] OTHER              -> "active"

ServeChange(a) ==
  LET applied == {d \in ask[a].ids : Applies(d, ask[a].action)}
      bulk == ask[a].kind = "bulk"
  IN  /\ ask[a].kind \in {"delete", "restore", "bulk", "reprocess"}
      /\ ask[a].is = "sent"
      /\ ask[a].action # "move"
      /\ docs' = [d \in Docs |-> IF d \in applied
                                 THEN [docs[d] EXCEPT !.status = Outcome(ask[a].action)]
                                 ELSE docs[d]]
      /\ phase' = [d \in Docs |-> IF d \in applied
                                  THEN IF ask[a].action = "reprocess" THEN "busy" ELSE "settled"
                                  ELSE phase[d]]
      /\ ask' = [ask EXCEPT ![a].is = IF bulk \/ applied # {} THEN "served" ELSE "refused",
                            ![a].ids = applied]
      /\ ghost' = [ghost EXCEPT
                     !.steady = [b \in DOMAIN @ |-> IF b = a THEN Docs ELSE @[b] \ applied],
                     !.owner = [d \in Docs |-> IF d \notin applied THEN @[d]
                                               ELSE IF bulk THEN "bulk"
                                               ELSE IF ask[a].kind = "reprocess" THEN "run" ELSE "one"],
                     !.crossed = IF ask[a].kind \in {"delete", "restore"} THEN @ \ applied ELSE @]
      /\ late' = [d \in Docs |-> IF d \in applied THEN {c \in Calls : UnderWay(c)} ELSE late[d]]
      /\ UNCHANGED <<page, starred, pushed, folders, tags, labels, call, mix, changes, plan>>

ServeUpload(a) ==
  LET absent == {i \in DOMAIN Newest : Newest[i] \notin Known}
      new == Newest[CHOOSE i \in absent : \A j \in absent : j <= i]
      folder == IF ask[a].to = None THEN Root ELSE ask[a].to
  IN  /\ ask[a].kind = "upload"
      /\ ask[a].is = "sent"
      /\ absent # {}
      /\ IF folder # Root /\ ~Live(folder)
         THEN /\ ask' = [ask EXCEPT ![a].is = "refused"]
              /\ UNCHANGED ghost /\ NoNews
         ELSE /\ docs' = [docs EXCEPT ![new] = [folder |-> folder, status |-> "active"]]
              /\ phase' = [phase EXCEPT ![new] = "busy"]
              /\ ask' = [ask EXCEPT ![a].is = "served", ![a].ids = {new}]
              /\ ghost' = [ghost EXCEPT
                             !.steady = [b \in DOMAIN @ |-> IF b = a THEN Docs ELSE @[b] \ {new}],
                             !.owner[new] = "one"]
              /\ UNCHANGED <<starred, pushed>>
      /\ UNCHANGED page /\ Unchanged

\* Starring and unstarring are idempotent; a document in the trash is refused.
ServeStar(a) ==
  LET d == CHOOSE x \in ask[a].ids : TRUE
  IN  /\ ask[a].kind = "star"
      /\ ask[a].is = "sent"
      /\ IF docs[d].status = "trashed"
         THEN /\ ask' = [ask EXCEPT ![a].is = "refused"]
              /\ UNCHANGED <<starred, ghost>>
         ELSE /\ starred' = IF ask[a].action = "star" THEN starred \cup {d} ELSE starred \ {d}
              /\ ask' = [ask EXCEPT ![a].is = "served"]
              /\ ghost' = [ghost EXCEPT
                             !.steady = [b \in DOMAIN @ |-> IF b = a THEN Docs ELSE @[b] \ {d}],
                             !.owner[d] = "star"]
      /\ UNCHANGED <<docs, phase, pushed, page>> /\ Unchanged

\* A call of Library goes on, for this page or for somebody else.
OwnMove(c) == \E a \in DOMAIN ask : ask[a].kind = "bulk" /\ ask[a].call = c
LibraryStep(c) ==
  /\ CallStep(c)
  /\ plan.view = "none" \/ UnderWay(c)
  /\ UNCHANGED phase
  /\ IF plan.view = "none" THEN UNCHANGED ghost
     ELSE Note(IF OwnMove(c) THEN "bulk" ELSE "other")
  /\ UNCHANGED <<plan, page, ask, starred, pushed>>

\* A run of the pipeline ends: the row is settled, and the event pushed.
Finish(d) ==
  /\ phase[d] = "busy"
  /\ phase' = [phase EXCEPT ![d] = "settled"]
  /\ pushed' = IF docs[d].status = "trashed" THEN pushed ELSE Append(pushed, d)
  /\ UNCHANGED <<docs, starred>>
  /\ ghost' = [ghost EXCEPT !.steady = [a \in DOMAIN @ |-> @[a] \ {d}],
                            !.owner[d] = IF @ = "bulk" THEN "run" ELSE @]
  /\ UNCHANGED <<page, ask>> /\ Unchanged

\* A colleague trashes, restores, archives or unarchives a document.
Elsewhere(d) ==
  /\ "elsewhere" \in DOMAIN plan.ops /\ changes < plan.ops["elsewhere"]
  /\ SetStatus(d)
  /\ UNCHANGED <<phase, starred, pushed>>
  /\ Note("other")
  /\ UNCHANGED <<plan, page, ask>>

-----------------------------------------------------------------------------
(* What the reader does.                                                    *)

Still == UNCHANGED ghost /\ NoNews /\ Unchanged
Ready == page.load = "ready" /\ Free # {}

Sends(request) == ask' = [ask EXCEPT ![NewAsk] =
                            [request EXCEPT !.is = "sent", !.under = page.under,
                                            !.filter = page.filter]]

\* The effect runs for a change of the filters; what is on screen stays there
\* until its answer comes.
Narrow ==
  /\ plan.view = "documents" /\ Free # {}
  /\ "filter" \in DOMAIN plan.ops /\ page.under < plan.ops["filter"]
  /\ \E f \in [folder : page.tree \cup {None}, archived : BOOLEAN,
               favorite : IF "star" \in DOMAIN plan.ops THEN BOOLEAN ELSE {FALSE}] :
       /\ f # page.filter
       /\ page' = [page EXCEPT !.filter = f, !.under = @ + 1, !.reading = NewAsk]
       /\ ask' = [ask EXCEPT ![NewAsk] = Reading(f, page.under + 1)]
  /\ ghost' = [ghost EXCEPT !.chosen = {}]
  /\ NoNews /\ Unchanged

Retry ==
  /\ page.load = "error" /\ Free # {}
  /\ page' = [page EXCEPT !.load = "loading", !.reading = NewAsk]
  /\ ask' = [ask EXCEPT ![NewAsk] = Reading(page.filter, page.under)]
  /\ Still

LoadMore ==
  /\ plan.view = "documents" /\ Ready /\ May("more")
  /\ page.more # None
  /\ ~Waiting("more")
  /\ Sends([NoAsk EXCEPT !.kind = "more", !.cursor = page.more])
  /\ UNCHANGED page /\ Still

\* Mutant: the ticks outlive the list they were made on.
AnyTicks == page.ticked.ids

\* Ticks made under other filters read as none.
Selected == IF page.ticked.under = page.under THEN page.ticked.ids ELSE {}

Tick ==
  /\ page.load = "ready" /\ "bulk" \in DOMAIN plan.ops
  /\ \E ids \in {Selected \cup {d} : d \in OnScreen} \cup {Selected \ {d} : d \in OnScreen}
              \cup {OnScreen, {}} :
       /\ page' = [page EXCEPT !.ticked = [under |-> page.under, ids |-> ids]]
       /\ ghost' = [ghost EXCEPT !.chosen = @ \cup (ids \cap OnScreen)]
  /\ UNCHANGED ask /\ NoNews /\ Unchanged

BulkActions == IF plan.view = "trash" THEN {"restore"}
               ELSE {"delete", "archive", "unarchive", "move"}

StartBulk ==
  /\ Ready /\ May("bulk")
  /\ Selected # {}
  /\ ~Waiting("bulk")
  /\ \E action \in BulkActions \ {"move"} :
       Sends([NoAsk EXCEPT !.kind = "bulk", !.action = action, !.ids = Selected])
  /\ UNCHANGED page /\ Still

FreeCalls == {c \in Calls : call[c].at = "idle"}

\* Posts a call of Library.
Posts(request, kind, ids, to) ==
  LET c == CHOOSE x \in FreeCalls : TRUE
  IN  /\ FreeCalls # {}
      /\ Begin(c, request)
      /\ Sends([NoAsk EXCEPT !.kind = kind, !.action = "move", !.ids = ids, !.to = to,
                             !.call = c])
      /\ UNCHANGED <<plan, page, phase, starred, pushed, ghost>>

StartMove ==
  /\ plan.view = "documents" /\ Ready /\ May("bulk")
  /\ Selected # {}
  /\ ~Waiting("bulk")
  /\ \E f \in page.tree \cup {Root} :
       Posts([NoCall EXCEPT !.kind = "bulkMove", !.docs = Selected, !.folder = f,
                            !.at = IF f = Root THEN "load" ELSE "folder"], "bulk", Selected, f)

StartCreateFolder ==
  /\ plan.view = "documents" /\ Ready /\ May("createFolder")
  /\ \E n \in Names :
       LET p == IF page.filter.folder = None THEN Root ELSE page.filter.folder
       IN  Posts([NoCall EXCEPT !.kind = "createFolder", !.name = n, !.parent = p, !.cursor = p,
                                !.at = IF p = Root THEN "name" ELSE "climb"],
                 "createFolder", {}, p)

StartRemoveFolder ==
  /\ plan.view = "documents" /\ Ready /\ May("removeFolder")
  /\ \E f \in page.tree :
       Posts([NoCall EXCEPT !.kind = "removeFolder", !.folder = f, !.at = "count",
                            !.rows = {"folders", "documents"}], "removeFolder", {}, f)

\* One row's own actions; a row that is busy does not offer a new run.
Offered(row) == IF plan.view = "trash" THEN {"restore"}
                ELSE {"delete"} \cup (IF row.shown = "busy" THEN {} ELSE {"reprocess"})

ActOnRow ==
  /\ Ready
  /\ \E i \in DOMAIN page.rows : \E action \in Offered(page.rows[i]) :
       /\ May(action)
       /\ Sends([NoAsk EXCEPT !.kind = action, !.action = action, !.ids = {page.rows[i].doc}])
  /\ UNCHANGED page /\ Still

Starring(d) == \E a \in DOMAIN ask : ask[a].kind = "star" /\ InFlight(a) /\ d \in ask[a].ids

\* The star flips at once, and back if the request fails.
Patch(seq, d, star) ==
  [i \in DOMAIN seq |-> IF seq[i].doc = d THEN [seq[i] EXCEPT !.star = star] ELSE seq[i]]

ToggleStar ==
  /\ plan.view = "documents" /\ Ready /\ May("star")
  /\ \E i \in DOMAIN page.rows :
       LET row == page.rows[i]
       IN  /\ ~Starring(row.doc)
           /\ Sends([NoAsk EXCEPT !.kind = "star", !.ids = {row.doc},
                                  !.action = IF row.star THEN "unstar" ELSE "star"])
           /\ page' = [page EXCEPT !.rows = Patch(@, row.doc, ~row.star)]
  /\ Still

PickFile ==
  /\ plan.view = "documents" /\ Free # {} /\ May("upload")
  /\ Sends([NoAsk EXCEPT !.kind = "upload", !.to = page.filter.folder])
  /\ page' = [page EXCEPT !.queue = @ \cup {NewAsk}]
  /\ Still

\* The first batch to end takes the queue away, with what else it shows.
Idle(p) == [p EXCEPT !.queue = {}]

\* The transfer is aborted; what the server has received it may still take.
CancelUpload(a) ==
  /\ a \in page.queue
  /\ ask[a].kind = "upload" /\ InFlight(a)
  /\ ask' = [ask EXCEPT ![a].is = "taken"]
  /\ page' = Idle(page)
  /\ ghost' = [ghost EXCEPT !.crossed = @ \cup ask[a].ids]
  /\ NoNews /\ Unchanged

-----------------------------------------------------------------------------
(* Answers and events.                                                      *)

\* Mutant: what has left the list is left to the next read.
LeftToRead(seq, ids) == seq

Without(seq, ids) == Kept(seq, {i \in DOMAIN seq : seq[i].doc \notin ids})
Patched(seq, d, shown) ==
  [i \in DOMAIN seq |-> IF seq[i].doc = d THEN [seq[i] EXCEPT !.shown = shown] ELSE seq[i]]

AnswerIn(a) == \/ ask[a].is \in {"served", "refused"}
               \/ ask[a].is = "sent" /\ ask[a].call # None /\ call[ask[a].call].at = "done"
Granted(a) == ask[a].is = "served" \/ (ask[a].call # None /\ call[ask[a].call].ok)

\* A read whose effect has been cleaned up is dropped.
IsCurrent(a) == a = page.reading

Take(a) == [ask EXCEPT ![a] = [NoAsk EXCEPT !.kind = ask[a].kind, !.is = "taken"]]
Overtaken(a) == {d \in Docs : d \notin ghost.steady[a]}
TakenOff(a) == [ghost EXCEPT !.steady[0] = @ \ (Overtaken(a) \cap ask[a].ids),
                             !.crossed = @ \cup (Overtaken(a) \cap ask[a].ids)]

TakeList(a) ==
  /\ ask[a].kind = "list" /\ ask[a].is = "served"
  /\ IF IsCurrent(a)
     THEN /\ page' = [page EXCEPT !.load = "ready", !.rows = ask[a].rows, !.more = ask[a].next,
                                  !.tree = ask[a].tree,
                                  !.ticked = IF plan.view = "trash"
                                             THEN [under |-> page.under, ids |-> {}] ELSE @]
          /\ ghost' = [ghost EXCEPT
                         !.steady[0] = ghost.steady[a],
                         !.crossed = {d \in Overtaken(a) :
                                        plan.view = "documents" /\ ghost.owner[d] = "bulk" => d \in @}
                                     \cup {d \in Docs : Starring(d)},
                         !.slipped = FALSE]
     ELSE UNCHANGED <<page, ghost>>
  /\ ask' = Take(a)
  /\ NoNews /\ Unchanged

\* Appended to whatever list is on screen by now.
TakeMore(a) ==
  /\ ask[a].kind = "more" /\ ask[a].is = "served"
  /\ page' = [page EXCEPT !.rows = @ \o ask[a].rows, !.more = ask[a].next]
  /\ ghost' = [ghost EXCEPT
                 !.steady[0] = @ \cap ghost.steady[a],
                 !.crossed = @ \cup RowDocs(ask[a].rows) \cup (Overtaken(a) \ OnScreen),
                 !.slipped = @ \/ a \in ghost.stray
                                \/ ask[a].under # page.under \/ ask[a].cursor # page.more]
  /\ ask' = Take(a)
  /\ NoNews /\ Unchanged

\* runBulk and restoreSelected.  The documents page refetches; the trash takes
\* out what came back.
TakeBulk(a) ==
  /\ ask[a].kind = "bulk" /\ AnswerIn(a) /\ Granted(a)
  /\ IF plan.view = "trash"
     THEN /\ page' = [page EXCEPT !.rows = Without(@, ask[a].ids),
                                  !.ticked = [under |-> page.under, ids |-> {}]]
          /\ ghost' = TakenOff(a)
          /\ ask' = Take(a)
     ELSE /\ Free # {}
          /\ page' = [page EXCEPT !.ticked = [under |-> ask[a].under, ids |-> {}],
                                  !.reading = NewAsk]
          /\ ask' = [Take(a) EXCEPT ![NewAsk] = Reading(page.filter, page.under)]
          /\ UNCHANGED ghost
  /\ NoNews /\ Unchanged

\* confirmDelete, restore and reprocess
TakeChange(a) ==
  LET d == CHOOSE x \in ask[a].ids : TRUE
  IN  /\ ask[a].kind \in {"delete", "restore", "reprocess"} /\ ask[a].is = "served"
      /\ page' = [page EXCEPT !.rows = IF ask[a].kind = "reprocess" THEN Patched(@, d, "busy")
                                       ELSE Without(@, {d})]
      /\ ghost' = IF ask[a].kind = "reprocess"
                  THEN [ghost EXCEPT !.crossed = @ \cup (Overtaken(a) \cap {d})]
                  ELSE TakenOff(a)
      /\ ask' = Take(a)
      /\ NoNews /\ Unchanged

TakeUpload(a) ==
  LET d == CHOOSE x \in ask[a].ids : TRUE
      unlisted == ask[a].under # page.under \/ page.filter.favorite \/ d \in OnScreen
                  \/ Starring(d)
  IN  /\ ask[a].kind = "upload" /\ ask[a].is = "served"
      /\ page' = Idle([page EXCEPT !.rows = <<[doc |-> d, shown |-> "busy", star |-> FALSE]>> \o @])
      /\ ghost' = [ghost EXCEPT !.crossed = @ \cup (IF unlisted THEN {d} ELSE {})
                                   \cup (Overtaken(a) \cap {d})]
      /\ ask' = Take(a)
      /\ NoNews /\ Unchanged

TakeStar(a) ==
  /\ ask[a].kind = "star" /\ ask[a].is = "served"
  /\ ask' = Take(a)
  /\ UNCHANGED page /\ Still

TakeCreatedFolder(a) ==
  /\ ask[a].kind = "createFolder" /\ AnswerIn(a) /\ Granted(a)
  /\ page' = [page EXCEPT !.tree = @ \cup {ask[a].call}]
  /\ ask' = Take(a)
  /\ Still

\* confirmDeleteFolder: whether the folder was being viewed is what the render
\* that asked says.
TakeRemovedFolder(a) ==
  LET viewed == ask[a].filter.folder = ask[a].to /\ page.filter.folder # None
      kept == [page EXCEPT !.tree = @ \ {ask[a].to}]
  IN  /\ ask[a].kind = "removeFolder" /\ AnswerIn(a) /\ Granted(a)
      /\ IF viewed
         THEN /\ Free # {}
              /\ page' = [kept EXCEPT !.filter.folder = None, !.under = @ + 1, !.reading = NewAsk]
              /\ ask' = [Take(a) EXCEPT ![NewAsk] =
                           Reading([page.filter EXCEPT !.folder = None], page.under + 1)]
              /\ ghost' = [ghost EXCEPT !.chosen = {}]
         ELSE /\ page' = kept
              /\ ask' = Take(a)
              /\ UNCHANGED ghost
      /\ NoNews /\ Unchanged

\* An error: a toast, or in the place of the list.
Fails(a) ==
  /\ page' = CASE ask[a].kind = "list" /\ IsCurrent(a) -> [page EXCEPT !.load = "error"]
               [] ask[a].kind = "star" ->
                    [page EXCEPT !.rows = Patch(@, CHOOSE d \in ask[a].ids : TRUE,
                                                ask[a].action = "unstar")]
               [] ask[a].kind = "upload" -> Idle(page)
               [] OTHER -> page
  /\ ask' = Take(a)
  /\ NoNews

TakeRefusal(a) ==
  /\ AnswerIn(a) /\ ~Granted(a)
  /\ Fails(a)
  /\ UNCHANGED ghost /\ Unchanged

\* The connection breaks before the request arrives or before its answer does.
Lose(a) ==
  /\ "lose" \in DOMAIN plan.ops /\ changes < plan.ops["lose"]
  /\ InFlight(a) /\ ask[a].call = None
  /\ changes' = changes + 1
  /\ Fails(a)
  /\ ghost' = [ghost EXCEPT !.crossed = @ \cup ask[a].ids]
  /\ UNCHANGED <<folders, tags, labels, call, mix, late, plan>>

\* The row is patched in place; what else it shows stays.
Deliver ==
  /\ pushed # <<>>
  /\ page' = [page EXCEPT !.rows = Patched(@, Head(pushed), "settled")]
  /\ pushed' = Tail(pushed)
  /\ ghost' = [ghost EXCEPT !.crossed = @ \cup {d \in {Head(pushed)} : Shown(d) # "settled"}]
  /\ UNCHANGED <<docs, phase, starred, ask>> /\ Unchanged

-----------------------------------------------------------------------------

Reader == \/ Narrow \/ Retry \/ LoadMore \/ Tick \/ StartBulk \/ StartMove \/ ActOnRow
          \/ StartCreateFolder \/ StartRemoveFolder \/ PickFile \/ ToggleStar
          \/ \E a \in DOMAIN ask : CancelUpload(a)

Served(a) == ServeRead(a) \/ ServeChange(a) \/ ServeUpload(a) \/ ServeStar(a)

Taken(a) == \/ TakeList(a) \/ TakeMore(a) \/ TakeBulk(a) \/ TakeChange(a) \/ TakeUpload(a) \/ TakeStar(a)
            \/ TakeCreatedFolder(a) \/ TakeRemovedFolder(a) \/ TakeRefusal(a) \/ Lose(a)

PageStep ==
  \/ Reader \/ Deliver
  \/ \E a \in DOMAIN ask : Served(a) \/ Taken(a)
  \/ \E d \in Docs : Finish(d) \/ Elsewhere(d)

PNext ==
  \/ plan.view # "none" /\ PageStep
  \/ \E c \in Calls : LibraryStep(c)
  \/ \E d \in Docs : /\ plan.view = "none"
                     /\ ChangeStatus(d)
                     /\ UNCHANGED <<plan, page, ask, phase, starred, pushed, ghost>>

PSpec == PInit /\ [][PNext]_pvars

-----------------------------------------------------------------------------
(* Properties.                                                              *)

\* Nothing of the page's is on its way.
Quiet == page.load = "ready" /\ pushed = <<>> /\ \A a \in DOMAIN ask : ~InFlight(a)

\* A list loaded to its end has left nothing out: every document that has been
\* in it since its first page was read is on screen, unless a page was asked
\* for from a document that had left the list, or from an earlier list, or the
\* answer of its deletion came when it had been restored
\* (DocumentsService.list skips one row; loadMore; confirmDelete).
NoneSkipped ==
  Quiet /\ page.more = None /\ ~ghost.slipped
  => \A d \in ghost.steady[0] : Belongs(d, page.filter) => d \in OnScreen

\* "Ticks made before the change would act on documents no longer on screen"
\* (documents-view.tsx): a batch names only documents that were ticked, on
\* screen, since the filters were last changed.
BatchWasTicked ==
  [][\A a \in DOMAIN ask : ask[a].is = "unsent" /\ ask'[a].kind = "bulk"
                           => ask'[a].ids \subseteq ghost.chosen]_pvars

\* When everything has been answered, the page shows its own work: a document
\* that this page was the last to add, take away or move is on screen if it is
\* in the list, and only then; its row shows the status that the page's last
\* change left it with, and the star it has.  A batch is never undone by an
\* earlier read; a change of one row is, by a read it has overtaken, and any
\* change by an answer or an event it has overtaken, which still acts on the row
\* (the effect's current flag, runBulk, confirmDelete, reprocess, useLiveEvent).
OwnWorkShows ==
  Quiet /\ page.more = None /\ ~ghost.slipped
  => \A d \in Docs \ ghost.crossed :
       ghost.owner[d] # "other"
       => /\ ghost.owner[d] \in {"one", "bulk"} => (d \in OnScreen <=> Belongs(d, page.filter))
          /\ \A i \in DOMAIN page.rows :
               page.rows[i].doc = d => /\ ghost.owner[d] # "star" => page.rows[i].shown = Shown(d)
                                       /\ page.rows[i].star = (d \in starred)

=============================================================================
