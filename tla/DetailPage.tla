----------------------------- MODULE DetailPage -----------------------------
(***************************************************************************)
(* The page of one document: its status, versions, star and tags as they   *)
(* are shown while the reader changes them, a colleague adds versions and  *)
(* tags, and a worker processes the file.                                  *)
(*                                                                         *)
(* A request is sent, answered, and arrives; the server's part is one step *)
(* here, for DocumentLifecycle and Library take it apart.  What a handler  *)
(* writes after its await it computes from the document of the render it   *)
(* was started in: each request remembers that document in "was".          *)
(*                                                                         *)
(* The event stream belongs to the layout around the page: it may be open  *)
(* or not when the page is opened, it is lost and opened again, and what   *)
(* fires meanwhile or is still on its way is gone (LiveProvider), as is    *)
(* one that Redis does not take (EventsService.publish).  The page does    *)
(* not read again when the stream reopens.                                 *)
(***************************************************************************)
EXTENDS Naturals, FiniteSets

CONSTANTS
  Chores,           \* what the reader does in a behaviour: one of these sets of kinds
  TagNames,        \* the company's tags at the start
  NewTag,          \* the one that the reader may create
  MaxAsks,         \* bound on the requests of the page
  MaxAlterations,  \* bound on what the colleague does
  MaxRefused       \* bound on the requests that fail

OwnKinds == {"archive", "unarchive", "reprocess", "version", "star", "tags"}

ASSUME ChoresAssumption == \A chore \in Chores : chore \subseteq OwnKinds
ASSUME TagsAssumption == NewTag \notin TagNames
\* The first reading is a request already.
ASSUME DetailBoundsAssumption == /\ {MaxAsks, MaxAlterations, MaxRefused} \subseteq Nat
                                 /\ MaxAsks > 0

VARIABLES
  chore,     \* what the reader does in this behaviour
  doc,      \* the document on the server
  here,     \* the page
  editor,   \* its tag editor
  asked,    \* the requests under way
  streaming,     \* the event stream is open and delivers
  events,   \* document.status events on their way to the page
  used,     \* how much of each bound is used
  adrift    \* for the properties only: one of the races that PageCatchesUp excepts
            \* has happened, or an event was lost, since the page was last read

detailServer == <<chore, doc>>
detailVars == <<detailServer, here, editor, asked, streaming, events, used, adrift>>

-----------------------------------------------------------------------------
(* State.                                                                   *)

AllTags == TagNames \cup {NewTag}

Document == [status : {"READY", "PROCESSING", "ARCHIVED"}, versions : Nat, star : BOOLEAN,
             tags : SUBSET AllTags]

\* turn is the run of the effect whose answer will be shown, busy the new version
\* that the version history waits for, 0 for none.
Here == [load : {"loading", "error", "ready"}, detail : Document, turn : Nat,
         busy : Nat, starring : BOOLEAN]

\* mount counts how often the editor left the screen with the page, creating is
\* the creation that its input waits for, 0 for none.
\* known is what the document carried when the editor was asked for, and takenOff
\* what the reader has taken off since (both for the properties only).
Editor == [mount : Nat, open : BOOLEAN, loading : BOOLEAN, saving : BOOLEAN, creating : Nat,
           selected : SUBSET AllTags, known : SUBSET AllTags, takenOff : SUBSET AllTags,
           raced : BOOLEAN]

ClosedEditor == [mount |-> 0, open |-> FALSE, loading |-> FALSE, saving |-> FALSE, creating |-> 0,
                 selected |-> {}, known |-> {}, takenOff |-> {}, raced |-> FALSE]

AskKinds == {"load", "list", "create"} \cup OwnKinds

\* turn is the run of the effect that reads, or the mount of the editor that asks.
\* For the properties only, met: another request that spoils it was under way at
\* the same time, or an event was lost after it was answered; may: what the
\* reader who saves knows to be going.
Ask == [id : Nat, kind : AskKinds, at : {"sent", "answered", "refused"}, turn : Nat,
        was : Document, tags : SUBSET AllTags, got : Document, met : BOOLEAN,
        may : SUBSET AllTags]

DetailTypeOK ==
  /\ chore \in Chores
  /\ doc \in Document
  /\ here \in Here
  /\ editor \in Editor
  /\ asked \subseteq Ask
  /\ streaming \in BOOLEAN
  /\ events \in Nat
  /\ used \in [asks : 0..MaxAsks, alterations : 0..MaxAlterations, refused : 0..MaxRefused]
  /\ adrift \in BOOLEAN

FirstLoad(d) == [id |-> 1, kind |-> "load", at |-> "sent", turn |-> 1, was |-> d, tags |-> {},
                 got |-> d, met |-> FALSE, may |-> {}]

DetailInit ==
  /\ chore \in Chores
  /\ doc \in [status : {"READY", "PROCESSING", "ARCHIVED"}, versions : {1}, star : {FALSE},
              tags : IF "tags" \in chore THEN SUBSET TagNames ELSE {{}}]
  /\ doc.status = "PROCESSING" => "tags" \notin chore
  /\ doc.status = "ARCHIVED" => "unarchive" \in chore
  /\ here = [load |-> "loading", detail |-> doc, turn |-> 1, busy |-> 0, starring |-> FALSE]
  /\ editor = ClosedEditor
  /\ asked = {FirstLoad(doc)}
  /\ streaming \in BOOLEAN
  /\ events = 0
  /\ used = [asks |-> 1, alterations |-> 0, refused |-> 0]
  /\ adrift = FALSE

-----------------------------------------------------------------------------
(* The reader.                                                              *)

Own(q) == q.kind \in OwnKinds

\* A reading while the reader changes something, and two changes of the status:
\* which of them is answered last need not arrive last.
Spoilt(p, q) == \/ p.kind = "load" /\ Own(q)
                \/ {p.kind, q.kind} \subseteq {"archive", "unarchive", "reprocess", "version"}

Meet(q, qs) ==
  {[p EXCEPT !.met = @ \/ Spoilt(p, q)] : p \in qs}
  \cup {[q EXCEPT !.met = \E p \in qs : Spoilt(q, p)]}

\* Everything, when the choice has been lost.
MayGo == IF editor.raced THEN AllTags ELSE editor.takenOff \cup (AllTags \ editor.known)

SendAsk(kind, tags, turn) ==
  /\ used.asks < MaxAsks
  /\ used' = [used EXCEPT !.asks = @ + 1]
  /\ asked' = Meet([id |-> used.asks + 1, kind |-> kind, at |-> "sent", turn |-> turn,
                    was |-> here.detail, tags |-> tags, got |-> here.detail, met |-> FALSE,
                    may |-> IF kind = "tags" THEN MayGo ELSE {}],
                   asked)

\* reload: the effect runs again, and the run before it will show nothing.
ReadAgain ==
  /\ SendAsk("load", {}, here.turn + 1)
  /\ here' = [here EXCEPT !.turn = @ + 1]

Ready == here.load = "ready"

RetryRead ==
  /\ here.load = "error"
  /\ ReadAgain
  /\ UNCHANGED <<detailServer, editor, streaming, events, adrift>>

HearStatus ==
  /\ events > 0
  /\ events' = events - 1
  /\ ReadAgain
  /\ UNCHANGED <<detailServer, editor, streaming, adrift>>

Reconnect ==
  /\ ~streaming
  /\ streaming' = TRUE
  /\ UNCHANGED <<detailServer, here, editor, asked, events, used, adrift>>

\* An event is lost: what the page shows, or is about to be given, may be behind.
Miss ==
  /\ asked' = {[q EXCEPT !.met = @ \/ (q.kind = "load" /\ q.at = "answered")] : q \in asked}
  /\ adrift' = TRUE

Disconnect ==
  /\ streaming
  /\ streaming' = FALSE
  /\ events' = 0
  /\ IF events > 0 THEN Miss ELSE UNCHANGED <<asked, adrift>>
  /\ UNCHANGED <<detailServer, here, editor, used>>

Frozen == here.detail.status = "ARCHIVED"

\* What the menu and the version history offer, which has its buttons busy while
\* submitUpload or submitRevert waits.
MenuOffers(kind) ==
  CASE kind = "archive" -> ~Frozen
    [] kind = "unarchive" -> Frozen
    [] kind = "reprocess" -> TRUE
    [] kind = "version" -> ~Frozen /\ here.busy = 0
    [] OTHER -> FALSE

Press(kind) ==
  /\ Ready
  /\ kind \in chore
  /\ MenuOffers(kind)
  /\ SendAsk(kind, {}, here.turn)
  /\ here' = [here EXCEPT !.busy = IF kind = "version" THEN used.asks + 1 ELSE @]
  /\ UNCHANGED <<detailServer, editor, streaming, events, adrift>>

\* Another tab of the page is chosen: the version history and its sign are gone.
LeaveVersions ==
  /\ Ready
  /\ here.busy # 0
  /\ here' = [here EXCEPT !.busy = 0]
  /\ UNCHANGED <<detailServer, editor, asked, streaming, events, used, adrift>>

\* FavoriteStar.toggle: shown at once.
ToggleStar ==
  /\ Ready
  /\ "star" \in chore
  /\ ~here.starring
  /\ SendAsk("star", {}, here.turn)
  /\ here' = [here EXCEPT !.starring = TRUE, !.detail.star = ~@]
  /\ UNCHANGED <<detailServer, editor, streaming, events, adrift>>

\* open reads the vocabulary first.
AskForEditor ==
  /\ Ready
  /\ "tags" \in chore
  /\ ~Frozen
  /\ ~editor.open
  /\ ~editor.loading
  /\ SendAsk("list", {}, editor.mount)
  /\ editor' = [editor EXCEPT !.loading = TRUE]
  /\ UNCHANGED <<detailServer, here, streaming, events, adrift>>

InEditor == Ready /\ editor.open

BeingCreated == \E q \in asked : q.kind = "create"

\* select and deselect, and a creation may be under way.
Pick(t) ==
  /\ InEditor
  /\ t \in TagNames \ editor.selected
  /\ editor' = [editor EXCEPT !.selected = @ \cup {t}, !.takenOff = @ \ {t},
                              !.raced = @ \/ BeingCreated]
  /\ UNCHANGED <<detailServer, here, asked, streaming, events, used, adrift>>

Unpick(t) ==
  /\ InEditor
  /\ t \in editor.selected
  /\ editor' = [editor EXCEPT !.selected = @ \ {t}, !.takenOff = @ \cup {t},
                              !.raced = @ \/ BeingCreated]
  /\ UNCHANGED <<detailServer, here, asked, streaming, events, used, adrift>>

CreateTag ==
  /\ InEditor
  /\ editor.creating = 0
  /\ NewTag \notin editor.selected
  /\ SendAsk("create", editor.selected, editor.mount)
  /\ editor' = [editor EXCEPT !.creating = used.asks + 1]
  /\ UNCHANGED <<detailServer, here, streaming, events, adrift>>

CancelEditor ==
  /\ InEditor
  /\ editor' = [editor EXCEPT !.open = FALSE, !.creating = 0]
  /\ UNCHANGED <<detailServer, here, asked, streaming, events, used, adrift>>

SaveTags ==
  /\ InEditor
  /\ ~editor.saving
  /\ SendAsk("tags", editor.selected, editor.mount)
  /\ editor' = [editor EXCEPT !.saving = TRUE]
  /\ UNCHANGED <<detailServer, here, streaming, events, adrift>>

-----------------------------------------------------------------------------
(* The server.                                                              *)

\* mustFindActive, assertWritable, assertNotInFlight.
Allowed(kind) ==
  CASE kind = "archive" -> doc.status = "READY"
    [] kind = "unarchive" -> doc.status = "ARCHIVED"
    [] kind \in {"reprocess", "version"} -> doc.status = "READY"
    [] kind = "tags" -> doc.status # "ARCHIVED"
    [] OTHER -> TRUE

Changed(q) ==
  CASE q.kind = "archive" -> [doc EXCEPT !.status = "ARCHIVED"]
    [] q.kind = "unarchive" -> [doc EXCEPT !.status = "READY"]
    [] q.kind = "reprocess" -> [doc EXCEPT !.status = "PROCESSING"]
    [] q.kind = "version" -> [doc EXCEPT !.status = "PROCESSING", !.versions = @ + 1]
    [] q.kind = "star" -> [doc EXCEPT !.star = ~q.was.star]
    [] q.kind = "tags" -> [doc EXCEPT !.tags = q.tags]
    [] OTHER -> doc

AnswerAsk(q, at, got) == asked' = (asked \ {q}) \cup {[q EXCEPT !.at = at, !.got = got]}

Perform(q) ==
  /\ Allowed(q.kind)
  /\ doc' = Changed(q)
  /\ AnswerAsk(q, "answered", doc')
  /\ UNCHANGED used

Decline(q) ==
  /\ ~Allowed(q.kind)
  /\ AnswerAsk(q, "refused", q.was)
  /\ UNCHANGED <<doc, used>>

\* Something fails; a reprocess may fail when the status is written already, for
\* the queue refuses the job.
Break(q) ==
  /\ used.refused < MaxRefused
  /\ used' = [used EXCEPT !.refused = @ + 1]
  /\ AnswerAsk(q, "refused", q.was)
  /\ doc' \in {doc} \cup (IF q.kind = "reprocess" /\ Allowed(q.kind) THEN {Changed(q)} ELSE {})

ServeAsk ==
  /\ \E q \in asked : q.at = "sent" /\ (Perform(q) \/ Decline(q) \/ Break(q))
  /\ UNCHANGED <<chore, here, editor, streaming, events, adrift>>

\* The worker announces the end of a run, to the streams that are open and if
\* Redis takes it.
EndRun ==
  /\ doc.status = "PROCESSING"
  /\ doc' = [doc EXCEPT !.status = "READY"]
  /\ \/ streaming /\ events' = events + 1 /\ UNCHANGED <<asked, adrift>>
     \/ Miss /\ UNCHANGED events
  /\ UNCHANGED <<chore, here, editor, streaming, used>>

\* A colleague adds a version or puts a tag on: the page does not hear of that.
Colleague ==
  /\ used.alterations < MaxAlterations
  /\ used' = [used EXCEPT !.alterations = @ + 1]
  /\ \/ /\ Allowed("version")
        /\ doc' = Changed([kind |-> "version"])
     \/ /\ "tags" \in chore
        /\ Allowed("tags")
        /\ \E t \in TagNames \ doc.tags : doc' = [doc EXCEPT !.tags = @ \cup {t}]
  /\ UNCHANGED <<chore, here, editor, asked, streaming, events, adrift>>

-----------------------------------------------------------------------------
(* Answers.                                                                 *)

\* Mutant: the answer of any run of the effect is shown.
AnyRun(q) == TRUE

ThisRun(q) == q.turn = here.turn

ShowRead(q) ==
  IF ThisRun(q)
  THEN /\ here' = [here EXCEPT !.load = "ready", !.detail = q.got]
       /\ adrift' = q.met
       /\ UNCHANGED editor
  ELSE UNCHANGED <<here, editor, adrift>>

\* The page gives way to the message, and what it had open is gone.
ShowFailure(q) ==
  /\ IF ThisRun(q)
     THEN /\ here' = [here EXCEPT !.load = "error", !.busy = 0, !.starring = FALSE]
          /\ editor' = [ClosedEditor EXCEPT !.mount = editor.mount + 1]
     ELSE UNCHANGED <<here, editor>>
  /\ UNCHANGED adrift

\* A star was shown at once, and is taken back when it is refused.
Writes(q) == (q.kind = "star") = (q.at = "refused")

\* The document of the render in which the handler was started, with what the
\* handler knows to be new.
Patched(q) ==
  CASE q.kind = "star" -> q.was
    [] q.kind = "tags" -> [q.was EXCEPT !.tags = q.got.tags]
    [] OTHER -> [q.was EXCEPT !.status = q.got.status]

\* A patch that undoes what has been shown since the handler was started.
Undoes(q) ==
  q.was # CASE q.kind = "star" -> [here.detail EXCEPT !.star = q.was.star]
            [] q.kind = "tags" -> [here.detail EXCEPT !.tags = q.was.tags]
            [] OTHER -> [here.detail EXCEPT !.status = q.was.status]

\* setStatus, reprocess, toggle and save: setLoad, whatever was loaded meanwhile.
ShowPatch(q) ==
  LET rested == [here EXCEPT !.starring = @ /\ q.kind # "star"]
  IN  IF Writes(q)
      THEN /\ here' = [rested EXCEPT !.detail = Patched(q), !.load = "ready"]
           /\ adrift' = (adrift \/ q.met \/ Undoes(q) \/ here.load = "error")
      ELSE /\ here' = rested
           /\ adrift' = (adrift \/ q.met)

\* Mutant: the editor opens with nothing chosen.
NothingChosen(q) == {}

TagsOf(q) == q.was.tags

Mounted(q) == q.turn = editor.mount

OpenEditor(q) ==
  editor' = IF q.at = "answered"
            THEN [editor EXCEPT !.loading = FALSE, !.open = TRUE, !.selected = TagsOf(q),
                                !.known = q.was.tags, !.takenOff = {}, !.raced = BeingCreated]
            ELSE [editor EXCEPT !.loading = FALSE]

\* create: onChange([...value, created.id]) with the value of its own render.
AddCreated(q) ==
  editor' = [editor EXCEPT !.creating = IF @ = q.id THEN 0 ELSE @,
                           !.selected = IF q.at = "answered" THEN q.tags \cup {NewTag} ELSE @]

\* The editor closes on the answer that its tags are saved.
EndSave(q) ==
  editor' = IF q.at = "refused" THEN [editor EXCEPT !.saving = FALSE]
            ELSE [editor EXCEPT !.saving = FALSE, !.open = FALSE, !.creating = 0]

\* submitUpload and submitRevert read the document again, and clear the sign of
\* the version history they were started in.
EndVersion(q) ==
  LET rested == [here EXCEPT !.busy = IF @ = q.id THEN 0 ELSE @]
  IN  IF q.at = "answered"
      THEN /\ used.asks < MaxAsks
           /\ used' = [used EXCEPT !.asks = @ + 1]
           /\ asked' = Meet([q EXCEPT !.id = used.asks + 1, !.kind = "load", !.at = "sent",
                                      !.turn = here.turn + 1],
                            asked \ {q})
           /\ here' = [rested EXCEPT !.turn = @ + 1]
      ELSE /\ here' = rested
           /\ asked' = asked \ {q}
           /\ UNCHANGED used

ArriveAsk(q) ==
  /\ q.at # "sent"
  /\ q.kind = "version" \/ (asked' = asked \ {q} /\ UNCHANGED used)
  /\ CASE q.kind = "load" -> IF q.at = "answered" THEN ShowRead(q) ELSE ShowFailure(q)
       [] q.kind \in {"list", "create"} -> UNCHANGED <<here, adrift>>
       [] q.kind = "version" -> EndVersion(q) /\ UNCHANGED adrift
       [] OTHER -> ShowPatch(q)
  /\ CASE q.kind = "list" /\ Mounted(q) -> OpenEditor(q)
       [] q.kind = "create" /\ Mounted(q) -> AddCreated(q)
       [] q.kind = "tags" /\ Mounted(q) -> EndSave(q)
       [] OTHER -> q.kind = "load" \/ UNCHANGED editor
  /\ UNCHANGED <<detailServer, streaming, events>>

DetailNext ==
  \/ Reconnect \/ Disconnect \/ LeaveVersions
  \/ RetryRead \/ HearStatus \/ ToggleStar \/ AskForEditor \/ CreateTag \/ CancelEditor \/ SaveTags
  \/ \E kind \in OwnKinds : Press(kind)
  \/ \E t \in AllTags : Pick(t) \/ Unpick(t)
  \/ ServeAsk \/ EndRun \/ Colleague
  \/ \E q \in asked : ArriveAsk(q)

DetailSpec == DetailInit /\ [][DetailNext]_detailVars

-----------------------------------------------------------------------------
(* Properties.                                                              *)

\* Nothing is on its way to the page, and no run is going to end.
AtRest == asked = {} /\ events = 0 /\ doc.status # "PROCESSING"

\* When all is at rest the page shows the document as it is, whatever order runs
\* and answers came in, but for what the page is not told of - the tags that a
\* colleague puts on, and the end of a run whose event was lost and after which
\* the page was not read again - and for three races of the
\* reader's own changes: one that was under way together with a reading, two of
\* the status that were under way together, and one whose answer is laid over the
\* document of an older render, undoing what was read since (LiveProvider,
\* setStatus, reprocess, FavoriteStar's and DocumentTagsPanel's onChange).
PageCatchesUp ==
  AtRest /\ Ready => \/ here.detail = [doc EXCEPT !.tags = here.detail.tags]
                     \/ adrift

\* Saving replaces all tags of the document, and yet takes off only those that
\* the reader took off, and those that came on after the page was read.  The
\* exception is a reader who goes on choosing while a new tag is being created:
\* the comment in TagInput.create says this is safe, but the choice is replaced
\* by the one of the older render (DocumentTagsPanel, TagInput).
SavesWhatWasChosen ==
  [][doc.tags \ doc'.tags \subseteq UNION {q.may : q \in {p \in asked : p.kind = "tags"}}]_detailVars

=============================================================================
