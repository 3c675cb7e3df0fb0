------------------------------ MODULE Library ------------------------------
(***************************************************************************)
(* How a company's documents are filed and labelled: the tree of folders,  *)
(* the folder of each document, the tags, and the bulk operations on a     *)
(* selection of documents.                                                 *)
(*                                                                         *)
(* A call is one request, and every await that reaches PostgreSQL is a     *)
(* step of its own; a walk up the tree is one step per folder read.  The   *)
(* last statement of a transaction is taken together with the commit.  A   *)
(* call that crashes is one that takes no further step.                    *)
(***************************************************************************)
EXTENDS Naturals, FiniteSets

CONSTANTS
  Calls,             \* the requests made over the behaviour; one creates a
                     \* folder at most, which is named by it
  Mixes,             \* how often each operation is performed at most: a behaviour
                     \* performs one of these
  OldFolders,        \* the folders that may exist at the start
  Names,             \* what a folder can be called
  Docs,              \* documents
  Tags,              \* tags
  MaxFolderDepth,    \* MAX_FOLDER_DEPTH
  MaxStatusChanges,  \* bound on documents trashed, restored, frozen, thawed
  Root,              \* parentId null, folderId null
  None

AllCallKinds == {"createFolder", "updateFolder", "removeFolder", "file", "bulkMove",
                 "createTag", "removeTag", "setTags", "bulkTags"}

Folders == OldFolders \cup Calls

ASSUME MixesAssumption == \A m \in Mixes : \A kind \in DOMAIN m : kind \in AllCallKinds /\ m[kind] \in Nat
ASSUME DepthAssumption == MaxFolderDepth \in Nat \ {0, 1}
ASSUME ChangesAssumption == MaxStatusChanges \in Nat
ASSUME RootAssumption == Root \notin Folders /\ None \notin Folders \cup Names \cup {Root}
ASSUME NewFoldersAssumption == OldFolders \cap Calls = {}

VARIABLES
  folders,  \* the folders rows
  docs,     \* the documents rows: folder_id and status
  tags,     \* the tags rows
  labels,   \* the document_tags rows, each with the call that inserted it
  call,     \* where each request is, and what it has read
  mix,      \* the operations of this behaviour, and how often each
  changes,  \* documents trashed, restored, frozen, thawed so far
  late      \* for the properties only: the calls under way when the document
            \* was last frozen, thawed, trashed or restored

vars == <<folders, docs, tags, labels, call, mix, changes, late>>

-----------------------------------------------------------------------------
(* State.                                                                   *)

Folder == [live : BOOLEAN, parent : Folders \cup {Root}, name : Names \cup {None}]
\* "none": not uploaded yet
Doc == [folder : Folders \cup {Root}, status : {"none", "active", "archived", "trashed"}]
Label == Docs \X Tags \X (Calls \cup {None})

CallSteps == {"idle", "find", "climb", "name", "write", "count", "delete", "doc",
              "folder", "load", "file", "insert", "tags", "replace", "unlabel",
              "label", "done"}

\* docs, folder, parent, name, add and remove are what the request names: a
\* parent or name of None is one that was not sent.  cursor and depth belong to
\* a walk, rows is what the statement or the reads under way have seen.
\* ok says how the call was answered; before and known, kept for the properties
\* only, are the calls that had been answered when it began, and the documents
\* there were.
Call == [kind : AllCallKinds \cup {"none"}, at : CallSteps, docs : SUBSET Docs,
         folder : Folders \cup {Root, None}, parent : Folders \cup {Root, None},
         name : Names \cup {None}, add : SUBSET Tags, remove : SUBSET Tags,
         cursor : Folders \cup {Root}, depth : 0..MaxFolderDepth + 1,
         rows : SUBSET (Label \cup {"folders", "documents"}),
         ok : BOOLEAN, before : SUBSET Calls, known : SUBSET Docs]

NoCall == [kind |-> "none", at |-> "idle", docs |-> {}, folder |-> None,
           parent |-> None, name |-> None, add |-> {}, remove |-> {},
           cursor |-> Root, depth |-> 0, rows |-> {}, ok |-> FALSE, before |-> {},
           known |-> {}]

Live(f) == folders[f].live
Known == {d \in Docs : docs[d].status # "none"}
Children(f) == {g \in Folders : Live(g) /\ folders[g].parent = f}

LiveFolders == {f \in Folders : Live(f)}

\* The folders that are not below f: with each of them the one it is in.
Aside(f) ==
  UNION {S \in SUBSET (LiveFolders \ {f}) : \A g \in S : folders[g].parent \in S \cup {Root}}

\* f and everything below it.
Subtree(f) == LiveFolders \ Aside(f)

\* The folders that cannot be reached from the root, in a circle or below one:
\* with each of them the one it is in.
Detached == UNION {S \in SUBSET LiveFolders : \A g \in S : folders[g].parent \in S}

TypeOK ==
  /\ folders \in [Folders -> Folder]
  /\ \A f \in Folders : Live(f) => folders[f].parent = Root \/ Live(folders[f].parent)
  /\ docs \in [Docs -> Doc]
  /\ \A d \in Docs : docs[d].folder = Root \/ Live(docs[d].folder)
  /\ tags \subseteq Tags
  /\ labels \subseteq {l \in Label : l[2] \in tags}
  /\ call \in [Calls -> Call]
  /\ mix \in Mixes
  /\ changes \in 0..MaxStatusChanges
  /\ late \in [Docs -> SUBSET Calls]

FolderKinds == {"createFolder", "updateFolder", "removeFolder"}
FilingKinds == {"removeFolder", "file", "bulkMove"}
TagKinds == {"createTag", "removeTag", "setTags", "bulkTags"}

Uses(kinds) == (DOMAIN mix) \cap kinds # {}

\* A library that has been in use: any tree over the old folders, with documents
\* and labels anywhere in it.  What no operation of the behaviour looks at is
\* left at the root, or away.
Init ==
  /\ mix \in Mixes
  /\ \E parent \in [OldFolders -> OldFolders \cup {Root}], name \in [OldFolders -> Names] :
       /\ \A f, g \in OldFolders : f # g => name[f] # name[g]
       /\ folders = [f \in Folders |->
                       IF f \in OldFolders
                       THEN [live |-> TRUE, parent |-> parent[f], name |-> name[f]]
                       ELSE [live |-> FALSE, parent |-> Root, name |-> None]]
  /\ ~Uses(FolderKinds) => \A f \in OldFolders : folders[f].parent = Root
  /\ Detached = {}
  /\ docs \in [Docs -> [folder : OldFolders \cup {Root}, status : {"none", "active", "archived", "trashed"}]]
  /\ \A d \in Docs : docs[d].status = "none" => docs[d].folder = Root
  /\ ~Uses(FilingKinds) => \A d \in Docs : docs[d].folder = Root
  /\ tags = IF Uses(TagKinds) THEN Tags ELSE {}
  /\ labels \in SUBSET (Known \X tags \X {None})
  /\ call = [c \in Calls |-> NoCall]
  /\ changes = 0
  /\ late = [d \in Docs |-> {}]

-----------------------------------------------------------------------------
(* Steps of a call.                                                         *)

rows == <<folders, docs, tags, labels>>
rest == <<mix, changes, late>>

UnderWay(c) == call[c].at \notin {"idle", "done"}

Begin(c, request) ==
  /\ call[c].at = "idle"
  /\ request.kind \in DOMAIN mix
  /\ Cardinality({d \in Calls : call[d].kind = request.kind}) < mix[request.kind]
  /\ call' = [call EXCEPT ![c] = [request EXCEPT !.before = {d \in Calls : call[d].ok},
                                              !.known = Known]]
  /\ UNCHANGED <<rows, rest>>

At(c, kinds, step) == call[c].kind \in kinds /\ call[c].at = step

Reads == UNCHANGED <<rows, rest>>
Goto(c, next) == call' = [call EXCEPT ![c].at = next]
Refuse(c) ==
  /\ call' = [call EXCEPT ![c] = [NoCall EXCEPT !.at = "done", !.kind = call[c].kind]]
  /\ Reads
Succeed(c) ==
  call' = [call EXCEPT ![c].at = "done", ![c].ok = TRUE, ![c].rows = {}, ![c].name = None,
                       ![c].cursor = Root, ![c].depth = 0]

\* Go on if the condition holds, refuse otherwise.
Check(c, condition, next) ==
  IF condition THEN Goto(c, next) /\ Reads ELSE Refuse(c)

-----------------------------------------------------------------------------
(* POST /folders and PATCH /folders/:id                                     *)

BeginCreateFolder(c) ==
  \E n \in Names, p \in {f \in Folders : Live(f)} \cup {Root} :
     Begin(c, [NoCall EXCEPT !.kind = "createFolder", !.name = n, !.parent = p,
                             !.cursor = p, !.at = IF p = Root THEN "name" ELSE "climb"])

BeginUpdateFolder(c) ==
  \E f \in Folders, n \in Names \cup {None}, p \in Folders \cup {Root, None} :
     /\ Live(f)
     /\ p \in Folders => Live(p)
     /\ <<n, p>> # <<None, None>>
     /\ Begin(c, [NoCall EXCEPT !.kind = "updateFolder", !.folder = f, !.name = n,
                                !.parent = p, !.at = "find"])

\* Absent means as it was read.
Wanted(sent, read) == IF sent = None THEN read ELSE sent

FindForUpdate(c) ==
  LET f == call[c].folder
      parent == Wanted(call[c].parent, folders[f].parent)
      name == Wanted(call[c].name, folders[f].name)
  IN  /\ At(c, {"updateFolder"}, "find")
      /\ IF ~Live(f)
         THEN Refuse(c)
         ELSE /\ call' = [call EXCEPT ![c].parent = parent, ![c].name = name,
                                      ![c].cursor = parent,
                            ![c].at = IF parent \notin {Root, folders[f].parent} THEN "climb"
                                      ELSE IF parent = folders[f].parent
                                              /\ name = folders[f].name THEN "write"
                                      ELSE "name"]
              /\ Reads

Above(f) == folders[f].parent

\* Mutant: the walk does not look for the folder that is being moved.
NeverMeets(c) == FALSE

\* The walk from the intended parent meets the folder being moved.
MeetsItself(c) == call[c].kind = "updateFolder" /\ call[c].cursor = call[c].folder

\* Only the walk of depthOf gives up.
WalkOver(c) == \/ call[c].cursor = Root
               \/ call[c].kind = "createFolder" /\ call[c].depth > MaxFolderDepth

TooDeep(c) == IF call[c].kind = "createFolder"
              THEN call[c].depth + 1 >= MaxFolderDepth
              ELSE call[c].depth + 1 > MaxFolderDepth

\* depth is compared with the cap only, so counting stops beyond it.
Deeper(depth) == IF depth > MaxFolderDepth THEN depth ELSE depth + 1

\* depthOf and assertMoveIsLegal
Climb(c) ==
  /\ At(c, {"createFolder", "updateFolder"}, "climb")
  /\ IF WalkOver(c) THEN Check(c, ~TooDeep(c), "name")
     ELSE IF MeetsItself(c) \/ ~Live(call[c].cursor) THEN Refuse(c)
     ELSE /\ call' = [call EXCEPT ![c].cursor = Above(@), ![c].depth = Deeper(@)]
          /\ Reads

Named(n, p) == {g \in Folders : Live(g) /\ folders[g].name = n /\ folders[g].parent = p}

Clash(c) == Named(call[c].name, call[c].parent) \ {call[c].folder}

AssertNameAvailable(c) ==
  /\ At(c, {"createFolder", "updateFolder"}, "name")
  /\ Check(c, Clash(c) = {}, "write")

\* @@unique([companyId, parentId, name]) and the foreign key of the parent;
\* null parents are distinct.
Writable(c) ==
  LET p == call[c].parent
  IN  p # Root => Live(p) /\ Named(call[c].name, p) \subseteq {call[c].folder}

WriteFolder(c) ==
  LET f == IF call[c].kind = "createFolder" THEN c ELSE call[c].folder
  IN  /\ At(c, {"createFolder", "updateFolder"}, "write")
      /\ IF Writable(c) /\ (f = c \/ Live(f))
         THEN /\ folders' = [folders EXCEPT ![f] = [live |-> TRUE, parent |-> call[c].parent,
                                                    name |-> call[c].name]]
              /\ Succeed(c)
              /\ UNCHANGED <<docs, tags, labels, rest>>
         ELSE Refuse(c)

-----------------------------------------------------------------------------
(* DELETE /folders/:id                                                      *)

BeginRemoveFolder(c) ==
  \E f \in Folders :
     /\ Live(f)
     /\ Begin(c, [NoCall EXCEPT !.kind = "removeFolder", !.folder = f, !.at = "count",
                                !.rows = {"folders", "documents"}])

\* Mutant: documents in the trash do not count.
ActiveIn(f) == {d \in Docs : docs[d].folder = f /\ docs[d].status # "trashed"}

FiledIn(f) == {d \in Docs : docs[d].folder = f}

Counted(c, what) ==
  IF what = "folders" THEN Children(call[c].folder) ELSE FiledIn(call[c].folder)

\* The two counts are asked for together and answered in either order.
CountContents(c) ==
  \E what \in call[c].rows :
     /\ At(c, {"removeFolder"}, "count")
     /\ IF Counted(c, what) # {}
        THEN Refuse(c)
        ELSE /\ call' = [call EXCEPT ![c].rows = @ \ {what},
                                     ![c].at = IF call[c].rows = {what} THEN "delete"
                                               ELSE "count"]
             /\ Reads

\* The database deletes what is below and unfiles the documents.
DeleteFolder(c) ==
  LET f == call[c].folder
      gone == Subtree(f)
  IN  /\ At(c, {"removeFolder"}, "delete")
      /\ IF ~Live(f)
         THEN Refuse(c)
         ELSE /\ folders' = [g \in Folders |->
                               IF g \in gone THEN [folders[g] EXCEPT !.live = FALSE]
                               ELSE folders[g]]
              /\ docs' = [d \in Docs |->
                            IF docs[d].folder \in gone THEN [docs[d] EXCEPT !.folder = Root]
                            ELSE docs[d]]
              /\ Succeed(c)
              /\ UNCHANGED <<tags, labels, rest>>

-----------------------------------------------------------------------------
(* PATCH /documents/:id with a folder, and the bulk move                    *)

BeginFile(c) ==
  \E d \in Known, f \in {g \in Folders : Live(g)} \cup {Root} :
     Begin(c, [NoCall EXCEPT !.kind = "file", !.docs = {d}, !.folder = f, !.at = "doc"])

BeginBulkMove(c) ==
  \E ds \in (SUBSET Known) \ {{}}, f \in {g \in Folders : Live(g)} \cup {Root} :
     Begin(c, [NoCall EXCEPT !.kind = "bulkMove", !.docs = ds, !.folder = f,
                             !.at = IF f = Root THEN "load" ELSE "folder"])

\* Mutant: only documents in the trash are refused.
NotTrashed(d) == docs[d].status # "trashed"

\* ACTIVE and not archived
Changeable(d) == docs[d].status = "active"

AfterDoc(c) == CASE call[c].kind = "setTags" -> "tags"
                 [] call[c].folder = Root -> "file"
                 [] OTHER -> "folder"

\* mustFindActive and assertWritable, and the same checks of setForDocument
ReadDoc(c) ==
  /\ At(c, {"file", "setTags"}, "doc")
  /\ Check(c, \A d \in call[c].docs : Changeable(d), AfterDoc(c))

\* assertFolderExists
ReadFolder(c) ==
  /\ At(c, {"file", "bulkMove"}, "folder")
  /\ Check(c, Live(call[c].folder), IF call[c].kind = "file" THEN "file" ELSE "load")

Eligible(c) == {d \in call[c].docs : Changeable(d)}

AfterLoad(c) == IF call[c].kind = "bulkMove" THEN "file"
                ELSE IF call[c].remove # {} THEN "unlabel" ELSE "label"

\* load and partition: the rest is reported as skipped
Load(c) ==
  /\ At(c, {"bulkMove", "bulkTags"}, "load")
  /\ call' = [call EXCEPT ![c].docs = Eligible(c),
                          ![c].at = IF Eligible(c) = {} THEN "done" ELSE AfterLoad(c),
                          ![c].ok = (Eligible(c) = {})]
  /\ Reads

\* The documents are written by their ids alone.
FileDocs(c) ==
  LET f == call[c].folder
  IN  /\ At(c, {"file", "bulkMove"}, "file")
      /\ IF f # Root /\ ~Live(f)
         THEN Refuse(c)
         ELSE /\ docs' = [d \in Docs |->
                            IF d \in call[c].docs THEN [docs[d] EXCEPT !.folder = f]
                            ELSE docs[d]]
              /\ Succeed(c)
              /\ UNCHANGED <<folders, tags, labels, rest>>

-----------------------------------------------------------------------------
(* Tags.                                                                    *)

BeginCreateTag(c) ==
  \E t \in Tags : Begin(c, [NoCall EXCEPT !.kind = "createTag", !.add = {t}, !.at = "name"])

\* assertNameAvailable
CheckTagName(c) ==
  /\ At(c, {"createTag"}, "name")
  /\ Check(c, call[c].add \cap tags = {}, "insert")

\* @@unique([companyId, name])
InsertTag(c) ==
  /\ At(c, {"createTag"}, "insert")
  /\ IF call[c].add \cap tags # {}
     THEN Refuse(c)
     ELSE /\ tags' = tags \cup call[c].add
          /\ Succeed(c)
          /\ UNCHANGED <<folders, docs, labels, rest>>

BeginRemoveTag(c) ==
  \E t \in tags : Begin(c, [NoCall EXCEPT !.kind = "removeTag", !.remove = {t}, !.at = "delete"])

\* The labels go by cascade.
DeleteTag(c) ==
  /\ At(c, {"removeTag"}, "delete")
  /\ IF ~(call[c].remove \subseteq tags)
     THEN Refuse(c)
     ELSE /\ tags' = tags \ call[c].remove
          /\ labels' = {l \in labels : l[2] \notin call[c].remove}
          /\ Succeed(c)
          /\ UNCHANGED <<folders, docs, rest>>

BeginSetTags(c) ==
  \E d \in Known, ts \in SUBSET Tags :
     Begin(c, [NoCall EXCEPT !.kind = "setTags", !.docs = {d}, !.add = ts, !.at = "doc"])

BeginBulkTags(c) ==
  \E ds \in (SUBSET Known) \ {{}}, add \in SUBSET Tags, remove \in SUBSET Tags :
     /\ add \cup remove # {}
     /\ add \cap remove = {}
     /\ Begin(c, [NoCall EXCEPT !.kind = "bulkTags", !.docs = ds, !.add = add,
                                !.remove = remove, !.at = "tags"])

NamedTags(c) == call[c].add \cup call[c].remove

\* setForDocument's read of the tags wanted, and assertTagsExist
ReadTags(c) ==
  /\ At(c, {"setTags", "bulkTags"}, "tags")
  /\ Check(c, NamedTags(c) \subseteq tags,
           IF call[c].kind = "setTags" THEN "delete" ELSE "load")

LabelsOf(ds) == {l \in labels : l[1] \in ds}
New(c) == {<<d, t, c>> : d \in call[c].docs, t \in call[c].add}
Same(l, m) == l[1] = m[1] /\ l[2] = m[2]

\* deleteMany of the document's labels begins
SeeLabels(c) ==
  /\ At(c, {"setTags"}, "delete")
  /\ call' = [call EXCEPT ![c].at = "replace", ![c].rows = LabelsOf(call[c].docs)]
  /\ Reads

\* Mutant: the labels wanted are added to those the document carries.
Merged(seen, new) == labels \cup {l \in new : \A m \in labels : ~Same(l, m)}

Replaced(seen, new) == (labels \ seen) \cup new

\* A label of the same tag that the delete did not see, or a tag that is gone.
CannotLabel(c, old) ==
  \/ ~(call[c].add \subseteq tags)
  \/ \E l \in old, m \in New(c) : Same(l, m)

ReplaceLabels(c) ==
  /\ At(c, {"setTags"}, "replace")
  /\ IF CannotLabel(c, labels \ call[c].rows)
     THEN Refuse(c)
     ELSE /\ labels' = Replaced(call[c].rows, New(c))
          /\ Succeed(c)
          /\ UNCHANGED <<folders, docs, tags, rest>>

\* setTags of the bulk operations: two statements, each committed on its own.
Unlabel(c) ==
  /\ At(c, {"bulkTags"}, "unlabel")
  /\ labels' = {l \in labels : ~(l[1] \in call[c].docs /\ l[2] \in call[c].remove)}
  /\ IF call[c].add = {} THEN Succeed(c) ELSE Goto(c, "label")
  /\ UNCHANGED <<folders, docs, tags, rest>>

LabelAll(c) ==
  /\ At(c, {"bulkTags"}, "label")
  /\ IF CannotLabel(c, {})
     THEN Refuse(c)
     ELSE /\ labels' = labels \cup {l \in New(c) : \A m \in labels : ~Same(l, m)}
          /\ Succeed(c)
          /\ UNCHANGED <<folders, docs, tags, rest>>

-----------------------------------------------------------------------------
(* The rest of the system: a document is trashed, restored, archived or     *)
(* unarchived.                                                              *)

SetStatus(d) ==
  \E s \in {"active", "archived", "trashed"} :
     /\ changes < MaxStatusChanges
     /\ d \in Known
     /\ s # docs[d].status
     /\ docs[d].status = "trashed" => s = "active"
     /\ docs' = [docs EXCEPT ![d].status = s]
     /\ late' = [late EXCEPT ![d] = {c \in Calls : UnderWay(c)}]
     /\ changes' = changes + 1
     /\ UNCHANGED <<folders, tags, labels, call, mix>>

ChangeStatus(d) == Uses({"file", "bulkMove", "setTags", "bulkTags"}) /\ SetStatus(d)

-----------------------------------------------------------------------------

FolderStep(c) == BeginCreateFolder(c) \/ BeginUpdateFolder(c) \/ FindForUpdate(c) \/ Climb(c)
                 \/ AssertNameAvailable(c) \/ WriteFolder(c)
                 \/ BeginRemoveFolder(c) \/ CountContents(c) \/ DeleteFolder(c)
FilingStep(c) == BeginFile(c) \/ BeginBulkMove(c) \/ ReadDoc(c) \/ ReadFolder(c) \/ Load(c)
                 \/ FileDocs(c)
TagStep(c) == BeginCreateTag(c) \/ CheckTagName(c) \/ InsertTag(c) \/ BeginRemoveTag(c)
              \/ DeleteTag(c) \/ BeginSetTags(c) \/ BeginBulkTags(c) \/ ReadTags(c)
              \/ SeeLabels(c) \/ ReplaceLabels(c) \/ Unlabel(c) \/ LabelAll(c)

CallStep(c) == FolderStep(c) \/ FilingStep(c) \/ TagStep(c)

Next == (\E c \in Calls : CallStep(c)) \/ (\E d \in Docs : ChangeStatus(d))

Spec == Init /\ [][Next]_vars

-----------------------------------------------------------------------------
(* Properties.                                                              *)

Answered(c, kinds) == call[c].kind \in kinds /\ call[c].ok

\* Neither call had been answered when the other began.
Overlap(c, d) == c # d /\ c \notin call[d].before /\ d \notin call[c].before

\* Every folder can be reached from the root, so that none is lost with what is
\* in it, unless two changes of folders were under way together: two moves, or
\* a mere renaming that writes back the place it read
\* (FoldersService.assertMoveIsLegal and update).
NothingDetached ==
  \/ Detached = {}
  \/ \E c, d \in Calls : /\ Answered(c, {"updateFolder"}) /\ Answered(d, {"updateFolder"})
                         /\ Overlap(c, d)

\* Deleting a folder takes nothing along, "the exact failure the product exists
\* to prevent": what the cascade finds in the folder, or unfiles, was put or
\* uploaded there while the deletion was under way (FoldersService.remove).
NothingSweptAlong ==
  [][\A c \in Calls :
       LET f == call[c].folder
       IN  /\ call[c].kind = "removeFolder"
           /\ ~call[c].ok /\ call'[c].ok
           /\ (\E g \in Folders : Live(g) /\ folders[g].parent = f)
              \/ (\E d \in Docs : docs[d].folder = f)
           => \/ \E d \in Docs \ call[c].known : docs[d].folder = f
              \/ \E e \in Calls :
                   /\ e \notin call[c].before
                   /\ \/ Answered(e, {"createFolder", "updateFolder"}) /\ call[e].parent = f
                      \/ /\ Answered(e, {"file", "bulkMove"})
                         /\ call[e].docs # {} /\ call[e].folder = f]_vars

\* A document that is archived or in the trash keeps its folder and its labels,
\* but for a call that was already under way when it got there
\* (assertWritable, and BulkDocumentsService.partition).
FrozenStays ==
  [][\A c \in Calls, d \in Docs :
       /\ call[c].kind \in {"file", "bulkMove", "setTags", "bulkTags"}
       /\ call'[c] # call[c]
       /\ docs[d].status # "active"
       /\ \/ docs'[d].folder # docs[d].folder
          \/ {l \in labels' : l[1] = d} # {l \in labels : l[1] = d}
       => c \in late[d]]_vars

\* Setting a document's tags leaves none of the labels it had: what is found
\* beside them was attached by a call under way at the same time, or later
\* (TagsService.setForDocument).
ReplacementReplaces ==
  \A c \in Calls, l \in labels :
     /\ Answered(c, {"setTags"}) /\ l[1] \in call[c].docs
     => l[3] \in Calls \ call[c].before

=============================================================================
