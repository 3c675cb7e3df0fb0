---------------------------- MODULE LibraryProofs ----------------------------
(***************************************************************************)
(* Proofs about Library, alone and beside the page of DocumentsPage: the    *)
(* tree of folders stays a tree, a deleted folder takes nothing along,      *)
(* archived and trashed documents keep their place, and a document's tags   *)
(* are replaced as a whole; each but for the calls that were under way at   *)
(* the same time.  And about the page: a list loaded to its end has skipped *)
(* nothing, and a batch names what was ticked.                              *)
(***************************************************************************)
EXTENDS DocumentsPage, FiniteSetTheorems, SequenceTheorems, WellFoundedInduction, TLAPS

-----------------------------------------------------------------------------
(* The calls: what their invariant says.                                    *)

Places == Folders \cup {Root}

RowsOK ==
  /\ folders \in [Folders -> Folder]
  /\ docs \in [Docs -> Doc]
  /\ tags \subseteq Tags
  /\ labels \subseteq Label
  /\ call \in [Calls -> Call]
  /\ late \in [Docs -> SUBSET Calls]

\* A folder that a call creates is there, and is named by anybody, only once
\* the call has been answered.
Existed(f) == f \in Calls => call[f].ok

\* What the record v of a call has in hand.
Hand(v) ==
  /\ v.ok => v.at = "done"
  /\ v.at = "idle" => v.kind = "none"
  /\ v.kind \in {"updateFolder", "removeFolder"} /\ v.at # "done" => v.folder \in Folders
  /\ v.kind \in {"createFolder", "updateFolder"} /\ v.at \in {"climb", "name", "write"} =>
       v.parent \in Places
  /\ v.kind \in {"file", "bulkMove"} /\ v.at # "done" => v.folder \in Places
  /\ Existed(v.folder) /\ Existed(v.parent) /\ Existed(v.cursor)
  /\ \A d \in v.before : call[d].ok
  /\ v.known \subseteq Known

MadeInv ==
  \A f \in Folders : /\ Live(f) => Existed(f)
                     /\ Existed(folders[f].parent)
                     /\ Live(f) => folders[f].parent = Root \/ Live(folders[f].parent)

HandInv == \A c \in Calls : Hand(call[c])

-----------------------------------------------------------------------------
(* The calls: how one of them moves.                                        *)

\* v is the same request as u.
Kin(u, v) == /\ v.kind = u.kind /\ v.docs = u.docs /\ v.folder = u.folder
             /\ v.add = u.add /\ v.remove = u.remove /\ v.before = u.before
             /\ v.known = u.known

\* The ways a step goes on with a call.
Finding(c, next, parent, name) ==
  call' = [call EXCEPT ![c].parent = parent, ![c].name = name, ![c].cursor = parent, ![c].at = next]
Climbing(c, above, depth) == call' = [call EXCEPT ![c].cursor = above, ![c].depth = depth]
Seeing(c, next, seen) == call' = [call EXCEPT ![c].rows = seen, ![c].at = next]
Loading(c, chosen, next, over) ==
  call' = [call EXCEPT ![c].docs = chosen, ![c].at = next, ![c].ok = over]

LEMMA NumbersOK == 0 \in 0..MaxFolderDepth + 1
BY DepthAssumption

LEMMA NoCallOK == NoCall \in Call
BY NumbersOK DEF NoCall, Call, CallSteps

LEMMA CallPut ==
  ASSUME RowsOK, NEW c \in Calls, NEW v \in Call, call' = [call EXCEPT ![c] = v]
  PROVE  /\ call' \in [Calls -> Call] /\ call'[c] = v
         /\ \A d \in Calls : d # c => call'[d] = call[d]
BY DEF RowsOK

LEMMA GotoMoves ==
  ASSUME RowsOK, NEW c \in Calls, NEW next \in CallSteps, Goto(c, next)
  PROVE  \E v \in Call : /\ call' = [call EXCEPT ![c] = v]
                         /\ Kin(call[c], v) /\ v.at = next /\ v.ok = call[c].ok
                         /\ v.parent = call[c].parent /\ v.cursor = call[c].cursor
                         /\ v.rows = call[c].rows
<1>1. PICK u \in Call : u = call[c]
  BY DEF RowsOK
<1>2. PICK v : v = [u EXCEPT !.at = next]
  OBVIOUS
<1>3. /\ v \in Call /\ Kin(u, v) /\ v.at = next /\ v.ok = u.ok /\ v.parent = u.parent
      /\ v.cursor = u.cursor /\ v.rows = u.rows
  BY <1>2 DEF Call, Kin
<1>4. call' = [call EXCEPT ![c] = v]
  BY <1>1, <1>2, Zenon DEF Goto
<1>5. QED BY <1>1, <1>3, <1>4

LEMMA RefuseMoves ==
  ASSUME RowsOK, NEW c \in Calls, Refuse(c)
  PROVE  \E v \in Call : /\ call' = [call EXCEPT ![c] = v]
                         /\ v.kind = call[c].kind /\ v.at = "done" /\ ~v.ok
                         /\ v.folder = None /\ v.parent = None /\ v.cursor = Root
                         /\ v.docs = {} /\ v.rows = {} /\ v.before = {} /\ v.known = {}
<1>1. PICK u \in Call : u = call[c]
  BY DEF RowsOK
<1>2. PICK v : v = [NoCall EXCEPT !.at = "done", !.kind = u.kind]
  OBVIOUS
<1>3. u.kind \in AllCallKinds \cup {"none"}
  BY DEF Call
<1>4. /\ v \in Call /\ v.kind = u.kind /\ v.at = "done" /\ ~v.ok /\ v.folder = None
      /\ v.parent = None /\ v.cursor = Root /\ v.docs = {} /\ v.rows = {} /\ v.before = {}
      /\ v.known = {}
  BY <1>2, <1>3, NumbersOK DEF Call, NoCall, CallSteps
<1>5. call' = [call EXCEPT ![c] = v]
  BY <1>1, <1>2 DEF Refuse
<1>6. QED BY <1>1, <1>4, <1>5

LEMMA SucceedMoves ==
  ASSUME RowsOK, NEW c \in Calls, Succeed(c)
  PROVE  \E v \in Call : /\ call' = [call EXCEPT ![c] = v]
                         /\ Kin(call[c], v) /\ v.at = "done" /\ v.ok
                         /\ v.parent = call[c].parent /\ v.cursor = Root /\ v.rows = {}
<1>1. PICK u \in Call : u = call[c]
  BY DEF RowsOK
<1>2. PICK v : v = [u EXCEPT !.at = "done", !.ok = TRUE, !.rows = {}, !.name = None,
                             !.cursor = Root, !.depth = 0]
  OBVIOUS
<1>3. /\ v \in Call /\ Kin(u, v) /\ v.at = "done" /\ v.ok /\ v.parent = u.parent
      /\ v.cursor = Root /\ v.rows = {}
  BY <1>2, NumbersOK DEF Call, Kin, CallSteps
<1>4. call' = [call EXCEPT ![c] = v]
  BY <1>1, <1>2, Zenon DEF Succeed
<1>5. QED BY <1>1, <1>3, <1>4

LEMMA FindingMoves ==
  ASSUME RowsOK, NEW c \in Calls, NEW next \in CallSteps, NEW parent \in Places,
         NEW name \in Names \cup {None}, Finding(c, next, parent, name)
  PROVE  \E v \in Call : /\ call' = [call EXCEPT ![c] = v]
                         /\ Kin(call[c], v) /\ v.at = next /\ v.ok = call[c].ok
                         /\ v.parent = parent /\ v.cursor = parent
<1>1. PICK u \in Call : u = call[c]
  BY DEF RowsOK
<1>2. PICK v : v = [u EXCEPT !.parent = parent, !.name = name, !.cursor = parent, !.at = next]
  OBVIOUS
<1>3. /\ v \in Call /\ Kin(u, v) /\ v.at = next /\ v.ok = u.ok
      /\ v.parent = parent /\ v.cursor = parent
  BY <1>2 DEF Call, Kin, Places
<1>4. call' = [call EXCEPT ![c] = v]
  BY <1>1, <1>2, Zenon DEF Finding
<1>5. QED BY <1>1, <1>3, <1>4

LEMMA ClimbingMoves ==
  ASSUME RowsOK, NEW c \in Calls, NEW above \in Places, NEW depth \in 0..MaxFolderDepth + 1,
         Climbing(c, above, depth)
  PROVE  \E v \in Call : /\ call' = [call EXCEPT ![c] = v]
                         /\ Kin(call[c], v) /\ v.at = call[c].at /\ v.ok = call[c].ok
                         /\ v.parent = call[c].parent /\ v.cursor = above
<1>1. PICK u \in Call : u = call[c]
  BY DEF RowsOK
<1>2. PICK v : v = [u EXCEPT !.cursor = above, !.depth = depth]
  OBVIOUS
<1>3. /\ v \in Call /\ Kin(u, v) /\ v.at = u.at /\ v.ok = u.ok
      /\ v.parent = u.parent /\ v.cursor = above
  BY <1>2 DEF Call, Kin, Places
<1>4. call' = [call EXCEPT ![c] = v]
  BY <1>1, <1>2, Zenon DEF Climbing
<1>5. QED BY <1>1, <1>3, <1>4

LEMMA SeeingMoves ==
  ASSUME RowsOK, NEW c \in Calls, NEW next \in CallSteps,
         NEW seen \in SUBSET (Label \cup {"folders", "documents"}), Seeing(c, next, seen)
  PROVE  \E v \in Call : /\ call' = [call EXCEPT ![c] = v]
                         /\ Kin(call[c], v) /\ v.at = next /\ v.ok = call[c].ok
                         /\ v.parent = call[c].parent /\ v.cursor = call[c].cursor
                         /\ v.rows = seen
<1>1. PICK u \in Call : u = call[c]
  BY DEF RowsOK
<1>2. PICK v : v = [u EXCEPT !.rows = seen, !.at = next]
  OBVIOUS
<1>3. /\ v \in Call /\ Kin(u, v) /\ v.at = next /\ v.ok = u.ok
      /\ v.parent = u.parent /\ v.cursor = u.cursor /\ v.rows = seen
  BY <1>2 DEF Call, Kin
<1>4. call' = [call EXCEPT ![c] = v]
  BY <1>1, <1>2, Zenon DEF Seeing
<1>5. QED BY <1>1, <1>3, <1>4

LEMMA LoadingMoves ==
  ASSUME RowsOK, NEW c \in Calls, NEW next \in CallSteps, NEW chosen \in SUBSET Docs,
         NEW over \in BOOLEAN, Loading(c, chosen, next, over)
  PROVE  \E v \in Call : /\ call' = [call EXCEPT ![c] = v]
                         /\ v.kind = call[c].kind /\ v.folder = call[c].folder
                         /\ v.before = call[c].before /\ v.known = call[c].known
                         /\ v.parent = call[c].parent
                         /\ v.cursor = call[c].cursor /\ v.docs = chosen
                         /\ v.at = next /\ v.ok = over
<1>1. PICK u \in Call : u = call[c]
  BY DEF RowsOK
<1>2. PICK v : v = [u EXCEPT !.docs = chosen, !.at = next, !.ok = over]
  OBVIOUS
<1>3. /\ v \in Call /\ v.kind = u.kind /\ v.folder = u.folder /\ v.before = u.before
      /\ v.known = u.known
      /\ v.parent = u.parent /\ v.cursor = u.cursor /\ v.docs = chosen
      /\ v.at = next /\ v.ok = over
  BY <1>2 DEF Call
<1>4. call' = [call EXCEPT ![c] = v]
  BY <1>1, <1>2, Zenon DEF Loading
<1>5. QED BY <1>1, <1>3, <1>4

LEMMA BeginMoves ==
  ASSUME RowsOK, NEW c \in Calls, NEW request \in Call, Begin(c, request)
  PROVE  \E v \in Call : /\ call' = [call EXCEPT ![c] = v]
                         /\ v.kind = request.kind /\ v.at = request.at /\ v.ok = request.ok
                         /\ v.docs = request.docs /\ v.folder = request.folder
                         /\ v.parent = request.parent /\ v.cursor = request.cursor
                         /\ v.rows = request.rows
                         /\ v.before = {d \in Calls : call[d].ok} /\ v.known = Known
<1>1. PICK b \in SUBSET Calls : b = {d \in Calls : call[d].ok}
  OBVIOUS
<1>k. PICK k \in SUBSET Docs : k = Known
  BY DEF Known
<1>2. PICK v : v = [request EXCEPT !.before = b, !.known = k]
  OBVIOUS
<1>3. /\ v \in Call /\ v.kind = request.kind /\ v.at = request.at /\ v.ok = request.ok
      /\ v.docs = request.docs /\ v.folder = request.folder
      /\ v.parent = request.parent /\ v.cursor = request.cursor
      /\ v.rows = request.rows /\ v.before = b /\ v.known = k
  BY <1>2 DEF Call
<1>4. call' = [call EXCEPT ![c] = v]
  BY <1>1, <1>k, <1>2 DEF Begin
<1>5. QED BY <1>1, <1>k, <1>3, <1>4

-----------------------------------------------------------------------------
(* The calls: where one begins, and which step is whose.                    *)

BeginStep(c) ==
  \/ BeginCreateFolder(c) \/ BeginUpdateFolder(c) \/ BeginRemoveFolder(c)
  \/ BeginFile(c) \/ BeginBulkMove(c)
  \/ BeginCreateTag(c) \/ BeginRemoveTag(c) \/ BeginSetTags(c) \/ BeginBulkTags(c)

\* How the record v of a call looks when it has just begun.
Started(v) ==
  /\ ~v.ok
  /\ v.before = {d \in Calls : call[d].ok} /\ v.known = Known
  /\ v.kind = "updateFolder" \/ v.cursor = v.parent \/ v.parent = None
  /\ v.cursor \in Places /\ Existed(v.cursor)
  /\ v.parent \in Places \cup {None} /\ Existed(v.parent)
  /\ v.folder \in Places \cup {None} /\ Existed(v.folder)
  /\ \/ v.kind = "createFolder" /\ v.at \in {"name", "climb"} /\ v.parent \in Places
     \/ v.kind = "updateFolder" /\ v.at = "find" /\ v.folder \in Folders
     \/ /\ v.kind = "removeFolder" /\ v.at = "count" /\ v.folder \in Folders
        /\ v.rows = {"folders", "documents"}
     \/ v.kind = "file" /\ v.at = "doc" /\ v.folder \in Places
     \/ v.kind = "bulkMove" /\ v.at \in {"load", "folder"} /\ v.folder \in Places
     \/ v.kind = "createTag" /\ v.at = "name"
     \/ v.kind = "removeTag" /\ v.at = "delete"
     \/ v.kind = "setTags" /\ v.at = "doc"
     \/ v.kind = "bulkTags" /\ v.at = "tags"

Starting(c) ==
  /\ UNCHANGED <<rows, rest>>
  /\ call[c].at = "idle"
  /\ \E v \in Call : call' = [call EXCEPT ![c] = v] /\ Started(v)

LEMMA RequestBegins ==
  ASSUME RowsOK, NEW c \in Calls, NEW request \in Call, Begin(c, request), ~request.ok,
         request.kind = "updateFolder" \/ request.cursor = request.parent \/ request.parent = None,
         Existed(request.cursor), Existed(request.parent), Existed(request.folder),
         request.parent \in Places \cup {None}, request.folder \in Places \cup {None},
         \/ /\ request.kind = "createFolder" /\ request.at \in {"name", "climb"}
            /\ request.parent \in Places
         \/ request.kind = "updateFolder" /\ request.at = "find" /\ request.folder \in Folders
         \/ /\ request.kind = "removeFolder" /\ request.at = "count" /\ request.folder \in Folders
            /\ request.rows = {"folders", "documents"}
         \/ request.kind = "file" /\ request.at = "doc" /\ request.folder \in Places
         \/ /\ request.kind = "bulkMove" /\ request.at \in {"load", "folder"}
            /\ request.folder \in Places
         \/ request.kind = "createTag" /\ request.at = "name"
         \/ request.kind = "removeTag" /\ request.at = "delete"
         \/ request.kind = "setTags" /\ request.at = "doc"
         \/ request.kind = "bulkTags" /\ request.at = "tags"
  PROVE  Starting(c)
<1>1. PICK v \in Call : /\ call' = [call EXCEPT ![c] = v]
                        /\ v.kind = request.kind /\ v.at = request.at /\ v.ok = request.ok
                        /\ v.folder = request.folder
                        /\ v.parent = request.parent /\ v.cursor = request.cursor
                        /\ v.rows = request.rows
                        /\ v.before = {d \in Calls : call[d].ok} /\ v.known = Known
  BY BeginMoves
<1>2. v.cursor \in Places
  BY DEF Call, Places
<1>3. Started(v)
  BY <1>1, <1>2 DEF Started
<1>4. QED BY <1>1, <1>3 DEF Starting, Begin

Standing(p) == p \in Folders => Live(p)

LEMMA RequestStarts ==
  ASSUME RowsOK, MadeInv, NEW c \in Calls, NEW request \in Call, Begin(c, request), ~request.ok,
         request.kind = "updateFolder" \/ request.cursor = request.parent \/ request.parent = None,
         Standing(request.cursor), Standing(request.parent), Standing(request.folder),
         request.parent \in Places \cup {None}, request.folder \in Places \cup {None},
         \/ /\ request.kind = "createFolder" /\ request.at \in {"name", "climb"}
            /\ request.parent \in Places
         \/ request.kind = "updateFolder" /\ request.at = "find" /\ request.folder \in Folders
         \/ /\ request.kind = "removeFolder" /\ request.at = "count" /\ request.folder \in Folders
            /\ request.rows = {"folders", "documents"}
         \/ request.kind = "file" /\ request.at = "doc" /\ request.folder \in Places
         \/ /\ request.kind = "bulkMove" /\ request.at \in {"load", "folder"}
            /\ request.folder \in Places
         \/ request.kind = "createTag" /\ request.at = "name"
         \/ request.kind = "removeTag" /\ request.at = "delete"
         \/ request.kind = "setTags" /\ request.at = "doc"
         \/ request.kind = "bulkTags" /\ request.at = "tags"
  PROVE  Starting(c)
<1>1. \A f : Standing(f) => Existed(f)
  BY DEF Standing, MadeInv, Existed, Folders
<1>2. QED BY <1>1, RequestBegins

LEMMA NamesApart == None \notin Places /\ Root \notin Folders /\ ~(None \in Folders)
BY RootAssumption DEF Places

LEMMA CallStarts ==
  ASSUME RowsOK, MadeInv, NEW c \in Calls, BeginStep(c) PROVE Starting(c)
<1> USE NumbersOK, NamesApart DEF Places
<1>1. CASE BeginCreateFolder(c)
  <2>1. PICK n \in Names, p \in {f \in Folders : Live(f)} \cup {Root} :
          Begin(c, [NoCall EXCEPT !.kind = "createFolder", !.name = n, !.parent = p,
                                  !.cursor = p, !.at = IF p = Root THEN "name" ELSE "climb"])
    BY <1>1 DEF BeginCreateFolder
  <2>2. PICK r : r = [NoCall EXCEPT !.kind = "createFolder", !.name = n, !.parent = p,
                                    !.cursor = p, !.at = IF p = Root THEN "name" ELSE "climb"]
    OBVIOUS
  <2>3. /\ r \in Call /\ ~r.ok /\ r.kind = "createFolder" /\ r.parent = p /\ r.cursor = p
        /\ r.folder = None /\ r.at \in {"name", "climb"}
    BY <2>2 DEF Call, NoCall, CallSteps, AllCallKinds
  <2>4. QED BY <2>1, <2>2, <2>3, RequestStarts DEF Standing
<1>2. CASE BeginUpdateFolder(c)
  <2>1. PICK f \in Folders, n \in Names \cup {None}, p \in Folders \cup {Root, None} :
          /\ Live(f)
          /\ p \in Folders => Live(p)
          /\ Begin(c, [NoCall EXCEPT !.kind = "updateFolder", !.folder = f, !.name = n,
                                     !.parent = p, !.at = "find"])
    BY <1>2 DEF BeginUpdateFolder
  <2>2. PICK r : r = [NoCall EXCEPT !.kind = "updateFolder", !.folder = f, !.name = n,
                                    !.parent = p, !.at = "find"]
    OBVIOUS
  <2>3. /\ r \in Call /\ ~r.ok /\ r.kind = "updateFolder" /\ r.parent = p /\ r.cursor = Root
        /\ r.folder = f /\ r.at = "find"
    BY <2>2 DEF Call, NoCall, CallSteps, AllCallKinds
  <2>4. QED BY <2>1, <2>2, <2>3, RequestStarts DEF Standing
<1>3. CASE BeginRemoveFolder(c)
  <2>1. PICK f \in Folders :
          /\ Live(f)
          /\ Begin(c, [NoCall EXCEPT !.kind = "removeFolder", !.folder = f, !.at = "count",
                                     !.rows = {"folders", "documents"}])
    BY <1>3 DEF BeginRemoveFolder
  <2>2. PICK r : r = [NoCall EXCEPT !.kind = "removeFolder", !.folder = f, !.at = "count",
                                    !.rows = {"folders", "documents"}]
    OBVIOUS
  <2>3. /\ r \in Call /\ ~r.ok /\ r.kind = "removeFolder" /\ r.parent = None
        /\ r.cursor = Root /\ r.folder = f /\ r.at = "count"
        /\ r.rows = {"folders", "documents"}
    BY <2>2 DEF Call, NoCall, CallSteps, AllCallKinds
  <2>4. QED BY <2>1, <2>2, <2>3, RequestStarts DEF Standing
<1>4. CASE BeginFile(c)
  <2>1. PICK d \in Known, f \in {g \in Folders : Live(g)} \cup {Root} :
          Begin(c, [NoCall EXCEPT !.kind = "file", !.docs = {d}, !.folder = f, !.at = "doc"])
    BY <1>4 DEF BeginFile
  <2>2. PICK r : r = [NoCall EXCEPT !.kind = "file", !.docs = {d}, !.folder = f, !.at = "doc"]
    OBVIOUS
  <2>3. /\ r \in Call /\ ~r.ok /\ r.kind = "file" /\ r.parent = None
        /\ r.cursor = Root /\ r.folder = f /\ r.at = "doc"
    BY <2>2 DEF Call, NoCall, CallSteps, AllCallKinds, Known
  <2>4. QED BY <2>1, <2>2, <2>3, RequestStarts DEF Standing
<1>5. CASE BeginBulkMove(c)
  <2>1. PICK ds \in (SUBSET Known) \ {{}}, f \in {g \in Folders : Live(g)} \cup {Root} :
          Begin(c, [NoCall EXCEPT !.kind = "bulkMove", !.docs = ds, !.folder = f,
                                  !.at = IF f = Root THEN "load" ELSE "folder"])
    BY <1>5 DEF BeginBulkMove
  <2>2. PICK r : r = [NoCall EXCEPT !.kind = "bulkMove", !.docs = ds, !.folder = f,
                                    !.at = IF f = Root THEN "load" ELSE "folder"]
    OBVIOUS
  <2>ds. ds \in SUBSET Docs
    BY DEF Known
  <2>3. /\ r \in Call /\ ~r.ok /\ r.kind = "bulkMove" /\ r.parent = None
        /\ r.cursor = Root /\ r.folder = f /\ r.at \in {"load", "folder"}
    BY <2>2, <2>ds DEF Call, NoCall, CallSteps, AllCallKinds
  <2>4. QED BY <2>1, <2>2, <2>3, RequestStarts DEF Standing
<1>6. CASE BeginCreateTag(c)
  <2>1. PICK t \in Tags :
          Begin(c, [NoCall EXCEPT !.kind = "createTag", !.add = {t}, !.at = "name"])
    BY <1>6 DEF BeginCreateTag
  <2>2. PICK r : r = [NoCall EXCEPT !.kind = "createTag", !.add = {t}, !.at = "name"]
    OBVIOUS
  <2>3. /\ r \in Call /\ ~r.ok /\ r.kind = "createTag" /\ r.parent = None
        /\ r.cursor = Root /\ r.folder = None /\ r.at = "name"
    BY <2>2 DEF Call, NoCall, CallSteps, AllCallKinds
  <2>4. QED BY <2>1, <2>2, <2>3, RequestStarts DEF Standing
<1>7. CASE BeginRemoveTag(c)
  <2>1. PICK t \in tags :
          Begin(c, [NoCall EXCEPT !.kind = "removeTag", !.remove = {t}, !.at = "delete"])
    BY <1>7 DEF BeginRemoveTag
  <2>2. PICK r : r = [NoCall EXCEPT !.kind = "removeTag", !.remove = {t}, !.at = "delete"]
    OBVIOUS
  <2>t. t \in Tags
    BY DEF RowsOK
  <2>3. /\ r \in Call /\ ~r.ok /\ r.kind = "removeTag" /\ r.parent = None
        /\ r.cursor = Root /\ r.folder = None /\ r.at = "delete"
    BY <2>2, <2>t DEF Call, NoCall, CallSteps, AllCallKinds
  <2>4. QED BY <2>1, <2>2, <2>3, RequestStarts DEF Standing
<1>8. CASE BeginSetTags(c)
  <2>1. PICK d \in Known, ts \in SUBSET Tags :
          Begin(c, [NoCall EXCEPT !.kind = "setTags", !.docs = {d}, !.add = ts, !.at = "doc"])
    BY <1>8 DEF BeginSetTags
  <2>2. PICK r : r = [NoCall EXCEPT !.kind = "setTags", !.docs = {d}, !.add = ts, !.at = "doc"]
    OBVIOUS
  <2>3. /\ r \in Call /\ ~r.ok /\ r.kind = "setTags" /\ r.parent = None
        /\ r.cursor = Root /\ r.folder = None /\ r.at = "doc"
    BY <2>2 DEF Call, NoCall, CallSteps, AllCallKinds, Known
  <2>4. QED BY <2>1, <2>2, <2>3, RequestStarts DEF Standing
<1>9. CASE BeginBulkTags(c)
  <2>1. PICK ds \in (SUBSET Known) \ {{}}, add \in SUBSET Tags, remove \in SUBSET Tags :
          Begin(c, [NoCall EXCEPT !.kind = "bulkTags", !.docs = ds, !.add = add,
                                  !.remove = remove, !.at = "tags"])
    BY <1>9 DEF BeginBulkTags
  <2>2. PICK r : r = [NoCall EXCEPT !.kind = "bulkTags", !.docs = ds, !.add = add,
                                    !.remove = remove, !.at = "tags"]
    OBVIOUS
  <2>ds. ds \in SUBSET Docs
    BY DEF Known
  <2>3. /\ r \in Call /\ ~r.ok /\ r.kind = "bulkTags" /\ r.parent = None
        /\ r.cursor = Root /\ r.folder = None /\ r.at = "tags"
    BY <2>2, <2>ds DEF Call, NoCall, CallSteps, AllCallKinds
  <2>4. QED BY <2>1, <2>2, <2>3, RequestStarts DEF Standing
<1>10. QED BY <1>1, <1>2, <1>3, <1>4, <1>5, <1>6, <1>7, <1>8, <1>9 DEF BeginStep

\* How a call that has begun goes on.
Proceeding(c) ==
  /\ call[c].at \notin {"idle", "done"} /\ ~call[c].ok
  /\ \E v \in Call : /\ call' = [call EXCEPT ![c] = v]
                     /\ v.kind = call[c].kind /\ v.before \in {call[c].before, {}}
                     /\ v.known \in {call[c].known, {}}
                     /\ Hand(v)

LEMMA RefusedProceeds ==
  ASSUME RowsOK, HandInv, NEW c \in Calls, call[c].at \notin {"idle", "done"}, Refuse(c)
  PROVE  Proceeding(c)
<1>1. PICK v \in Call : /\ call' = [call EXCEPT ![c] = v]
                        /\ v.kind = call[c].kind /\ v.at = "done" /\ ~v.ok
                        /\ v.folder = None /\ v.parent = None /\ v.cursor = Root
                        /\ v.before = {} /\ v.known = {}
  BY RefuseMoves
<1>2. Existed(None) /\ Existed(Root)
  BY RootAssumption DEF Existed, Folders
<1>3. Hand(v)
  BY <1>1, <1>2 DEF Hand
<1>4. QED BY <1>1, <1>3 DEF Proceeding, HandInv, Hand

LEMMA SucceededProceeds ==
  ASSUME RowsOK, HandInv, NEW c \in Calls, call[c].at \notin {"idle", "done"}, Succeed(c)
  PROVE  Proceeding(c)
<1>1. PICK v \in Call : /\ call' = [call EXCEPT ![c] = v]
                        /\ Kin(call[c], v) /\ v.at = "done" /\ v.ok
                        /\ v.parent = call[c].parent /\ v.cursor = Root
  BY SucceedMoves
<1>2. Existed(Root)
  BY RootAssumption DEF Existed, Folders
<1>3. Hand(v)
  BY <1>1, <1>2 DEF Hand, HandInv, Kin
<1>4. QED BY <1>1, <1>3 DEF Proceeding, HandInv, Hand, Kin

LEMMA WentOnProceeds ==
  ASSUME RowsOK, HandInv, NEW c \in Calls, call[c].at \notin {"idle", "done"},
         NEW next \in CallSteps \ {"idle"}, Goto(c, next),
         call[c].kind \in {"createFolder", "updateFolder"} => call[c].parent \in Places
  PROVE  Proceeding(c)
<1>1. PICK v \in Call : /\ call' = [call EXCEPT ![c] = v]
                        /\ Kin(call[c], v) /\ v.at = next /\ v.ok = call[c].ok
                        /\ v.parent = call[c].parent /\ v.cursor = call[c].cursor
  BY GotoMoves
<1>2. ~v.ok
  BY <1>1 DEF HandInv, Hand
<1>3. Hand(v)
  BY <1>1, <1>2 DEF Hand, HandInv, Kin
<1>4. QED BY <1>1, <1>3 DEF Proceeding, HandInv, Hand, Kin

LEMMA FindGoes ==
  ASSUME RowsOK, HandInv, NEW c \in Calls, FindForUpdate(c)
  PROVE  \/ Refuse(c)
         \/ \E next \in {"climb", "name", "write"}, parent \in Places, name \in Names \cup {None} :
              /\ Finding(c, next, parent, name) /\ Reads
              /\ call[c].folder \in Folders /\ Live(call[c].folder)
              /\ parent \in {call[c].parent, folders[call[c].folder].parent}
              /\ next # "climb" => parent \in {Root, folders[call[c].folder].parent}
              /\ next = "climb" => parent # Root
<1>1. call[c].folder \in Folders /\ call[c] \in Call
  BY DEF FindForUpdate, At, HandInv, Hand, RowsOK
<1>2. folders[call[c].folder] \in Folder
  BY <1>1 DEF RowsOK
<1>3. PICK parent, name, next :
        /\ parent = Wanted(call[c].parent, folders[call[c].folder].parent)
        /\ name = Wanted(call[c].name, folders[call[c].folder].name)
        /\ next = IF parent \notin {Root, folders[call[c].folder].parent} THEN "climb"
                  ELSE IF parent = folders[call[c].folder].parent
                          /\ name = folders[call[c].folder].name THEN "write"
                  ELSE "name"
  OBVIOUS
<1>4. parent \in Places /\ name \in Names \cup {None}
  BY <1>1, <1>2, <1>3 DEF Wanted, Call, Folder, Places
<1>5. CASE Live(call[c].folder)
  <2>1. Finding(c, next, parent, name) /\ Reads
    BY <1>3, <1>5 DEF FindForUpdate, Finding
  <2>2. /\ parent \in {call[c].parent, folders[call[c].folder].parent}
        /\ next \in {"climb", "name", "write"}
        /\ next # "climb" => parent \in {Root, folders[call[c].folder].parent}
        /\ next = "climb" => parent # Root
    BY <1>3 DEF Wanted
  <2>3. QED BY <1>1, <1>4, <1>5, <2>1, <2>2
<1>6. QED BY <1>5 DEF FindForUpdate

LEMMA ClimbGoes ==
  ASSUME RowsOK, HandInv, NEW c \in Calls, Climb(c)
  PROVE  \/ Refuse(c)
         \/ Goto(c, "name") /\ Reads /\ WalkOver(c)
         \/ \E above \in Places, depth \in 0..MaxFolderDepth + 1 :
              /\ Climbing(c, above, depth) /\ Reads
              /\ call[c].cursor \in Folders /\ Live(call[c].cursor)
              /\ ~MeetsItself(c) /\ above = folders[call[c].cursor].parent
<1>1. call[c] \in Call
  BY DEF RowsOK
<1>2. CASE WalkOver(c)
  BY <1>2 DEF Climb, Check
<1>3. CASE ~WalkOver(c) /\ ~(MeetsItself(c) \/ ~Live(call[c].cursor))
  <2>1. call[c].cursor \in Folders
    BY <1>1, <1>3 DEF WalkOver, Call
  <2>2. PICK above \in Places : above = folders[call[c].cursor].parent
    BY <2>1 DEF RowsOK, Folder, Places
  <2>depth. call[c].depth \in 0..MaxFolderDepth + 1
    BY <1>1 DEF Call
  <2>3. PICK depth \in 0..MaxFolderDepth + 1 : depth = Deeper(call[c].depth)
    BY <2>depth, DepthAssumption DEF Deeper
  <2>4. /\ call' = [call EXCEPT ![c].cursor = Above(@), ![c].depth = Deeper(@)]
        /\ Reads
    BY <1>3 DEF Climb
  <2>5. call' = [call EXCEPT ![c].cursor = Above(call[c].cursor),
                             ![c].depth = Deeper(call[c].depth)]
    BY <1>1, <2>4 DEF RowsOK, Call
  <2>6. Climbing(c, above, depth)
    BY <2>2, <2>3, <2>5 DEF Climbing, Above
  <2>7. QED BY <1>3, <2>1, <2>2, <2>4, <2>6
<1>4. QED BY <1>2, <1>3 DEF Climb

LEMMA CountGoes ==
  ASSUME RowsOK, HandInv, NEW c \in Calls, CountContents(c)
  PROVE  \/ Refuse(c)
         \/ \E what \in call[c].rows, next \in {"count", "delete"} :
              /\ Counted(c, what) = {} /\ Seeing(c, next, call[c].rows \ {what}) /\ Reads
              /\ next = "delete" => call[c].rows = {what}
<1>1. PICK what \in call[c].rows :
        IF Counted(c, what) # {}
        THEN Refuse(c)
        ELSE /\ call' = [call EXCEPT ![c].rows = @ \ {what},
                                     ![c].at = IF call[c].rows = {what} THEN "delete"
                                               ELSE "count"]
             /\ Reads
  BY DEF CountContents
<1>2. CASE Counted(c, what) = {}
  <2>1. PICK next \in {"count", "delete"} :
          next = IF call[c].rows = {what} THEN "delete" ELSE "count"
    OBVIOUS
  <2>2. Seeing(c, next, call[c].rows \ {what})
    BY <1>1, <1>2, <2>1 DEF Seeing, RowsOK, Call
  <2>3. QED BY <1>1, <1>2, <2>1, <2>2
<1>3. QED BY <1>1, <1>2

LEMMA LoadGoes ==
  ASSUME RowsOK, NEW c \in Calls, Load(c)
  PROVE  \E next \in {"done", "file", "unlabel", "label"}, over \in BOOLEAN :
           /\ Loading(c, Eligible(c), next, over) /\ Reads
           /\ Eligible(c) \in SUBSET Docs
           /\ over <=> next = "done"
           /\ next = "done" => Eligible(c) = {}
<1>1. PICK over \in BOOLEAN : over <=> Eligible(c) = {}
  OBVIOUS
<1>2. PICK next : next = IF Eligible(c) = {} THEN "done" ELSE AfterLoad(c)
  OBVIOUS
<1>3. next \in {"done", "file", "unlabel", "label"} /\ (over <=> next = "done")
  BY <1>1, <1>2 DEF AfterLoad
<1>4. call[c].docs \in SUBSET Docs
  BY DEF RowsOK, Call
<1>5. Eligible(c) \in SUBSET Docs
  BY <1>4 DEF Eligible
<1>6. over = (Eligible(c) = {})
  BY <1>1
<1>7. Loading(c, Eligible(c), next, over)
  BY <1>2, <1>6 DEF Load, Loading
<1>8. QED BY <1>1, <1>2, <1>3, <1>5, <1>7 DEF Load

\* The steps of a call that do not begin it.
GoingStep(c) ==
  \/ FindForUpdate(c) \/ Climb(c) \/ AssertNameAvailable(c) \/ WriteFolder(c)
  \/ CountContents(c) \/ DeleteFolder(c)
  \/ ReadDoc(c) \/ ReadFolder(c) \/ Load(c) \/ FileDocs(c)
  \/ CheckTagName(c) \/ InsertTag(c) \/ DeleteTag(c) \/ ReadTags(c)
  \/ SeeLabels(c) \/ ReplaceLabels(c) \/ Unlabel(c) \/ LabelAll(c)

\* A call begins, for whoever posts it, or goes on.
Moving(c) == Starting(c) \/ GoingStep(c)

LEMMA CallStepIs ==
  ASSUME RowsOK, MadeInv, NEW c \in Calls, CallStep(c) PROVE Moving(c)
<1>1. BeginStep(c) \/ GoingStep(c)
  BY DEF CallStep, FolderStep, FilingStep, TagStep, BeginStep, GoingStep
<1>2. QED BY <1>1, CallStarts DEF Moving

LEMMA SeenLabels ==
  ASSUME RowsOK, NEW ds PROVE LabelsOf(ds) \in SUBSET (Label \cup {"folders", "documents"})
BY DEF LabelsOf, RowsOK

LEMMA CallProceeds ==
  ASSUME RowsOK, HandInv, MadeInv, NEW c \in Calls, GoingStep(c)
  PROVE  Proceeding(c)
<1>h. Hand(call[c]) /\ call[c] \in Call
  BY DEF HandInv, RowsOK
<1>s. "climb" \in CallSteps /\ "name" \in CallSteps /\ "write" \in CallSteps
      /\ "count" \in CallSteps /\ "delete" \in CallSteps /\ "folder" \in CallSteps
      /\ "load" \in CallSteps /\ "file" \in CallSteps /\ "insert" \in CallSteps
      /\ "tags" \in CallSteps /\ "replace" \in CallSteps /\ "unlabel" \in CallSteps
      /\ "label" \in CallSteps /\ "done" \in CallSteps
  BY DEF CallSteps
<1>1. CASE FindForUpdate(c)
  <2>1. CASE Refuse(c)
    BY <1>1, <2>1, RefusedProceeds DEF FindForUpdate, At
  <2>2. ASSUME NEW next \in {"climb", "name", "write"}, NEW parent \in Places,
               NEW name \in Names \cup {None}, Finding(c, next, parent, name),
               call[c].folder \in Folders,
               parent \in {call[c].parent, folders[call[c].folder].parent}
        PROVE  Proceeding(c)
    <3>1. PICK v \in Call : /\ call' = [call EXCEPT ![c] = v]
                            /\ Kin(call[c], v) /\ v.at = next /\ v.ok = call[c].ok
                            /\ v.parent = parent /\ v.cursor = parent
      BY <1>s, <2>2, FindingMoves
    <3>2. Existed(parent)
      BY <1>h, <2>2 DEF MadeInv, Hand
    <3>3. call[c].at = "find" /\ call[c].kind = "updateFolder"
      BY <1>1 DEF FindForUpdate, At
    <3>4. ~call[c].ok
      BY <1>h, <3>3 DEF Hand
    <3>5. Hand(v)
      BY <1>h, <3>1, <3>2, <3>3, <3>4 DEF Hand, Kin
    <3>6. QED BY <3>1, <3>3, <3>4, <3>5 DEF Proceeding, Kin
  <2>3. QED BY <1>1, <2>1, <2>2, FindGoes
<1>2. CASE Climb(c)
  <2>at. /\ call[c].at = "climb" /\ call[c].kind \in {"createFolder", "updateFolder"}
         /\ call[c].parent \in Places /\ ~call[c].ok
    BY <1>2, <1>h DEF Climb, At, Hand
  <2>1. CASE Refuse(c)
    BY <2>at, <2>1, RefusedProceeds
  <2>2. CASE Goto(c, "name")
    BY <1>s, <2>at, <2>2, WentOnProceeds
  <2>3. ASSUME NEW above \in Places, NEW depth \in 0..MaxFolderDepth + 1,
               Climbing(c, above, depth), call[c].cursor \in Folders,
               above = folders[call[c].cursor].parent
        PROVE  Proceeding(c)
    <3>1. PICK v \in Call : /\ call' = [call EXCEPT ![c] = v]
                            /\ Kin(call[c], v) /\ v.at = call[c].at /\ v.ok = call[c].ok
                            /\ v.parent = call[c].parent /\ v.cursor = above
      BY <2>3, ClimbingMoves
    <3>2. Existed(above)
      BY <2>3 DEF MadeInv
    <3>3. Hand(v)
      BY <1>h, <2>at, <3>1, <3>2 DEF Hand, Kin
    <3>4. QED BY <2>at, <3>1, <3>3 DEF Proceeding, Kin
  <2>4. QED BY <1>2, <2>1, <2>2, <2>3, ClimbGoes
<1>3. CASE AssertNameAvailable(c)
  <2>1. /\ call[c].at = "name" /\ call[c].kind \in {"createFolder", "updateFolder"}
        /\ call[c].parent \in Places
    BY <1>3, <1>h DEF AssertNameAvailable, At, Hand
  <2>2. Refuse(c) \/ Goto(c, "write")
    BY <1>3 DEF AssertNameAvailable, Check
  <2>3. QED BY <1>s, <2>1, <2>2, RefusedProceeds, WentOnProceeds
<1>4. CASE CountContents(c)
  <2>at. call[c].at = "count" /\ call[c].kind = "removeFolder" /\ ~call[c].ok
    BY <1>4, <1>h DEF CountContents, At, Hand
  <2>1. CASE Refuse(c)
    BY <2>at, <2>1, RefusedProceeds
  <2>2. ASSUME NEW what \in call[c].rows, NEW next \in {"count", "delete"},
               Seeing(c, next, call[c].rows \ {what})
        PROVE  Proceeding(c)
    <3>1. call[c].rows \ {what} \in SUBSET (Label \cup {"folders", "documents"})
      BY <1>h DEF Call
    <3>2. PICK v \in Call : /\ call' = [call EXCEPT ![c] = v]
                            /\ Kin(call[c], v) /\ v.at = next /\ v.ok = call[c].ok
                            /\ v.parent = call[c].parent /\ v.cursor = call[c].cursor
      BY <1>s, <2>2, <3>1, SeeingMoves
    <3>3. Hand(v)
      BY <1>h, <2>at, <3>2 DEF Hand, Kin
    <3>4. QED BY <2>at, <3>2, <3>3 DEF Proceeding, Kin
  <2>3. QED BY <1>4, <2>1, <2>2, CountGoes
<1>5. CASE Load(c)
  <2>at. call[c].at = "load" /\ call[c].kind \in {"bulkMove", "bulkTags"} /\ ~call[c].ok
    BY <1>5, <1>h DEF Load, At, Hand
  <2>1. PICK next \in {"done", "file", "unlabel", "label"}, over \in BOOLEAN :
           /\ Loading(c, Eligible(c), next, over)
           /\ Eligible(c) \in SUBSET Docs
           /\ over <=> next = "done"
    BY <1>5, LoadGoes
  <2>2. PICK v \in Call : /\ call' = [call EXCEPT ![c] = v]
                          /\ v.kind = call[c].kind /\ v.folder = call[c].folder
                          /\ v.before = call[c].before /\ v.known = call[c].known
                          /\ v.parent = call[c].parent
                          /\ v.cursor = call[c].cursor /\ v.docs = Eligible(c)
                          /\ v.at = next /\ v.ok = over
    <3>1. next \in CallSteps
      BY <1>s, <2>1
    <3>2. QED BY <2>1, <3>1, LoadingMoves
  <2>3. Hand(v)
    BY <1>h, <2>at, <2>1, <2>2 DEF Hand
  <2>4. v.before \in {call[c].before, {}} /\ v.known \in {call[c].known, {}}
    BY <2>2
  <2>5. QED BY <2>at, <2>2, <2>3, <2>4, Zenon DEF Proceeding
<1>6. CASE SeeLabels(c)
  <2>at. call[c].at = "delete" /\ call[c].kind = "setTags" /\ ~call[c].ok
    BY <1>6, <1>h DEF SeeLabels, At, Hand
  <2>1. Seeing(c, "replace", LabelsOf(call[c].docs))
    BY <1>6, <1>h DEF SeeLabels, Seeing, RowsOK
  <2>2. PICK v \in Call : /\ call' = [call EXCEPT ![c] = v]
                          /\ Kin(call[c], v) /\ v.at = "replace" /\ v.ok = call[c].ok
                          /\ v.parent = call[c].parent /\ v.cursor = call[c].cursor
    BY <1>s, <2>1, SeenLabels, SeeingMoves
  <2>3. Hand(v)
    BY <1>h, <2>at, <2>2 DEF Hand, Kin
  <2>4. QED BY <2>at, <2>2, <2>3 DEF Proceeding, Kin
<1>7. CASE \/ WriteFolder(c) \/ DeleteFolder(c) \/ FileDocs(c) \/ InsertTag(c)
           \/ DeleteTag(c) \/ ReplaceLabels(c) \/ LabelAll(c)
  <2>1. call[c].at \notin {"idle", "done"}
    BY <1>7 DEF WriteFolder, DeleteFolder, FileDocs, InsertTag, DeleteTag, ReplaceLabels,
                LabelAll, At
  <2>2. Refuse(c) \/ Succeed(c)
    <3>1. CASE WriteFolder(c)
      BY <3>1 DEF WriteFolder
    <3>2. CASE DeleteFolder(c)
      BY <3>2 DEF DeleteFolder
    <3>3. CASE FileDocs(c)
      BY <3>3 DEF FileDocs
    <3>4. CASE InsertTag(c) \/ DeleteTag(c)
      BY <3>4 DEF InsertTag, DeleteTag
    <3>5. CASE ReplaceLabels(c) \/ LabelAll(c)
      BY <3>5 DEF ReplaceLabels, LabelAll
    <3>6. QED BY <1>7, <3>1, <3>2, <3>3, <3>4, <3>5
  <2>3. QED BY <2>1, <2>2, RefusedProceeds, SucceededProceeds
<1>8. CASE Unlabel(c)
  <2>1. call[c].at = "unlabel" /\ call[c].kind = "bulkTags"
    BY <1>8 DEF Unlabel, At
  <2>2. Succeed(c) \/ Goto(c, "label")
    BY <1>8 DEF Unlabel
  <2>3. QED BY <1>s, <2>1, <2>2, SucceededProceeds, WentOnProceeds
<1>9. CASE ReadDoc(c) \/ ReadFolder(c) \/ CheckTagName(c) \/ ReadTags(c)
  <2>1. PICK next \in CallSteps \ {"idle"} : Refuse(c) \/ Goto(c, next)
    <3>1. CASE ReadDoc(c)
      BY <1>s, <3>1 DEF ReadDoc, Check, AfterDoc, At
    <3>2. CASE ReadFolder(c)
      BY <1>s, <3>2 DEF ReadFolder, Check
    <3>3. CASE CheckTagName(c)
      BY <1>s, <3>3 DEF CheckTagName, Check
    <3>4. CASE ReadTags(c)
      BY <1>s, <3>4 DEF ReadTags, Check
    <3>5. QED BY <1>9, <3>1, <3>2, <3>3, <3>4
  <2>2. /\ call[c].at \notin {"idle", "done"}
        /\ call[c].kind \notin {"createFolder", "updateFolder"}
    BY <1>9 DEF ReadDoc, ReadFolder, CheckTagName, ReadTags, At
  <2>3. QED BY <2>1, <2>2, RefusedProceeds, WentOnProceeds
<1>10. QED
  BY <1>1, <1>2, <1>3, <1>4, <1>5, <1>6, <1>7, <1>8, <1>9 DEF GoingStep

-----------------------------------------------------------------------------
(* The tree, of any table F of folders.                                     *)

LiveOf(F) == {f \in Folders : F[f].live}
Climbs(F, S) == \A g \in S : F[g].parent \in S \cup {Root}
AsideOf(F, f) == UNION {S \in SUBSET (LiveOf(F) \ {f}) : Climbs(F, S)}
BelowOf(F, f) == LiveOf(F) \ AsideOf(F, f)
DetachedOf(F) == UNION {S \in SUBSET LiveOf(F) : \A g \in S : F[g].parent \in S}

LEMMA TreeNow ==
  /\ \A f \in Folders : Aside(f) = AsideOf(folders, f) /\ Subtree(f) = BelowOf(folders, f)
  /\ Detached = DetachedOf(folders)
  /\ \A f \in Folders : (Live(f) <=> f \in LiveOf(folders))
BY DEF Aside, AsideOf, Subtree, BelowOf, Detached, DetachedOf, LiveFolders, LiveOf, Live, Climbs

LEMMA AsideIsAll ==
  ASSUME NEW F, NEW f, NEW S, S \subseteq LiveOf(F), f \notin S, Climbs(F, S)
  PROVE  S \subseteq AsideOf(F, f)
BY DEF AsideOf

LEMMA AsideIs ==
  ASSUME NEW F, NEW f
  PROVE  /\ AsideOf(F, f) \subseteq LiveOf(F) /\ f \notin AsideOf(F, f)
         /\ Climbs(F, AsideOf(F, f))
<1>1. AsideOf(F, f) \subseteq LiveOf(F) /\ f \notin AsideOf(F, f)
  BY DEF AsideOf
<1>2. ASSUME NEW g \in AsideOf(F, f) PROVE F[g].parent \in AsideOf(F, f) \cup {Root}
  <2>1. PICK S \in SUBSET (LiveOf(F) \ {f}) : Climbs(F, S) /\ g \in S
    BY <1>2 DEF AsideOf
  <2>2. S \subseteq AsideOf(F, f)
    BY <2>1 DEF AsideOf
  <2>3. QED BY <2>1, <2>2 DEF Climbs
<1>3. QED BY <1>1, <1>2 DEF Climbs

\* Whoever has his parent aside, or none, is aside.
LEMMA BelowClimbs ==
  ASSUME NEW F, NEW f, NEW g \in BelowOf(F, f), g # f
  PROVE  F[g].parent \notin AsideOf(F, f) \cup {Root}
<1> SUFFICES ASSUME F[g].parent \in AsideOf(F, f) \cup {Root} PROVE FALSE
  OBVIOUS
<1>1. PICK S : S = AsideOf(F, f) \cup {g}
  OBVIOUS
<1>2. S \subseteq LiveOf(F) /\ f \notin S /\ Climbs(F, S)
  BY <1>1, AsideIs DEF BelowOf, Climbs
<1>3. QED BY <1>1, <1>2, AsideIsAll DEF BelowOf

\* Every parent is a live folder, or the root.
Rooted(F) == \A f \in LiveOf(F) : F[f].parent \in LiveOf(F) \cup {Root}

\* What is in a folder is below whatever that is below.
LEMMA BelowKeeps ==
  ASSUME NEW F, NEW f, NEW g \in LiveOf(F), F[g].parent \in BelowOf(F, f), Root \notin Folders
  PROVE  g \in BelowOf(F, f)
<1>1. F[g].parent \notin AsideOf(F, f) /\ F[g].parent # Root
  BY DEF BelowOf, LiveOf
<1>2. QED BY <1>1, AsideIs DEF BelowOf, Climbs

LEMMA NoCircle ==
  ASSUME NEW F, DetachedOf(F) = {}, NEW S, S \subseteq LiveOf(F),
         \A g \in S : F[g].parent \in S
  PROVE  S = {}
BY DEF DetachedOf

\* Nothing is below itself.
LEMMA ParentAside ==
  ASSUME NEW F, DetachedOf(F) = {}, Rooted(F), NEW f \in LiveOf(F), Root \notin Folders
  PROVE  F[f].parent \in AsideOf(F, f) \cup {Root}
<1> SUFFICES ASSUME F[f].parent \notin AsideOf(F, f) \cup {Root} PROVE FALSE
  OBVIOUS
<1>1. \A g \in BelowOf(F, f) : F[g].parent \in BelowOf(F, f)
  <2>1. ASSUME NEW g \in BelowOf(F, f) PROVE F[g].parent \notin AsideOf(F, f) \cup {Root}
    <3>1. CASE g = f
      BY <3>1
    <3>2. CASE g # f
      BY <2>1, <3>2, BelowClimbs
    <3>3. QED BY <3>1, <3>2
  <2>2. QED BY <2>1 DEF BelowOf, Rooted
<1>2. f \in BelowOf(F, f)
  BY AsideIs DEF BelowOf
<1>3. BelowOf(F, f) \subseteq LiveOf(F)
  BY DEF BelowOf
<1>4. QED BY <1>1, <1>2, <1>3, NoCircle

\* A folder is put under one that is not below it.
Moved(F, G, f, p) ==
  /\ LiveOf(G) = LiveOf(F) \cup {f}
  /\ G[f].parent = p
  /\ \A g \in LiveOf(F) \ {f} : G[g].parent = F[g].parent

LEMMA MoveKeepsTree ==
  ASSUME NEW F, NEW G, NEW f \in LiveOf(F), NEW p, Moved(F, G, f, p),
         DetachedOf(F) = {}, p \in AsideOf(F, f) \cup {Root}, Root \notin Folders
  PROVE  DetachedOf(G) = {}
<1> SUFFICES ASSUME NEW S \in SUBSET LiveOf(G), \A g \in S : G[g].parent \in S, S # {}
             PROVE  FALSE
  BY DEF DetachedOf
<1>1. S \subseteq LiveOf(F) /\ Root \notin S
  BY DEF Moved, LiveOf
<1>2. f \in S
  BY <1>1, NoCircle DEF Moved
<1>3. p \in S /\ p \in AsideOf(F, f)
  BY <1>1, <1>2 DEF Moved
<1>4. PICK T : T = S \cap AsideOf(F, f)
  OBVIOUS
<1>5. \A g \in T : F[g].parent \in T
  BY <1>1, <1>4, AsideIs DEF Climbs, Moved
<1>6. T \subseteq LiveOf(F) /\ p \in T
  BY <1>1, <1>3, <1>4
<1>7. QED BY <1>5, <1>6, NoCircle

LEMMA LeafKeepsTree ==
  ASSUME NEW F, NEW G, NEW f, f \notin LiveOf(F), NEW p \in LiveOf(F) \cup {Root},
         Moved(F, G, f, p), Rooted(F), f # Root, DetachedOf(F) = {}, Root \notin Folders
  PROVE  DetachedOf(G) = {}
<1> SUFFICES ASSUME NEW S \in SUBSET LiveOf(G), \A g \in S : G[g].parent \in S, S # {}
             PROVE  FALSE
  BY DEF DetachedOf
<1>1. Root \notin S
  BY DEF LiveOf
<1>2. PICK T : T = S \ {f}
  OBVIOUS
<1>3. T \subseteq LiveOf(F) /\ \A g \in T : F[g].parent \in T
  BY <1>2 DEF Moved, Rooted
<1>4. p # f
  OBVIOUS
<1>5. T # {}
  BY <1>1, <1>2, <1>4 DEF Moved
<1>6. QED BY <1>3, <1>5, NoCircle

LEMMA LeafKeepsBelow ==
  ASSUME NEW F, NEW G, NEW f, f \notin LiveOf(F), NEW p, Moved(F, G, f, p), Rooted(F),
         f # Root, NEW h, NEW g, g # f
  PROVE  /\ g \in BelowOf(G, h) => g \in BelowOf(F, h)
         /\ g \in BelowOf(F, h) => g \in BelowOf(G, h)
<1>1. AsideOf(F, h) \subseteq AsideOf(G, h)
  <2>1. AsideOf(F, h) \subseteq LiveOf(G) /\ Climbs(G, AsideOf(F, h)) /\ h \notin AsideOf(F, h)
    BY AsideIs DEF Moved, Climbs
  <2>2. QED BY <2>1, AsideIsAll
<1>2. AsideOf(G, h) \ {f} \subseteq AsideOf(F, h)
  <2>1. PICK S : S = AsideOf(G, h) \ {f}
    OBVIOUS
  <2>2. S \subseteq LiveOf(F) /\ h \notin S /\ Climbs(F, S)
    BY <2>1, AsideIs DEF Moved, Climbs, Rooted
  <2>3. QED BY <2>1, <2>2, AsideIsAll
<1>3. QED BY <1>1, <1>2 DEF BelowOf, Moved

\* A folder goes with everything below it.
Cut(F, G, f) ==
  /\ LiveOf(G) = LiveOf(F) \ BelowOf(F, f)
  /\ \A g \in LiveOf(G) : G[g].parent = F[g].parent

LEMMA CutKeepsTree ==
  ASSUME NEW F, NEW G, NEW f, Cut(F, G, f), DetachedOf(F) = {}
  PROVE  DetachedOf(G) = {}
<1> SUFFICES ASSUME NEW S \in SUBSET LiveOf(G), \A g \in S : G[g].parent \in S
             PROVE  S = {}
  BY DEF DetachedOf
<1>1. S \subseteq LiveOf(F) /\ \A g \in S : F[g].parent \in S
  BY DEF Cut
<1>2. QED BY <1>1, NoCircle

LEMMA CutStaysRooted ==
  ASSUME NEW F, NEW G, NEW f, Cut(F, G, f), Rooted(F), Root \notin Folders
  PROVE  Rooted(G)
<1> SUFFICES ASSUME NEW g \in LiveOf(G) PROVE G[g].parent \in LiveOf(G) \cup {Root}
  BY DEF Rooted
<1>1. g \in LiveOf(F) /\ g \notin BelowOf(F, f) /\ G[g].parent = F[g].parent
  BY DEF Cut
<1>2. F[g].parent \in LiveOf(F) \cup {Root}
  BY <1>1 DEF Rooted
<1>3. F[g].parent \notin BelowOf(F, f)
  BY <1>1, BelowKeeps
<1>4. QED BY <1>1, <1>2, <1>3 DEF Cut

LEMMA CutKeepsBelow ==
  ASSUME NEW F, NEW G, NEW f, Cut(F, G, f), Rooted(F), Root \notin Folders,
         NEW h, NEW g \in LiveOf(G)
  PROVE  g \in BelowOf(G, h) <=> g \in BelowOf(F, h)
<1>1. AsideOf(G, h) \subseteq AsideOf(F, h)
  <2>1. AsideOf(G, h) \subseteq LiveOf(F) /\ Climbs(F, AsideOf(G, h)) /\ h \notin AsideOf(G, h)
    BY AsideIs DEF Cut, Climbs
  <2>2. QED BY <2>1, AsideIsAll
<1>2. AsideOf(F, h) \ BelowOf(F, f) \subseteq AsideOf(G, h)
  <2>1. PICK S : S = AsideOf(F, h) \ BelowOf(F, f)
    OBVIOUS
  <2>2. S \subseteq LiveOf(G) /\ h \notin S
    BY <2>1, AsideIs DEF Cut
  <2>3. Climbs(G, S)
    <3> SUFFICES ASSUME NEW x \in S PROVE G[x].parent \in S \cup {Root}
      BY DEF Climbs
    <3>1. /\ x \in LiveOf(F) /\ G[x].parent = F[x].parent
          /\ F[x].parent \in AsideOf(F, h) \cup {Root}
      BY <2>1, <2>2, AsideIs DEF Cut, Climbs
    <3>2. F[x].parent \notin BelowOf(F, f)
      BY <2>1, <3>1, BelowKeeps
    <3>3. QED BY <2>1, <3>1, <3>2
  <2>4. QED BY <2>1, <2>2, <2>3, AsideIsAll
<1>3. QED BY <1>1, <1>2 DEF BelowOf, Cut

-----------------------------------------------------------------------------
(* What a step does to the rows.                                            *)

\* The folder f is written, below p.
Writing(c, f, p) ==
  /\ Succeed(c)
  /\ call[c].at = "write" /\ call[c].parent = p
  /\ \/ call[c].kind = "createFolder" /\ f = c
     \/ call[c].kind = "updateFolder" /\ f = call[c].folder /\ Live(f)
  /\ p = Root \/ Live(p)
  /\ folders' \in [Folders -> Folder]
  /\ \A g \in Folders : g # f => folders'[g] = folders[g]
  /\ folders'[f].live /\ folders'[f].parent = p
  /\ UNCHANGED <<docs, tags, labels, rest>>

LEMMA WriteGoes ==
  ASSUME RowsOK, HandInv, NEW c \in Calls, WriteFolder(c)
  PROVE  \/ Refuse(c)
         \/ \E f \in Folders, p \in Places : Writing(c, f, p)
<1>1. /\ call[c].at = "write" /\ call[c].kind \in {"createFolder", "updateFolder"}
      /\ call[c] \in Call /\ Hand(call[c])
  BY DEF WriteFolder, At, HandInv, RowsOK
<1>2. PICK p \in Places : p = call[c].parent
  BY <1>1 DEF Hand
<1>3. PICK f \in Folders : f = IF call[c].kind = "createFolder" THEN c ELSE call[c].folder
  BY <1>1 DEF Hand, Folders
<1>4. PICK row : row = [live |-> TRUE, parent |-> p, name |-> call[c].name]
  OBVIOUS
<1>5. row \in Folder /\ row.live /\ row.parent = p
  BY <1>1, <1>4 DEF Call, Folder, Places
<1>6. CASE Writable(c) /\ (f = c \/ Live(f))
  <2>1. folders' = [folders EXCEPT ![f] = row] /\ Succeed(c) /\ UNCHANGED <<docs, tags, labels, rest>>
    BY <1>2, <1>3, <1>4, <1>6 DEF WriteFolder
  <2>2. p = Root \/ Live(p)
    BY <1>2, <1>6 DEF Writable
  <2>3. f # c => call[c].kind = "updateFolder" /\ f = call[c].folder /\ Live(f)
    BY <1>1, <1>3, <1>6
  <2>4. call[c].kind = "updateFolder" => f # c
    BY <1>1, <1>3 DEF Hand, Existed
  <2>5. /\ folders' \in [Folders -> Folder] /\ folders'[f] = row
        /\ \A g \in Folders : g # f => folders'[g] = folders[g]
    BY <1>5, <2>1 DEF RowsOK
  <2>6. Writing(c, f, p)
    BY <1>1, <1>2, <1>3, <1>5, <2>1, <2>2, <2>3, <2>4, <2>5 DEF Writing
  <2>7. QED BY <2>6
<1>7. QED BY <1>3, <1>6 DEF WriteFolder

\* The folder f goes, with what is below it.
Cascading(c, f) ==
  /\ Succeed(c)
  /\ call[c].kind = "removeFolder" /\ call[c].at = "delete" /\ f = call[c].folder /\ Live(f)
  /\ folders' \in [Folders -> Folder]
  /\ \A g \in Folders : /\ folders'[g].parent = folders[g].parent
                        /\ folders'[g].live <=> Live(g) /\ g \notin Subtree(f)
  /\ docs' \in [Docs -> Doc]
  /\ \A d \in Docs : /\ docs'[d].status = docs[d].status
                     /\ docs'[d].folder = IF docs[d].folder \in Subtree(f) THEN Root
                                          ELSE docs[d].folder
  /\ UNCHANGED <<tags, labels, rest>>

LEMMA DeleteGoes ==
  ASSUME RowsOK, HandInv, NEW c \in Calls, DeleteFolder(c)
  PROVE  \/ Refuse(c)
         \/ \E f \in Folders : Cascading(c, f)
<1>1. /\ call[c].at = "delete" /\ call[c].kind = "removeFolder" /\ call[c].folder \in Folders
  BY DEF DeleteFolder, At, HandInv, Hand
<1>2. PICK f \in Folders : f = call[c].folder
  BY <1>1
<1>3. CASE Live(f)
  <2>1. PICK gone : gone = Subtree(f)
    OBVIOUS
  <2>2. /\ folders' = [g \in Folders |-> IF g \in gone THEN [folders[g] EXCEPT !.live = FALSE]
                                         ELSE folders[g]]
        /\ docs' = [d \in Docs |-> IF docs[d].folder \in gone THEN [docs[d] EXCEPT !.folder = Root]
                                   ELSE docs[d]]
        /\ Succeed(c)
        /\ UNCHANGED <<tags, labels, rest>>
    BY <1>2, <1>3, <2>1 DEF DeleteFolder
  <2>3. ASSUME NEW g \in Folders
        PROVE  /\ folders'[g] \in Folder
               /\ folders'[g].parent = folders[g].parent
               /\ folders'[g].live <=> Live(g) /\ g \notin gone
    <3>1. PICK u \in Folder : u = folders[g]
      BY DEF RowsOK
    <3>2. PICK v : v = [u EXCEPT !.live = FALSE]
      OBVIOUS
    <3>3. v \in Folder /\ ~v.live /\ v.parent = u.parent
      BY <3>2 DEF Folder
    <3>4. folders'[g] = IF g \in gone THEN v ELSE u
      BY <2>2, <3>1, <3>2
    <3>5. QED BY <3>1, <3>3, <3>4 DEF Live
  <2>4. ASSUME NEW d \in Docs
        PROVE  /\ docs'[d] \in Doc /\ docs'[d].status = docs[d].status
               /\ docs'[d].folder = IF docs[d].folder \in gone THEN Root ELSE docs[d].folder
    <3>1. PICK u \in Doc : u = docs[d]
      BY DEF RowsOK
    <3>2. PICK v : v = [u EXCEPT !.folder = Root]
      OBVIOUS
    <3>3. v \in Doc /\ v.status = u.status /\ v.folder = Root
      BY <3>2 DEF Doc
    <3>4. docs'[d] = IF u.folder \in gone THEN v ELSE u
      BY <2>2, <3>1, <3>2
    <3>5. QED BY <3>1, <3>3, <3>4
  <2>5. folders' \in [Folders -> Folder] /\ docs' \in [Docs -> Doc]
    BY <2>2, <2>3, <2>4
  <2>6. Cascading(c, f)
    BY <1>1, <1>2, <1>3, <2>1, <2>2, <2>3, <2>4, <2>5 DEF Cascading
  <2>7. QED BY <2>6
<1>4. QED BY <1>2, <1>3 DEF DeleteFolder

\* The documents of the call are put into the folder f.
Filing(c, f) ==
  /\ Succeed(c)
  /\ call[c].kind \in {"file", "bulkMove"} /\ call[c].at = "file" /\ f = call[c].folder
  /\ docs' \in [Docs -> Doc]
  /\ \A d \in Docs : /\ docs'[d].status = docs[d].status
                     /\ docs'[d].folder = IF d \in call[c].docs THEN f ELSE docs[d].folder
  /\ UNCHANGED <<folders, tags, labels, rest>>

LEMMA FileGoes ==
  ASSUME RowsOK, HandInv, NEW c \in Calls, FileDocs(c)
  PROVE  \/ Refuse(c)
         \/ \E f \in Places : Filing(c, f)
<1>1. /\ call[c].at = "file" /\ call[c].kind \in {"file", "bulkMove"} /\ call[c].folder \in Places
  BY DEF FileDocs, At, HandInv, Hand
<1>2. PICK f \in Places : f = call[c].folder
  BY <1>1
<1>3. CASE ~(f # Root /\ ~Live(f))
  <2>1. /\ docs' = [d \in Docs |-> IF d \in call[c].docs THEN [docs[d] EXCEPT !.folder = f]
                                   ELSE docs[d]]
        /\ Succeed(c)
        /\ UNCHANGED <<folders, tags, labels, rest>>
    BY <1>2, <1>3 DEF FileDocs
  <2>2. ASSUME NEW d \in Docs
        PROVE  /\ docs'[d] \in Doc /\ docs'[d].status = docs[d].status
               /\ docs'[d].folder = IF d \in call[c].docs THEN f ELSE docs[d].folder
    <3>1. PICK u \in Doc : u = docs[d]
      BY DEF RowsOK
    <3>2. PICK v : v = [u EXCEPT !.folder = f]
      OBVIOUS
    <3>3. v \in Doc /\ v.status = u.status /\ v.folder = f
      BY <3>2 DEF Doc, Places
    <3>4. docs'[d] = IF d \in call[c].docs THEN v ELSE u
      BY <2>1, <3>1, <3>2
    <3>5. QED BY <3>1, <3>3, <3>4
  <2>3. Filing(c, f)
    BY <1>1, <1>2, <2>1, <2>2 DEF Filing
  <2>4. QED BY <2>3
<1>4. QED BY <1>2, <1>3 DEF FileDocs

\* The labels change from what they were to a set more.
LEMMA NewLabels ==
  ASSUME RowsOK, NEW c \in Calls
  PROVE  /\ New(c) \subseteq Label
         /\ \A l \in New(c) : l[1] \in call[c].docs /\ l[2] \in call[c].add /\ l[3] = c
<1>1. call[c].docs \subseteq Docs /\ call[c].add \subseteq Tags
  BY DEF RowsOK, Call
<1>2. QED BY <1>1 DEF New, Label

\* A step touches one kind of row at most.
Labelling(c) == UNCHANGED <<folders, docs, rest>> /\ (ReplaceLabels(c) \/ Unlabel(c) \/ LabelAll(c))
Tagging(c) == UNCHANGED <<folders, docs, rest>> /\ (InsertTag(c) \/ DeleteTag(c))

LEMMA WhatGoes ==
  ASSUME RowsOK, HandInv, NEW c \in Calls, GoingStep(c)
  PROVE  \/ Reads
         \/ \E f \in Folders, p \in Places : Writing(c, f, p)
         \/ \E f \in Folders : Cascading(c, f)
         \/ \E f \in Places : Filing(c, f)
         \/ Labelling(c) \/ Tagging(c)
<1>r. Refuse(c) => Reads
  BY DEF Refuse
<1>1. CASE FindForUpdate(c)
  BY <1>1, <1>r, FindGoes
<1>2. CASE Climb(c)
  BY <1>2, <1>r, ClimbGoes
<1>3. CASE AssertNameAvailable(c) \/ ReadDoc(c) \/ ReadFolder(c) \/ CheckTagName(c) \/ ReadTags(c)
  BY <1>3, <1>r DEF AssertNameAvailable, ReadDoc, ReadFolder, CheckTagName, ReadTags, Check
<1>4. CASE WriteFolder(c)
  BY <1>4, <1>r, WriteGoes
<1>5. CASE CountContents(c)
  BY <1>5, <1>r, CountGoes
<1>6. CASE DeleteFolder(c)
  BY <1>6, <1>r, DeleteGoes
<1>7. CASE Load(c)
  BY <1>7, LoadGoes
<1>8. CASE FileDocs(c)
  BY <1>8, <1>r, FileGoes
<1>9. CASE InsertTag(c) \/ DeleteTag(c)
  BY <1>9, <1>r DEF InsertTag, DeleteTag, Tagging
<1>10. CASE SeeLabels(c)
  BY <1>10 DEF SeeLabels
<1>11. CASE ReplaceLabels(c) \/ LabelAll(c) \/ Unlabel(c)
  BY <1>11, <1>r DEF ReplaceLabels, LabelAll, Unlabel, Labelling
<1>12. QED
  BY <1>1, <1>2, <1>3, <1>4, <1>5, <1>6, <1>7, <1>8, <1>9, <1>10, <1>11 DEF GoingStep

-----------------------------------------------------------------------------
(* The rows and the calls together.                                         *)

BaseInv == RowsOK /\ HandInv /\ MadeInv

LEMMA StartedHand ==
  ASSUME NEW v \in Call, Started(v) PROVE Hand(v)
BY DEF Started, Hand

\* A step of a call moves that call alone, and it had not been answered.
LEMMA CallMoves ==
  ASSUME BaseInv, NEW c \in Calls, Moving(c)
  PROVE  /\ call[c].at # "done" /\ ~call[c].ok
         /\ \E v \in Call : call' = [call EXCEPT ![c] = v] /\ Hand(v)
<1>1. CASE Starting(c)
  BY <1>1, StartedHand DEF Starting, BaseInv, HandInv, Hand
<1>2. CASE GoingStep(c)
  BY <1>2, CallProceeds DEF BaseInv, Proceeding
<1>3. QED BY <1>1, <1>2 DEF Moving

LEMMA OthersStay ==
  ASSUME BaseInv, NEW c \in Calls, Moving(c)
  PROVE  /\ call' \in [Calls -> Call] /\ ~call[c].ok
         /\ \A d \in Calls : d # c => call'[d] = call[d]
         /\ \A d \in Calls : call[d].ok => d # c /\ call'[d] = call[d]
BY CallMoves, CallPut DEF BaseInv

\* No step of a call freezes a document.
LEMMA StatusKept ==
  ASSUME RowsOK, HandInv, NEW c \in Calls, Moving(c)
  PROVE  late' = late /\ \A d \in Docs : docs'[d].status = docs[d].status
<1>1. CASE Reads \/ Starting(c)
  BY <1>1 DEF Reads, Starting, rows, rest
<1>2. ASSUME NEW f \in Folders, NEW p \in Places, Writing(c, f, p)
      PROVE  late' = late /\ docs' = docs
  BY <1>2 DEF Writing, rest
<1>3. ASSUME NEW f \in Folders, Cascading(c, f)
      PROVE  late' = late /\ \A d \in Docs : docs'[d].status = docs[d].status
  BY <1>3 DEF Cascading, rest
<1>4. ASSUME NEW f \in Places, Filing(c, f)
      PROVE  late' = late /\ \A d \in Docs : docs'[d].status = docs[d].status
  BY <1>4 DEF Filing, rest
<1>5. CASE Labelling(c) \/ Tagging(c)
  BY <1>5 DEF Labelling, Tagging, rest
<1>6. QED BY <1>1, <1>2, <1>3, <1>4, <1>5, WhatGoes DEF Moving

LEMMA HandStays ==
  ASSUME BaseInv, NEW c \in Calls, Moving(c) PROVE HandInv'
<1>1. PICK v \in Call : call' = [call EXCEPT ![c] = v] /\ Hand(v)
  BY CallMoves
<1>2. /\ call'[c] = v /\ \A d \in Calls : d # c => call'[d] = call[d]
      /\ \A d \in Calls : call[d].ok => call'[d].ok
  BY <1>1, CallPut, OthersStay DEF BaseInv
<1>k. Known \subseteq Known'
  BY StatusKept DEF BaseInv, Known
<1>3. ASSUME NEW w \in Call, Hand(w) PROVE Hand(w)'
  BY <1>2, <1>3, <1>k DEF Hand, Existed, Call
<1>4. ASSUME NEW d \in Calls PROVE Hand(call[d])'
  <2>1. PICK w \in Call : w = call'[d] /\ Hand(w)
    BY <1>1, <1>2 DEF BaseInv, HandInv, RowsOK
  <2>2. QED BY <2>1, <1>3 DEF Hand, Existed
<1>5. QED BY <1>4 DEF HandInv

LEMMA RowsStay ==
  ASSUME BaseInv, NEW c \in Calls, Moving(c) PROVE RowsOK'
<1>1. call' \in [Calls -> Call]
  BY OthersStay
<1>2. CASE Reads
  BY <1>1, <1>2 DEF BaseInv, RowsOK, Reads, rows, rest
<1>3. CASE Starting(c)
  BY <1>1, <1>3 DEF BaseInv, RowsOK, Starting, rows, rest
<1>4. ASSUME NEW f \in Folders, NEW p \in Places, Writing(c, f, p) PROVE RowsOK'
  BY <1>1, <1>4 DEF BaseInv, RowsOK, Writing, rest
<1>5. ASSUME NEW f \in Folders, Cascading(c, f) PROVE RowsOK'
  BY <1>1, <1>5 DEF BaseInv, RowsOK, Cascading, rest
<1>6. ASSUME NEW f \in Places, Filing(c, f) PROVE RowsOK'
  BY <1>1, <1>6 DEF BaseInv, RowsOK, Filing, rest
<1>7. CASE Labelling(c)
  <2>1. labels' \subseteq Label
    <3>1. CASE ReplaceLabels(c)
      BY <3>1, NewLabels DEF BaseInv, ReplaceLabels, Replaced, Refuse, Reads, rows, RowsOK
    <3>2. CASE LabelAll(c)
      BY <3>2, NewLabels DEF BaseInv, LabelAll, Refuse, Reads, rows, RowsOK
    <3>3. CASE Unlabel(c)
      BY <3>3 DEF BaseInv, Unlabel, RowsOK
    <3>4. QED BY <1>7, <3>1, <3>2, <3>3 DEF Labelling
  <2>2. UNCHANGED tags
    <3>1. CASE ReplaceLabels(c)
      BY <3>1 DEF ReplaceLabels, Refuse, Reads, rows
    <3>2. CASE LabelAll(c) \/ Unlabel(c)
      BY <3>2 DEF LabelAll, Unlabel, Refuse, Reads, rows
    <3>3. QED BY <1>7, <3>1, <3>2 DEF Labelling
  <2>3. QED BY <1>1, <1>7, <2>1, <2>2 DEF BaseInv, RowsOK, Labelling, rest
<1>8. CASE Tagging(c)
  <2>1. tags' \subseteq Tags /\ labels' \subseteq Label
    <3>1. call[c].add \subseteq Tags
      BY DEF BaseInv, RowsOK, Call
    <3>2. CASE InsertTag(c)
      BY <3>1, <3>2 DEF BaseInv, InsertTag, Refuse, Reads, rows, RowsOK
    <3>3. CASE DeleteTag(c)
      BY <3>3 DEF BaseInv, DeleteTag, Refuse, Reads, rows, RowsOK
    <3>4. QED BY <1>8, <3>2, <3>3 DEF Tagging
  <2>2. QED BY <1>1, <1>8, <2>1 DEF BaseInv, RowsOK, Tagging, rest
<1>9. QED BY <1>2, <1>3, <1>4, <1>5, <1>6, <1>7, <1>8, WhatGoes DEF BaseInv, Moving

LEMMA MadeRooted == ASSUME RowsOK, MadeInv PROVE Rooted(folders)
BY DEF RowsOK, MadeInv, Rooted, LiveOf, Live, Folder

LEMMA WritingMoves ==
  ASSUME BaseInv, NEW c \in Calls, NEW f \in Folders, NEW p \in Places, Writing(c, f, p)
  PROVE  /\ Moved(folders, folders', f, p)
         /\ p \in LiveOf(folders) \cup {Root}
         /\ f = c => f \notin LiveOf(folders)
         /\ f # c => f \in LiveOf(folders)
<1>1. ~call[c].ok
  BY DEF BaseInv, HandInv, Hand, Writing
<1>2. ~Live(c)
  BY <1>1 DEF BaseInv, MadeInv, Existed, Folders
<1>3. f # c => Live(f)
  BY DEF Writing
<1>4. f = c => f \notin LiveOf(folders)
  BY <1>2 DEF LiveOf, Live
<1>5. p \in LiveOf(folders) \cup {Root}
  BY DEF Writing, LiveOf, Live, Places
<1>6. LiveOf(folders') = LiveOf(folders) \cup {f}
  BY DEF LiveOf, Writing
<1>7. Moved(folders, folders', f, p)
  BY <1>6 DEF Moved, Writing, LiveOf
<1>8. QED BY <1>3, <1>4, <1>5, <1>7 DEF LiveOf, Live

LEMMA CascadingCuts ==
  ASSUME NEW c \in Calls, NEW f \in Folders, Cascading(c, f)
  PROVE  Cut(folders, folders', f)
<1>1. Subtree(f) = BelowOf(folders, f)
  BY TreeNow
<1>2. QED BY <1>1 DEF Cut, Cascading, LiveOf, Live

LEMMA MadeStays ==
  ASSUME BaseInv, NEW c \in Calls, Moving(c) PROVE MadeInv'
<1>1. \A f : Existed(f) => Existed(f)'
  BY OthersStay DEF Existed
<1>2. CASE UNCHANGED folders
  BY <1>1, <1>2 DEF BaseInv, MadeInv, Live
<1>3. ASSUME NEW f \in Folders, NEW p \in Places, Writing(c, f, p) PROVE MadeInv'
  <2>1. /\ call'[c].ok /\ p = call[c].parent
    <3>1. PICK v \in Call : call' = [call EXCEPT ![c] = v] /\ v.ok
      BY <1>3, SucceedMoves DEF BaseInv, Writing
    <3>2. QED BY <1>3, <3>1, CallPut DEF BaseInv, Writing
  <2>2. Existed(p)
    BY <2>1 DEF BaseInv, HandInv, Hand
  <2>3. Existed(f)'
    <3>1. CASE f = c
      BY <2>1, <3>1 DEF Existed
    <3>2. CASE f # c
      BY <1>1, <1>3, <3>2 DEF Writing, BaseInv, MadeInv
    <3>3. QED BY <3>1, <3>2
  <2>4. Rooted(folders')
    BY <1>3, WritingMoves, MadeRooted DEF BaseInv, Rooted, Moved
  <2>5. \A g \in Folders : /\ folders'[g].live => Existed(g)'
                           /\ Existed(folders[g].parent)'
    <3> SUFFICES ASSUME NEW g \in Folders
                 PROVE  /\ folders'[g].live => Existed(g)'
                        /\ Existed(folders[g].parent)'
      OBVIOUS
    <3>1. CASE g = f
      <4>1. folders'[g].parent = p /\ Existed(p)'
        BY <1>1, <1>3, <2>2, <3>1 DEF Writing
      <4>2. QED BY <2>3, <3>1, <4>1 DEF Existed
    <3>2. CASE g # f
      <4>1. folders'[g] = folders[g]
        BY <1>3, <3>2 DEF Writing
      <4>2. (Live(g) => Existed(g)) /\ Existed(folders[g].parent)
        BY DEF BaseInv, MadeInv
      <4>3. QED BY <1>1, <4>1, <4>2 DEF Existed, Live
    <3>3. QED BY <3>1, <3>2
  <2>6. QED BY <2>4, <2>5 DEF MadeInv, Rooted, LiveOf, Live
<1>4. ASSUME NEW f \in Folders, Cascading(c, f) PROVE MadeInv'
  <2>1. Rooted(folders')
    BY <1>4, CascadingCuts, CutStaysRooted, MadeRooted, NamesApart DEF BaseInv
  <2>2. \A g \in Folders : /\ folders'[g].live => Live(g)
                           /\ folders'[g].parent = folders[g].parent
    BY <1>4 DEF Cascading
  <2>3. QED BY <1>1, <2>1, <2>2 DEF BaseInv, MadeInv, Rooted, LiveOf, Live, Existed
<1>5. QED
  BY <1>2, <1>3, <1>4, WhatGoes
  DEF BaseInv, Reads, rows, Filing, Labelling, Tagging, Starting, Moving

\* What the rest of the system does to the documents: none of them is moved or
\* taken away, and one that is frozen has its calls under way noted.
Arriving ==
  /\ UNCHANGED <<folders, tags, labels, call>>
  /\ docs' \in [Docs -> Doc] /\ late' \in [Docs -> SUBSET Calls]
  /\ \A d \in Docs :
       /\ docs[d].status # "none" =>
            docs'[d].status # "none" /\ docs'[d].folder = docs[d].folder
       /\ \/ docs'[d].status = "active"
          \/ late'[d] = {c \in Calls : UnderWay(c)}
          \/ docs'[d].status = docs[d].status /\ late'[d] = late[d]

\* A step of Library, or of whatever Library is a part of.
WideStep == (\E c \in Calls : Moving(c)) \/ Arriving

LEMMA IdleIsWide ==
  ASSUME BaseInv, UNCHANGED <<folders, docs, tags, labels, call, late>> PROVE WideStep
BY DEF BaseInv, RowsOK, WideStep, Arriving

LEMMA StatusIsWide ==
  ASSUME BaseInv, NEW d \in Docs, SetStatus(d) PROVE WideStep
<1>1. PICK s \in {"active", "archived", "trashed"} :
        /\ docs' = [docs EXCEPT ![d].status = s]
        /\ late' = [late EXCEPT ![d] = {c \in Calls : UnderWay(c)}]
        /\ UNCHANGED <<folders, tags, labels, call, mix>>
  BY DEF SetStatus
<1>2. PICK u \in Doc : u = docs[d]
  BY DEF BaseInv, RowsOK
<1>3. PICK v : v = [u EXCEPT !.status = s]
  OBVIOUS
<1>4. v \in Doc /\ v.folder = u.folder /\ v.status # "none"
  BY <1>3 DEF Doc
<1>5. docs' = [docs EXCEPT ![d] = v]
  BY <1>1, <1>2, <1>3, Zenon
<1>6. /\ docs' \in [Docs -> Doc] /\ docs'[d].folder = docs[d].folder
      /\ docs'[d].status # "none"
      /\ \A e \in Docs : e # d => docs'[e] = docs[e]
  BY <1>2, <1>4, <1>5 DEF BaseInv, RowsOK
<1>7. /\ late' \in [Docs -> SUBSET Calls] /\ \A e \in Docs : e # d => late'[e] = late[e]
      /\ late'[d] = {c \in Calls : UnderWay(c)}
  BY <1>1 DEF BaseInv, RowsOK
<1>8. QED BY <1>1, <1>6, <1>7 DEF WideStep, Arriving

LEMMA NextIsWide == BaseInv /\ [Next]_vars => WideStep
<1> SUFFICES ASSUME BaseInv, [Next]_vars PROVE WideStep
  OBVIOUS
<1>1. CASE UNCHANGED vars
  BY <1>1, IdleIsWide DEF vars
<1>2. ASSUME NEW c \in Calls, CallStep(c) PROVE WideStep
  BY <1>2, CallStepIs DEF BaseInv, WideStep
<1>3. ASSUME NEW d \in Docs, ChangeStatus(d) PROVE WideStep
  BY <1>3, StatusIsWide DEF ChangeStatus
<1>4. QED BY <1>1, <1>2, <1>3 DEF Next

LEMMA BaseStep == BaseInv /\ WideStep => BaseInv'
<1> SUFFICES ASSUME BaseInv, WideStep PROVE BaseInv'
  OBVIOUS
<1>1. ASSUME NEW c \in Calls, Moving(c) PROVE BaseInv'
  BY <1>1, RowsStay, HandStays, MadeStays DEF BaseInv
<1>2. CASE Arriving
  <2>1. Known \subseteq Known'
    BY <1>2 DEF Arriving, Known
  <2>2. RowsOK'
    BY <1>2 DEF Arriving, BaseInv, RowsOK
  <2>3. HandInv'
    BY <1>2, <2>1 DEF Arriving, BaseInv, HandInv, Hand, Existed
  <2>4. MadeInv'
    BY <1>2 DEF Arriving, BaseInv, MadeInv, Existed, Live
  <2>5. QED BY <2>2, <2>3, <2>4 DEF BaseInv
<1>3. QED BY <1>1, <1>2 DEF WideStep

LEMMA BaseStart == Init => BaseInv
<1> SUFFICES ASSUME Init PROVE BaseInv
  OBVIOUS
<1>1. \A c \in Calls : call[c] = NoCall
  BY DEF Init
<1>2. PICK parent \in [OldFolders -> OldFolders \cup {Root}], name \in [OldFolders -> Names] :
        folders = [f \in Folders |->
                     IF f \in OldFolders
                     THEN [live |-> TRUE, parent |-> parent[f], name |-> name[f]]
                     ELSE [live |-> FALSE, parent |-> Root, name |-> None]]
  BY DEF Init
<1>3. /\ folders \in [Folders -> Folder]
      /\ \A f \in Folders : /\ Live(f) <=> f \in OldFolders
                            /\ folders[f].parent \in OldFolders \cup {Root}
  BY <1>2 DEF Folder, Folders, Live
<1>4. \A f \in OldFolders \cup {Root} : Existed(f)
  BY RootAssumption, NewFoldersAssumption DEF Existed, Folders
<1>5. MadeInv
  BY <1>3, <1>4 DEF MadeInv, Folders
<1>6. /\ NoCall.at = "idle" /\ ~NoCall.ok /\ NoCall.kind = "none" /\ NoCall.folder = None
      /\ NoCall.parent = None /\ NoCall.cursor = Root /\ NoCall.before = {}
      /\ NoCall.known = {}
  BY DEF NoCall
<1>7. Existed(None)
  BY RootAssumption DEF Existed, Folders
<1>8. HandInv
  BY <1>1, <1>4, <1>6, <1>7 DEF HandInv, Hand
<1>9. call \in [Calls -> Call]
  BY NoCallOK DEF Init
<1>10. docs \in [Docs -> Doc]
  BY DEF Init, Doc, Folders
<1>11. tags \subseteq Tags /\ labels \subseteq Label
  BY DEF Init, Label, Known
<1>12. RowsOK
  BY <1>3, <1>9, <1>10, <1>11 DEF RowsOK, Init
<1>13. QED BY <1>5, <1>8, <1>12 DEF BaseInv

-----------------------------------------------------------------------------
(* The tree stays one.                                                      *)

Moves == {"updateFolder"}

Crossed(c) == \E d \in Calls : Answered(d, Moves) /\ Overlap(c, d)
TwoCrossed == \E c \in Calls : Answered(c, Moves) /\ Crossed(c)

\* A walk that has the folder being moved above it is going to meet it, unless
\* a folder has vanished on the way or another move has crossed this one.
WalkInv(c) ==
  /\ call[c].kind = "updateFolder" /\ call[c].at \in {"climb", "name", "write"}
  /\ call[c].parent \in BelowOf(folders, call[c].folder)
  => \/ Crossed(c)
     \/ /\ call[c].at = "climb" /\ call[c].cursor # Root
        /\ \/ call[c].cursor \in BelowOf(folders, call[c].folder)
           \/ call[c].cursor \notin LiveOf(folders)

TreeInv == TwoCrossed \/ (DetachedOf(folders) = {} /\ \A c \in Calls : WalkInv(c))

LEMMA UpdateSteps ==
  ASSUME NEW c \in Calls, GoingStep(c), call[c].kind = "updateFolder"
  PROVE  FindForUpdate(c) \/ Climb(c) \/ AssertNameAvailable(c) \/ WriteFolder(c)
<1>1. ~(CountContents(c) \/ DeleteFolder(c) \/ ReadDoc(c) \/ ReadFolder(c) \/ Load(c))
  BY DEF CountContents, DeleteFolder, ReadDoc, ReadFolder, Load, At
<1>2. ~(FileDocs(c) \/ CheckTagName(c) \/ InsertTag(c) \/ DeleteTag(c) \/ ReadTags(c))
  BY DEF FileDocs, CheckTagName, InsertTag, DeleteTag, ReadTags, At
<1>3. ~(SeeLabels(c) \/ ReplaceLabels(c) \/ Unlabel(c) \/ LabelAll(c))
  BY DEF SeeLabels, ReplaceLabels, Unlabel, LabelAll, At
<1>4. QED BY <1>1, <1>2, <1>3 DEF GoingStep

LEMMA AnswersKept ==
  ASSUME BaseInv, NEW c \in Calls, Moving(c), NEW kinds, NEW d \in Calls, Answered(d, kinds)
  PROVE  call'[d] = call[d] /\ Answered(d, kinds)' /\ d # c
BY OthersStay DEF Answered

\* A call that goes on has not forgotten whom it crossed.
LEMMA CrossedStays ==
  ASSUME BaseInv, NEW c \in Calls, GoingStep(c)
  PROVE  \A d \in Calls : Crossed(d) => Crossed(d)'
<1>1. PICK v \in Call : /\ call' = [call EXCEPT ![c] = v]
                        /\ v.before \in {call[c].before, {}}
  BY CallProceeds DEF BaseInv, Proceeding
<1>2. /\ call'[c].before \in {call[c].before, {}}
      /\ \A d \in Calls : d # c => call'[d] = call[d]
  BY <1>1, CallPut DEF BaseInv
<1>3. ASSUME NEW d \in Calls, NEW e \in Calls, Answered(e, Moves), Overlap(d, e)
      PROVE  Answered(e, Moves)' /\ Overlap(d, e)'
  BY <1>2, <1>3, AnswersKept DEF Overlap, Moving
<1>4. QED BY <1>3 DEF Crossed

LEMMA StartedCrossed ==
  ASSUME BaseInv, NEW c \in Calls, Starting(c)
  PROVE  /\ \A d \in Calls : d # c /\ Crossed(d) => Crossed(d)'
         /\ WalkInv(c)'
<1>1. PICK v \in Call : call' = [call EXCEPT ![c] = v] /\ Started(v)
  BY DEF Starting
<1>2. call'[c] = v /\ \A d \in Calls : d # c => call'[d] = call[d]
  BY <1>1, CallPut DEF BaseInv
<1>3. ASSUME NEW d \in Calls, d # c, NEW e \in Calls, Answered(e, Moves), Overlap(d, e)
      PROVE  Answered(e, Moves)' /\ Overlap(d, e)'
  BY <1>2, <1>3, AnswersKept DEF Overlap, Moving
<1>4. WalkInv(c)'
  BY <1>1, <1>2 DEF WalkInv, Started
<1>5. QED BY <1>3, <1>4 DEF Crossed

LEMMA TwoStayCrossed ==
  ASSUME BaseInv, NEW c \in Calls, Moving(c), TwoCrossed PROVE TwoCrossed'
<1>1. PICK d \in Calls : Answered(d, Moves) /\ Crossed(d)
  BY DEF TwoCrossed
<1>2. Answered(d, Moves)' /\ d # c
  BY <1>1, AnswersKept
<1>3. Crossed(d)'
  BY <1>1, <1>2, CrossedStays, StartedCrossed DEF Moving
<1>4. QED BY <1>2, <1>3 DEF TwoCrossed

\* The walk goes on, or the call with it.
LEMMA WalkGoes ==
  ASSUME BaseInv, NEW c \in Calls, GoingStep(c), UNCHANGED folders,
         DetachedOf(folders) = {}, WalkInv(c)
  PROVE  WalkInv(c)'
<1>0. PICK w \in Call : /\ call' = [call EXCEPT ![c] = w]
                        /\ w.kind = call[c].kind
  BY CallProceeds DEF BaseInv, Proceeding
<1>1. call'[c].kind = call[c].kind
  BY <1>0, CallPut DEF BaseInv
<1> SUFFICES ASSUME call[c].kind = "updateFolder" PROVE WalkInv(c)'
  BY <1>1 DEF WalkInv
<1>crossed. Crossed(c) => Crossed(c)'
  BY CrossedStays
<1>rooted. Rooted(folders)
  BY MadeRooted DEF BaseInv
<1>refused. Refuse(c) => WalkInv(c)'
  <2> SUFFICES ASSUME Refuse(c) PROVE WalkInv(c)'
    OBVIOUS
  <2>1. PICK v \in Call : call' = [call EXCEPT ![c] = v] /\ v.at = "done"
    BY RefuseMoves DEF BaseInv
  <2>2. QED BY <2>1, CallPut DEF BaseInv, WalkInv
<1>2. CASE FindForUpdate(c)
  <2>1. ASSUME NEW next \in {"climb", "name", "write"}, NEW parent \in Places,
               NEW name \in Names \cup {None}, Finding(c, next, parent, name),
               call[c].folder \in Folders, Live(call[c].folder),
               next # "climb" => parent \in {Root, folders[call[c].folder].parent},
               next = "climb" => parent # Root
        PROVE  WalkInv(c)'
    <3>1. PICK v \in Call : /\ call' = [call EXCEPT ![c] = v]
                            /\ Kin(call[c], v) /\ v.at = next
                            /\ v.parent = parent /\ v.cursor = parent
      BY <2>1, FindingMoves DEF BaseInv, CallSteps
    <3>2. call'[c] = v /\ v.folder = call[c].folder
      BY <3>1, CallPut DEF BaseInv, Kin
    <3>3. PICK f \in Folders : f = call[c].folder /\ f \in LiveOf(folders)
      BY <2>1 DEF LiveOf, Live
    <3>4. next # "climb" => parent \notin BelowOf(folders, f)
      <4>1. folders[f].parent \in AsideOf(folders, f) \cup {Root}
        BY <1>rooted, <3>3, ParentAside, NamesApart
      <4>2. QED BY <2>1, <3>3, <4>1, NamesApart DEF BelowOf, LiveOf
    <3>5. QED BY <2>1, <3>1, <3>2, <3>3, <3>4 DEF WalkInv
  <2>2. QED BY <1>2, <1>refused, <2>1, FindGoes DEF BaseInv
<1>3. CASE Climb(c)
  <2>at. call[c].at = "climb"
    BY <1>3 DEF Climb, At
  <2>1. ASSUME Goto(c, "name"), WalkOver(c) PROVE WalkInv(c)'
    <3>1. PICK v \in Call : /\ call' = [call EXCEPT ![c] = v]
                            /\ Kin(call[c], v) /\ v.parent = call[c].parent
      BY <2>1, GotoMoves DEF BaseInv, CallSteps
    <3>2. call'[c] = v
      BY <3>1, CallPut DEF BaseInv
    <3>3. call[c].cursor = Root
      BY <2>1 DEF WalkOver
    <3>4. v.parent \in BelowOf(folders, v.folder) => Crossed(c)
      BY <2>at, <3>1, <3>3 DEF WalkInv, Kin
    <3>5. QED BY <1>crossed, <3>2, <3>4 DEF WalkInv
  <2>2. ASSUME NEW above \in Places, NEW depth \in 0..MaxFolderDepth + 1,
               Climbing(c, above, depth), call[c].cursor \in Folders, Live(call[c].cursor),
               ~MeetsItself(c), above = folders[call[c].cursor].parent
        PROVE  WalkInv(c)'
    <3>1. PICK v \in Call : /\ call' = [call EXCEPT ![c] = v]
                            /\ Kin(call[c], v) /\ v.at = call[c].at
                            /\ v.parent = call[c].parent /\ v.cursor = above
      BY <2>2, ClimbingMoves DEF BaseInv
    <3>2. call'[c] = v /\ v.folder = call[c].folder
      BY <3>1, CallPut DEF BaseInv, Kin
    <3>3. PICK f, k : f = call[c].folder /\ k = call[c].cursor
      OBVIOUS
    <3>4. k # f /\ k \in LiveOf(folders)
      BY <2>2, <3>3 DEF MeetsItself, LiveOf, Live
    <3>5. k \in BelowOf(folders, f) => above # Root /\ above \in BelowOf(folders, f)
      BY <1>rooted, <2>2, <3>3, <3>4, BelowClimbs DEF BelowOf, Rooted
    <3>6. v.parent \in BelowOf(folders, f) => Crossed(c) \/ k \in BelowOf(folders, f)
      BY <2>at, <3>1, <3>3, <3>4 DEF WalkInv
    <3>7. QED BY <1>crossed, <2>at, <3>1, <3>2, <3>3, <3>5, <3>6 DEF WalkInv
  <2>3. QED BY <1>3, <1>refused, <2>1, <2>2, ClimbGoes DEF BaseInv
<1>4. CASE AssertNameAvailable(c)
  <2>1. ASSUME Goto(c, "write") PROVE WalkInv(c)'
    <3>1. PICK v \in Call : /\ call' = [call EXCEPT ![c] = v]
                            /\ Kin(call[c], v) /\ v.parent = call[c].parent
      BY <2>1, GotoMoves DEF BaseInv, CallSteps
    <3>2. call'[c] = v
      BY <3>1, CallPut DEF BaseInv
    <3>3. v.parent \in BelowOf(folders, v.folder) => Crossed(c)
      BY <1>4, <3>1 DEF WalkInv, Kin, AssertNameAvailable, At
    <3>4. QED BY <1>crossed, <3>2, <3>3 DEF WalkInv
  <2>2. QED BY <1>4, <1>refused, <2>1 DEF AssertNameAvailable, Check
<1>5. CASE WriteFolder(c)
  <2>1. Succeed(c) => WalkInv(c)'
    <3> SUFFICES ASSUME Succeed(c) PROVE WalkInv(c)'
      OBVIOUS
    <3>1. PICK v \in Call : call' = [call EXCEPT ![c] = v] /\ v.at = "done"
      BY SucceedMoves DEF BaseInv
    <3>2. QED BY <3>1, CallPut DEF BaseInv, WalkInv
  <2>2. QED BY <1>5, <1>refused, <2>1 DEF WriteFolder
<1>6. QED BY <1>2, <1>3, <1>4, <1>5, UpdateSteps

LEMMA DoneWalks ==
  ASSUME BaseInv, NEW c \in Calls, Succeed(c) PROVE WalkInv(c)' /\ call'[c].ok
<1>1. PICK v \in Call : call' = [call EXCEPT ![c] = v] /\ v.at = "done" /\ v.ok
  BY SucceedMoves DEF BaseInv
<1>2. QED BY <1>1, CallPut DEF BaseInv, WalkInv

\* Whoever walks while a move is written has crossed it.
LEMMA MoveCrosses ==
  ASSUME BaseInv, NEW c \in Calls, Moving(c), Succeed(c), call[c].kind = "updateFolder",
         NEW d \in Calls, d # c, ~call[d].ok
  PROVE  Crossed(d)'
<1>1. PICK v \in Call : call' = [call EXCEPT ![c] = v] /\ Kin(call[c], v) /\ v.ok
  BY SucceedMoves DEF BaseInv
<1>2. call'[c] = v /\ call'[d] = call[d]
  BY <1>1, CallPut DEF BaseInv
<1>3. ~call[c].ok
  BY OthersStay
<1>4. c \notin call[d].before /\ d \notin call[c].before
  BY <1>3 DEF BaseInv, HandInv, Hand
<1>5. Answered(c, Moves)' /\ Overlap(d, c)'
  BY <1>1, <1>2, <1>4 DEF Answered, Moves, Overlap, Kin
<1>6. QED BY <1>5 DEF Crossed

LEMMA WritingTree ==
  ASSUME BaseInv, NEW c \in Calls, GoingStep(c), NEW f \in Folders, NEW p \in Places,
         Writing(c, f, p), DetachedOf(folders) = {}, \A d \in Calls : WalkInv(d)
  PROVE  TreeInv'
<1>1. Succeed(c)
  BY DEF Writing
<1>2. /\ Moved(folders, folders', f, p) /\ p \in LiveOf(folders) \cup {Root}
      /\ f = c => f \notin LiveOf(folders)
      /\ f # c => f \in LiveOf(folders)
  BY WritingMoves
<1>3. /\ \A d \in Calls : d # c => call'[d] = call[d]
      /\ ~call[c].ok
  BY OthersStay DEF Moving
<1>4. CASE call[c].kind = "updateFolder"
  <2>1. call[c].folder = f /\ call[c].parent = p /\ call[c].at = "write"
    BY <1>4 DEF Writing
  <2>2. f \in LiveOf(folders)
    BY <1>4 DEF Writing, LiveOf, Live
  <2>3. CASE p \in BelowOf(folders, f)
    <3>1. Crossed(c)'
      BY <1>4, <2>1, <2>3, CrossedStays DEF WalkInv
    <3>2. PICK v \in Call : call' = [call EXCEPT ![c] = v] /\ Kin(call[c], v) /\ v.ok
      BY <1>1, SucceedMoves DEF BaseInv
    <3>3. Answered(c, Moves)'
      BY <1>4, <3>2, CallPut DEF BaseInv, Answered, Moves, Kin
    <3>4. QED BY <3>1, <3>3 DEF TreeInv, TwoCrossed
  <2>4. CASE p \notin BelowOf(folders, f)
    <3>1. p \in AsideOf(folders, f) \cup {Root}
      BY <1>2, <2>4 DEF BelowOf
    <3>2. DetachedOf(folders') = {}
      BY <1>2, <2>2, <3>1, MoveKeepsTree, NamesApart
    <3>3. ASSUME NEW d \in Calls PROVE WalkInv(d)'
      <4>1. CASE d = c
        BY <1>1, <4>1, DoneWalks
      <4>2. CASE d # c /\ call[d].ok
        <5>1. call'[d].at = "done"
          BY <1>3, <4>2 DEF BaseInv, HandInv, Hand
        <5>2. QED BY <5>1 DEF WalkInv
      <4>3. CASE d # c /\ ~call[d].ok
        <5>1. Crossed(d)'
          BY <1>1, <1>4, <4>3, MoveCrosses DEF Moving
        <5>2. QED BY <5>1 DEF WalkInv
      <4>4. QED BY <4>1, <4>2, <4>3
    <3>4. QED BY <3>2, <3>3 DEF TreeInv
  <2>5. QED BY <2>3, <2>4
<1>5. CASE call[c].kind = "createFolder"
  <2>1. f = c /\ f # Root
    BY <1>5, NamesApart DEF Writing, Folders
  <2>2. Rooted(folders)
    BY MadeRooted DEF BaseInv
  <2>3. DetachedOf(folders') = {}
    BY <1>2, <2>1, <2>2, LeafKeepsTree, NamesApart
  <2>4. ASSUME NEW d \in Calls PROVE WalkInv(d)'
    <3>1. CASE d = c
      BY <1>1, <3>1, DoneWalks
    <3>2. CASE d # c
      <4>1. call'[d] = call[d] /\ Existed(call[d].parent) /\ Existed(call[d].cursor)
        BY <1>3, <3>2 DEF BaseInv, HandInv, Hand
      <4>2. PICK h, q, k : h = call[d].folder /\ q = call[d].parent /\ k = call[d].cursor
        OBVIOUS
      <4>3. q # f /\ k # f
        BY <1>3, <2>1, <4>1, <4>2 DEF Existed
      <4>4. /\ q \in BelowOf(folders', h) => q \in BelowOf(folders, h)
            /\ k \in BelowOf(folders, h) => k \in BelowOf(folders', h)
        BY <1>2, <2>1, <2>2, <4>3, LeafKeepsBelow
      <4>5. k \notin LiveOf(folders) => k \notin LiveOf(folders')
        BY <1>2, <4>3 DEF Moved
      <4>6. Crossed(d) => Crossed(d)'
        BY CrossedStays
      <4>7. QED BY <4>1, <4>2, <4>4, <4>5, <4>6 DEF WalkInv
    <3>3. QED BY <3>1, <3>2
  <2>5. QED BY <2>3, <2>4 DEF TreeInv
<1>6. QED BY <1>4, <1>5 DEF Writing

LEMMA CascadingTree ==
  ASSUME BaseInv, NEW c \in Calls, GoingStep(c), NEW f \in Folders,
         Cascading(c, f), DetachedOf(folders) = {}, \A d \in Calls : WalkInv(d)
  PROVE  TreeInv'
<1>1. Cut(folders, folders', f) /\ Rooted(folders)
  BY CascadingCuts, MadeRooted DEF BaseInv
<1>2. DetachedOf(folders') = {}
  BY <1>1, CutKeepsTree
<1>3. ASSUME NEW d \in Calls PROVE WalkInv(d)'
  <2>1. CASE d = c
    BY <2>1, DoneWalks DEF Cascading
  <2>2. CASE d # c
    <3>1. call'[d] = call[d]
      BY <2>2, OthersStay DEF Moving
    <3>2. PICK h, q, k : h = call[d].folder /\ q = call[d].parent /\ k = call[d].cursor
      OBVIOUS
    <3>3. q \in BelowOf(folders', h) => q \in BelowOf(folders, h)
      BY <1>1, CutKeepsBelow, NamesApart DEF BelowOf
    <3>4. k \in BelowOf(folders, h) => k \in BelowOf(folders', h) \/ k \notin LiveOf(folders')
      BY <1>1, CutKeepsBelow, NamesApart
    <3>5. k \notin LiveOf(folders) => k \notin LiveOf(folders')
      BY <1>1 DEF Cut
    <3>6. Crossed(d) => Crossed(d)'
      BY CrossedStays
    <3>7. QED BY <3>1, <3>2, <3>3, <3>4, <3>5, <3>6 DEF WalkInv
  <2>3. QED BY <2>1, <2>2
<1>4. QED BY <1>2, <1>3 DEF TreeInv

LEMMA CallTree ==
  ASSUME BaseInv, TreeInv, NEW c \in Calls, Moving(c) PROVE TreeInv'
<1>1. CASE TwoCrossed
  BY <1>1, TwoStayCrossed DEF TreeInv
<1>2. CASE DetachedOf(folders) = {} /\ \A d \in Calls : WalkInv(d)
  <2>1. ASSUME UNCHANGED folders, WalkInv(c)', \A d \in Calls : d # c /\ Crossed(d) => Crossed(d)'
        PROVE  TreeInv'
    <3>1. \A d \in Calls : d # c => call'[d] = call[d]
      BY OthersStay
    <3>2. ASSUME NEW d \in Calls PROVE WalkInv(d)'
      BY <1>2, <2>1, <3>1 DEF WalkInv
    <3>3. QED BY <1>2, <2>1, <3>2 DEF TreeInv
  <2>2. CASE Starting(c)
    <3>1. UNCHANGED folders
      BY <2>2 DEF Starting, rows
    <3>2. QED BY <2>1, <2>2, <3>1, StartedCrossed
  <2>3. CASE GoingStep(c)
    <3>1. CASE UNCHANGED folders
      BY <1>2, <2>1, <2>3, <3>1, WalkGoes, CrossedStays
    <3>2. ASSUME NEW f \in Folders, NEW p \in Places, Writing(c, f, p) PROVE TreeInv'
      BY <1>2, <2>3, <3>2, WritingTree
    <3>3. ASSUME NEW f \in Folders, Cascading(c, f) PROVE TreeInv'
      BY <1>2, <2>3, <3>3, CascadingTree
    <3>4. QED
      BY <2>3, <3>1, <3>2, <3>3, WhatGoes DEF BaseInv, Reads, rows, Filing, Labelling, Tagging
  <2>4. QED BY <2>2, <2>3 DEF Moving
<1>3. QED BY <1>1, <1>2 DEF TreeInv

LEMMA TreeStep == BaseInv /\ TreeInv /\ WideStep => TreeInv'
<1> SUFFICES ASSUME BaseInv, TreeInv, WideStep PROVE TreeInv'
  OBVIOUS
<1>1. CASE UNCHANGED <<folders, call>>
  BY <1>1 DEF TreeInv, TwoCrossed, Crossed, Answered, Overlap, WalkInv
<1>2. ASSUME NEW c \in Calls, Moving(c) PROVE TreeInv'
  BY <1>2, CallTree
<1>3. QED BY <1>1, <1>2 DEF WideStep, Arriving

LEMMA TreeStart == Init => TreeInv
<1> SUFFICES ASSUME Init PROVE TreeInv
  OBVIOUS
<1>1. DetachedOf(folders) = {}
  BY TreeNow DEF Init
<1>2. \A c \in Calls : WalkInv(c)
  BY DEF Init, NoCall, WalkInv
<1>3. QED BY <1>1, <1>2 DEF TreeInv

LEMMA TreeSuffices == TreeInv => NothingDetached
BY TreeNow DEF TreeInv, TwoCrossed, Crossed, NothingDetached, Moves

LEMMA BaseCorrect == Spec => []BaseInv
<1>1. Init => BaseInv
  BY BaseStart
<1>2. BaseInv /\ [Next]_vars => BaseInv'
  BY BaseStep, NextIsWide
<1>3. QED BY <1>1, <1>2, PTL DEF Spec

\* Every folder can be reached from the root, so that none is lost with what is
\* in it, unless two changes of folders that were both carried out were under
\* way together (FoldersService.assertMoveIsLegal and update).
THEOREM NoFolderIsLost == Spec => []NothingDetached
<1>1. Init => TreeInv
  BY TreeStart
<1>2. BaseInv /\ TreeInv /\ [Next]_vars => TreeInv'
  BY TreeStep, NextIsWide
<1>3. TreeInv => NothingDetached
  BY TreeSuffices
<1>4. QED BY <1>1, <1>2, <1>3, BaseCorrect, PTL DEF Spec

-----------------------------------------------------------------------------
(* What a deletion takes along.                                             *)

Builders == {"createFolder", "updateFolder"}
Filers == {"file", "bulkMove"}

\* A call that was not over when c began has put a folder, or a document, into
\* the folder that c deletes.
PutThere(c) ==
  \E e \in Calls : /\ e \notin call[c].before
                   /\ Answered(e, Builders) /\ call[e].parent = call[c].folder
FiledThere(c) ==
  \E e \in Calls : /\ e \notin call[c].before
                   /\ Answered(e, Filers) /\ call[e].docs # {} /\ call[e].folder = call[c].folder

\* What has been counted was empty, and is unless somebody came, but for the
\* documents uploaded since.
CountInv(c) ==
  call[c].kind = "removeFolder" /\ call[c].at \in {"count", "delete"} =>
    /\ call[c].rows \subseteq {"folders", "documents"}
    /\ call[c].at = "delete" => call[c].rows = {}
    /\ "folders" \notin call[c].rows => Children(call[c].folder) = {} \/ PutThere(c)
    /\ "documents" \notin call[c].rows =>
         FiledIn(call[c].folder) \cap call[c].known = {} \/ FiledThere(c)

RemoveInv == \A c \in Calls : CountInv(c)

LEMMA RemoveSteps ==
  ASSUME NEW c \in Calls, GoingStep(c), call[c].kind = "removeFolder"
  PROVE  CountContents(c) \/ DeleteFolder(c)
<1>1. ~(FindForUpdate(c) \/ Climb(c) \/ AssertNameAvailable(c) \/ WriteFolder(c))
  BY DEF FindForUpdate, Climb, AssertNameAvailable, WriteFolder, At
<1>2. ~(ReadDoc(c) \/ ReadFolder(c) \/ Load(c) \/ FileDocs(c) \/ CheckTagName(c))
  BY DEF ReadDoc, ReadFolder, Load, FileDocs, CheckTagName, At
<1>3. ~(InsertTag(c) \/ DeleteTag(c) \/ ReadTags(c))
  BY DEF InsertTag, DeleteTag, ReadTags, At
<1>4. ~(SeeLabels(c) \/ ReplaceLabels(c) \/ Unlabel(c) \/ LabelAll(c))
  BY DEF SeeLabels, ReplaceLabels, Unlabel, LabelAll, At
<1>5. QED BY <1>1, <1>2, <1>3, <1>4 DEF GoingStep

LEMMA ComersStay ==
  ASSUME BaseInv, NEW d \in Calls, Moving(d), NEW c \in Calls, call'[c].folder = call[c].folder,
         call'[c].before = call[c].before
  PROVE  (PutThere(c) => PutThere(c)') /\ (FiledThere(c) => FiledThere(c)')
<1>1. ASSUME NEW e \in Calls, NEW kinds, Answered(e, kinds)
      PROVE  call'[e] = call[e] /\ Answered(e, kinds)'
  BY <1>1, AnswersKept
<1>2. PutThere(c) => PutThere(c)'
  BY <1>1 DEF PutThere
<1>3. FiledThere(c) => FiledThere(c)'
  BY <1>1 DEF FiledThere
<1>4. QED BY <1>2, <1>3

\* The call that deletes goes on.
LEMMA CountGoesOn ==
  ASSUME BaseInv, NEW c \in Calls, CountInv(c), Moving(c) PROVE CountInv(c)'
<1>1. CASE Starting(c)
  <2>1. PICK v \in Call : call' = [call EXCEPT ![c] = v] /\ Started(v)
    BY <1>1 DEF Starting
  <2>2. call'[c] = v
    BY <2>1, CallPut DEF BaseInv
  <2>3. QED BY <2>1, <2>2 DEF CountInv, Started
<1>2. CASE GoingStep(c)
  <2>1. PICK w \in Call : call' = [call EXCEPT ![c] = w] /\ w.kind = call[c].kind
    BY <1>2, CallProceeds DEF BaseInv, Proceeding
  <2>2. call'[c].kind = call[c].kind
    BY <2>1, CallPut DEF BaseInv
  <2> SUFFICES ASSUME call[c].kind = "removeFolder" PROVE CountInv(c)'
    BY <2>2 DEF CountInv
  <2>3. ASSUME Refuse(c) PROVE CountInv(c)'
    <3>1. PICK v \in Call : call' = [call EXCEPT ![c] = v] /\ v.at = "done"
      BY <2>3, RefuseMoves DEF BaseInv
    <3>2. QED BY <3>1, CallPut DEF BaseInv, CountInv
  <2>4. ASSUME Succeed(c) PROVE CountInv(c)'
    <3>1. PICK v \in Call : call' = [call EXCEPT ![c] = v] /\ v.at = "done"
      BY <2>4, SucceedMoves DEF BaseInv
    <3>2. QED BY <3>1, CallPut DEF BaseInv, CountInv
  <2>5. CASE CountContents(c)
    <3>1. ASSUME NEW what \in call[c].rows, NEW next \in {"count", "delete"},
                 Counted(c, what) = {}, Seeing(c, next, call[c].rows \ {what}), Reads,
                 next = "delete" => call[c].rows = {what}
          PROVE  CountInv(c)'
      <4>1. call[c].rows \ {what} \in SUBSET (Label \cup {"folders", "documents"})
        BY DEF BaseInv, RowsOK, Call
      <4>2. PICK v \in Call : /\ call' = [call EXCEPT ![c] = v]
                              /\ Kin(call[c], v) /\ v.at = next
                              /\ v.rows = call[c].rows \ {what}
        BY <3>1, <4>1, SeeingMoves DEF BaseInv, CallSteps
      <4>3. /\ call'[c] = v /\ v.folder = call[c].folder /\ v.before = call[c].before
            /\ v.known = call[c].known
        BY <4>2, CallPut DEF BaseInv, Kin
      <4>4. PICK f, k : f = call[c].folder /\ k = call[c].known
        OBVIOUS
      <4>5. Children(f)' = Children(f) /\ FiledIn(f)' = FiledIn(f)
        BY <3>1 DEF Reads, rows, Children, FiledIn, Live
      <4>6. /\ call[c].rows \subseteq {"folders", "documents"}
            /\ "folders" \notin call[c].rows => Children(f) = {} \/ PutThere(c)
            /\ "documents" \notin call[c].rows => FiledIn(f) \cap k = {} \/ FiledThere(c)
        BY <2>5, <4>4 DEF CountInv, CountContents, At
      <4>7. (PutThere(c) => PutThere(c)') /\ (FiledThere(c) => FiledThere(c)')
        BY <4>3, ComersStay
      <4>8. /\ what = "folders" => Children(f) = {}
            /\ what = "documents" => FiledIn(f) = {}
        BY <3>1, <4>4 DEF Counted
      <4>9. "folders" \notin v.rows => Children(f)' = {} \/ PutThere(c)'
        BY <4>2, <4>5, <4>6, <4>7, <4>8
      <4>10. "documents" \notin v.rows => FiledIn(f)' \cap k = {} \/ FiledThere(c)'
        BY <4>2, <4>5, <4>6, <4>7, <4>8
      <4>11. v.rows \subseteq {"folders", "documents"} /\ (v.at = "delete" => v.rows = {})
        BY <3>1, <4>2, <4>6
      <4>12. call'[c].folder = f /\ call'[c].known = k
        BY <4>3, <4>4
      <4>13. QED BY <4>3, <4>9, <4>10, <4>11, <4>12 DEF CountInv, Children, FiledIn
    <3>2. QED BY <2>3, <2>5, <3>1, CountGoes DEF BaseInv
  <2>6. CASE DeleteFolder(c)
    BY <2>3, <2>4, <2>6 DEF DeleteFolder
  <2>7. QED BY <1>2, <2>5, <2>6, RemoveSteps
<1>3. QED BY <1>1, <1>2 DEF Moving

\* Somebody else's step empties the folder, or is somebody who came.
LEMMA OthersCome ==
  ASSUME BaseInv, NEW c \in Calls, CountInv(c), NEW d \in Calls, d # c, Moving(d)
  PROVE  CountInv(c)'
<1>1. call'[c] = call[c] /\ ~call[d].ok
  BY OthersStay
<1> SUFFICES ASSUME call[c].kind = "removeFolder", call[c].at \in {"count", "delete"}
             PROVE  CountInv(c)'
  BY <1>1 DEF CountInv
<1>2. PICK f \in Folders, k \in SUBSET Docs : f = call[c].folder /\ k = call[c].known
  BY DEF BaseInv, HandInv, Hand, RowsOK, Call
<1>3. d \notin call[c].before
  BY <1>1 DEF BaseInv, HandInv, Hand
<1>4. (PutThere(c) => PutThere(c)') /\ (FiledThere(c) => FiledThere(c)')
  BY <1>1, ComersStay
<1>5. ASSUME \A g \in Children(f)' : g \in Children(f) \/ PutThere(c)',
             \A e \in FiledIn(f)' : e \in FiledIn(f) \/ FiledThere(c)'
      PROVE  CountInv(c)'
  <2>1. Children(f) = {} \/ PutThere(c) => Children(f)' = {} \/ PutThere(c)'
    BY <1>4, <1>5
  <2>2. FiledIn(f) \cap k = {} \/ FiledThere(c) => FiledIn(f)' \cap k = {} \/ FiledThere(c)'
    BY <1>4, <1>5
  <2>3. call'[c].folder = f /\ call'[c].known = k
    BY <1>1, <1>2
  <2>4. QED BY <1>1, <1>2, <2>1, <2>2, <2>3 DEF CountInv, Children, FiledIn
<1>6. ASSUME Succeed(d)
      PROVE  /\ call'[d].ok /\ call'[d].kind = call[d].kind /\ call'[d].docs = call[d].docs
             /\ call'[d].folder = call[d].folder /\ call'[d].parent = call[d].parent
  <2>1. PICK v \in Call : /\ call' = [call EXCEPT ![d] = v] /\ Kin(call[d], v) /\ v.ok
                          /\ v.parent = call[d].parent
    BY <1>6, SucceedMoves DEF BaseInv
  <2>2. QED BY <2>1, CallPut DEF BaseInv, Kin
<1>7. CASE UNCHANGED <<folders, docs>>
  BY <1>5, <1>7 DEF Children, FiledIn, Live
<1>8. ASSUME NEW h \in Folders, NEW p \in Places, Writing(d, h, p) PROVE CountInv(c)'
  <2>1. \A g \in Children(f)' : g \in Children(f) \/ (g = h /\ p = f)
    BY <1>8 DEF Writing, Children, Live
  <2>2. p = f => PutThere(c)'
    <3>1. call'[d].ok /\ call'[d].kind = call[d].kind /\ call'[d].parent = call[d].parent
      BY <1>6, <1>8 DEF Writing
    <3>2. call[d].kind \in Builders /\ call[d].parent = p
      BY <1>8 DEF Writing, Builders
    <3>3. QED BY <1>1, <1>2, <1>3, <3>1, <3>2 DEF PutThere, Answered
  <2>3. FiledIn(f)' = FiledIn(f)
    BY <1>8 DEF Writing, FiledIn
  <2>4. QED BY <1>5, <2>1, <2>2, <2>3
<1>9. ASSUME NEW h \in Folders, Cascading(d, h) PROVE CountInv(c)'
  <2>1. \A g \in Children(f)' : g \in Children(f)
    BY <1>9 DEF Cascading, Children, Live
  <2>2. \A e \in FiledIn(f)' : e \in FiledIn(f)
    BY <1>9, NamesApart DEF Cascading, FiledIn
  <2>3. QED BY <1>5, <2>1, <2>2
<1>10. ASSUME NEW h \in Places, Filing(d, h) PROVE CountInv(c)'
  <2>1. Children(f)' = Children(f)
    BY <1>10 DEF Filing, Children, Live
  <2>2. \A e \in FiledIn(f)' : e \in FiledIn(f) \/ (e \in call[d].docs /\ h = f)
    BY <1>10 DEF Filing, FiledIn
  <2>3. call[d].docs # {} /\ h = f => FiledThere(c)'
    <3>1. /\ call'[d].ok /\ call'[d].kind = call[d].kind /\ call'[d].folder = call[d].folder
          /\ call'[d].docs = call[d].docs
      BY <1>6, <1>10 DEF Filing
    <3>2. call[d].kind \in Filers /\ call[d].folder = h
      BY <1>10 DEF Filing, Filers
    <3>3. QED BY <1>1, <1>2, <1>3, <3>1, <3>2 DEF FiledThere, Answered
  <2>4. QED BY <1>5, <2>1, <2>2, <2>3
<1>11. QED
  BY <1>7, <1>8, <1>9, <1>10, WhatGoes
  DEF BaseInv, Reads, rows, Labelling, Tagging, Starting, Moving

LEMMA RemoveStep == BaseInv /\ RemoveInv /\ WideStep => RemoveInv'
<1> SUFFICES ASSUME BaseInv, RemoveInv, WideStep PROVE RemoveInv'
  OBVIOUS
<1>1. ASSUME NEW c \in Calls, Moving(c) PROVE RemoveInv'
  <2>1. CountInv(c)'
    BY <1>1, CountGoesOn DEF RemoveInv
  <2>2. \A d \in Calls : d # c => CountInv(d)'
    BY <1>1, OthersCome DEF RemoveInv
  <2>3. QED BY <2>1, <2>2 DEF RemoveInv
<1>2. CASE Arriving
  <2>1. UNCHANGED <<folders, call>>
    BY <1>2 DEF Arriving
  <2>2. \A c \in Calls : call[c].known \subseteq Known
    BY DEF BaseInv, HandInv, Hand
  <2>3. ASSUME NEW f, NEW d \in Known, docs'[d].folder = f PROVE d \in FiledIn(f)
    BY <1>2, <2>3 DEF Arriving, FiledIn, Known
  <2>4. ASSUME NEW f, NEW k \in SUBSET Known, FiledIn(f) \cap k = {}
        PROVE  {d \in Docs : docs'[d].folder = f} \cap k = {}
    BY <2>3, <2>4
  <2>5. ASSUME NEW c \in Calls PROVE CountInv(c)'
    <3>1. PICK f, k : f = call[c].folder /\ k = call[c].known /\ k \in SUBSET Known
      BY <2>2
    <3>2. Children(f)' = Children(f)
      BY <2>1 DEF Children, Live
    <3>3. (PutThere(c) => PutThere(c)') /\ (FiledThere(c) => FiledThere(c)')
      BY <2>1 DEF PutThere, FiledThere, Answered
    <3>4. FiledIn(f) \cap k = {} => FiledIn(f)' \cap k = {}
      BY <2>4, <3>1 DEF FiledIn
    <3>5. call'[c] = call[c] /\ CountInv(c)
      BY <2>1 DEF RemoveInv
    <3>6. QED BY <3>1, <3>2, <3>3, <3>4, <3>5 DEF CountInv, Children, FiledIn
  <2>6. QED BY <2>5 DEF RemoveInv
<1>3. QED BY <1>1, <1>2 DEF WideStep

\* What the deletion of a folder, when it is carried out, finds there.
LEMMA RemovalFinds ==
  ASSUME BaseInv, RemoveInv, WideStep, NEW c \in Calls,
         call[c].kind = "removeFolder", ~call[c].ok, call'[c].ok,
         \/ \E g \in Folders : Live(g) /\ folders[g].parent = call[c].folder
         \/ \E d \in Docs : docs[d].folder = call[c].folder
  PROVE  \/ \E d \in Docs \ call[c].known : docs[d].folder = call[c].folder
         \/ \E e \in Calls :
              /\ e \notin call[c].before
              /\ \/ Answered(e, Builders) /\ call[e].parent = call[c].folder
                 \/ /\ Answered(e, Filers)
                    /\ call[e].docs # {} /\ call[e].folder = call[c].folder
<1>1. PICK d \in Calls : Moving(d)
  BY DEF WideStep, Arriving
<1>2. d = c
  BY <1>1, OthersStay
<1>3. ~Starting(c)
  <2> SUFFICES ASSUME Starting(c) PROVE FALSE
    OBVIOUS
  <2>1. PICK v \in Call : call' = [call EXCEPT ![c] = v] /\ Started(v)
    BY DEF Starting
  <2>2. QED BY <2>1, CallPut DEF BaseInv, Started
<1>4. CountContents(c) \/ DeleteFolder(c)
  BY <1>1, <1>2, <1>3, RemoveSteps DEF Moving
<1>5. call[c].at = "delete"
  <2> SUFFICES ASSUME CountContents(c) PROVE FALSE
    BY <1>4 DEF DeleteFolder, At
  <2>1. CASE Refuse(c)
    <3>1. PICK v \in Call : call' = [call EXCEPT ![c] = v] /\ ~v.ok
      BY <2>1, RefuseMoves DEF BaseInv
    <3>2. QED BY <3>1, CallPut DEF BaseInv
  <2>2. ASSUME NEW what \in call[c].rows, NEW next \in {"count", "delete"},
               Seeing(c, next, call[c].rows \ {what})
        PROVE  FALSE
    <3>1. call[c].rows \ {what} \in SUBSET (Label \cup {"folders", "documents"})
      BY  DEF BaseInv, RowsOK, Call
    <3>2. PICK v \in Call : call' = [call EXCEPT ![c] = v] /\ v.ok = call[c].ok
      BY <2>2, <3>1, SeeingMoves DEF BaseInv, CallSteps
    <3>3. QED BY <3>2, CallPut DEF BaseInv
  <2>3. QED BY <2>1, <2>2, CountGoes DEF BaseInv
<1>6. PICK f : f = call[c].folder
  OBVIOUS
<1>7. (Children(f) = {} \/ PutThere(c)) /\ (FiledIn(f) \cap call[c].known = {} \/ FiledThere(c))
  BY <1>5, <1>6 DEF RemoveInv, CountInv
<1>8. Children(f) # {} \/ FiledIn(f) # {}
  BY <1>6 DEF Children, FiledIn
<1>9. CASE PutThere(c) \/ FiledThere(c)
  BY <1>9 DEF PutThere, FiledThere
<1>10. CASE Children(f) = {} /\ FiledIn(f) \cap call[c].known = {}
  BY <1>6, <1>8, <1>10 DEF FiledIn
<1>11. QED BY <1>7, <1>9, <1>10

LEMMA RemoveStart == Init => RemoveInv
BY DEF Init, NoCall, RemoveInv, CountInv

TakesNothingAlong ==
  \A c \in Calls :
       LET f == call[c].folder
       IN  /\ call[c].kind = "removeFolder"
           /\ ~call[c].ok /\ call'[c].ok
           /\ (\E g \in Folders : Live(g) /\ folders[g].parent = f)
              \/ (\E d \in Docs : docs[d].folder = f)
           => \/ \E d \in Docs \ call[c].known : docs[d].folder = f
              \/ \E e \in Calls :
                   /\ e \notin call[c].before
                   /\ \/ Answered(e, {"createFolder", "updateFolder"}) /\ call[e].parent = f
                      \/ /\ Answered(e, {"file", "bulkMove"})
                         /\ call[e].docs # {} /\ call[e].folder = f

LEMMA RemovalTakes == BaseInv /\ RemoveInv /\ WideStep => TakesNothingAlong
BY RemovalFinds DEF TakesNothingAlong, Builders, Filers

\* Deleting a folder takes nothing along: what the cascade finds in the folder,
\* or unfiles, was put or uploaded there while the deletion was under way
\* (FoldersService.remove).
THEOREM NoFolderTakesAlong == Spec => NothingSweptAlong
<1>1. Init => RemoveInv
  BY RemoveStart
<1>2. BaseInv /\ RemoveInv /\ [Next]_vars => RemoveInv'
  BY RemoveStep, NextIsWide
<1>3. BaseInv /\ RemoveInv /\ [Next]_vars => [TakesNothingAlong]_vars
  BY RemovalTakes, NextIsWide
<1>4. QED BY <1>1, <1>2, <1>3, BaseCorrect, PTL
       DEF Spec, NothingSweptAlong, TakesNothingAlong

-----------------------------------------------------------------------------
(* Documents at rest, and replaced labels.                                  *)

DocKinds == {"file", "bulkMove", "setTags", "bulkTags"}

\* The call has made sure that its documents may be changed.
Checked(c) ==
  \/ call[c].kind \in {"file", "setTags"} /\ call[c].at \in {"folder", "file", "tags", "delete", "replace"}
  \/ call[c].kind \in {"bulkMove", "bulkTags"} /\ call[c].at \in {"file", "unlabel", "label"}

\* What it made sure of holds unless the document was frozen since.
FreshInv(c) == Checked(c) => \A d \in call[c].docs : docs[d].status # "active" => c \in late[d]

SeenInv(c) ==
  call[c].kind = "setTags" /\ call[c].at = "replace" =>
    /\ \A l \in call[c].rows : l \in Label => l[1] \in call[c].docs
    /\ \A l \in labels \ call[c].rows : l[1] \in call[c].docs => l[3] \in Calls \ call[c].before

ReplacedInv(c) ==
  Answered(c, {"setTags"}) =>
    \A l \in labels : l[1] \in call[c].docs => l[3] \in Calls \ call[c].before

LabelsInv == \A c \in Calls : FreshInv(c) /\ SeenInv(c) /\ ReplacedInv(c)

LEMMA DocSteps ==
  ASSUME NEW c \in Calls, GoingStep(c), call[c].kind \in DocKinds
  PROVE  \/ ReadDoc(c) \/ ReadFolder(c) \/ Load(c) \/ FileDocs(c) \/ ReadTags(c)
         \/ SeeLabels(c) \/ ReplaceLabels(c) \/ Unlabel(c) \/ LabelAll(c)
<1>1. ~(FindForUpdate(c) \/ Climb(c) \/ AssertNameAvailable(c) \/ WriteFolder(c))
  BY DEF FindForUpdate, Climb, AssertNameAvailable, WriteFolder, At, DocKinds
<1>2. ~(CountContents(c) \/ DeleteFolder(c) \/ CheckTagName(c) \/ InsertTag(c) \/ DeleteTag(c))
  BY DEF CountContents, DeleteFolder, CheckTagName, InsertTag, DeleteTag, At, DocKinds
<1>3. QED BY <1>1, <1>2 DEF GoingStep

\* A call inserts labels of its own only, and they are those of its documents.
LEMMA LabelsGrow ==
  ASSUME BaseInv, NEW c \in Calls, Moving(c)
  PROVE  \A l \in labels' : l \in labels \/ l[3] = c
<1>1. CASE UNCHANGED labels
  BY <1>1
<1>2. CASE ReplaceLabels(c)
  BY <1>2, NewLabels DEF BaseInv, ReplaceLabels, Replaced, Refuse, Reads, rows
<1>3. CASE LabelAll(c)
  BY <1>3, NewLabels DEF BaseInv, LabelAll, Refuse, Reads, rows
<1>4. CASE Unlabel(c)
  BY <1>4 DEF Unlabel
<1>5. CASE InsertTag(c) \/ DeleteTag(c)
  BY <1>5 DEF InsertTag, DeleteTag, Refuse, Reads, rows
<1>6. QED
  BY <1>1, <1>2, <1>3, <1>4, <1>5, WhatGoes
  DEF Moving, BaseInv, Reads, rows, Starting, Writing, Cascading, Filing, Labelling, Tagging

\* A call that has not moved.
LEMMA OthersLabel ==
  ASSUME BaseInv, LabelsInv, NEW d \in Calls, Moving(d), NEW c \in Calls, c # d
  PROVE  FreshInv(c)' /\ SeenInv(c)' /\ ReplacedInv(c)'
<1>1. call'[c] = call[c] /\ ~call[d].ok /\ call[c] \in Call
  BY OthersStay DEF BaseInv, RowsOK
<1>2. call[c].docs \subseteq Docs
  BY <1>1 DEF Call
<1>3. FreshInv(c)'
  BY <1>1, <1>2, StatusKept DEF BaseInv, LabelsInv, FreshInv, Checked
<1>4. d \in Calls \ call[c].before
  BY <1>1 DEF BaseInv, HandInv, Hand
<1>5. \A l \in labels' : l \in labels \/ l[3] \in Calls \ call[c].before
  BY <1>4, LabelsGrow
<1>6. SeenInv(c)'
  BY <1>1, <1>5 DEF LabelsInv, SeenInv
<1>7. ReplacedInv(c)'
  BY <1>1, <1>5 DEF LabelsInv, ReplacedInv, Answered
<1>8. QED BY <1>3, <1>6, <1>7

\* The call that has moved is over, and sets no tags.
LEMMA OverLabel ==
  ASSUME NEW c, call'[c].at = "done", call'[c].ok => call'[c].kind # "setTags"
  PROVE  FreshInv(c)' /\ SeenInv(c)' /\ ReplacedInv(c)'
BY DEF FreshInv, Checked, SeenInv, ReplacedInv, Answered

\* It goes on with documents that may be changed.
LEMMA OwnLabel ==
  ASSUME BaseInv, LabelsInv, NEW c \in Calls, Moving(c), ~call'[c].ok,
         call'[c].at # "replace",
         Checked(c)' => \A d \in call'[c].docs : d \in Docs /\ (docs[d].status # "active" => c \in late[d])
  PROVE  FreshInv(c)' /\ SeenInv(c)' /\ ReplacedInv(c)'
<1>1. FreshInv(c)'
  BY StatusKept DEF BaseInv, FreshInv
<1>2. QED BY <1>1 DEF SeenInv, ReplacedInv, Answered

LEMMA LabelGoesOn ==
  ASSUME BaseInv, LabelsInv, NEW c \in Calls, Moving(c)
  PROVE  FreshInv(c)' /\ SeenInv(c)' /\ ReplacedInv(c)'
<1>c. call[c] \in Call /\ ~call[c].ok /\ call[c].docs \subseteq Docs
  BY OthersStay DEF BaseInv, RowsOK, Call
<1>1. CASE Starting(c)
  <2>1. PICK v \in Call : call' = [call EXCEPT ![c] = v] /\ Started(v)
    BY <1>1 DEF Starting
  <2>2. call'[c] = v
    BY <2>1, CallPut DEF BaseInv
  <2>3. QED BY <2>1, <2>2 DEF FreshInv, Checked, SeenInv, ReplacedInv, Answered, Started
<1>2. CASE GoingStep(c) /\ call[c].kind \notin DocKinds
  <2>1. PICK w \in Call : call' = [call EXCEPT ![c] = w] /\ w.kind = call[c].kind
    BY <1>2, CallProceeds DEF BaseInv, Proceeding
  <2>2. call'[c].kind = call[c].kind
    BY <2>1, CallPut DEF BaseInv
  <2>3. QED BY <1>2, <2>2 DEF FreshInv, Checked, SeenInv, ReplacedInv, Answered, DocKinds
<1>refused. Refuse(c) => FreshInv(c)' /\ SeenInv(c)' /\ ReplacedInv(c)'
  <2> SUFFICES ASSUME Refuse(c) PROVE FreshInv(c)' /\ SeenInv(c)' /\ ReplacedInv(c)'
    OBVIOUS
  <2>1. PICK v \in Call : call' = [call EXCEPT ![c] = v] /\ v.at = "done" /\ ~v.ok
    BY RefuseMoves DEF BaseInv
  <2>2. call'[c].at = "done" /\ ~call'[c].ok
    BY <2>1, CallPut DEF BaseInv
  <2>3. QED BY <2>2, OverLabel
<1>succeeded. Succeed(c) /\ call[c].kind # "setTags" => FreshInv(c)' /\ SeenInv(c)' /\ ReplacedInv(c)'
  <2> SUFFICES ASSUME Succeed(c), call[c].kind # "setTags"
               PROVE  FreshInv(c)' /\ SeenInv(c)' /\ ReplacedInv(c)'
    OBVIOUS
  <2>1. PICK v \in Call : call' = [call EXCEPT ![c] = v] /\ v.at = "done" /\ Kin(call[c], v)
    BY SucceedMoves DEF BaseInv
  <2>2. call'[c].at = "done" /\ call'[c].kind # "setTags"
    BY <2>1, CallPut DEF BaseInv, Kin
  <2>3. QED BY <2>2, OverLabel
<1>goto. ASSUME NEW next \in CallSteps \ {"replace", "done"}, Goto(c, next),
                \/ \A d \in call[c].docs : docs[d].status # "active" => c \in late[d]
                \/ call[c].kind \in {"bulkMove", "bulkTags"} /\ next = "load"
         PROVE  FreshInv(c)' /\ SeenInv(c)' /\ ReplacedInv(c)'
  <2>1. PICK v \in Call : /\ call' = [call EXCEPT ![c] = v] /\ v.at = next
                          /\ Kin(call[c], v) /\ v.ok = call[c].ok
    BY <1>goto, GotoMoves DEF BaseInv
  <2>2. call'[c] = v
    BY <2>1, CallPut DEF BaseInv
  <2>3. Checked(c)' => \A d \in v.docs : d \in Docs /\ (docs[d].status # "active" => c \in late[d])
    BY <1>c, <1>goto, <2>1, <2>2 DEF Checked, Kin
  <2>4. QED BY <1>c, <1>goto, <2>1, <2>2, <2>3, OwnLabel
<1>checked. Checked(c) => \A d \in call[c].docs : docs[d].status # "active" => c \in late[d]
  BY DEF LabelsInv, FreshInv
<1>3. CASE ReadDoc(c)
  <2>1. AfterDoc(c) \in {"tags", "file", "folder"}
    BY DEF AfterDoc
  <2>2. Refuse(c) \/ (Goto(c, AfterDoc(c)) /\ \A d \in call[c].docs : Changeable(d))
    BY <1>3 DEF ReadDoc, Check
  <2>3. QED BY <1>refused, <1>goto, <2>1, <2>2 DEF Changeable, CallSteps
<1>4. CASE ReadFolder(c)
  <2>1. \/ Refuse(c)
        \/ call[c].kind = "file" /\ Checked(c) /\ Goto(c, "file")
        \/ call[c].kind = "bulkMove" /\ Goto(c, "load")
    BY <1>4 DEF ReadFolder, Check, Checked, At
  <2>2. QED BY <1>refused, <1>goto, <1>checked, <2>1 DEF CallSteps
<1>5. CASE ReadTags(c)
  <2>1. \/ Refuse(c)
        \/ call[c].kind = "setTags" /\ Checked(c) /\ Goto(c, "delete")
        \/ call[c].kind = "bulkTags" /\ Goto(c, "load")
    BY <1>5 DEF ReadTags, Check, Checked, At
  <2>2. QED BY <1>refused, <1>goto, <1>checked, <2>1 DEF CallSteps
<1>6. CASE Load(c)
  <2>at. call[c].kind \in {"bulkMove", "bulkTags"}
    BY <1>6 DEF Load, At
  <2>1. PICK next \in {"done", "file", "unlabel", "label"}, over \in BOOLEAN :
           /\ Loading(c, Eligible(c), next, over)
           /\ Eligible(c) \in SUBSET Docs
           /\ over <=> next = "done"
    BY <1>6, LoadGoes DEF BaseInv
  <2>2. PICK v \in Call : /\ call' = [call EXCEPT ![c] = v]
                          /\ v.kind = call[c].kind /\ v.docs = Eligible(c)
                          /\ v.at = next /\ v.ok = over
    <3>1. next \in CallSteps
      BY <2>1 DEF CallSteps
    <3>2. QED BY <2>1, <3>1, LoadingMoves DEF BaseInv
  <2>3. call'[c] = v
    BY <2>2, CallPut DEF BaseInv
  <2>4. CASE next = "done"
    BY <2>at, <2>2, <2>3, <2>4, OverLabel
  <2>5. CASE next # "done"
    <3>1. \A d \in v.docs : d \in Docs /\ docs[d].status = "active"
      BY <2>1, <2>2 DEF Eligible, Changeable
    <3>2. QED BY <2>1, <2>2, <2>3, <2>5, <3>1, OwnLabel
  <2>6. QED BY <2>4, <2>5
<1>7. CASE FileDocs(c)
  BY <1>7, <1>refused, <1>succeeded DEF FileDocs, At
<1>8. CASE SeeLabels(c)
  <2>1. Seeing(c, "replace", LabelsOf(call[c].docs)) /\ Checked(c) /\ UNCHANGED labels
    BY <1>8, <1>c DEF SeeLabels, Seeing, BaseInv, RowsOK, Checked, At, Reads, rows
  <2>2. PICK v \in Call : /\ call' = [call EXCEPT ![c] = v]
                          /\ Kin(call[c], v) /\ v.at = "replace" /\ v.ok = call[c].ok
                          /\ v.rows = LabelsOf(call[c].docs)
    BY <2>1, SeenLabels, SeeingMoves DEF BaseInv, CallSteps
  <2>3. call'[c] = v
    BY <2>2, CallPut DEF BaseInv
  <2>4. FreshInv(c)'
    BY <1>c, <1>checked, <2>1, <2>2, <2>3, StatusKept DEF BaseInv, FreshInv, Kin
  <2>5. SeenInv(c)'
    BY <2>1, <2>2, <2>3 DEF SeenInv, LabelsOf, Kin
  <2>6. ReplacedInv(c)'
    BY <1>c, <2>2, <2>3 DEF ReplacedInv, Answered
  <2>7. QED BY <2>4, <2>5, <2>6
<1>9. CASE ReplaceLabels(c)
  <2>at. call[c].kind = "setTags" /\ call[c].at = "replace"
    BY <1>9 DEF ReplaceLabels, At
  <2>1. ASSUME Succeed(c), labels' = Replaced(call[c].rows, New(c))
        PROVE  FreshInv(c)' /\ SeenInv(c)' /\ ReplacedInv(c)'
    <3>1. PICK v \in Call : call' = [call EXCEPT ![c] = v] /\ v.at = "done" /\ Kin(call[c], v)
      BY <2>1, SucceedMoves DEF BaseInv
    <3>2. call'[c] = v /\ v.docs = call[c].docs /\ v.before = call[c].before
      BY <3>1, CallPut DEF BaseInv, Kin
    <3>3. c \in Calls \ call[c].before
      BY <1>c DEF BaseInv, HandInv, Hand
    <3>4. \A l \in labels' : l[1] \in call[c].docs => l[3] \in Calls \ call[c].before
      BY <2>at, <2>1, <3>3, NewLabels DEF BaseInv, LabelsInv, SeenInv, Replaced
    <3>5. QED BY <3>1, <3>2, <3>4 DEF FreshInv, Checked, SeenInv, ReplacedInv
  <2>2. QED BY <1>9, <1>refused, <2>1 DEF ReplaceLabels
<1>10. CASE Unlabel(c)
  <2>1. call[c].kind = "bulkTags" /\ Checked(c)
    BY <1>10 DEF Unlabel, At, Checked
  <2>2. Succeed(c) \/ Goto(c, "label")
    BY <1>10 DEF Unlabel
  <2>3. QED BY <1>succeeded, <1>goto, <1>checked, <2>1, <2>2 DEF CallSteps
<1>11. CASE LabelAll(c)
  BY <1>11, <1>refused, <1>succeeded DEF LabelAll, At
<1>12. QED
  BY <1>1, <1>2, <1>3, <1>4, <1>5, <1>6, <1>7, <1>8, <1>9, <1>10, <1>11, DocSteps DEF Moving

LEMMA LabelsStep == BaseInv /\ LabelsInv /\ WideStep => LabelsInv'
<1> SUFFICES ASSUME BaseInv, LabelsInv, WideStep PROVE LabelsInv'
  OBVIOUS
<1>1. ASSUME NEW c \in Calls, Moving(c) PROVE LabelsInv'
  <2>1. FreshInv(c)' /\ SeenInv(c)' /\ ReplacedInv(c)'
    BY <1>1, LabelGoesOn
  <2>2. \A d \in Calls : d # c => FreshInv(d)' /\ SeenInv(d)' /\ ReplacedInv(d)'
    BY <1>1, OthersLabel
  <2>3. QED BY <2>1, <2>2 DEF LabelsInv
<1>2. CASE Arriving
  <2>1. UNCHANGED <<labels, call>>
    BY <1>2 DEF Arriving
  <2>2. ASSUME NEW c \in Calls PROVE FreshInv(c)'
    <3>1. Checked(c) => UnderWay(c)
      BY DEF Checked, UnderWay
    <3>2. call[c].docs \subseteq Docs
      BY DEF BaseInv, RowsOK, Call
    <3>3. Checked(c)' => Checked(c)
      BY <2>1 DEF Checked
    <3>4. ASSUME Checked(c), NEW d \in call[c].docs, docs'[d].status # "active"
          PROVE  c \in late'[d]
      BY <1>2, <3>1, <3>2, <3>4 DEF Arriving, LabelsInv, FreshInv
    <3>5. QED BY <2>1, <3>3, <3>4 DEF FreshInv
  <2>3. \A c \in Calls : SeenInv(c)' /\ ReplacedInv(c)'
    BY <2>1 DEF LabelsInv, SeenInv, ReplacedInv, Answered
  <2>4. QED BY <2>2, <2>3 DEF LabelsInv
<1>3. QED BY <1>1, <1>2 DEF WideStep

LEMMA LabelsStart == Init => LabelsInv
BY DEF Init, NoCall, LabelsInv, FreshInv, Checked, SeenInv, ReplacedInv, Answered

LEMMA LabelsSuffice == LabelsInv => ReplacementReplaces
BY DEF LabelsInv, ReplacedInv, ReplacementReplaces

LEMMA LabelsCorrect == Spec => [](BaseInv /\ LabelsInv)
<1>1. Init => LabelsInv
  BY LabelsStart
<1>2. BaseInv /\ LabelsInv /\ [Next]_vars => LabelsInv'
  BY LabelsStep, NextIsWide
<1>3. QED BY <1>1, <1>2, BaseCorrect, PTL DEF Spec

\* Setting a document's tags leaves none of the labels it had: what is found
\* beside them was attached by a call under way at the same time, or later
\* (TagsService.setForDocument).
THEOREM TagsAreReplaced == Spec => []ReplacementReplaces
<1>1. LabelsInv => ReplacementReplaces
  BY LabelsSuffice
<1>2. QED BY <1>1, LabelsCorrect, PTL

\* A call changes the place and the labels of its own documents only, once it
\* has made sure that they may be changed.
LEMMA ChangesItsOwn ==
  ASSUME BaseInv, LabelsInv, NEW c \in Calls, Moving(c), call[c].kind \in DocKinds,
         NEW d \in Docs,
         \/ docs'[d].folder # docs[d].folder
         \/ {l \in labels' : l[1] = d} # {l \in labels : l[1] = d}
  PROVE  Checked(c) /\ d \in call[c].docs
<1>1. GoingStep(c)
  <2>1. ~Starting(c)
    BY DEF BaseInv, Starting, HandInv, Hand, DocKinds
  <2>2. QED BY <2>1 DEF Moving
<1>2. ~UNCHANGED <<docs, labels>>
  OBVIOUS
<1>3. CASE FileDocs(c)
  <2>1. PICK f \in Places : Filing(c, f)
    BY <1>2, <1>3, FileGoes DEF BaseInv, Refuse, Reads, rows
  <2>2. QED BY <2>1 DEF Filing, Checked
<1>4. CASE ReplaceLabels(c)
  <2>1. Checked(c) /\ call[c].kind = "setTags" /\ call[c].at = "replace"
    BY <1>4 DEF ReplaceLabels, At, Checked
  <2>2. labels' = Replaced(call[c].rows, New(c)) /\ UNCHANGED docs
    BY <1>2, <1>4 DEF ReplaceLabels, Refuse, Reads, rows
  <2>3. labels \subseteq Label
    BY DEF BaseInv, RowsOK
  <2>4. d \notin call[c].docs => {l \in labels' : l[1] = d} = {l \in labels : l[1] = d}
    BY <2>1, <2>2, <2>3, NewLabels DEF BaseInv, LabelsInv, SeenInv, Replaced
  <2>5. QED BY <2>1, <2>2, <2>4
<1>5. CASE Unlabel(c)
  <2>1. Checked(c)
    BY <1>5 DEF Unlabel, At, Checked
  <2>2. d \notin call[c].docs => {l \in labels' : l[1] = d} = {l \in labels : l[1] = d}
    BY <1>5 DEF Unlabel
  <2>3. QED BY <1>5, <2>1, <2>2 DEF Unlabel
<1>6. CASE LabelAll(c)
  <2>1. Checked(c)
    BY <1>6 DEF LabelAll, At, Checked
  <2>2. /\ labels' = labels \cup {l \in New(c) : \A m \in labels : ~Same(l, m)}
        /\ UNCHANGED docs
    BY <1>2, <1>6 DEF LabelAll, Refuse, Reads, rows
  <2>3. d \notin call[c].docs => {l \in labels' : l[1] = d} = {l \in labels : l[1] = d}
    BY <2>2, NewLabels DEF BaseInv
  <2>4. QED BY <2>1, <2>2, <2>3
<1>7. CASE ReadDoc(c) \/ ReadFolder(c) \/ ReadTags(c)
  BY <1>2, <1>7 DEF ReadDoc, ReadFolder, ReadTags, Check, Refuse, Reads, rows
<1>8. CASE Load(c) \/ SeeLabels(c)
  BY <1>2, <1>8 DEF Load, SeeLabels, Reads, rows
<1>9. QED BY <1>1, <1>3, <1>4, <1>5, <1>6, <1>7, <1>8, DocSteps

LEMMA FrozenIsLate ==
  ASSUME BaseInv, LabelsInv, WideStep, NEW c \in Calls, NEW d \in Docs,
         call[c].kind \in DocKinds, call'[c] # call[c], docs[d].status # "active",
         \/ docs'[d].folder # docs[d].folder
         \/ {l \in labels' : l[1] = d} # {l \in labels : l[1] = d}
  PROVE  c \in late[d]
<1>1. PICK e \in Calls : Moving(e)
  BY DEF WideStep, Arriving
<1>2. e = c
  BY <1>1, OthersStay
<1>3. Checked(c) /\ d \in call[c].docs
  BY <1>1, <1>2, ChangesItsOwn
<1>4. QED BY <1>3 DEF LabelsInv, FreshInv

ChangesLate ==
  \A c \in Calls, d \in Docs :
       /\ call[c].kind \in {"file", "bulkMove", "setTags", "bulkTags"}
       /\ call'[c] # call[c]
       /\ docs[d].status # "active"
       /\ \/ docs'[d].folder # docs[d].folder
          \/ {l \in labels' : l[1] = d} # {l \in labels : l[1] = d}
       => c \in late[d]

LEMMA OnlyLateChange == BaseInv /\ LabelsInv /\ WideStep => ChangesLate
BY FrozenIsLate DEF ChangesLate, DocKinds

\* A document that is archived or in the trash keeps its folder and its labels,
\* but for a call that was already under way when it got there
\* (assertWritable, and BulkDocumentsService.partition).
THEOREM FrozenDocumentsStay == Spec => FrozenStays
<1>1. BaseInv /\ LabelsInv /\ [Next]_vars => [ChangesLate]_vars
  BY OnlyLateChange, NextIsWide
<1>2. QED BY <1>1, LabelsCorrect, PTL DEF Spec, FrozenStays, ChangesLate

-----------------------------------------------------------------------------
(* The page: the items of a sequence at some of its places.                 *)

\* A set of numbers with 0, and with the next of each of its own, has them all.
LEMMA EveryNumber ==
  ASSUME NEW T \in SUBSET Nat, 0 \in T, \A n \in T : n + 1 \in T
  PROVE  T = Nat
<1> DEFINE R == {ss \in Nat \X Nat : ss[1] < ss[2]}
<1> SUFFICES ASSUME Nat \ T # {} PROVE FALSE
  OBVIOUS
<1>1. IsWellFoundedOn(R, Nat)
  BY NatLessThanWellFounded, Zenon DEF OpToRel
<1> HIDE DEF R
<1>2. PICK m \in Nat \ T : \A k \in Nat \ T : ~(<<k, m>> \in R)
  <2>1. Nat \ T \subseteq Nat
    OBVIOUS
  <2>2. QED BY <1>1, <2>1, WFMin, Zenon
<1>3. m - 1 \in Nat /\ m - 1 < m
  OBVIOUS
<1>4. <<m - 1, m>> \in R
  BY <1>3 DEF R
<1>5. m - 1 \in T
  BY <1>2, <1>3, <1>4
<1>6. m - 1 + 1 = m
  OBVIOUS
<1>7. QED BY <1>5, <1>6

\* Those of a set of places that are not after m.
UpTo(places, m) == {j \in places : j <= m}

LEMMA UpToCounts ==
  ASSUME NEW n \in Nat, NEW places \in SUBSET (1..n)
  PROVE  /\ Cardinality(places) \in Nat
         /\ \A m \in Nat : /\ Cardinality(UpTo(places, m)) \in Nat
                           /\ Cardinality(UpTo(places, m)) <= Cardinality(places)
         /\ \A l, m \in Nat : l <= m => Cardinality(UpTo(places, l)) <= Cardinality(UpTo(places, m))
         /\ \A m \in Nat : m + 1 \in places =>
              Cardinality(UpTo(places, m + 1)) = Cardinality(UpTo(places, m)) + 1
         /\ \A m \in Nat : m + 1 \notin places =>
              Cardinality(UpTo(places, m + 1)) = Cardinality(UpTo(places, m))
         /\ Cardinality(UpTo(places, 0)) = 0
         /\ Cardinality(UpTo(places, n)) = Cardinality(places)
<1>0. \A j \in places : j \in Nat /\ 1 <= j /\ j <= n
  OBVIOUS
<1>1. IsFiniteSet(1..n) /\ \A S \in SUBSET (1..n) : IsFiniteSet(S) /\ Cardinality(S) \in Nat
  <2>1. IsFiniteSet(1..n)
    BY FS_Interval
  <2>2. QED BY <2>1, FS_Subset, FS_CardinalityType
<1>2. \A S, T \in SUBSET (1..n) : S \subseteq T => Cardinality(S) <= Cardinality(T)
  BY <1>1, FS_Subset
<1>3. \A m \in Nat : UpTo(places, m) \in SUBSET (1..n) /\ UpTo(places, m) \subseteq places
  BY DEF UpTo
<1>4. \A l, m \in Nat : l <= m => UpTo(places, l) \subseteq UpTo(places, m)
  <2>1. ASSUME NEW l \in Nat, NEW m \in Nat, l <= m, NEW j \in places, j <= l PROVE j <= m
    BY <1>0, <2>1
  <2>2. QED BY <2>1 DEF UpTo
<1>5. ASSUME NEW m \in Nat, m + 1 \in places
      PROVE  Cardinality(UpTo(places, m + 1)) = Cardinality(UpTo(places, m)) + 1
  <2>1. UpTo(places, m + 1) = UpTo(places, m) \cup {m + 1} /\ m + 1 \notin UpTo(places, m)
    <3>1. \A j \in places : j <= m + 1 <=> j <= m \/ j = m + 1
      BY <1>0
    <3>2. ~(m + 1 <= m) /\ m + 1 <= m + 1
      OBVIOUS
    <3>3. QED BY <1>5, <3>1, <3>2 DEF UpTo
  <2>2. IsFiniteSet(UpTo(places, m))
    BY <1>1, <1>3
  <2>3. QED BY <2>1, <2>2, FS_AddElement
<1>6. \A m \in Nat : m + 1 \notin places => UpTo(places, m + 1) = UpTo(places, m)
  <2>1. \A m \in Nat, j \in places : j <= m + 1 /\ j # m + 1 <=> j <= m
    BY <1>0
  <2>2. QED BY <2>1 DEF UpTo
<1>7. UpTo(places, 0) = {} /\ UpTo(places, n) = places
  <2>1. \A j \in places : j <= n /\ ~(j <= 0)
    BY <1>0
  <2>2. QED BY <2>1 DEF UpTo
<1>8. Cardinality({}) = 0
  BY FS_EmptySet
<1>9. QED
  <2>1. \A m \in Nat : /\ Cardinality(UpTo(places, m)) \in Nat
                       /\ Cardinality(UpTo(places, m)) <= Cardinality(places)
    BY <1>1, <1>2, <1>3
  <2>2. \A l, m \in Nat : l <= m => Cardinality(UpTo(places, l)) <= Cardinality(UpTo(places, m))
    BY <1>2, <1>3, <1>4
  <2>3. QED BY <1>1, <1>5, <1>6, <1>7, <1>8, <2>1, <2>2

\* The k-th of the places is there, and the others are counted to their own.
LEMMA NthIs ==
  ASSUME NEW n \in Nat, NEW places \in SUBSET (1..n)
  PROVE  /\ \A k \in 1..Cardinality(places) :
              /\ NthOf(places, k) \in places
              /\ Cardinality(UpTo(places, NthOf(places, k))) = k
         /\ \A i \in places : /\ Cardinality(UpTo(places, i)) \in 1..Cardinality(places)
                              /\ NthOf(places, Cardinality(UpTo(places, i))) = i
<1> DEFINE C(m) == Cardinality(UpTo(places, m))
           T == {m \in Nat : \A k \in 1..C(m) : \E i \in places : C(i) = k}
<1>1. C(0) = 0 /\ C(n) = Cardinality(places) /\ \A m \in Nat : C(m) \in Nat
  BY UpToCounts
<1>2. 0 \in T
  BY <1>1
<1>3. ASSUME NEW m \in T PROVE m + 1 \in T
  <2>1. CASE m + 1 \in places
    <3>1. C(m + 1) = C(m) + 1
      <4>1. \A l \in Nat : l + 1 \in places => C(l + 1) = C(l) + 1
        BY UpToCounts
      <4>2. m \in Nat
        OBVIOUS
      <4>3. QED BY <2>1, <4>1, <4>2
    <3>2. \A k \in 1..C(m + 1) : k \in 1..C(m) \/ k = C(m + 1)
      BY <1>1, <3>1
    <3>3. QED BY <2>1, <3>2
  <2>2. CASE m + 1 \notin places
    <3>1. C(m + 1) = C(m)
      <4>1. \A l \in Nat : l + 1 \notin places => C(l + 1) = C(l)
        BY UpToCounts
      <4>2. m \in Nat
        OBVIOUS
      <4>3. QED BY <2>2, <4>1, <4>2
    <3>2. QED BY <3>1
  <2>3. QED BY <2>1, <2>2
<1>4. n \in T
  BY <1>2, <1>3, EveryNumber
<1>5. ASSUME NEW k \in 1..Cardinality(places)
      PROVE  NthOf(places, k) \in places /\ C(NthOf(places, k)) = k
  <2>1. \E i \in places : Cardinality({j \in places : j <= i}) = k
    BY <1>1, <1>4 DEF UpTo
  <2>2. QED BY <2>1 DEF NthOf, UpTo
<1>6. ASSUME NEW i \in places, NEW j \in places, i < j PROVE C(i) < C(j)
  <2>1. PICK m \in Nat : j = m + 1
    <3>1. j - 1 \in Nat /\ j = (j - 1) + 1
      OBVIOUS
    <3>2. QED BY <3>1
  <2>2. i \in Nat /\ i <= m
    BY <1>6, <2>1
  <2>3. C(j) = C(m) + 1
    <3>1. \A l \in Nat : l + 1 \in places => C(l + 1) = C(l) + 1
      BY UpToCounts
    <3>2. QED BY <2>1, <3>1
  <2>4. C(i) <= C(m)
    BY <2>1, <2>2, UpToCounts
  <2>5. QED BY <1>1, <2>1, <2>2, <2>3, <2>4
<1>7. ASSUME NEW i \in places PROVE C(i) \in 1..Cardinality(places) /\ NthOf(places, C(i)) = i
  <2>1. PICK m \in Nat : i = m + 1
    <3>1. i - 1 \in Nat /\ i = (i - 1) + 1
      OBVIOUS
    <3>2. QED BY <3>1
  <2>2. C(i) = C(m) + 1 /\ C(i) <= Cardinality(places) /\ C(m) \in Nat /\ Cardinality(places) \in Nat
    BY <2>1, UpToCounts
  <2>3. C(i) \in 1..Cardinality(places)
    BY <2>2
  <2>4. NthOf(places, C(i)) \in places /\ C(NthOf(places, C(i))) = C(i)
    BY <1>5, <2>3
  <2>5. QED
    <3>1. PICK j \in places : j = NthOf(places, C(i)) /\ C(j) = C(i)
      BY <2>4
    <3>2. ~(i < j) /\ ~(j < i)
      BY <1>1, <1>6, <3>1
    <3>3. QED BY <2>3, <3>1, <3>2
<1>8. QED BY <1>5, <1>7

\* What is kept of a sequence.
LEMMA KeptIs ==
  ASSUME NEW S, NEW seq \in Seq(S), NEW places \in SUBSET (DOMAIN seq)
  PROVE  /\ Kept(seq, places) \in Seq(S)
         /\ Len(Kept(seq, places)) = Cardinality(places)
         /\ \A i \in places : /\ Cardinality(UpTo(places, i)) \in 1..Cardinality(places)
                              /\ Kept(seq, places)[Cardinality(UpTo(places, i))] = seq[i]
         /\ \A k \in 1..Cardinality(places) :
              \E i \in places : Kept(seq, places)[k] = seq[i] /\ Cardinality(UpTo(places, i)) = k
<1>1. PICK n \in Nat : DOMAIN seq = 1..n
  OBVIOUS
<1>2. places \in SUBSET (1..n) /\ Cardinality(places) \in Nat
  BY <1>1, UpToCounts
<1>3. \A k \in 1..Cardinality(places) :
        /\ NthOf(places, k) \in places
        /\ Cardinality(UpTo(places, NthOf(places, k))) = k
  BY <1>2, NthIs
<1>4. \A i \in places : /\ Cardinality(UpTo(places, i)) \in 1..Cardinality(places)
                        /\ NthOf(places, Cardinality(UpTo(places, i))) = i
  BY <1>2, NthIs
<1>5. Kept(seq, places) \in Seq(S) /\ Len(Kept(seq, places)) = Cardinality(places)
  BY <1>1, <1>2, <1>3 DEF Kept
<1>6. \A k \in 1..Cardinality(places) : Kept(seq, places)[k] = seq[NthOf(places, k)]
  BY DEF Kept
<1>7. QED BY <1>3, <1>4, <1>5, <1>6

-----------------------------------------------------------------------------
(* The page: what one answer of the server covers.                          *)

\* Every wanted document after from, and not after more, is in the sequence.
Covers(seq, from, more, wanted) ==
  \A i \in DOMAIN Newest :
    /\ Newest[i] \in wanted
    /\ from = None \/ i > PlaceOf(from)
    /\ more = None \/ i <= PlaceOf(more)
    => Newest[i] \in RowDocs(seq)

LEMMA NewestIs ==
  /\ Newest \in Seq(Docs) /\ None \notin Docs
  /\ \A i \in DOMAIN Newest : Newest[i] \in Docs /\ PlaceOf(Newest[i]) = i
  /\ \A d \in Docs : PlaceOf(d) \in DOMAIN Newest /\ Newest[PlaceOf(d)] = d
<1>1. Newest \in Seq(Docs) /\ None \notin Docs
  BY NewestAssumption
<1>2. \A d \in Docs : \E i \in DOMAIN Newest : Newest[i] = d
  BY NewestAssumption DEF Range
<1>3. \A i, j \in DOMAIN Newest : Newest[i] = Newest[j] => i = j
  BY NewestAssumption DEF IsInjective
<1>4. \A d \in Docs : PlaceOf(d) \in DOMAIN Newest /\ Newest[PlaceOf(d)] = d
  BY <1>2 DEF PlaceOf
<1>5. \A i \in DOMAIN Newest : Newest[i] \in Docs
  BY <1>1
<1>6. QED BY <1>1, <1>3, <1>4, <1>5

\* What keyset pagination finds among the places of a list.
FoundAt(places, cursor) ==
  LET found == Kept(Newest, {i \in places : i >= IF cursor = None THEN 1 ELSE PlaceOf(cursor)})
  IN  IF cursor = None \/ found = <<>> THEN found ELSE Tail(found)

LEMMA FoundTyped ==
  ASSUME NEW places \in SUBSET (DOMAIN Newest), NEW cursor
  PROVE  FoundAt(places, cursor) \in Seq(Docs)
<1>1. PICK from : from = IF cursor = None THEN 1 ELSE PlaceOf(cursor)
  OBVIOUS
<1>2. PICK found \in Seq(Docs) : found = Kept(Newest, {i \in places : i >= from})
  BY KeptIs, NewestIs
<1>3. found # <<>> => Tail(found) \in Seq(Docs)
  OBVIOUS
<1>4. QED BY <1>1, <1>2, <1>3 DEF FoundAt

\* What is found is in the order of the list: rank i is where the document of
\* the place i has got to.
Ranks(found, places, rank) ==
  /\ \A i \in places : rank[i] \in 1..Len(found) /\ found[rank[i]] = Newest[i]
  /\ \A i, j \in places : i <= j => rank[i] <= rank[j]
  /\ \A k \in 1..Len(found) : \E i \in places : rank[i] = k

LEMMA FoundRanks ==
  ASSUME NEW places \in SUBSET (DOMAIN Newest), NEW cursor \in Docs \cup {None},
         cursor # None => PlaceOf(cursor) \in places
  PROVE  \E rank : Ranks(FoundAt(places, cursor),
                         {i \in places : cursor = None \/ i > PlaceOf(cursor)}, rank)
<1>1. PICK n \in Nat : DOMAIN Newest = 1..n
  BY NewestIs
<1>2. \A i \in places : i \in Nat /\ 1 <= i /\ i <= n
  BY <1>1
<1>3. CASE cursor = None
  <2>1. {i \in places : i >= 1} = places /\ {i \in places : cursor = None \/ i > PlaceOf(cursor)} = places
    BY <1>2, <1>3
  <2>2. FoundAt(places, cursor) = Kept(Newest, places)
    BY <1>3, <2>1 DEF FoundAt
  <2>3. PICK found : found = Kept(Newest, places)
    OBVIOUS
  <2>4. PICK rank : rank = [i \in places |-> Cardinality(UpTo(places, i))]
    OBVIOUS
  <2>5. /\ Len(found) = Cardinality(places)
        /\ \A i \in places : rank[i] \in 1..Len(found) /\ found[rank[i]] = Newest[i]
        /\ \A k \in 1..Len(found) : \E i \in places : rank[i] = k
    BY <2>3, <2>4, KeptIs, NewestIs
  <2>6. \A i, j \in places : i <= j => rank[i] <= rank[j]
    <3>1. \A l, m \in Nat : l <= m => Cardinality(UpTo(places, l)) <= Cardinality(UpTo(places, m))
      BY <1>1, UpToCounts
    <3>2. QED BY <1>2, <2>4, <3>1
  <2>7. QED BY <2>1, <2>2, <2>3, <2>5, <2>6 DEF Ranks
<1>4. CASE cursor # None
  <2>1. PICK p \in places : p = PlaceOf(cursor)
    BY <1>4
  <2>2. PICK sel \in SUBSET places : sel = {i \in places : i >= p}
    OBVIOUS
  <2>3. PICK after \in SUBSET sel : after = {i \in places : i > p}
    <3>1. \A i \in places : i > p => i >= p
      BY <1>2
    <3>2. QED BY <2>2, <3>1
  <2>4. PICK found \in Seq(Docs) : found = Kept(Newest, sel)
    BY KeptIs, NewestIs
  <2>5. PICK count : count = [i \in sel |-> Cardinality(UpTo(sel, i))]
    OBVIOUS
  <2>6. /\ Len(found) = Cardinality(sel)
        /\ \A i \in sel : count[i] \in 1..Len(found) /\ found[count[i]] = Newest[i]
        /\ \A k \in 1..Len(found) : \E i \in sel : count[i] = k
    BY <2>4, <2>5, KeptIs, NewestIs
  <2>7. p \in sel /\ p \in Nat
    BY <1>2, <2>2
  <2>8. \A i, j \in sel : i <= j => count[i] <= count[j]
    <3>1. sel \in SUBSET (1..n)
      BY <1>1
    <3>2. \A l, m \in Nat : l <= m => Cardinality(UpTo(sel, l)) <= Cardinality(UpTo(sel, m))
      BY <3>1, UpToCounts
    <3>3. QED BY <1>2, <2>5, <3>2
  <2>9. count[p] = 1
    <3>1. UpTo(sel, p) = {p}
      <4>1. \A i \in sel : i <= p <=> i = p
        BY <1>2, <2>2, <2>7
      <4>2. QED BY <2>7, <4>1 DEF UpTo
    <3>2. QED BY <2>5, <2>7, <3>1, FS_Singleton
  <2>10. ASSUME NEW i \in after PROVE count[i] > 1
    <3>1. i \in sel /\ i \in Nat /\ i > p
      BY <1>2, <2>3
    <3>2. PICK m \in Nat : i = m + 1 /\ p <= m
      <4>1. i - 1 \in Nat /\ i = (i - 1) + 1 /\ p <= i - 1
        BY <2>7, <3>1
      <4>2. QED BY <4>1
    <3>3. Cardinality(UpTo(sel, m + 1)) = Cardinality(UpTo(sel, m)) + 1
      <4>1. sel \in SUBSET (1..n) /\ m + 1 \in sel
        BY <1>1, <3>1, <3>2
      <4>2. QED BY <4>1, UpToCounts
    <3>4. Cardinality(UpTo(sel, p)) <= Cardinality(UpTo(sel, m)) /\ Cardinality(UpTo(sel, m)) \in Nat
      BY <1>1, <2>7, <3>2, UpToCounts
    <3>5. count[p] = Cardinality(UpTo(sel, p)) /\ count[i] = Cardinality(UpTo(sel, m + 1))
      BY <2>5, <2>7, <3>1, <3>2
    <3>6. QED BY <2>9, <3>3, <3>4, <3>5
  <2>11. found # <<>> /\ Tail(found) \in Seq(Docs) /\ Len(Tail(found)) = Len(found) - 1
    BY <2>6, <2>7
  <2>12. FoundAt(places, cursor) = Tail(found)
    BY <1>4, <2>1, <2>2, <2>4, <2>11 DEF FoundAt
  <2>13. PICK behind \in Seq(Docs) : behind = Tail(found)
    BY <2>11
  <2>14. Len(behind) = Len(found) - 1 /\ \A k \in 1..Len(behind) : behind[k] = found[k + 1]
    BY <2>11, <2>13
  <2>15. PICK rank : rank = [i \in after |-> count[i] - 1]
    OBVIOUS
  <2>16. ASSUME NEW i \in after PROVE rank[i] \in 1..Len(behind) /\ behind[rank[i]] = Newest[i]
    <3>1. count[i] \in 1..Len(found) /\ found[count[i]] = Newest[i] /\ count[i] > 1
      BY <2>6, <2>10
    <3>2. rank[i] = count[i] - 1 /\ rank[i] \in 1..Len(behind) /\ rank[i] + 1 = count[i]
      BY <2>14, <2>15, <3>1
    <3>3. QED BY <2>14, <3>1, <3>2
  <2>17. ASSUME NEW i \in after, NEW j \in after, i <= j PROVE rank[i] <= rank[j]
    <3>1. count[i] <= count[j] /\ count[i] \in Nat /\ count[j] \in Nat
      BY <2>6, <2>8, <2>17
    <3>2. QED BY <2>15, <3>1
  <2>18. ASSUME NEW k \in 1..Len(behind) PROVE \E i \in after : rank[i] = k
    <3>1. k + 1 \in 1..Len(found)
      BY <2>14
    <3>2. PICK i \in sel : count[i] = k + 1
      BY <2>6, <3>1
    <3>3. i # p
      BY <2>9, <3>2
    <3>4. i \in after
      BY <1>2, <2>2, <2>3, <2>7, <3>3
    <3>5. rank[i] = k
      BY <2>15, <3>2, <3>4
    <3>6. QED BY <3>4, <3>5
  <2>19. Ranks(behind, after, rank)
    BY <2>16, <2>17, <2>18 DEF Ranks
  <2>20. {i \in places : cursor = None \/ i > PlaceOf(cursor)} = after
    BY <1>4, <2>1, <2>3
  <2>21. QED BY <2>12, <2>13, <2>19, <2>20
<1>5. QED BY <1>3, <1>4

LEMMA ListedIs ==
  ASSUME NEW filter, NEW cursor
  PROVE  Listed(filter, cursor) = FoundAt({i \in DOMAIN Newest : Belongs(Newest[i], filter)}, cursor)
<1>1. PICK from : from = IF cursor = None THEN 1 ELSE PlaceOf(cursor)
  OBVIOUS
<1>2. {i \in DOMAIN Newest : i >= from /\ Belongs(Newest[i], filter)}
        = {i \in {j \in DOMAIN Newest : Belongs(Newest[j], filter)} : i >= from}
  OBVIOUS
<1>3. QED BY <1>1, <1>2 DEF Listed, FoundAt

\* A row of the list is what the documents and the pipeline say.
ShowsOK == /\ docs \in [Docs -> Doc] /\ phase \in [Docs -> {"busy", "settled"}]

LEMMA FirstRowsAre ==
  ASSUME ShowsOK, NEW found \in Seq(Docs)
  PROVE  /\ FirstRows(found) \in Seq(Row)
         /\ NextCursor(found) \in Docs \cup {None}
         /\ \A k \in 1..Len(found) : k <= PageSize => found[k] \in RowDocs(FirstRows(found))
         /\ NextCursor(found) = None => Len(found) <= PageSize
         /\ NextCursor(found) # None => PageSize \in 1..Len(found) /\ NextCursor(found) = found[PageSize]
<1>1. PageSize \in Nat \ {0} /\ Len(found) \in Nat
  BY PageAssumption
<1>2. PICK n \in Nat : /\ n = IF Len(found) > PageSize THEN PageSize ELSE Len(found)
                       /\ n <= Len(found)
  BY <1>1
<1>3. \A k \in 1..Len(found) : k <= PageSize => k \in 1..n
  BY <1>1, <1>2
<1>4. \A k \in 1..n : found[k] \in Docs
  BY <1>2
<1>5. \A d \in Docs : [doc |-> d, shown |-> Shown(d), star |-> d \in starred] \in Row
  BY DEF ShowsOK, Shown, Row, Doc
<1>6. FirstRows(found)
        = [i \in 1..n |-> [doc |-> found[i], shown |-> Shown(found[i]), star |-> found[i] \in starred]]
  BY <1>2 DEF FirstRows
<1>7. FirstRows(found) \in Seq(Row)
  BY <1>2, <1>4, <1>5, <1>6
<1>8. DOMAIN FirstRows(found) = 1..n /\ \A k \in 1..n : FirstRows(found)[k].doc = found[k]
  BY <1>6
<1>9. \A k \in 1..Len(found) : k <= PageSize => found[k] \in RowDocs(FirstRows(found))
  BY <1>3, <1>8 DEF RowDocs
<1>10. /\ NextCursor(found) \in Docs \cup {None}
       /\ NextCursor(found) = None => Len(found) <= PageSize
       /\ NextCursor(found) # None => PageSize \in 1..Len(found) /\ NextCursor(found) = found[PageSize]
  <2>1. Len(found) > PageSize => PageSize \in 1..Len(found)
    BY <1>1
  <2>2. Len(found) > PageSize => found[PageSize] \in Docs
    BY <2>1
  <2>3. ~(Len(found) > PageSize) => Len(found) <= PageSize
    BY <1>1
  <2>4. QED BY <2>1, <2>2, <2>3, NewestIs DEF NextCursor
<1>11. QED BY <1>7, <1>9, <1>10

\* An answer covers its stretch of the list as it stands.
LEMMA ReadCovers ==
  ASSUME ShowsOK, NEW filter, NEW cursor \in Docs \cup {None}, NEW found, found = Listed(filter, cursor)
  PROVE  /\ FirstRows(found) \in Seq(Row)
         /\ NextCursor(found) \in Docs \cup {None}
         /\ cursor = None \/ Belongs(cursor, filter) =>
              Covers(FirstRows(found), cursor, NextCursor(found), {d \in Docs : Belongs(d, filter)})
<1>1. PICK places \in SUBSET (DOMAIN Newest) :
        /\ places = {i \in DOMAIN Newest : Belongs(Newest[i], filter)}
        /\ found = FoundAt(places, cursor)
  BY ListedIs
<1>2. found \in Seq(Docs)
  BY <1>1, FoundTyped
<1>3. FirstRows(found) \in Seq(Row) /\ NextCursor(found) \in Docs \cup {None}
  BY <1>2, FirstRowsAre
<1>4. ASSUME cursor = None \/ Belongs(cursor, filter)
      PROVE  Covers(FirstRows(found), cursor, NextCursor(found), {d \in Docs : Belongs(d, filter)})
  <2>1. cursor # None => PlaceOf(cursor) \in places
    BY <1>1, <1>4, NewestIs
  <2>2. PICK after : after = {i \in places : cursor = None \/ i > PlaceOf(cursor)}
    OBVIOUS
  <2>3. PICK rank : Ranks(found, after, rank)
    BY <1>1, <2>1, <2>2, FoundRanks
  <2>4. PICK seq, next : seq = FirstRows(found) /\ next = NextCursor(found)
    OBVIOUS
  <2>5. ASSUME NEW i \in after, next = None \/ i <= PlaceOf(next)
        PROVE  Newest[i] \in RowDocs(seq)
    <3>1. rank[i] \in 1..Len(found) /\ found[rank[i]] = Newest[i]
      BY <2>3 DEF Ranks
    <3>2. rank[i] <= PageSize
      <4>1. CASE next = None
        <5>1. Len(found) <= PageSize
          BY <1>2, <2>4, <4>1, FirstRowsAre
        <5>2. rank[i] <= Len(found) /\ rank[i] \in Nat /\ Len(found) \in Nat /\ PageSize \in Nat
          BY <1>2, <3>1, PageAssumption
        <5>3. QED BY <5>1, <5>2
      <4>2. CASE next # None
        <5>1. PageSize \in 1..Len(found) /\ next = found[PageSize]
          BY <1>2, <2>4, <4>2, FirstRowsAre
        <5>2. PICK j \in after : rank[j] = PageSize
          BY <2>3, <5>1 DEF Ranks
        <5>3. next = Newest[j] /\ j \in DOMAIN Newest
          BY <1>1, <2>2, <2>3, <5>1, <5>2 DEF Ranks
        <5>4. PlaceOf(next) = j
          BY <5>3, NewestIs
        <5>5. QED BY <2>3, <2>5, <4>2, <5>2, <5>4 DEF Ranks
      <4>3. QED BY <4>1, <4>2
    <3>3. QED BY <1>2, <2>4, <3>1, <3>2, FirstRowsAre
  <2>6. ASSUME NEW i \in DOMAIN Newest, Newest[i] \in {d \in Docs : Belongs(d, filter)},
               cursor = None \/ i > PlaceOf(cursor)
        PROVE  i \in after
    BY <1>1, <2>2, <2>6
  <2>7. QED BY <2>4, <2>5, <2>6 DEF Covers
<1>5. QED BY <1>3, <1>4

\* The rows of two stretches.
LEMMA RowsJoin ==
  ASSUME NEW seq \in Seq(Row), NEW next \in Seq(Row)
  PROVE  seq \o next \in Seq(Row) /\ RowDocs(seq \o next) = RowDocs(seq) \cup RowDocs(next)
<1>1. /\ DOMAIN (seq \o next) = 1..(Len(seq) + Len(next))
      /\ \A i \in 1..(Len(seq) + Len(next)) :
           (seq \o next)[i] = IF i <= Len(seq) THEN seq[i] ELSE next[i - Len(seq)]
  OBVIOUS
<1>2. \A i \in DOMAIN seq : i \in DOMAIN (seq \o next) /\ (seq \o next)[i] = seq[i]
  OBVIOUS
<1>3. \A i \in DOMAIN next : /\ i + Len(seq) \in DOMAIN (seq \o next)
                             /\ (seq \o next)[i + Len(seq)] = next[i]
  OBVIOUS
<1>4. \A i \in DOMAIN (seq \o next) :
        \/ i \in DOMAIN seq /\ (seq \o next)[i] = seq[i]
        \/ i - Len(seq) \in DOMAIN next /\ (seq \o next)[i] = next[i - Len(seq)]
  <2> SUFFICES ASSUME NEW i \in 1..(Len(seq) + Len(next))
               PROVE  \/ i \in DOMAIN seq /\ (seq \o next)[i] = seq[i]
                      \/ /\ i - Len(seq) \in DOMAIN next
                         /\ (seq \o next)[i] = next[i - Len(seq)]
    BY <1>1
  <2>1. CASE i <= Len(seq)
    BY <1>1, <2>1
  <2>2. CASE i > Len(seq)
    <3>1. i - Len(seq) \in 1..Len(next)
      BY <2>2
    <3>2. QED BY <1>1, <2>2, <3>1
  <2>3. QED BY <2>1, <2>2
<1>5. PICK both : both = seq \o next
  OBVIOUS
<1>6. \A i \in DOMAIN seq : seq[i].doc \in RowDocs(both)
  BY <1>2, <1>5 DEF RowDocs
<1>7. \A i \in DOMAIN next : next[i].doc \in RowDocs(both)
  BY <1>3, <1>5 DEF RowDocs
<1>8. \A i \in DOMAIN both : both[i].doc \in RowDocs(seq) \cup RowDocs(next)
  BY <1>4, <1>5 DEF RowDocs
<1>9. RowDocs(seq) \subseteq RowDocs(both) /\ RowDocs(next) \subseteq RowDocs(both)
  BY <1>6, <1>7 DEF RowDocs
<1>10. RowDocs(both) \subseteq RowDocs(seq) \cup RowDocs(next)
  BY <1>8 DEF RowDocs
<1>11. QED BY <1>5, <1>9, <1>10

\* Two stretches that join cover what both do.
LEMMA CoversJoin ==
  ASSUME NEW seq \in Seq(Row), NEW next \in Seq(Row), NEW middle, middle # None, NEW more, NEW wanted,
         Covers(seq, None, middle, wanted), Covers(next, middle, more, wanted), 
         middle \in Docs
  PROVE  Covers(seq \o next, None, more, wanted)
<1>1. RowDocs(seq \o next) = RowDocs(seq) \cup RowDocs(next)
  BY RowsJoin
<1>2. PICK m \in DOMAIN Newest : m = PlaceOf(middle)
  BY NewestIs
<1>3. \A i \in DOMAIN Newest : i \in Int /\ (i <= m \/ i > m)
  BY NewestIs
<1>4. QED BY <1>1, <1>2, <1>3 DEF Covers

\* Taking rows away, and patching them.
LEMMA WithoutIs ==
  ASSUME NEW seq \in Seq(Row), NEW ids
  PROVE  /\ Without(seq, ids) \in Seq(Row)
         /\ \A d \in RowDocs(seq) : d \notin ids => d \in RowDocs(Without(seq, ids))
<1>1. PICK places \in SUBSET (DOMAIN seq) : places = {i \in DOMAIN seq : seq[i].doc \notin ids}
  OBVIOUS
<1>2. PICK left \in Seq(Row) : left = Without(seq, ids) /\ left = Kept(seq, places)
  BY <1>1, KeptIs DEF Without
<1>3. \A i \in places : \E k \in DOMAIN left : left[k] = seq[i]
  BY <1>2, KeptIs
<1>4. ASSUME NEW d \in RowDocs(seq), d \notin ids PROVE d \in RowDocs(left)
  <2>1. PICK i \in DOMAIN seq : seq[i].doc = d
    BY <1>4 DEF RowDocs
  <2>2. PICK k \in DOMAIN left : left[k] = seq[i]
    BY <1>1, <1>3, <1>4, <2>1
  <2>3. QED BY <2>1, <2>2 DEF RowDocs
<1>5. QED BY <1>2, <1>4

Shows == {"busy", "settled", "archived"}

LEMMA PatchedIs ==
  ASSUME NEW seq \in Seq(Row), NEW d
  PROVE  /\ \A shown \in Shows : /\ Patched(seq, d, shown) \in Seq(Row)
                                 /\ RowDocs(Patched(seq, d, shown)) = RowDocs(seq)
         /\ \A star \in BOOLEAN : /\ Patch(seq, d, star) \in Seq(Row)
                                  /\ RowDocs(Patch(seq, d, star)) = RowDocs(seq)
<1>1. PICK n \in Nat : DOMAIN seq = 1..n /\ \A i \in 1..n : seq[i] \in Row
  OBVIOUS
<1>2. \A row \in Row : /\ \A shown \in Shows : /\ [row EXCEPT !.shown = shown] \in Row
                                               /\ [row EXCEPT !.shown = shown].doc = row.doc
                       /\ \A star \in BOOLEAN : /\ [row EXCEPT !.star = star] \in Row
                                                /\ [row EXCEPT !.star = star].doc = row.doc
  BY DEF Row, Shows
<1>3. ASSUME NEW shown \in Shows
      PROVE  /\ Patched(seq, d, shown) \in Seq(Row)
             /\ RowDocs(Patched(seq, d, shown)) = RowDocs(seq)
  <2>1. PICK new : new = Patched(seq, d, shown)
    OBVIOUS
  <2>2. DOMAIN new = 1..n /\ \A i \in 1..n : new[i] \in Row /\ new[i].doc = seq[i].doc
    BY <1>1, <1>2, <2>1 DEF Patched
  <2>3. new \in Seq(Row)
    <3>1. new = [i \in 1..n |-> new[i]]
      BY <1>1, <2>1 DEF Patched
    <3>2. QED BY <2>2, <3>1
  <2>4. QED BY <1>1, <2>1, <2>2, <2>3 DEF RowDocs
<1>4. ASSUME NEW star \in BOOLEAN
      PROVE  /\ Patch(seq, d, star) \in Seq(Row)
             /\ RowDocs(Patch(seq, d, star)) = RowDocs(seq)
  <2>1. PICK new : new = Patch(seq, d, star)
    OBVIOUS
  <2>2. DOMAIN new = 1..n /\ \A i \in 1..n : new[i] \in Row /\ new[i].doc = seq[i].doc
    BY <1>1, <1>2, <2>1 DEF Patch
  <2>3. new \in Seq(Row)
    <3>1. new = [i \in 1..n |-> new[i]]
      BY <1>1, <2>1 DEF Patch
    <3>2. QED BY <2>2, <3>1
  <2>4. QED BY <1>1, <2>1, <2>2, <2>3 DEF RowDocs
<1>5. QED BY <1>3, <1>4

\* The next request of the page is one that has not been sent.
LEMMA NewAskIs ==
  ASSUME DOMAIN ask \subseteq Nat, Free # {}
  PROVE  NewAsk \in DOMAIN ask /\ ask[NewAsk].is = "unsent"
<1> DEFINE T == {n \in Nat : \A a \in Free : ~(a <= n)}
<1>1. Free \subseteq Nat
  BY DEF Free
<1>2. \E a \in Free : \A b \in Free : a <= b
  <2>1. CASE 0 \in Free
    BY <1>1, <2>1
  <2>2. CASE 0 \notin Free
    <3>1. 0 \in T
      BY <1>1, <2>2
    <3>2. T # Nat
      <4>1. PICK a \in Free : a \in Nat
        BY <1>1 DEF Free
      <4>2. a \notin T
        BY <4>1
      <4>3. QED BY <4>1, <4>2
    <3>3. PICK n \in T : n + 1 \notin T
      BY <3>1, <3>2, EveryNumber
    <3>4. n \in Nat /\ \A a \in Free : ~(a <= n)
      OBVIOUS
    <3>5. PICK a \in Free : a <= n + 1
      BY <3>3, <3>4
    <3>6. a = n + 1
      BY <1>1, <3>4, <3>5
    <3>7. \A b \in Free : a <= b
      BY <1>1, <3>4, <3>6
    <3>8. QED BY <3>7
  <2>3. QED BY <2>1, <2>2
<1>3. NewAsk \in Free
  BY <1>2 DEF NewAsk
<1>4. QED BY <1>3 DEF Free

\* The newest of some places.
LEMMA LastIs ==
  ASSUME NEW n \in Nat, NEW places \in SUBSET (1..n), places # {}
  PROVE  \E i \in places : \A j \in places : j <= i
<1> DEFINE T == {m \in Nat : \A l \in places : l <= m => \E i \in places : \A j \in places : j <= m => j <= i}
<1>0. \A j \in places : j \in Nat /\ 1 <= j /\ j <= n
  OBVIOUS
<1>1. 0 \in T
  BY <1>0
<1>2. ASSUME NEW m \in T PROVE m + 1 \in T
  <2> SUFFICES ASSUME NEW l \in places, l <= m + 1
               PROVE  \E i \in places : \A j \in places : j <= m + 1 => j <= i
    OBVIOUS
  <2>1. CASE m + 1 \in places
    BY <2>1
  <2>2. CASE m + 1 \notin places
    <3>1. \A j \in places : j <= m + 1 => j <= m
      BY <1>0, <2>2
    <3>2. QED BY <3>1
  <2>3. QED BY <2>1, <2>2
<1>3. n \in T
  BY <1>1, <1>2, EveryNumber
<1>4. QED BY <1>0, <1>3

-----------------------------------------------------------------------------
(* The page: its invariant.                                                 *)

Flying(r) == r.is \in {"sent", "served", "refused"}

\* d is in the list, when the rows are these.
InList(d, filter, ds, st, v) ==
  IF v = "trash" THEN ds[d].status = "trashed"
  ELSE /\ ds[d].status \in IF filter.archived THEN {"active", "archived"} ELSE {"active"}
       /\ filter.folder \in {None, ds[d].folder}
       /\ filter.favorite => d \in st

ToShow(keep, filter, ds, st, v) == {d \in keep : InList(d, filter, ds, st, v)}

LEMMA BelongsIs == \A d, filter : Belongs(d, filter) <=> InList(d, filter, docs, starred, plan.view)
BY DEF Belongs, InList

\* What a request of the page is like, on the page v.
Fit(r, v) ==
  /\ r.is = "unsent" => r = NoAsk
  /\ Flying(r) /\ r.kind = "list" => r.cursor = None
  /\ Flying(r) /\ r.kind = "more" => r.cursor # None
  /\ Flying(r) /\ r.kind \in {"delete", "restore"} =>
       r.action = r.kind /\ (r.kind = "restore" <=> v = "trash")
  /\ Flying(r) /\ r.kind = "bulk" /\ v = "trash" => r.action = "restore" /\ r.call = None
  /\ Flying(r) /\ r.kind = "createFolder" => r.is = "sent" /\ r.call # None
  /\ Flying(r) /\ r.kind = "star" => r.ids # {}
  /\ r.is = "served" /\ r.kind \in {"delete", "restore", "upload"} => r.ids # {}

\* A read in flight for the filters of now has the filters of now.
Timely(r, under, filter) ==
  /\ r.under <= under
  /\ r.kind \in {"list", "more"} /\ Flying(r) /\ r.under = under => r.filter = filter

\* The answer of a read covers what has not changed since; what a change has
\* taken off the list, and has not changed since, is not in it.
Sound(r, keep, ds, st, v) ==
  r.is = "served" =>
    /\ r.kind \in {"list", "more"} =>
         Covers(r.rows, r.cursor, r.next, ToShow(keep, r.filter, ds, st, v))
    /\ r.kind \in {"delete", "restore"} \/ (r.kind = "bulk" /\ v = "trash") =>
         \A d \in r.ids \cap keep : ds[d].status = "trashed" <=> r.kind = "delete"

PTyped ==
  /\ page \in Page
  /\ ask \in [DOMAIN ask -> Ask]
  /\ DOMAIN ask = IF plan.view = "none" THEN {} ELSE Asks
  /\ phase \in [Docs -> {"busy", "settled"}]
  /\ starred \in SUBSET Docs
  /\ pushed \in Seq(Docs)
  /\ ghost \in Ghost
  /\ plan.view = "none" => page.load = "closed"

SeenFolders == {f \in Folders \cup {Root, None} : Existed(f)}

\* The page names only folders that there have been.
SeenFoldersInv ==
  /\ page.tree \subseteq SeenFolders /\ page.filter.folder \in SeenFolders
  /\ \A b \in DOMAIN ask : ask[b].tree \subseteq SeenFolders

AsksInv ==
  \A b \in DOMAIN ask : Fit(ask[b], plan.view) /\ Timely(ask[b], page.under, page.filter)

AnswersInv ==
  \A b \in DOMAIN ask : b \in ghost.stray \/ Sound(ask[b], ghost.steady[b], docs, starred, plan.view)

ReadInv ==
  plan.view # "none" =>
    /\ page.reading \in Asks
    /\ ask[page.reading].kind = "list"
    /\ Flying(ask[page.reading]) => ask[page.reading].under = page.under

StrayInv == \A b \in ghost.stray : b \in DOMAIN ask /\ ask[b].kind = "more"

\* The list on screen covers what has not changed since its first page.
ListInv ==
  page.load = "ready" /\ ~Flying(ask[page.reading]) /\ ~ghost.slipped =>
    Covers(page.rows, None, page.more, ToShow(ghost.steady[0], page.filter, docs, starred, plan.view))

\* Ticks that still count were made under the filters of now.
TickInv ==
  /\ page.ticked.under <= page.under
  /\ page.ticked.under = page.under => page.ticked.ids \subseteq ghost.chosen

PageInv == /\ PTyped /\ SeenFoldersInv /\ AsksInv /\ AnswersInv /\ ReadInv /\ StrayInv
           /\ ListInv /\ TickInv

-----------------------------------------------------------------------------
(* The page: the ways it goes on.                                           *)

\* What counts as unchanged has not changed.
Calm(b) ==
  /\ ghost'.steady[b] \subseteq ghost.steady[b]
  /\ \A d \in ghost'.steady[b] : docs'[d] = docs[d] /\ (d \in starred' <=> d \in starred)

Waits(b) == ask'[b] = ask[b] /\ Calm(b)

Sent(b) ==
  /\ ask[b].is = "unsent" /\ ask'[b].is = "sent" /\ ask'[b] \in Ask
  /\ ask'[b].under = page'.under /\ ask'[b].filter = page'.filter
  /\ Fit(ask'[b], plan.view)
  /\ ask'[b].tree = {}
  /\ ask'[b].kind = "bulk" => ask'[b].ids \subseteq Selected

Answers(b) ==
  /\ ask[b].is = "sent" /\ ask'[b].is \in {"served", "refused"} /\ ask'[b] \in Ask
  /\ ask'[b].kind = ask[b].kind /\ ask'[b].under = ask[b].under
  /\ ask'[b].filter = ask[b].filter
  /\ Fit(ask'[b], plan.view)
  /\ ask'[b].tree \subseteq SeenFolders
  /\ b \in ghost'.stray \/ Sound(ask'[b], ghost'.steady[b], docs', starred', plan.view)

Ends(b) ==
  /\ Flying(ask[b]) /\ ask'[b].is = "taken" /\ ask'[b] \in Ask
  /\ ask'[b].kind = ask[b].kind /\ ask'[b].under \in {0, ask[b].under}
  /\ ask'[b].tree \subseteq ask[b].tree

\* The filters are those of before, or the list is being read anew.
Filters ==
  \/ /\ page'.under = page.under /\ page'.filter = page.filter /\ page'.reading = page.reading
  \/ /\ page'.reading \in Asks /\ Sent(page'.reading) /\ ask'[page'.reading].kind = "list"
     /\ \/ page'.under = page.under /\ page'.filter = page.filter
        \/ page'.under = page.under + 1

Going ==
  /\ plan.view # "none" /\ plan' = plan
  /\ page' \in Page /\ ghost' \in Ghost
  /\ ask' \in [Asks -> Ask]
  /\ phase' \in [Docs -> {"busy", "settled"}] /\ starred' \in SUBSET Docs /\ pushed' \in Seq(Docs)
  /\ \A b \in Asks : Waits(b) \/ Sent(b) \/ Answers(b) \/ Ends(b)
  /\ Filters
  /\ ghost.stray \subseteq ghost'.stray
  /\ \A b \in ghost'.stray \ ghost.stray : b \in Asks /\ ask[b].kind = "more"
  /\ page'.tree \subseteq SeenFolders' /\ page'.filter.folder \in SeenFolders'
  /\ TickInv' /\ ListInv'

LEMMA AskTyped ==
  ASSUME PTyped, plan.view # "none"
  PROVE  /\ ask \in [Asks -> Ask] /\ DOMAIN ask = Asks /\ Asks \subseteq Nat
         /\ ghost.steady \in [{0} \cup Asks -> SUBSET Docs]
<1>1. ask \in [Asks -> Ask] /\ DOMAIN ask = Asks
  BY DEF PTyped
<1>2. Asks \subseteq Nat
  BY DEF Asks
<1>3. ghost.steady \in [{0} \cup Asks -> SUBSET Docs]
  BY <1>1 DEF PTyped, Ghost
<1>4. QED BY <1>1, <1>2, <1>3

LEMMA SeenGrow == BaseInv /\ WideStep => SeenFolders \subseteq SeenFolders'
<1> SUFFICES ASSUME BaseInv, WideStep, NEW f \in SeenFolders PROVE f \in SeenFolders'
  OBVIOUS
<1>1. f \in Calls => call'[f].ok
  <2>1. f \in Calls => call[f].ok
    BY DEF SeenFolders, Existed
  <2>2. ASSUME NEW c \in Calls, Moving(c), f \in Calls PROVE call'[f].ok
    BY <2>1, <2>2, OthersStay
  <2>3. CASE Arriving
    BY <2>1, <2>3 DEF Arriving
  <2>4. QED BY <2>2, <2>3 DEF WideStep
<1>2. QED BY <1>1 DEF SeenFolders, Existed

\* What covered a list covers it as long as nothing in it changes.
LEMMA CoversKept ==
  ASSUME NEW b, Calm(b), NEW seq, NEW from, NEW more, NEW filter,
         Covers(seq, from, more, ToShow(ghost.steady[b], filter, docs, starred, plan.view)),
         NEW next,
         \A d \in ghost'.steady[b] :
           InList(d, filter, docs, starred, plan.view) /\ d \in RowDocs(seq) => d \in RowDocs(next)
  PROVE  Covers(next, from, more, ToShow(ghost'.steady[b], filter, docs', starred', plan.view))
<1>1. PICK keep, least : keep = ghost.steady[b] /\ least = ghost'.steady[b] /\ least \subseteq keep
  BY DEF Calm
<1>2. \A d \in least : InList(d, filter, docs', starred', plan.view) <=> InList(d, filter, docs, starred, plan.view)
  BY <1>1 DEF Calm, InList
<1>3. ToShow(least, filter, docs', starred', plan.view) \subseteq ToShow(keep, filter, docs, starred, plan.view)
  BY <1>1, <1>2 DEF ToShow
<1>4. \A d \in ToShow(least, filter, docs', starred', plan.view) : d \in RowDocs(seq) => d \in RowDocs(next)
  BY <1>1, <1>2 DEF ToShow
<1>5. QED BY <1>1, <1>3, <1>4 DEF Covers

LEMMA SoundKept ==
  ASSUME NEW b, Waits(b), Sound(ask[b], ghost.steady[b], docs, starred, plan.view)
  PROVE  Sound(ask'[b], ghost'.steady[b], docs', starred', plan.view)
<1>1. PICK r : r = ask[b] /\ ask'[b] = r /\ Calm(b)
  BY DEF Waits
<1>2. r.is = "served" /\ r.kind \in {"list", "more"} =>
        Covers(r.rows, r.cursor, r.next, ToShow(ghost'.steady[b], r.filter, docs', starred', plan.view))
  BY <1>1, CoversKept DEF Sound
<1>3. r.is = "served" /\ (r.kind \in {"delete", "restore"} \/ (r.kind = "bulk" /\ plan.view = "trash")) =>
        \A d \in r.ids \cap ghost'.steady[b] : docs'[d].status = "trashed" <=> r.kind = "delete"
  BY <1>1 DEF Sound, Calm
<1>4. QED BY <1>1, <1>2, <1>3 DEF Sound

LEMMA GoingKeeps ==
  ASSUME BaseInv, WideStep, PageInv, Going
  PROVE  PageInv'
<1>0. /\ DOMAIN ask' = Asks /\ plan' = plan /\ plan.view # "none" /\ plan'.view = plan.view
      /\ ask \in [Asks -> Ask] /\ DOMAIN ask = Asks /\ Asks \subseteq Nat
  BY AskTyped DEF Going, PageInv
<1>f. /\ page \in Page /\ page' \in Page
      /\ page.under \in Nat /\ page'.under \in Nat
  BY DEF Going, PageInv, PTyped, Page
<1>m. \A b \in Asks : Waits(b) \/ Sent(b) \/ Answers(b) \/ Ends(b)
  BY DEF Going
<1>g. \/ page'.under = page.under /\ page'.filter = page.filter
      \/ page'.under = page.under + 1
  BY DEF Going, Filters
<1>1. PTyped'
  <2>1. ask' \in [DOMAIN ask' -> Ask]
    BY <1>0 DEF Going
  <2>2. (ghost \in Ghost)'
    BY <1>0 DEF Going, Ghost
  <2>3. QED BY <1>0, <2>1, <2>2 DEF Going, PTyped
<1>2. SeenFoldersInv'
  <2>1. SeenFolders \subseteq SeenFolders'
    BY SeenGrow
  <2>2. ASSUME NEW b \in Asks PROVE ask'[b].tree \subseteq SeenFolders'
    BY <1>0, <1>m, <2>1 DEF Waits, Sent, Answers, Ends, PageInv, SeenFoldersInv
  <2>3. QED BY <1>0, <2>2 DEF Going, SeenFoldersInv
<1>3. AsksInv'
  <2>1. ASSUME NEW b \in Asks PROVE Fit(ask'[b], plan.view) /\ Timely(ask'[b], page'.under, page'.filter)
    <3>1. Fit(ask[b], plan.view) /\ Timely(ask[b], page.under, page.filter) /\ ask[b].under \in Nat
      BY <1>0 DEF PageInv, AsksInv, Ask
    <3>2. CASE Waits(b)
      <4>1. Timely(ask[b], page'.under, page'.filter)
        BY <1>f, <1>g, <3>1 DEF Timely
      <4>2. QED BY <3>1, <3>2, <4>1 DEF Waits
    <3>3. CASE Sent(b)
      BY <1>f, <3>3 DEF Sent, Timely
    <3>4. CASE Answers(b)
      <4>1. Flying(ask[b])
        BY <3>4 DEF Answers, Flying
      <4>2. Timely(ask'[b], page'.under, page'.filter)
        BY <1>f, <1>g, <3>1, <3>4, <4>1 DEF Answers, Timely
      <4>3. QED BY <3>4, <4>2 DEF Answers
    <3>5. CASE Ends(b)
      BY <1>f, <1>g, <3>1, <3>5 DEF Ends, Timely, Fit, Flying
    <3>6. QED BY <1>m, <3>2, <3>3, <3>4, <3>5
  <2>2. QED BY <1>0, <2>1 DEF AsksInv
<1>4. AnswersInv'
  <2>1. ASSUME NEW b \in Asks
        PROVE  b \in ghost'.stray \/ Sound(ask'[b], ghost'.steady[b], docs', starred', plan.view)
    <3>1. b \in ghost'.stray \/ Sound(ask[b], ghost.steady[b], docs, starred, plan.view)
      BY <1>0 DEF PageInv, AnswersInv, Going
    <3>2. CASE Waits(b)
      BY <3>1, <3>2, SoundKept
    <3>3. CASE Sent(b) \/ Ends(b)
      BY <3>3 DEF Sent, Ends, Sound
    <3>4. CASE Answers(b)
      BY <3>4 DEF Answers
    <3>5. QED BY <1>m, <3>2, <3>3, <3>4
  <2>2. QED BY <1>0, <2>1 DEF AnswersInv
<1>5. ReadInv'
  <2>1. page.reading \in Asks /\ ask[page.reading].kind = "list"
        /\ (Flying(ask[page.reading]) => ask[page.reading].under = page.under)
    BY <1>0 DEF PageInv, ReadInv
  <2>2. CASE page'.under = page.under /\ page'.reading = page.reading
    <3>1. PICK b \in Asks : b = page.reading /\ b = page'.reading
      BY <2>1, <2>2
    <3>2. ask'[b].kind = "list" /\ (Flying(ask'[b]) => ask'[b].under = page'.under)
      <4>1. CASE Waits(b)
        BY <2>1, <2>2, <3>1, <4>1 DEF Waits
      <4>2. CASE Sent(b)
        <5>1. ask[b].kind = "none"
          BY <1>0, <4>2 DEF Sent, PageInv, AsksInv, Fit, NoAsk
        <5>2. QED BY <2>1, <3>1, <5>1
      <4>3. CASE Answers(b)
        BY <2>1, <2>2, <3>1, <4>3 DEF Answers, Flying
      <4>4. CASE Ends(b)
        BY <2>1, <2>2, <3>1, <4>4 DEF Ends, Flying
      <4>5. QED BY <1>m, <4>1, <4>2, <4>3, <4>4
    <3>3. QED BY <3>1, <3>2 DEF ReadInv
  <2>3. CASE page'.reading \in Asks /\ Sent(page'.reading) /\ ask'[page'.reading].kind = "list"
    BY <2>3 DEF Sent, ReadInv
  <2>4. QED BY <2>2, <2>3 DEF Going, Filters
<1>6. StrayInv'
  <2>1. ASSUME NEW b \in ghost'.stray PROVE b \in Asks /\ ask'[b].kind = "more"
    <3>1. b \in Asks /\ ask[b].kind = "more"
      BY <1>0 DEF Going, PageInv, StrayInv
    <3>2. ~Sent(b)
      BY <1>0, <3>1 DEF Sent, PageInv, AsksInv, Fit, NoAsk
    <3>3. QED BY <1>m, <3>1, <3>2 DEF Waits, Answers, Ends
  <2>2. QED BY <1>0, <2>1 DEF StrayInv
<1>7. QED BY <1>1, <1>2, <1>3, <1>4, <1>5, <1>6 DEF PageInv, Going

\* A batch is sent with what is ticked, and what is ticked was chosen.
LEMMA GoingTicked ==
  ASSUME PageInv, Going, NEW b \in DOMAIN ask, ask[b].is = "unsent", ask'[b].kind = "bulk"
  PROVE  ask'[b].ids \subseteq ghost.chosen
<1>0. DOMAIN ask = Asks
  BY AskTyped DEF Going, PageInv
<1>1. ask[b].kind # "bulk" /\ ~Flying(ask[b])
  BY DEF PageInv, AsksInv, Fit, NoAsk, Flying
<1>2. Sent(b)
  BY <1>0, <1>1 DEF Going, Waits, Answers, Ends
<1>3. Selected \subseteq ghost.chosen
  BY DEF PageInv, TickInv, Selected
<1>4. QED BY <1>2, <1>3 DEF Sent

\* The filters, the read and the end of the list stay as they are.
Stable ==
  /\ page' \in Page
  /\ page'.filter = page.filter /\ page'.under = page.under /\ page'.reading = page.reading
  /\ page'.more = page.more /\ page'.load \in {page.load, "error"}

\* The rows of what the list has, and has had, are not taken away.
RowsKept ==
  \A d \in ghost'.steady[0] :
    InList(d, page.filter, docs, starred, plan.view) /\ d \in RowDocs(page.rows)
      => d \in RowDocs(page'.rows)

\* Each request waits, is sent, is answered or ends.
AsksMove ==
  /\ ask' \in [Asks -> Ask]
  /\ \A b \in Asks : Waits(b) \/ Sent(b) \/ Answers(b) \/ Ends(b)

LEMMA ListKept ==
  ASSUME PageInv, plan.view # "none", plan' = plan, Stable, RowsKept, Calm(0), AsksMove,
         ghost'.slipped = ghost.slipped,
         Ends(page.reading) => page'.load = "error"
  PROVE  ListInv'
<1> SUFFICES ASSUME page'.load = "ready", ~Flying(ask'[page'.reading]), ~ghost'.slipped
             PROVE  Covers(page'.rows, None, page'.more,
                           ToShow(ghost'.steady[0], page'.filter, docs', starred', plan'.view))
  BY DEF ListInv
<1>1. PICK b \in Asks : b = page.reading /\ page'.reading = b
  BY DEF PageInv, ReadInv, Stable
<1>2. ~Flying(ask[b])
  BY <1>1 DEF AsksMove, Waits, Sent, Answers, Flying
<1>3. page.load = "ready"
  BY DEF Stable
<1>4. Covers(page.rows, None, page.more,
             ToShow(ghost.steady[0], page.filter, docs, starred, plan.view))
  BY <1>1, <1>2, <1>3 DEF PageInv, ListInv
<1>5. Covers(page'.rows, None, page.more,
             ToShow(ghost'.steady[0], page.filter, docs', starred', plan.view))
  BY <1>4, CoversKept DEF RowsKept
<1>6. QED BY <1>5 DEF Stable

LEMMA StableGoes ==
  ASSUME PageInv, BaseInv, WideStep, plan.view # "none", plan' = plan,
         Stable, RowsKept, Calm(0), AsksMove,
         ghost'.slipped = ghost.slipped, ghost' \in Ghost,
         ghost.stray \subseteq ghost'.stray,
         \A b \in ghost'.stray \ ghost.stray : b \in Asks /\ ask[b].kind = "more",
         phase' \in [Docs -> {"busy", "settled"}], starred' \in SUBSET Docs, pushed' \in Seq(Docs),
         Ends(page.reading) => page'.load = "error",
         page'.tree \subseteq SeenFolders', TickInv'
  PROVE  Going
<1>1. ListInv'
  BY ListKept
<1>2. page'.filter.folder \in SeenFolders'
  BY SeenGrow DEF Stable, PageInv, SeenFoldersInv
<1>3. Filters
  BY DEF Stable, Filters
<1>4. QED BY <1>1, <1>2, <1>3 DEF Going, Stable, AsksMove

LEMMA TicksKept ==
  ASSUME PageInv, page'.ticked = page.ticked, page'.under = page.under,
         ghost.chosen \subseteq ghost'.chosen
  PROVE  TickInv'
BY DEF PageInv, TickInv

LEMMA TreeKept ==
  ASSUME PageInv, BaseInv, WideStep, page'.tree \subseteq page.tree
  PROVE  page'.tree \subseteq SeenFolders'
BY SeenGrow DEF PageInv, SeenFoldersInv

LEMMA AllCalm ==
  ASSUME PageInv, plan.view # "none", ghost'.steady = ghost.steady, UNCHANGED <<docs, starred>>
  PROVE  \A b \in {0} \cup Asks : Calm(b)
BY DEF Calm

\* One request of the page is replaced.
LEMMA AskPut ==
  ASSUME PageInv, plan.view # "none", NEW a \in Asks, NEW r \in Ask, ask' = [ask EXCEPT ![a] = r]
  PROVE  /\ ask' \in [Asks -> Ask] /\ ask'[a] = r
         /\ \A b \in Asks : b # a => ask'[b] = ask[b]
BY AskTyped DEF PageInv

\* What a request that is about to be sent must be.
Asking(r) ==
  /\ r.kind = "list" => r.cursor = None
  /\ r.kind = "more" => r.cursor # None
  /\ r.kind \in {"delete", "restore"} => r.action = r.kind /\ (r.kind = "restore" <=> plan.view = "trash")
  /\ r.kind = "bulk" => r.ids \subseteq Selected
  /\ r.kind = "bulk" /\ plan.view = "trash" => r.action = "restore" /\ r.call = None
  /\ r.kind = "createFolder" => r.call # None
  /\ r.kind = "star" => r.ids # {}
  /\ r.tree = {}

LEMMA AskingIs ==
  ASSUME NEW b, ask[b].is = "unsent", ask'[b] \in Ask, ask'[b].is = "sent",
         ask'[b].under = page'.under, ask'[b].filter = page'.filter, Asking(ask'[b])
  PROVE  Sent(b)
<1>1. Fit(ask'[b], plan.view)
  BY DEF Asking, Fit, Flying
<1>2. QED BY <1>1 DEF Asking, Sent

LEMMA NewAskFree ==
  ASSUME PageInv, plan.view # "none", Free # {}
  PROVE  NewAsk \in Asks /\ ask[NewAsk].is = "unsent" /\ ask[NewAsk] = NoAsk
<1>1. NewAsk \in Asks /\ ask[NewAsk].is = "unsent"
  BY AskTyped, NewAskIs DEF PageInv
<1>2. ask[NewAsk] = NoAsk
  BY <1>1, AskTyped DEF PageInv, AsksInv, Fit
<1>3. QED BY <1>1, <1>2

\* A request of the page is sent: nothing else moves.
LEMMA SendIs ==
  ASSUME PageInv, plan.view # "none", Free # {}, NEW request \in Ask, Asking(request),
         Sends(request), page'.under = page.under, page'.filter = page.filter,
         ghost'.steady = ghost.steady, UNCHANGED <<docs, starred>>
  PROVE  /\ AsksMove /\ ~Ends(page.reading)
<1>1. PICK n \in Asks : n = NewAsk /\ ask[n].is = "unsent"
  BY NewAskFree
<1>2. PICK r : r = [request EXCEPT !.is = "sent", !.under = page.under, !.filter = page.filter]
  OBVIOUS
<1>3. page.under \in Nat /\ page.filter \in Filter
  BY DEF PageInv, PTyped, Page
<1>4. /\ r \in Ask /\ r.is = "sent" /\ r.under = page.under /\ r.filter = page.filter
      /\ r.kind = request.kind /\ r.cursor = request.cursor /\ r.action = request.action
      /\ r.ids = request.ids /\ r.call = request.call /\ r.tree = request.tree
  BY <1>2, <1>3 DEF Ask
<1>5. ask' = [ask EXCEPT ![n] = r]
  BY <1>1, <1>2 DEF Sends
<1>6. /\ ask' \in [Asks -> Ask] /\ ask'[n] = r
      /\ \A b \in Asks : b # n => ask'[b] = ask[b]
  BY <1>4, <1>5, AskPut
<1>7. Asking(r)
  BY <1>4 DEF Asking
<1>8. Sent(n)
  BY <1>1, <1>4, <1>6, <1>7, AskingIs
<1>9. \A b \in Asks : b # n => Waits(b)
  BY <1>6, AllCalm DEF Waits
<1>10. \A b \in Asks : ~Ends(b)
  BY <1>4, <1>6 DEF Ends, Flying
<1>11. page.reading \in Asks
  BY DEF PageInv, ReadInv
<1>12. QED BY <1>6, <1>8, <1>9, <1>10, <1>11 DEF AsksMove

LEMMA QuietGoes ==
  ASSUME PageInv, BaseInv, WideStep, plan.view # "none", Stable, AsksMove,
         UNCHANGED <<plan, docs, phase, starred, ghost>>, pushed' \in Seq(Docs),
         RowDocs(page.rows) \subseteq RowDocs(page'.rows),
         page'.ticked = page.ticked, page'.tree \subseteq SeenFolders',
         Ends(page.reading) => page'.load = "error"
  PROVE  Going
<1>1. ghost' \in Ghost /\ ghost'.slipped = ghost.slipped /\ ghost'.stray = ghost.stray
      /\ ghost'.steady = ghost.steady /\ ghost'.chosen = ghost.chosen
  BY DEF PageInv, PTyped
<1>2. TickInv'
  BY <1>1, TicksKept DEF Stable
<1>3. RowsKept /\ Calm(0)
  BY <1>1, AllCalm DEF RowsKept
<1>4. phase' \in [Docs -> {"busy", "settled"}] /\ starred' \in SUBSET Docs
  BY DEF PageInv, PTyped
<1>5. QED BY <1>1, <1>2, <1>3, <1>4, StableGoes

LEMMA SendGoes ==
  ASSUME PageInv, BaseInv, WideStep, plan.view # "none", Free # {},
         NEW request \in Ask, Asking(request), Sends(request),
         Stable, page'.ticked = page.ticked, page'.tree = page.tree,
         RowDocs(page.rows) \subseteq RowDocs(page'.rows),
         UNCHANGED <<plan, docs, phase, starred, pushed, ghost>>
  PROVE  Going
<1>1. AsksMove /\ ~Ends(page.reading)
  BY SendIs DEF Stable
<1>2. page'.tree \subseteq SeenFolders'
  BY TreeKept
<1>3. pushed' \in Seq(Docs)
  BY DEF PageInv, PTyped
<1>4. QED BY <1>1, <1>2, <1>3, QuietGoes

LEMMA SamePage ==
  ASSUME PageInv, UNCHANGED page
  PROVE  /\ Stable /\ page'.ticked = page.ticked /\ page'.tree = page.tree
         /\ RowDocs(page.rows) \subseteq RowDocs(page'.rows)
BY DEF PageInv, PTyped, Stable

LEMMA QuietIsWide ==
  ASSUME BaseInv, Unchanged, UNCHANGED docs PROVE WideStep
BY IdleIsWide DEF Unchanged

LEMMA NoAskOK ==
  /\ NoAsk \in Ask /\ NoAsk.tree = {} /\ NoAsk.kind = "none" /\ NoAsk.cursor = None
  /\ NoAsk.call = None /\ NoAsk.ids = {}
<1>1. AllFiles \in Filter /\ <<>> \in Seq(Row)
  BY DEF AllFiles, Filter
<1>2. QED BY <1>1 DEF NoAsk, Ask, Actions

LEMMA RowsTyped ==
  ASSUME PageInv
  PROVE  /\ page.rows \in Seq(Row)
         /\ \A i \in DOMAIN page.rows : page.rows[i].doc \in Docs /\ page.rows[i].star \in BOOLEAN
<1>1. page.rows \in Seq(Row)
  BY DEF PageInv, PTyped, Page
<1>2. \A i \in DOMAIN page.rows : page.rows[i] \in Row
  BY <1>1
<1>3. QED BY <1>1, <1>2 DEF Row

LEMMA LoadMoreGoes ==
  ASSUME PageInv, BaseInv, LoadMore PROVE WideStep /\ Going
<1>1. PICK more \in Docs : more = page.more
  BY DEF LoadMore, PageInv, PTyped, Page
<1>2. PICK r : r = [NoAsk EXCEPT !.kind = "more", !.cursor = more]
  OBVIOUS
<1>3. r \in Ask /\ r.kind = "more" /\ r.cursor = more /\ r.tree = {}
  BY <1>2, NoAskOK DEF Ask, Ops, Actions
<1>4. Asking(r)
  BY <1>3, NewestIs DEF Asking
<1>5. Sends(r)
  BY <1>1, <1>2 DEF LoadMore
<1>6. WideStep
  BY QuietIsWide DEF LoadMore, Still, NoNews
<1>7. QED BY <1>3, <1>4, <1>5, <1>6, SendGoes, SamePage
      DEF LoadMore, Ready, Still, NoNews, Unchanged

LEMMA StartBulkGoes ==
  ASSUME PageInv, BaseInv, plan.view # "none", StartBulk PROVE WideStep /\ Going
<1>1. PICK action \in BulkActions \ {"move"} :
        Sends([NoAsk EXCEPT !.kind = "bulk", !.action = action, !.ids = Selected])
  BY DEF StartBulk
<1>2. PICK ids \in SUBSET Docs : ids = Selected
  BY DEF Selected, PageInv, PTyped, Page
<1>3. PICK r : r = [NoAsk EXCEPT !.kind = "bulk", !.action = action, !.ids = ids]
  OBVIOUS
<1>4. action \in Actions /\ (plan.view = "trash" => action = "restore")
  BY DEF BulkActions, Actions
<1>5. r \in Ask /\ r.kind = "bulk" /\ r.action = action /\ r.ids = ids /\ r.tree = {} /\ r.call = None
  BY <1>3, <1>4, NoAskOK DEF Ask, Ops, Actions
<1>6. Asking(r)
  BY <1>2, <1>4, <1>5 DEF Asking
<1>7. Sends(r)
  BY <1>1, <1>2, <1>3
<1>8. WideStep
  BY QuietIsWide DEF StartBulk, Still, NoNews
<1>9. QED BY <1>5, <1>6, <1>7, <1>8, SendGoes, SamePage
      DEF StartBulk, Ready, Still, NoNews, Unchanged

LEMMA ActOnRowGoes ==
  ASSUME PageInv, BaseInv, plan.view # "none", ActOnRow PROVE WideStep /\ Going
<1>0. PICK i \in DOMAIN page.rows : \E action \in Offered(page.rows[i]) :
        Sends([NoAsk EXCEPT !.kind = action, !.action = action, !.ids = {page.rows[i].doc}])
  BY DEF ActOnRow
<1>1. PICK action \in Offered(page.rows[i]) :
        Sends([NoAsk EXCEPT !.kind = action, !.action = action, !.ids = {page.rows[i].doc}])
  BY <1>0
<1>2. PICK d \in Docs : d = page.rows[i].doc
  BY RowsTyped
<1>3. PICK r : r = [NoAsk EXCEPT !.kind = action, !.action = action, !.ids = {d}]
  OBVIOUS
<1>4. /\ action \in {"restore", "delete", "reprocess"}
      /\ plan.view = "trash" => action = "restore"
      /\ plan.view # "trash" => action # "restore"
  BY DEF Offered
<1>5. r \in Ask /\ r.kind = action /\ r.action = action /\ r.tree = {}
  BY <1>3, <1>4, NoAskOK DEF Ask, Ops, Actions
<1>6. Asking(r)
  BY <1>4, <1>5 DEF Asking
<1>7. Sends(r)
  BY <1>1, <1>2, <1>3
<1>8. WideStep
  BY QuietIsWide DEF ActOnRow, Still, NoNews
<1>9. QED BY <1>5, <1>6, <1>7, <1>8, SendGoes, SamePage
      DEF ActOnRow, Ready, Still, NoNews, Unchanged

LEMMA ToggleStarGoes ==
  ASSUME PageInv, BaseInv, ToggleStar PROVE WideStep /\ Going
<1>1. PICK i \in DOMAIN page.rows :
        LET row == page.rows[i]
        IN  /\ Sends([NoAsk EXCEPT !.kind = "star", !.ids = {row.doc},
                                   !.action = IF row.star THEN "unstar" ELSE "star"])
            /\ page' = [page EXCEPT !.rows = Patch(@, row.doc, ~row.star)]
  BY DEF ToggleStar
<1>2. PICK d \in Docs, star \in BOOLEAN : d = page.rows[i].doc /\ star = page.rows[i].star
  BY RowsTyped
<1>3. PICK action : action = IF star THEN "unstar" ELSE "star"
  OBVIOUS
<1>4. PICK r : r = [NoAsk EXCEPT !.kind = "star", !.ids = {d}, !.action = action]
  OBVIOUS
<1>5. r \in Ask /\ r.kind = "star" /\ r.ids = {d} /\ r.tree = {}
  <2>1. action \in Actions /\ "star" \in Ops /\ {d} \in SUBSET Docs
    BY <1>3 DEF Actions, Ops
  <2>2. QED BY <1>4, <2>1, NoAskOK DEF Ask
<1>6. Asking(r)
  BY <1>5 DEF Asking
<1>7. Sends(r)
  BY <1>1, <1>2, <1>3, <1>4
<1>8. PICK seq \in Seq(Row) : seq = Patch(page.rows, d, ~star) /\ RowDocs(seq) = RowDocs(page.rows)
  BY PatchedIs DEF PageInv, PTyped, Page
<1>9. page' = [page EXCEPT !.rows = seq]
  BY <1>1, <1>2, <1>8
<1>10. /\ Stable /\ page'.ticked = page.ticked /\ page'.tree = page.tree
       /\ RowDocs(page.rows) \subseteq RowDocs(page'.rows)
  BY <1>8, <1>9 DEF PageInv, PTyped, Page, Stable
<1>11. WideStep
  BY QuietIsWide DEF ToggleStar, Still, NoNews
<1>12. QED BY <1>5, <1>6, <1>7, <1>10, <1>11, SendGoes
       DEF ToggleStar, Ready, Still, NoNews, Unchanged

LEMMA PickFileGoes ==
  ASSUME PageInv, BaseInv, PickFile PROVE WideStep /\ Going
<1>1. PICK f \in Folders \cup {None} : f = page.filter.folder
  BY DEF PageInv, PTyped, Page, Filter
<1>2. PICK r : r = [NoAsk EXCEPT !.kind = "upload", !.to = f]
  OBVIOUS
<1>3. r \in Ask /\ r.kind = "upload" /\ r.tree = {}
  BY <1>2, NoAskOK DEF Ask, Ops, Actions
<1>4. Asking(r)
  BY <1>3 DEF Asking
<1>5. Sends(r)
  BY <1>1, <1>2 DEF PickFile
<1>6. NewAsk \in Asks
  BY NewAskFree DEF PickFile
<1>7. PICK queue \in SUBSET Asks : queue = page.queue \cup {NewAsk}
  BY <1>6 DEF PageInv, PTyped, Page
<1>8. page' = [page EXCEPT !.queue = queue]
  BY <1>7 DEF PickFile
<1>9. /\ Stable /\ page'.ticked = page.ticked /\ page'.tree = page.tree
      /\ RowDocs(page.rows) \subseteq RowDocs(page'.rows)
  BY <1>8 DEF PageInv, PTyped, Page, Stable
<1>10. WideStep
  BY QuietIsWide DEF PickFile, Still, NoNews
<1>11. QED BY <1>3, <1>4, <1>5, <1>9, <1>10, SendGoes
       DEF PickFile, Still, NoNews, Unchanged

LEMMA GhostIs ==
  ASSUME PageInv
  PROVE  /\ ghost \in Ghost /\ ghost.chosen \in SUBSET Docs /\ ghost.crossed \in SUBSET Docs
         /\ ghost.stray \in SUBSET Asks /\ ghost.slipped \in BOOLEAN
         /\ ghost.owner \in [Docs -> {"other", "one", "run", "bulk", "star"}]
         /\ ghost.steady \in [{0} \cup DOMAIN ask -> SUBSET Docs]
BY DEF PageInv, PTyped, Ghost

LEMMA GhostCrossed ==
  ASSUME PageInv, NEW crossed \in SUBSET Docs, ghost' = [ghost EXCEPT !.crossed = crossed]
  PROVE  /\ ghost' \in Ghost /\ ghost'.slipped = ghost.slipped /\ ghost'.stray = ghost.stray
         /\ ghost'.steady = ghost.steady /\ ghost'.chosen = ghost.chosen
BY GhostIs DEF Ghost

LEMMA AllWait ==
  ASSUME PageInv, plan.view # "none", UNCHANGED ask, \A b \in Asks : Calm(b)
  PROVE  AsksMove /\ ~Ends(page.reading)
<1>1. ask' \in [Asks -> Ask]
  BY AskTyped DEF PageInv
<1>2. \A b \in Asks : Waits(b)
  BY DEF Waits
<1>3. ~Ends(page.reading)
  BY DEF Ends, Flying
<1>4. QED BY <1>1, <1>2, <1>3 DEF AsksMove

LEMMA TickGoes ==
  ASSUME PageInv, BaseInv, plan.view # "none", Tick PROVE WideStep /\ Going
<1>1. PICK ids \in {Selected \cup {d} : d \in OnScreen} \cup {Selected \ {d} : d \in OnScreen}
                   \cup {OnScreen, {}} :
        /\ page' = [page EXCEPT !.ticked = [under |-> page.under, ids |-> ids]]
        /\ ghost' = [ghost EXCEPT !.chosen = @ \cup (ids \cap OnScreen)]
  BY DEF Tick
<1>2. OnScreen \in SUBSET Docs
  BY RowsTyped DEF OnScreen, RowDocs
<1>3. Selected \subseteq ghost.chosen /\ ghost.chosen \in SUBSET Docs
  BY GhostIs DEF PageInv, TickInv, Selected
<1>4. PICK chosen \in SUBSET Docs : chosen = ghost.chosen \cup (ids \cap OnScreen)
  BY <1>2, <1>3
<1>5. ids \subseteq Selected \cup OnScreen
  BY <1>1
<1>6. ids \subseteq chosen /\ ids \in SUBSET Docs
  BY <1>2, <1>3, <1>4, <1>5
<1>7. PICK ticked \in [under : Nat, ids : SUBSET Docs] :
        ticked = [under |-> page.under, ids |-> ids]
  BY <1>6 DEF PageInv, PTyped, Page
<1>8. page' = [page EXCEPT !.ticked = ticked]
  BY <1>1, <1>7
<1>9. Stable /\ page'.ticked = ticked /\ page'.tree = page.tree /\ page'.rows = page.rows
  BY <1>8 DEF PageInv, PTyped, Page, Stable
<1>10. ghost' = [ghost EXCEPT !.chosen = chosen]
  BY <1>1, <1>4
<1>11. /\ ghost' \in Ghost /\ ghost'.slipped = ghost.slipped /\ ghost'.stray = ghost.stray
       /\ ghost'.steady = ghost.steady /\ ghost'.chosen = chosen
  BY <1>10, GhostIs DEF Ghost
<1>12. TickInv'
  <2>1. page'.under = page.under /\ page.under \in Nat
    BY <1>9 DEF Stable, PageInv, PTyped, Page
  <2>2. QED BY <1>6, <1>7, <1>9, <1>11, <2>1 DEF TickInv
<1>13. UNCHANGED <<docs, starred, phase, pushed, plan, ask>>
  BY DEF Tick, NoNews, Unchanged
<1>14. \A b \in {0} \cup Asks : Calm(b)
  BY <1>11, <1>13, AllCalm
<1>15. AsksMove /\ ~Ends(page.reading)
  BY <1>13, <1>14, AllWait
<1>16. RowsKept
  BY <1>9 DEF RowsKept
<1>17. WideStep
  BY <1>13, QuietIsWide DEF Tick
<1>18. page'.tree \subseteq SeenFolders'
  BY <1>9, <1>17, TreeKept
<1>19. /\ phase' \in [Docs -> {"busy", "settled"}] /\ starred' \in SUBSET Docs
       /\ pushed' \in Seq(Docs)
  BY <1>13 DEF PageInv, PTyped
<1>20. QED BY <1>9, <1>11, <1>12, <1>13, <1>14, <1>15, <1>16, <1>17, <1>18, <1>19, StableGoes

LEMMA ReadingIs ==
  ASSUME NEW filter \in Filter, NEW under \in Nat
  PROVE  LET r == Reading(filter, under)
         IN  /\ r \in Ask /\ r.kind = "list" /\ r.is = "sent" /\ r.filter = filter
             /\ r.under = under /\ Asking(r)
<1>1. PICK r : r = [NoAsk EXCEPT !.kind = "list", !.is = "sent", !.filter = filter, !.under = under]
  OBVIOUS
<1>2. /\ r \in Ask /\ r.kind = "list" /\ r.is = "sent" /\ r.filter = filter
      /\ r.under = under /\ r.cursor = None /\ r.tree = {}
  BY <1>1, NoAskOK DEF Ask, Ops
<1>3. Asking(r)
  BY <1>2 DEF Asking
<1>4. r = Reading(filter, under)
  BY <1>1 DEF Reading
<1>5. QED BY <1>2, <1>3, <1>4

\* The list is read anew.
LEMMA RefetchGoes ==
  ASSUME PageInv, BaseInv, WideStep, plan.view # "none", plan' = plan, page' \in Page,
         NEW n \in Asks, page'.reading = n, ask[n].is = "unsent",
         ask'[n] = Reading(page'.filter, page'.under),
         \/ page'.under = page.under /\ page'.filter = page.filter
         \/ page'.under = page.under + 1,
         ask' \in [Asks -> Ask], \A b \in Asks : b = n \/ Ends(b) \/ Waits(b),
         ghost' \in Ghost, ghost'.stray = ghost.stray,
         UNCHANGED <<phase, starred, pushed>>,
         page'.tree \subseteq SeenFolders', page'.filter.folder \in SeenFolders', TickInv'
  PROVE  Going
<1>1. page'.filter \in Filter /\ page'.under \in Nat
  BY DEF Page
<1>2. PICK r : r = ask'[n] /\ r \in Ask /\ r.kind = "list" /\ r.is = "sent"
               /\ r.filter = page'.filter /\ r.under = page'.under /\ Asking(r)
  BY <1>1, ReadingIs
<1>3. Sent(n)
  BY <1>2, AskingIs
<1>4. Filters
  BY <1>2, <1>3 DEF Filters
<1>5. ListInv'
  BY <1>2 DEF ListInv, Flying
<1>6. /\ phase' \in [Docs -> {"busy", "settled"}] /\ starred' \in SUBSET Docs
      /\ pushed' \in Seq(Docs)
  BY DEF PageInv, PTyped
<1>7. QED BY <1>3, <1>4, <1>5, <1>6 DEF Going

LEMMA RetryGoes ==
  ASSUME PageInv, BaseInv, plan.view # "none", Retry PROVE WideStep /\ Going
<1>1. PICK n \in Asks : n = NewAsk /\ ask[n].is = "unsent"
  BY NewAskFree DEF Retry
<1>2. page' = [page EXCEPT !.load = "loading", !.reading = n]
  BY <1>1 DEF Retry
<1>3. /\ page' \in Page /\ page'.reading = n /\ page'.filter = page.filter
      /\ page'.under = page.under /\ page'.tree = page.tree /\ page'.ticked = page.ticked
  BY <1>2 DEF PageInv, PTyped, Page
<1>4. PICK r \in Ask : r = Reading(page.filter, page.under)
  BY ReadingIs DEF PageInv, PTyped, Page
<1>5. ask' = [ask EXCEPT ![n] = r]
  BY <1>1, <1>4 DEF Retry
<1>6. ask' \in [Asks -> Ask] /\ ask'[n] = r /\ \A b \in Asks : b # n => ask'[b] = ask[b]
  BY <1>5, AskPut
<1>7. UNCHANGED <<docs, starred, phase, pushed, plan, ghost>>
  BY DEF Retry, Still, NoNews, Unchanged
<1>8. ghost' \in Ghost /\ ghost'.stray = ghost.stray /\ ghost'.steady = ghost.steady
      /\ ghost'.chosen = ghost.chosen
  BY <1>7, GhostIs
<1>9. \A b \in Asks : b = n \/ Waits(b)
  BY <1>6, <1>7, <1>8, AllCalm DEF Waits
<1>10. TickInv'
  BY <1>3, <1>8, TicksKept
<1>11. WideStep
  BY QuietIsWide DEF Retry, Still, NoNews
<1>12. page'.tree \subseteq SeenFolders' /\ page'.filter.folder \in SeenFolders'
  BY <1>3, <1>11, SeenGrow DEF PageInv, SeenFoldersInv
<1>13. QED BY <1>1, <1>3, <1>4, <1>6, <1>7, <1>8, <1>9, <1>10, <1>11, <1>12, RefetchGoes

LEMMA NarrowGoes ==
  ASSUME PageInv, BaseInv, Narrow PROVE WideStep /\ Going
<1>0. plan.view # "none"
  BY DEF Narrow
<1>1. PICK n \in Asks : n = NewAsk /\ ask[n].is = "unsent"
  BY <1>0, NewAskFree DEF Narrow
<1>2. PICK f \in [folder : page.tree \cup {None}, archived : BOOLEAN,
               favorite : IF "star" \in DOMAIN plan.ops THEN BOOLEAN ELSE {FALSE}] :
       /\ page' = [page EXCEPT !.filter = f, !.under = @ + 1, !.reading = NewAsk]
       /\ ask' = [ask EXCEPT ![NewAsk] = Reading(f, page.under + 1)]
  BY DEF Narrow
<1>3. f \in Filter /\ f.folder \in page.tree \cup {None}
  <2>1. page.tree \subseteq Folders
    BY DEF PageInv, PTyped, Page
  <2>2. f.folder \in page.tree \cup {None} /\ f.archived \in BOOLEAN /\ f.favorite \in BOOLEAN
    OBVIOUS
  <2>3. f \in [folder : page.tree \cup {None}, archived : BOOLEAN, favorite : BOOLEAN]
    OBVIOUS
  <2>4. QED BY <2>1, <2>2, <2>3 DEF Filter
<1>4. page.under \in Nat /\ page.under + 1 \in Nat
  BY DEF PageInv, PTyped, Page
<1>5. PICK under \in Nat : under = page.under + 1
  BY <1>4
<1>6. page' = [page EXCEPT !.filter = f, !.under = under, !.reading = n]
  BY <1>1, <1>2, <1>5
<1>7. /\ page' \in Page /\ page'.reading = n /\ page'.filter = f
      /\ page'.under = under /\ page'.tree = page.tree /\ page'.ticked = page.ticked
  BY <1>3, <1>6 DEF PageInv, PTyped, Page
<1>8. PICK r \in Ask : r = Reading(f, under)
  BY <1>3, ReadingIs
<1>9. ask' = [ask EXCEPT ![n] = r]
  BY <1>1, <1>2, <1>5, <1>8
<1>10. ask' \in [Asks -> Ask] /\ ask'[n] = r /\ \A b \in Asks : b # n => ask'[b] = ask[b]
  BY <1>0, <1>9, AskPut
<1>11. UNCHANGED <<docs, starred, phase, pushed, plan>> /\ ghost' = [ghost EXCEPT !.chosen = {}]
  BY DEF Narrow, NoNews, Unchanged
<1>12. ghost' \in Ghost /\ ghost'.stray = ghost.stray /\ ghost'.steady = ghost.steady
  BY <1>11, GhostIs DEF Ghost
<1>13. \A b \in Asks : b = n \/ Waits(b)
  BY <1>0, <1>10, <1>11, <1>12, AllCalm DEF Waits
<1>14. TickInv'
  <2>1. page.ticked.under <= page.under /\ page.ticked.under \in Nat
    BY DEF PageInv, TickInv, PTyped, Page
  <2>2. page'.ticked.under <= page'.under /\ page'.ticked.under # page'.under
    BY <1>4, <1>5, <1>7, <2>1
  <2>3. QED BY <2>2 DEF TickInv
<1>15. WideStep
  BY QuietIsWide DEF Narrow, NoNews
<1>16. None \in SeenFolders
  BY NamesApart DEF SeenFolders, Existed, Places, Folders
<1>17. page'.tree \subseteq SeenFolders' /\ page'.filter.folder \in SeenFolders'
  BY <1>3, <1>7, <1>15, <1>16, SeenGrow DEF PageInv, SeenFoldersInv
<1>18. QED BY <1>0, <1>1, <1>5, <1>7, <1>8, <1>10, <1>11, <1>12, <1>13, <1>14, <1>15, <1>17, RefetchGoes

\* What the page posts to Library.
Posted(request) ==
  /\ request \in Call /\ ~request.ok
  /\ request.cursor = request.parent \/ request.parent = None
  /\ Existed(request.cursor) /\ Existed(request.parent) /\ Existed(request.folder)
  /\ request.parent \in Places \cup {None} /\ request.folder \in Places \cup {None}
  /\ \/ /\ request.kind = "createFolder" /\ request.at \in {"name", "climb"}
        /\ request.parent \in Places
     \/ /\ request.kind = "removeFolder" /\ request.at = "count" /\ request.folder \in Folders
        /\ request.rows = {"folders", "documents"}
     \/ /\ request.kind = "bulkMove" /\ request.at \in {"load", "folder"}
        /\ request.folder \in Places

LEMMA PostsGoes ==
  ASSUME PageInv, BaseInv, plan.view = "documents", Free # {},
         NEW request, Posted(request), NEW kind \in {"bulk", "createFolder", "removeFolder"},
         NEW ids \in SUBSET Docs, NEW to \in Folders \cup {Root, None},
         kind = "bulk" => ids \subseteq Selected,
         Posts(request, kind, ids, to)
  PROVE  WideStep /\ Going
<1>0. plan.view # "none" /\ plan.view # "trash"
  OBVIOUS
<1>1. PICK c \in Calls :
        /\ Begin(c, request)
        /\ Sends([NoAsk EXCEPT !.kind = kind, !.action = "move", !.ids = ids, !.to = to, !.call = c])
  <2>1. FreeCalls \subseteq Calls /\ FreeCalls # {}
    BY DEF FreeCalls, Posts
  <2>2. (CHOOSE x \in FreeCalls : TRUE) \in Calls
    BY <2>1
  <2>3. QED BY <2>2 DEF Posts
<1>2. PICK r : r = [NoAsk EXCEPT !.kind = kind, !.action = "move", !.ids = ids, !.to = to, !.call = c]
  OBVIOUS
<1>3. /\ r \in Ask /\ r.kind = kind /\ r.ids = ids /\ r.call = c /\ r.tree = {}
  BY <1>2, NoAskOK DEF Ask, Ops, Actions
<1>4. c # None
  BY RootAssumption DEF Folders
<1>5. Asking(r)
  BY <1>0, <1>3, <1>4 DEF Asking
<1>6. Sends(r)
  BY <1>1, <1>2
<1>7. Starting(c)
  BY <1>1, RequestBegins DEF Posted, BaseInv
<1>8. WideStep
  BY <1>7 DEF WideStep, Moving
<1>9. UNCHANGED <<plan, page, phase, starred, pushed, ghost, docs>>
  BY <1>1 DEF Posts, Begin, rows
<1>10. QED BY <1>0, <1>3, <1>5, <1>6, <1>8, <1>9, SendGoes, SamePage

LEMMA SeenExisted ==
  ASSUME PageInv
  PROVE  /\ Existed(None) /\ Existed(Root)
         /\ page.tree \subseteq Folders /\ \A f \in page.tree : Existed(f)
         /\ page.filter.folder \in Folders \cup {None} /\ Existed(page.filter.folder)
<1>1. page.tree \subseteq Folders /\ page.filter.folder \in Folders \cup {None}
  BY DEF PageInv, PTyped, Page, Filter
<1>2. Existed(None) /\ Existed(Root)
  BY NamesApart DEF Existed, Places, Folders
<1>3. QED BY <1>1, <1>2 DEF PageInv, SeenFoldersInv, SeenFolders

LEMMA StartMoveGoes ==
  ASSUME PageInv, BaseInv, StartMove PROVE WideStep /\ Going
<1>1. PICK f \in page.tree \cup {Root} :
        Posts([NoCall EXCEPT !.kind = "bulkMove", !.docs = Selected, !.folder = f,
                             !.at = IF f = Root THEN "load" ELSE "folder"], "bulk", Selected, f)
  BY DEF StartMove
<1>2. PICK at \in {"load", "folder"} : at = IF f = Root THEN "load" ELSE "folder"
  OBVIOUS
<1>3. PICK ids \in SUBSET Docs : ids = Selected
  BY DEF Selected, PageInv, PTyped, Page
<1>4. PICK r : r = [NoCall EXCEPT !.kind = "bulkMove", !.docs = ids, !.folder = f, !.at = at]
  OBVIOUS
<1>5. f \in Folders \cup {Root} /\ Existed(f)
  BY SeenExisted
<1>6. /\ r \in Call /\ ~r.ok /\ r.kind = "bulkMove" /\ r.at = at /\ r.folder = f
      /\ r.parent = None /\ r.cursor = Root
  BY <1>4, <1>5, NoCallOK DEF Call, NoCall, CallSteps, AllCallKinds
<1>7. Posted(r)
  BY <1>5, <1>6, SeenExisted DEF Posted, Places
<1>8. Posts(r, "bulk", ids, f)
  BY <1>1, <1>2, <1>3, <1>4, Zenon
<1>9. plan.view = "documents" /\ Free # {}
  BY DEF StartMove, Ready
<1>10. QED BY <1>3, <1>5, <1>7, <1>8, <1>9, PostsGoes

LEMMA StartCreateFolderGoes ==
  ASSUME PageInv, BaseInv, StartCreateFolder PROVE WideStep /\ Going
<1>1. PICK p : p = IF page.filter.folder = None THEN Root ELSE page.filter.folder
  OBVIOUS
<1>2. PICK n \in Names :
        Posts([NoCall EXCEPT !.kind = "createFolder", !.name = n, !.parent = p, !.cursor = p,
                             !.at = IF p = Root THEN "name" ELSE "climb"], "createFolder", {}, p)
  BY <1>1 DEF StartCreateFolder
<1>3. PICK at \in {"name", "climb"} : at = IF p = Root THEN "name" ELSE "climb"
  OBVIOUS
<1>4. PICK r : r = [NoCall EXCEPT !.kind = "createFolder", !.name = n, !.parent = p, !.cursor = p,
                                  !.at = at]
  OBVIOUS
<1>5. p \in Folders \cup {Root} /\ Existed(p)
  BY <1>1, SeenExisted
<1>6. /\ r \in Call /\ ~r.ok /\ r.kind = "createFolder" /\ r.at = at /\ r.folder = None
      /\ r.parent = p /\ r.cursor = p
  BY <1>4, <1>5, NoCallOK DEF Call, NoCall, CallSteps, AllCallKinds
<1>7. Posted(r)
  BY <1>5, <1>6, SeenExisted DEF Posted, Places
<1>8. Posts(r, "createFolder", {}, p)
  BY <1>2, <1>3, <1>4, Zenon
<1>9. plan.view = "documents" /\ Free # {}
  BY DEF StartCreateFolder, Ready
<1>10. QED BY <1>5, <1>7, <1>8, <1>9, PostsGoes

LEMMA StartRemoveFolderGoes ==
  ASSUME PageInv, BaseInv, StartRemoveFolder PROVE WideStep /\ Going
<1>1. PICK f \in page.tree :
       Posts([NoCall EXCEPT !.kind = "removeFolder", !.folder = f, !.at = "count",
                            !.rows = {"folders", "documents"}], "removeFolder", {}, f)
  BY DEF StartRemoveFolder
<1>2. PICK seen \in SUBSET (Label \cup {"folders", "documents"}) : seen = {"folders", "documents"}
  OBVIOUS
<1>3. PICK r : r = [NoCall EXCEPT !.kind = "removeFolder", !.folder = f, !.at = "count", !.rows = seen]
  OBVIOUS
<1>4. f \in Folders /\ Existed(f)
  BY SeenExisted
<1>5. /\ r \in Call /\ ~r.ok /\ r.kind = "removeFolder" /\ r.at = "count" /\ r.folder = f
      /\ r.parent = None /\ r.cursor = Root /\ r.rows = seen
  BY <1>3, <1>4, NoCallOK DEF Call, NoCall, CallSteps, AllCallKinds
<1>6. Posted(r)
  BY <1>2, <1>4, <1>5, SeenExisted DEF Posted, Places
<1>7. Posts(r, "removeFolder", {}, f)
  BY <1>1, <1>2, <1>3, Zenon
<1>8. plan.view = "documents" /\ Free # {}
  BY DEF StartRemoveFolder, Ready
<1>9. QED BY <1>4, <1>6, <1>7, <1>8, PostsGoes

\* A request of the page is over.
LEMMA TakeIs ==
  ASSUME PageInv, plan.view # "none", NEW a \in Asks, Flying(ask[a])
  PROVE  /\ Take(a) \in [Asks -> Ask]
         /\ Take(a)[a].is = "taken" /\ Take(a)[a].kind = ask[a].kind
         /\ Take(a)[a].under = 0 /\ Take(a)[a].tree = {}
         /\ \A b \in Asks : b # a => Take(a)[b] = ask[b]
<1>1. ask \in [Asks -> Ask] /\ ask[a].kind \in Ops \cup {"none", "list"}
  <2>1. ask \in [Asks -> Ask]
    BY AskTyped DEF PageInv
  <2>2. QED BY <2>1 DEF Ask
<1>2. PICK kind \in Ops \cup {"none", "list"} : kind = ask[a].kind
  BY <1>1
<1>3. PICK r : r = [NoAsk EXCEPT !.kind = kind, !.is = "taken"]
  OBVIOUS
<1>4. r \in Ask /\ r.is = "taken" /\ r.kind = kind /\ r.tree = {} /\ r.under = 0
  BY <1>3, NoAskOK DEF Ask, NoAsk
<1>5. Take(a) = [ask EXCEPT ![a] = r]
  BY <1>2, <1>3 DEF Take
<1>6. QED BY <1>1, <1>2, <1>4, <1>5

LEMMA TakeMoves ==
  ASSUME PageInv, plan.view # "none", NEW a \in Asks, Flying(ask[a]), ask' = Take(a),
         \A b \in Asks : Calm(b)
  PROVE  AsksMove /\ Ends(a) /\ \A b \in Asks : b # a => ~Ends(b)
<1>1. ask' \in [Asks -> Ask] /\ Ends(a)
  BY TakeIs DEF Ends
<1>2. \A b \in Asks : b # a => ask'[b] = ask[b]
  BY TakeIs
<1>3. \A b \in Asks : b # a => Waits(b) /\ ~Ends(b)
  BY <1>2 DEF Waits, Ends, Flying
<1>4. QED BY <1>1, <1>3 DEF AsksMove

LEMMA CancelUploadGoes ==
  ASSUME PageInv, BaseInv, plan.view # "none", NEW a \in Asks, CancelUpload(a)
  PROVE  WideStep /\ Going
<1>1. PICK r : r = [ask[a] EXCEPT !.is = "taken"]
  OBVIOUS
<1>2. ask \in [Asks -> Ask] /\ ask[a].kind = "upload" /\ Flying(ask[a])
  BY AskTyped DEF PageInv, CancelUpload, InFlight, Flying
<1>u. PICK u \in Ask : u = ask[a]
  BY <1>2
<1>3. /\ r \in Ask /\ r.is = "taken" /\ r.kind = ask[a].kind /\ r.under = ask[a].under
      /\ r.tree = ask[a].tree
  <2>1. r = [u EXCEPT !.is = "taken"]
    BY <1>1, <1>u
  <2>2. QED BY <1>u, <2>1 DEF Ask
<1>4. ask' = [ask EXCEPT ![a] = r]
  BY <1>1 DEF CancelUpload
<1>5. ask' \in [Asks -> Ask] /\ ask'[a] = r /\ \A b \in Asks : b # a => ask'[b] = ask[b]
  BY <1>3, <1>4, AskPut
<1>6. PICK ids \in SUBSET Docs : ids = ask[a].ids
  BY <1>2 DEF Ask
<1>7. PICK crossed \in SUBSET Docs : crossed = ghost.crossed \cup ids
  BY GhostIs
<1>8. ghost' = [ghost EXCEPT !.crossed = crossed]
  BY <1>6, <1>7 DEF CancelUpload
<1>9. /\ ghost' \in Ghost /\ ghost'.slipped = ghost.slipped /\ ghost'.stray = ghost.stray
      /\ ghost'.steady = ghost.steady /\ ghost'.chosen = ghost.chosen
  BY <1>8, GhostIs DEF Ghost
<1>10. UNCHANGED <<docs, starred, phase, pushed, plan>>
  BY DEF CancelUpload, NoNews, Unchanged
<1>11. \A b \in {0} \cup Asks : Calm(b)
  BY <1>9, <1>10, AllCalm
<1>12. Ends(a) /\ \A b \in Asks : b # a => Waits(b)
  BY <1>2, <1>3, <1>5, <1>11 DEF Ends, Waits
<1>13. AsksMove
  BY <1>5, <1>12 DEF AsksMove
<1>14. ~Ends(page.reading)
  <2>1. PICK b \in Asks : b = page.reading /\ ask[b].kind = "list"
    BY DEF PageInv, ReadInv
  <2>2. ask'[b] = ask[b]
    BY <1>2, <1>5, <2>1
  <2>3. QED BY <2>1, <2>2 DEF Ends, Flying
<1>15. page' = [page EXCEPT !.queue = {}]
  BY DEF CancelUpload, Idle
<1>16. Stable /\ page'.ticked = page.ticked /\ page'.tree = page.tree /\ page'.rows = page.rows
  BY <1>15 DEF PageInv, PTyped, Page, Stable
<1>17. RowsKept /\ TickInv'
  BY <1>9, <1>16, TicksKept DEF RowsKept, Stable
<1>18. WideStep
  BY QuietIsWide DEF CancelUpload, NoNews
<1>19. page'.tree \subseteq SeenFolders'
  BY <1>16, <1>18, TreeKept
<1>20. /\ phase' \in [Docs -> {"busy", "settled"}] /\ starred' \in SUBSET Docs
       /\ pushed' \in Seq(Docs)
  BY <1>10 DEF PageInv, PTyped
<1>21. QED BY <1>9, <1>10, <1>11, <1>13, <1>14, <1>16, <1>17, <1>18, <1>19, <1>20, StableGoes

\* The event that is next.
LEMMA HeadIs ==
  ASSUME PageInv, pushed # <<>> PROVE Head(pushed) \in Docs
BY DEF PageInv, PTyped

LEMMA DeliverGoes ==
  ASSUME PageInv, BaseInv, plan.view # "none", Deliver PROVE WideStep /\ Going
<1>1. PICK seq \in Seq(Row) :
        seq = Patched(page.rows, Head(pushed), "settled") /\ RowDocs(seq) = RowDocs(page.rows)
  BY PatchedIs, RowsTyped DEF Shows
<1>2. page' = [page EXCEPT !.rows = seq]
  BY <1>1 DEF Deliver
<1>3. /\ Stable /\ page'.ticked = page.ticked /\ page'.tree = page.tree
      /\ RowDocs(page.rows) \subseteq RowDocs(page'.rows)
  BY <1>1, <1>2 DEF PageInv, PTyped, Page, Stable
<1>4. pushed' \in Seq(Docs)
  BY DEF Deliver, PageInv, PTyped
<1>5. UNCHANGED <<plan, docs, phase, starred, ask>>
  BY DEF Deliver, Unchanged
<1>c. PICK crossed \in SUBSET Docs :
        crossed = ghost.crossed \cup {d \in {Head(pushed)} : Shown(d) # "settled"}
  BY GhostIs, HeadIs DEF Deliver
<1>g. ghost' = [ghost EXCEPT !.crossed = crossed]
  BY <1>c DEF Deliver
<1>h. /\ ghost' \in Ghost /\ ghost'.slipped = ghost.slipped /\ ghost'.stray = ghost.stray
      /\ ghost'.steady = ghost.steady /\ ghost'.chosen = ghost.chosen
  BY <1>g, GhostCrossed
<1>6. WideStep
  BY QuietIsWide DEF Deliver
<1>7. \A b \in {0} \cup Asks : Calm(b)
  BY <1>5, <1>h, AllCalm
<1>8. AsksMove /\ ~Ends(page.reading)
  BY <1>5, <1>7, AllWait
<1>9. page'.tree \subseteq SeenFolders'
  BY <1>3, <1>6, TreeKept
<1>10. TickInv' /\ RowsKept
  BY <1>3, <1>h, TicksKept DEF RowsKept, Stable
<1>11. phase' \in [Docs -> {"busy", "settled"}] /\ starred' \in SUBSET Docs
  BY <1>5 DEF PageInv, PTyped
<1>12. QED BY <1>3, <1>4, <1>5, <1>6, <1>7, <1>8, <1>9, <1>10, <1>11, <1>h, StableGoes

\* A request of the page is served: the page itself does not move.
LEMMA ServedGoes ==
  ASSUME PageInv, BaseInv, WideStep, plan.view # "none", NEW a \in Asks, ask[a].is = "sent",
         NEW r \in Ask, ask' = [ask EXCEPT ![a] = r], Answers(a),
         \A b \in {0} \cup Asks : b # a => Calm(b),
         UNCHANGED <<plan, page>>, ghost' \in Ghost,
         ghost'.slipped = ghost.slipped, ghost'.chosen = ghost.chosen,
         ghost.stray \subseteq ghost'.stray,
         \A b \in ghost'.stray \ ghost.stray : b \in Asks /\ ask[b].kind = "more",
         phase' \in [Docs -> {"busy", "settled"}], starred' \in SUBSET Docs, pushed' \in Seq(Docs)
  PROVE  Going
<1>1. ask' \in [Asks -> Ask] /\ \A b \in Asks : b # a => ask'[b] = ask[b]
  BY AskPut
<1>2. AsksMove
  BY <1>1 DEF AsksMove, Waits
<1>3. page.reading \in Asks
  BY DEF PageInv, ReadInv
<1>4. ~Ends(page.reading)
  BY <1>1, <1>3 DEF Ends, Answers, Flying
<1>5. Calm(0)
  BY AskTyped DEF PageInv, Asks
<1>6. RowsKept /\ TickInv' /\ page'.tree \subseteq SeenFolders'
  BY TicksKept, TreeKept DEF RowsKept
<1>7. QED BY <1>2, <1>4, <1>5, <1>6, SamePage, StableGoes

LEMMA ServeReadGoes ==
  ASSUME PageInv, BaseInv, plan.view # "none", NEW a \in Asks, ServeRead(a)
  PROVE  WideStep /\ Going
<1>1. PICK u \in Ask : u = ask[a] /\ u.kind \in {"list", "more"} /\ u.is = "sent"
  BY AskTyped DEF PageInv, ServeRead
<1>2. PICK found : found = Listed(u.filter, u.cursor)
  OBVIOUS
<1>3. u.cursor \in Docs \cup {None} /\ ShowsOK
  BY <1>1 DEF Ask, ShowsOK, PageInv, PTyped, BaseInv, RowsOK
<1>4. PICK seq \in Seq(Row), next \in Docs \cup {None} :
        /\ seq = FirstRows(found) /\ next = NextCursor(found)
        /\ u.cursor = None \/ Belongs(u.cursor, u.filter) =>
             Covers(seq, u.cursor, next, {d \in Docs : Belongs(d, u.filter)})
  BY <1>2, <1>3, ReadCovers
<1>t. ASSUME NEW f \in Folders, Live(f) PROVE f \in SeenFolders
  <2>1. Existed(f)
    BY <1>t DEF BaseInv, MadeInv
  <2>2. QED BY <2>1 DEF SeenFolders
<1>5. PICK tree : tree = {f \in Folders : Live(f)}
  OBVIOUS
<1>s. tree \in SUBSET Folders /\ tree \subseteq SeenFolders
  BY <1>t, <1>5
<1>6. PICK r : r = [u EXCEPT !.is = "served", !.rows = seq, !.next = next, !.tree = tree]
  OBVIOUS
<1>7. /\ r \in Ask /\ r.is = "served" /\ r.rows = seq /\ r.next = next /\ r.tree = tree
      /\ r.kind = u.kind /\ r.under = u.under /\ r.filter = u.filter /\ r.cursor = u.cursor
  BY <1>1, <1>6, <1>s DEF Ask
<1>8. ask' = [ask EXCEPT ![a] = r]
  <2>1. ask' = [ask EXCEPT ![a].is = "served", ![a].rows = seq, ![a].next = next, ![a].tree = tree]
    BY <1>1, <1>2, <1>4, <1>5 DEF ServeRead
  <2>2. QED BY <1>1, <1>6, <2>1
<1>9. ask'[a] = r
  BY <1>7, <1>8, AskPut
<1>10. PICK stray : stray = IF u.cursor # None /\ ~Belongs(u.cursor, u.filter)
                            THEN ghost.stray \cup {a} ELSE ghost.stray
  OBVIOUS
<1>11. stray \in SUBSET Asks /\ ghost.stray \subseteq stray
  BY <1>10, GhostIs
<1>12. PICK steady : steady = [ghost.steady EXCEPT ![a] = Docs]
  OBVIOUS
<1>13. ghost' = [ghost EXCEPT !.steady = steady, !.stray = stray]
  BY <1>1, <1>10, <1>12 DEF ServeRead
<1>14. steady \in [{0} \cup Asks -> SUBSET Docs] /\ steady[a] = Docs
       /\ \A b \in {0} \cup Asks : b # a => steady[b] = ghost.steady[b]
  BY <1>12, AskTyped DEF PageInv
<1>15. /\ ghost' \in Ghost /\ ghost'.slipped = ghost.slipped /\ ghost'.chosen = ghost.chosen
       /\ ghost'.steady = steady /\ ghost'.stray = stray
  BY <1>11, <1>13, <1>14, GhostIs, AskTyped DEF Ghost, PageInv
<1>16. UNCHANGED <<docs, starred, phase, pushed, plan, page>>
  BY DEF ServeRead, NoNews, Unchanged
<1>17. \A b \in {0} \cup Asks : b # a => Calm(b)
  BY <1>14, <1>15, <1>16 DEF Calm
<1>18. Fit(u, plan.view)
  BY <1>1, AskTyped DEF PageInv, AsksInv
<1>19. Fit(r, plan.view)
  BY <1>1, <1>7, <1>18 DEF Fit, Flying
<1>20. a \in stray \/ Sound(r, steady[a], docs, starred, plan.view)
  <2> SUFFICES ASSUME a \notin stray PROVE Sound(r, steady[a], docs, starred, plan.view)
    OBVIOUS
  <2>1. u.cursor = None \/ Belongs(u.cursor, u.filter)
    BY <1>10
  <2>2. {d \in Docs : Belongs(d, u.filter)} = ToShow(Docs, u.filter, docs, starred, plan.view)
    BY BelongsIs DEF ToShow
  <2>3. Covers(seq, u.cursor, next, ToShow(Docs, u.filter, docs, starred, plan.view))
    BY <1>4, <2>1, <2>2
  <2>4. QED BY <1>1, <1>7, <1>14, <2>3 DEF Sound
<1>21. Answers(a)
  BY <1>1, <1>s, <1>7, <1>9, <1>15, <1>16, <1>19, <1>20 DEF Answers
<1>22. \A b \in stray \ ghost.stray : b \in Asks /\ ask[b].kind = "more"
  BY <1>1, <1>10, <1>18 DEF Fit, Flying
<1>23. WideStep
  BY QuietIsWide DEF ServeRead, NoNews
<1>24. /\ phase' \in [Docs -> {"busy", "settled"}] /\ starred' \in SUBSET Docs
       /\ pushed' \in Seq(Docs)
  BY <1>16 DEF PageInv, PTyped
<1>25. QED BY <1>1, <1>7, <1>8, <1>11, <1>15, <1>16, <1>17, <1>21, <1>22, <1>23, <1>24, ServedGoes

LEMMA ServeChangeGoes ==
  ASSUME PageInv, BaseInv, plan.view # "none", NEW a \in Asks, ServeChange(a)
  PROVE  WideStep /\ Going
<1>1. PICK u \in Ask : u = ask[a] /\ u.kind \in {"delete", "restore", "bulk", "reprocess"} /\ u.is = "sent"
  BY AskTyped DEF PageInv, ServeChange
<1>2. PICK applied \in SUBSET Docs : applied = {d \in u.ids : Applies(d, u.action)}
  BY <1>1 DEF Ask
<1>3. PICK to : to = Outcome(u.action)
  OBVIOUS
<1>4. to \in {"trashed", "archived", "active"} /\ (to = "trashed" <=> u.action = "delete")
  BY <1>3 DEF Outcome
<1>5. docs' = [d \in Docs |-> IF d \in applied THEN [docs[d] EXCEPT !.status = to] ELSE docs[d]]
  BY <1>1, <1>2, <1>3 DEF ServeChange
<1>6. docs \in [Docs -> Doc]
  BY DEF BaseInv, RowsOK
<1>7. \A d \in Docs : LET v == [docs[d] EXCEPT !.status = to]
                      IN  v \in Doc /\ v.status = to /\ v.folder = docs[d].folder
  BY <1>4, <1>6 DEF Doc
<1>8. \A d \in Docs : /\ docs'[d] \in Doc /\ docs'[d].folder = docs[d].folder
                      /\ d \in applied => docs'[d].status = to
                      /\ d \notin applied => docs'[d] = docs[d]
  BY <1>5, <1>6, <1>7
<1>9. docs' \in [Docs -> Doc]
  BY <1>5, <1>8
<1>10. phase' \in [Docs -> {"busy", "settled"}]
  <2>1. PICK to2 \in {"busy", "settled"} : to2 = IF u.action = "reprocess" THEN "busy" ELSE "settled"
    OBVIOUS
  <2>2. phase' = [d \in Docs |-> IF d \in applied THEN to2 ELSE phase[d]]
    BY <1>1, <1>2, <2>1 DEF ServeChange
  <2>3. QED BY <2>2 DEF PageInv, PTyped
<1>11. PICK is \in {"served", "refused"} :
         is = IF u.kind = "bulk" \/ applied # {} THEN "served" ELSE "refused"
  OBVIOUS
<1>12. PICK r : r = [u EXCEPT !.is = is, !.ids = applied]
  OBVIOUS
<1>13. /\ r \in Ask /\ r.is = is /\ r.ids = applied
       /\ r.kind = u.kind /\ r.under = u.under /\ r.filter = u.filter /\ r.cursor = u.cursor
       /\ r.action = u.action /\ r.call = u.call /\ r.tree = u.tree
  BY <1>1, <1>12 DEF Ask
<1>14. ask' = [ask EXCEPT ![a] = r]
  <2>1. ask' = [ask EXCEPT ![a].is = is, ![a].ids = applied]
    BY <1>1, <1>2, <1>11 DEF ServeChange
  <2>2. QED BY <1>1, <1>12, <2>1
<1>15. ask'[a] = r
  BY <1>13, <1>14, AskPut
<1>16. PICK steady : steady = [b \in DOMAIN ghost.steady |-> IF b = a THEN Docs ELSE ghost.steady[b] \ applied]
  OBVIOUS
<1>17. PICK who \in {"bulk", "run", "one"} :
         who = IF u.kind = "bulk" THEN "bulk" ELSE IF u.kind = "reprocess" THEN "run" ELSE "one"
  OBVIOUS
<1>18. PICK owner : owner = [d \in Docs |-> IF d \notin applied THEN ghost.owner[d] ELSE who]
  OBVIOUS
<1>19. PICK crossed : crossed = IF u.kind \in {"delete", "restore"} THEN ghost.crossed \ applied ELSE ghost.crossed
  OBVIOUS
<1>20. ghost' = [ghost EXCEPT !.steady = steady, !.owner = owner, !.crossed = crossed]
  <2>1. ghost' = [ghost EXCEPT
                     !.steady = [b \in DOMAIN @ |-> IF b = a THEN Docs ELSE @[b] \ applied],
                     !.owner = [d \in Docs |-> IF d \notin applied THEN @[d]
                                               ELSE IF u.kind = "bulk" THEN "bulk"
                                               ELSE IF u.kind = "reprocess" THEN "run" ELSE "one"],
                     !.crossed = IF u.kind \in {"delete", "restore"} THEN @ \ applied ELSE @]
    BY <1>1, <1>2 DEF ServeChange
  <2>2. owner = [d \in Docs |-> IF d \notin applied THEN ghost.owner[d]
                                ELSE IF u.kind = "bulk" THEN "bulk"
                                ELSE IF u.kind = "reprocess" THEN "run" ELSE "one"]
    BY <1>17, <1>18
  <2>3. QED BY <1>16, <1>19, <2>1, <2>2
<1>21. /\ steady \in [{0} \cup Asks -> SUBSET Docs] /\ steady[a] = Docs
       /\ \A b \in {0} \cup Asks : b # a => steady[b] = ghost.steady[b] \ applied
  <2>1. DOMAIN ghost.steady = {0} \cup Asks
    BY AskTyped DEF PageInv
  <2>2. QED BY <1>16, <2>1, AskTyped DEF PageInv
<1>22. owner \in [Docs -> {"other", "one", "run", "bulk", "star"}] /\ crossed \in SUBSET Docs
  BY <1>18, <1>19, GhostIs
<1>23. /\ ghost' \in Ghost /\ ghost'.slipped = ghost.slipped /\ ghost'.chosen = ghost.chosen
       /\ ghost'.steady = steady /\ ghost'.stray = ghost.stray
  BY <1>20, <1>21, <1>22, GhostIs, AskTyped DEF Ghost, PageInv
<1>24. UNCHANGED <<page, starred, pushed, plan>>
  BY DEF ServeChange
<1>25. \A b \in {0} \cup Asks : b # a => Calm(b)
  BY <1>8, <1>21, <1>23, <1>24 DEF Calm
<1>26. Fit(u, plan.view)
  BY <1>1, AskTyped DEF PageInv, AsksInv
<1>27. Fit(r, plan.view)
  BY <1>1, <1>11, <1>13, <1>26 DEF Fit, Flying
<1>28. Sound(r, steady[a], docs', starred', plan.view)
  <2>1. \A d \in applied : docs'[d].status = to
    BY <1>8
  <2>2. u.kind \in {"delete", "restore"} \/ (u.kind = "bulk" /\ plan.view = "trash") =>
          (u.action = "delete" <=> u.kind = "delete")
    BY <1>1, <1>26 DEF Fit, Flying
  <2>3. QED BY <1>1, <1>4, <1>13, <2>1, <2>2 DEF Sound
<1>29. u.tree \subseteq SeenFolders
  BY <1>1, AskTyped DEF PageInv, SeenFoldersInv
<1>30. Answers(a)
  BY <1>1, <1>13, <1>15, <1>23, <1>27, <1>28, <1>29 DEF Answers
<1>31. WideStep
  <2>1. late' = [d \in Docs |-> IF d \in applied THEN {c \in Calls : UnderWay(c)} ELSE late[d]]
    BY <1>1, <1>2 DEF ServeChange
  <2>2. late' \in [Docs -> SUBSET Calls]
    BY <2>1 DEF BaseInv, RowsOK
  <2>3. UNCHANGED <<folders, tags, labels, call>>
    BY DEF ServeChange
  <2>4. ASSUME NEW d \in Docs
        PROVE  /\ docs[d].status # "none" =>
                    docs'[d].status # "none" /\ docs'[d].folder = docs[d].folder
               /\ \/ docs'[d].status = "active"
                  \/ late'[d] = {c \in Calls : UnderWay(c)}
                  \/ docs'[d].status = docs[d].status /\ late'[d] = late[d]
    BY <1>4, <1>8, <2>1
  <2>5. QED BY <1>9, <2>2, <2>3, <2>4 DEF WideStep, Arriving
<1>32. starred' \in SUBSET Docs /\ pushed' \in Seq(Docs)
  BY <1>24 DEF PageInv, PTyped
<1>33. QED BY <1>1, <1>10, <1>13, <1>14, <1>23, <1>24, <1>25, <1>30, <1>31, <1>32, ServedGoes

\* A step of the server that changes documents, and answers nobody.
LEMMA NoteIs ==
  ASSUME PageInv, plan.view # "none", UNCHANGED starred,
         NEW who \in {"other", "bulk"}, Note(who)
  PROVE  /\ ghost' \in Ghost /\ ghost'.slipped = ghost.slipped /\ ghost'.chosen = ghost.chosen
         /\ ghost'.stray = ghost.stray
         /\ \A b \in {0} \cup Asks : Calm(b)
<1>2. PICK moved \in SUBSET Docs : moved = {d \in Docs : docs'[d] # docs[d]}
  OBVIOUS
<1>3. PICK steady : steady = [b \in DOMAIN ghost.steady |-> ghost.steady[b] \ moved]
  OBVIOUS
<1>4. PICK owner : owner = [d \in Docs |-> IF d \in moved THEN who ELSE ghost.owner[d]]
  OBVIOUS
<1>5. ghost' = [ghost EXCEPT !.steady = steady, !.owner = owner]
  BY <1>2, <1>3, <1>4 DEF Note
<1>6. /\ steady \in [{0} \cup Asks -> SUBSET Docs]
      /\ \A b \in {0} \cup Asks : steady[b] = ghost.steady[b] \ moved
  BY <1>3, AskTyped DEF PageInv
<1>7. owner \in [Docs -> {"other", "one", "run", "bulk", "star"}]
  BY <1>4, GhostIs
<1>8. /\ ghost' \in Ghost /\ ghost'.slipped = ghost.slipped /\ ghost'.chosen = ghost.chosen
      /\ ghost'.steady = steady /\ ghost'.stray = ghost.stray
  BY <1>5, <1>6, <1>7, GhostIs, AskTyped DEF Ghost, PageInv
<1>9. \A b \in {0} \cup Asks : Calm(b)
  <2>1. \A b \in {0} \cup Asks : ghost.steady[b] \subseteq Docs
    BY AskTyped DEF PageInv
  <2>2. QED BY <1>2, <1>6, <1>8, <2>1 DEF Calm
<1>10. QED BY <1>8, <1>9

\* A step of the server that answers nobody: the page does not move.
LEMMA NotedGoes ==
  ASSUME PageInv, BaseInv, WideStep, plan.view # "none", UNCHANGED <<plan, page, ask, starred>>,
         ghost' \in Ghost, ghost'.slipped = ghost.slipped, ghost'.chosen = ghost.chosen,
         ghost'.stray = ghost.stray, \A b \in {0} \cup Asks : Calm(b),
         phase' \in [Docs -> {"busy", "settled"}], pushed' \in Seq(Docs)
  PROVE  Going
<1>2. AsksMove /\ ~Ends(page.reading)
  BY AllWait
<1>3. RowsKept /\ TickInv' /\ page'.tree \subseteq SeenFolders'
  BY TicksKept, TreeKept DEF RowsKept
<1>4. starred' \in SUBSET Docs
  BY DEF PageInv, PTyped
<1>5. QED BY <1>2, <1>3, <1>4, SamePage, StableGoes

LEMMA LibraryStepGoes ==
  ASSUME PageInv, BaseInv, plan.view # "none", NEW c \in Calls, LibraryStep(c)
  PROVE  WideStep /\ Going
<1>1. WideStep
  BY CallStepIs DEF LibraryStep, BaseInv, WideStep
<1>2. PICK who \in {"other", "bulk"} : Note(who)
  BY DEF LibraryStep
<1>3. UNCHANGED <<plan, page, ask, starred, phase, pushed>>
  BY DEF LibraryStep
<1>4. phase' \in [Docs -> {"busy", "settled"}] /\ pushed' \in Seq(Docs)
  BY <1>3 DEF PageInv, PTyped
<1>5. QED BY <1>1, <1>2, <1>3, <1>4, NoteIs, NotedGoes

LEMMA FinishGoes ==
  ASSUME PageInv, BaseInv, plan.view # "none", NEW d \in Docs, Finish(d)
  PROVE  WideStep /\ Going
<1>1. WideStep
  BY QuietIsWide DEF Finish
<1>2. UNCHANGED <<plan, page, ask, docs, starred>>
  BY DEF Finish, Unchanged
<1>3. phase' \in [Docs -> {"busy", "settled"}] /\ pushed' \in Seq(Docs)
  BY DEF Finish, PageInv, PTyped
<1>4. PICK steady : steady = [b \in DOMAIN ghost.steady |-> ghost.steady[b] \ {d}]
  OBVIOUS
<1>5. PICK owner : owner = [ghost.owner EXCEPT ![d] = IF @ = "bulk" THEN "run" ELSE @]
  OBVIOUS
<1>6. ghost' = [ghost EXCEPT !.steady = steady, !.owner = owner]
  BY <1>4, <1>5 DEF Finish
<1>7. /\ steady \in [{0} \cup Asks -> SUBSET Docs]
      /\ \A b \in {0} \cup Asks : steady[b] = ghost.steady[b] \ {d}
  BY <1>4, AskTyped DEF PageInv
<1>8. owner \in [Docs -> {"other", "one", "run", "bulk", "star"}]
  BY <1>5, GhostIs
<1>9. /\ ghost' \in Ghost /\ ghost'.slipped = ghost.slipped /\ ghost'.chosen = ghost.chosen
      /\ ghost'.steady = steady /\ ghost'.stray = ghost.stray
  BY <1>6, <1>7, <1>8, GhostIs, AskTyped DEF Ghost, PageInv
<1>10. \A b \in {0} \cup Asks : Calm(b)
  BY <1>2, <1>7, <1>9 DEF Calm
<1>11. QED BY <1>1, <1>2, <1>3, <1>9, <1>10, NotedGoes

LEMMA ElsewhereGoes ==
  ASSUME PageInv, BaseInv, plan.view # "none", NEW d \in Docs, Elsewhere(d)
  PROVE  WideStep /\ Going
<1>1. WideStep
  BY StatusIsWide DEF Elsewhere
<1>2. Note("other") /\ UNCHANGED <<plan, page, ask, starred, phase, pushed>>
  BY DEF Elsewhere
<1>3. phase' \in [Docs -> {"busy", "settled"}] /\ pushed' \in Seq(Docs)
  BY <1>2 DEF PageInv, PTyped
<1>4. QED BY <1>1, <1>2, <1>3, NoteIs, NotedGoes

LEMMA ServeUploadGoes ==
  ASSUME PageInv, BaseInv, plan.view # "none", NEW a \in Asks, ServeUpload(a)
  PROVE  WideStep /\ Going
<1> DEFINE absent == {i \in DOMAIN Newest : Newest[i] \notin Known}
           new == Newest[CHOOSE i \in absent : \A j \in absent : j <= i]
           folder == IF ask[a].to = None THEN Root ELSE ask[a].to
<1>1. PICK u \in Ask : u = ask[a] /\ u.kind = "upload" /\ u.is = "sent"
  BY AskTyped DEF PageInv, ServeUpload
<1>5. /\ absent # {}
      /\ IF folder # Root /\ ~Live(folder)
         THEN /\ ask' = [ask EXCEPT ![a].is = "refused"]
              /\ UNCHANGED ghost /\ NoNews
         ELSE /\ docs' = [docs EXCEPT ![new] = [folder |-> folder, status |-> "active"]]
              /\ phase' = [phase EXCEPT ![new] = "busy"]
              /\ ask' = [ask EXCEPT ![a].is = "served", ![a].ids = {new}]
              /\ ghost' = [ghost EXCEPT
                             !.steady = [b \in DOMAIN @ |-> IF b = a THEN Docs ELSE @[b] \ {new}],
                             !.owner[new] = "one"]
              /\ UNCHANGED <<starred, pushed>>
      /\ UNCHANGED page /\ Unchanged
  BY Zenon DEF ServeUpload
<1>6. new \in Docs /\ docs[new].status = "none"
  <2>1. PICK n \in Nat : DOMAIN Newest = 1..n
    BY NewestIs
  <2>2. PICK i \in absent : i = CHOOSE k \in absent : \A j \in absent : j <= k
    <3>1. absent \in SUBSET (1..n) /\ absent # {}
      BY <1>5, <2>1
    <3> HIDE DEF absent
    <3>2. \E k \in absent : \A j \in absent : j <= k
      BY <3>1, LastIs
    <3>3. QED BY <3>2
  <2>3. new = Newest[i] /\ i \in DOMAIN Newest /\ Newest[i] \notin Known
    BY <2>2
  <2>4. QED BY <2>3, NewestIs DEF Known
<1> HIDE DEF absent, new
<1>7. folder \in Folders \cup {Root}
  BY <1>1 DEF Ask
<1> HIDE DEF folder
<1>8. Fit(u, plan.view) /\ u.tree \subseteq SeenFolders
  BY <1>1, AskTyped DEF PageInv, AsksInv, SeenFoldersInv
<1>9. UNCHANGED <<page, plan>>
  BY <1>5 DEF Unchanged
<1>10. CASE folder # Root /\ ~Live(folder)
  <2>1. PICK r : r = [u EXCEPT !.is = "refused"]
    OBVIOUS
  <2>2. /\ r \in Ask /\ r.is = "refused" /\ r.kind = u.kind /\ r.under = u.under
        /\ r.filter = u.filter /\ r.tree = u.tree
    BY <1>1, <2>1 DEF Ask
  <2>3. ask' = [ask EXCEPT ![a] = r]
    BY <1>1, <1>5, <1>10, <2>1
  <2>4. ask'[a] = r
    BY <2>2, <2>3, AskPut
  <2>5. Fit(r, plan.view) /\ Sound(r, ghost'.steady[a], docs', starred', plan.view)
    BY <1>1, <2>2 DEF Fit, Flying, Sound
  <2>6. Answers(a)
    BY <1>1, <1>8, <2>2, <2>4, <2>5 DEF Answers
  <2>7. UNCHANGED <<docs, phase, starred, pushed, ghost>>
    BY <1>5, <1>10 DEF NoNews
  <2>8. ghost' \in Ghost /\ ghost'.steady = ghost.steady /\ ghost'.stray = ghost.stray
    BY <2>7, GhostIs
  <2>9. \A b \in {0} \cup Asks : b # a => Calm(b)
    BY <2>7, <2>8, AllCalm
  <2>10. /\ phase' \in [Docs -> {"busy", "settled"}] /\ starred' \in SUBSET Docs
         /\ pushed' \in Seq(Docs)
    BY <2>7 DEF PageInv, PTyped
  <2>11. WideStep
    BY <1>5, <2>7, QuietIsWide
  <2>12. QED BY <1>1, <1>9, <2>2, <2>3, <2>6, <2>7, <2>8, <2>9, <2>10, <2>11, ServedGoes
<1>11. CASE ~(folder # Root /\ ~Live(folder))
  <2>1. PICK v : v = [folder |-> folder, status |-> "active"]
    OBVIOUS
  <2>2. v \in Doc /\ v.status = "active"
    BY <1>7, <2>1 DEF Doc
  <2>3. docs' = [docs EXCEPT ![new] = v]
    BY <1>5, <1>11, <2>1
  <2>4. docs' \in [Docs -> Doc] /\ docs'[new] = v /\ \A d \in Docs : d # new => docs'[d] = docs[d]
    BY <1>6, <2>2, <2>3 DEF BaseInv, RowsOK
  <2>5. phase' \in [Docs -> {"busy", "settled"}]
    BY <1>5, <1>11 DEF PageInv, PTyped
  <2>6. PICK r : r = [u EXCEPT !.is = "served", !.ids = {new}]
    OBVIOUS
  <2>7. /\ r \in Ask /\ r.is = "served" /\ r.kind = u.kind /\ r.under = u.under
        /\ r.filter = u.filter /\ r.tree = u.tree /\ r.ids = {new}
    BY <1>1, <1>6, <2>6 DEF Ask
  <2>8. ask' = [ask EXCEPT ![a] = r]
    BY <1>1, <1>5, <1>11, <2>6
  <2>9. ask'[a] = r
    BY <2>7, <2>8, AskPut
  <2>10. Fit(r, plan.view) /\ Sound(r, ghost'.steady[a], docs', starred', plan.view)
    BY <1>1, <2>7 DEF Fit, Flying, Sound
  <2>11. Answers(a)
    BY <1>1, <1>8, <2>7, <2>9, <2>10 DEF Answers
  <2>12. PICK steady : steady = [b \in DOMAIN ghost.steady |-> IF b = a THEN Docs ELSE ghost.steady[b] \ {new}]
    OBVIOUS
  <2>13. PICK owner : owner = [ghost.owner EXCEPT ![new] = "one"]
    OBVIOUS
  <2>14. ghost' = [ghost EXCEPT !.steady = steady, !.owner = owner]
    BY <1>5, <1>11, <2>12, <2>13
  <2>15. /\ steady \in [{0} \cup Asks -> SUBSET Docs]
         /\ \A b \in {0} \cup Asks : b # a => steady[b] = ghost.steady[b] \ {new}
    BY <2>12, AskTyped DEF PageInv
  <2>16. owner \in [Docs -> {"other", "one", "run", "bulk", "star"}]
    BY <2>13, GhostIs
  <2>17. /\ ghost' \in Ghost /\ ghost'.slipped = ghost.slipped /\ ghost'.chosen = ghost.chosen
         /\ ghost'.steady = steady /\ ghost'.stray = ghost.stray
    BY <2>14, <2>15, <2>16, GhostIs, AskTyped DEF Ghost, PageInv
  <2>18. UNCHANGED <<starred, pushed>>
    BY <1>5, <1>11
  <2>19. \A b \in {0} \cup Asks : b # a => Calm(b)
    <3>1. \A b \in {0} \cup Asks : ghost.steady[b] \subseteq Docs
      BY AskTyped DEF PageInv
    <3>2. QED BY <2>4, <2>15, <2>17, <2>18, <3>1 DEF Calm
  <2>20. starred' \in SUBSET Docs /\ pushed' \in Seq(Docs)
    BY <2>18 DEF PageInv, PTyped
  <2>21. WideStep
    <3>1. UNCHANGED <<folders, tags, labels, call, late>>
      BY <1>5 DEF Unchanged
    <3>2. late' \in [Docs -> SUBSET Calls]
      BY <3>1 DEF BaseInv, RowsOK
    <3>3. ASSUME NEW d \in Docs
          PROVE  /\ docs[d].status # "none" =>
                      docs'[d].status # "none" /\ docs'[d].folder = docs[d].folder
                 /\ \/ docs'[d].status = "active"
                    \/ late'[d] = {c \in Calls : UnderWay(c)}
                    \/ docs'[d].status = docs[d].status /\ late'[d] = late[d]
      BY <1>6, <2>2, <2>4, <3>1
    <3>4. QED BY <2>4, <3>1, <3>2, <3>3 DEF WideStep, Arriving
  <2>22. QED BY <1>1, <1>9, <2>5, <2>7, <2>8, <2>11, <2>17, <2>19, <2>20, <2>21, ServedGoes
<1>12. QED BY <1>10, <1>11

LEMMA ServeStarGoes ==
  ASSUME PageInv, BaseInv, plan.view # "none", NEW a \in Asks, ServeStar(a)
  PROVE  WideStep /\ Going
<1>1. PICK u \in Ask : u = ask[a] /\ u.kind = "star" /\ u.is = "sent"
  BY AskTyped DEF PageInv, ServeStar
<1>2. Fit(u, plan.view) /\ u.tree \subseteq SeenFolders
  BY <1>1, AskTyped DEF PageInv, AsksInv, SeenFoldersInv
<1>3. PICK d \in Docs : d = CHOOSE x \in u.ids : TRUE
  <2>1. u.ids # {} /\ u.ids \subseteq Docs
    BY <1>1, <1>2 DEF Fit, Flying, Ask
  <2>2. QED BY <2>1
<1>4. /\ IF docs[d].status = "trashed"
         THEN /\ ask' = [ask EXCEPT ![a].is = "refused"]
              /\ UNCHANGED <<starred, ghost>>
         ELSE /\ starred' = IF u.action = "star" THEN starred \cup {d} ELSE starred \ {d}
              /\ ask' = [ask EXCEPT ![a].is = "served"]
              /\ ghost' = [ghost EXCEPT
                             !.steady = [b \in DOMAIN @ |-> IF b = a THEN Docs ELSE @[b] \ {d}],
                             !.owner[d] = "star"]
      /\ UNCHANGED <<docs, phase, pushed, page>> /\ Unchanged
  BY <1>1, <1>3 DEF ServeStar
<1>5. PICK is \in {"served", "refused"} : is = IF docs[d].status = "trashed" THEN "refused" ELSE "served"
  OBVIOUS
<1>6. PICK r : r = [u EXCEPT !.is = is]
  OBVIOUS
<1>7. /\ r \in Ask /\ r.is = is /\ r.kind = u.kind /\ r.under = u.under
      /\ r.filter = u.filter /\ r.tree = u.tree /\ r.ids = u.ids
  BY <1>1, <1>6 DEF Ask
<1>8. ask' = [ask EXCEPT ![a] = r]
  BY <1>1, <1>4, <1>5, <1>6
<1>9. ask'[a] = r
  BY <1>7, <1>8, AskPut
<1>10. Fit(r, plan.view) /\ Sound(r, ghost'.steady[a], docs', starred', plan.view)
  BY <1>1, <1>2, <1>5, <1>7 DEF Fit, Flying, Sound
<1>11. Answers(a)
  BY <1>1, <1>2, <1>5, <1>7, <1>9, <1>10 DEF Answers
<1>12. UNCHANGED <<docs, phase, pushed, page, plan>>
  BY <1>4 DEF Unchanged
<1>13. WideStep
  BY <1>4, QuietIsWide
<1>14. starred' \in SUBSET Docs /\ \A e \in Docs : e # d => (e \in starred' <=> e \in starred)
  BY <1>4 DEF PageInv, PTyped
<1>15. /\ ghost' \in Ghost /\ ghost'.slipped = ghost.slipped /\ ghost'.chosen = ghost.chosen
       /\ ghost'.stray = ghost.stray
       /\ \A b \in {0} \cup Asks : b # a => Calm(b)
  <2>1. CASE docs[d].status = "trashed"
    <3>1. ghost' = ghost /\ starred' = starred
      BY <1>4, <2>1
    <3>2. QED BY <1>12, <3>1, GhostIs, AllCalm
  <2>2. CASE docs[d].status # "trashed"
    <3>1. PICK steady : steady = [b \in DOMAIN ghost.steady |-> IF b = a THEN Docs ELSE ghost.steady[b] \ {d}]
      OBVIOUS
    <3>2. PICK owner : owner = [ghost.owner EXCEPT ![d] = "star"]
      OBVIOUS
    <3>3. ghost' = [ghost EXCEPT !.steady = steady, !.owner = owner]
      BY <1>4, <2>2, <3>1, <3>2
    <3>4. /\ steady \in [{0} \cup Asks -> SUBSET Docs]
          /\ \A b \in {0} \cup Asks : b # a => steady[b] = ghost.steady[b] \ {d}
      BY <3>1, AskTyped DEF PageInv
    <3>5. owner \in [Docs -> {"other", "one", "run", "bulk", "star"}]
      BY <3>2, GhostIs
    <3>6. /\ ghost' \in Ghost /\ ghost'.slipped = ghost.slipped /\ ghost'.chosen = ghost.chosen
          /\ ghost'.steady = steady /\ ghost'.stray = ghost.stray
      BY <3>3, <3>4, <3>5, GhostIs, AskTyped DEF Ghost, PageInv
    <3>7. \A b \in {0} \cup Asks : ghost.steady[b] \subseteq Docs
      BY AskTyped DEF PageInv
    <3>8. \A b \in {0} \cup Asks : b # a => Calm(b)
      BY <1>12, <1>14, <3>4, <3>6, <3>7 DEF Calm
    <3>9. QED BY <3>6, <3>8
  <2>3. QED BY <2>1, <2>2
<1>16. phase' \in [Docs -> {"busy", "settled"}] /\ pushed' \in Seq(Docs)
  BY <1>12 DEF PageInv, PTyped
<1>17. QED BY <1>1, <1>7, <1>8, <1>11, <1>12, <1>13, <1>14, <1>15, <1>16, ServedGoes

\* An answer is taken, or is lost: the list goes on as it is.
LEMMA TakenGoes ==
  ASSUME PageInv, BaseInv, WideStep, plan.view # "none", NEW a \in Asks, Flying(ask[a]),
         ask' = Take(a), Stable, RowsKept, \A b \in {0} \cup Asks : Calm(b),
         UNCHANGED <<plan, docs, phase, starred, pushed>>,
         ghost' \in Ghost, ghost'.slipped = ghost.slipped, ghost'.stray = ghost.stray,
         a = page.reading => page'.load = "error",
         page'.tree \subseteq SeenFolders', TickInv'
  PROVE  Going
<1>1. AsksMove /\ Ends(a) /\ \A b \in Asks : b # a => ~Ends(b)
  BY TakeMoves
<1>2. page.reading \in Asks
  BY DEF PageInv, ReadInv
<1>3. Ends(page.reading) => page'.load = "error"
  BY <1>1, <1>2
<1>4. /\ phase' \in [Docs -> {"busy", "settled"}] /\ starred' \in SUBSET Docs
      /\ pushed' \in Seq(Docs)
  BY DEF PageInv, PTyped
<1>5. QED BY <1>1, <1>3, <1>4, StableGoes

\* The same, when what counts as unchanged stays too.
LEMMA TakenQuietly ==
  ASSUME PageInv, BaseInv, plan.view # "none", NEW a \in Asks, Flying(ask[a]),
         ask' = Take(a), Stable, RowDocs(page.rows) \subseteq RowDocs(page'.rows),
         UNCHANGED <<docs, phase, starred, pushed, folders, tags, labels, call, mix, late, plan>>,
         ghost' \in Ghost, ghost'.slipped = ghost.slipped, ghost'.stray = ghost.stray,
         ghost'.steady = ghost.steady, ghost'.chosen = ghost.chosen,
         a = page.reading => page'.load = "error",
         page'.tree \subseteq SeenFolders, page'.ticked = page.ticked
  PROVE  WideStep /\ Going
<1>1. WideStep
  BY IdleIsWide
<1>2. \A b \in {0} \cup Asks : Calm(b)
  BY AllCalm
<1>3. RowsKept
  BY DEF RowsKept
<1>4. page'.tree \subseteq SeenFolders'
  BY <1>1, SeenGrow
<1>5. TickInv'
  BY TicksKept DEF Stable
<1>6. QED BY <1>1, <1>2, <1>3, <1>4, <1>5, TakenGoes

LEMMA GhostSame ==
  ASSUME PageInv, UNCHANGED ghost
  PROVE  /\ ghost' \in Ghost /\ ghost'.slipped = ghost.slipped /\ ghost'.stray = ghost.stray
         /\ ghost'.steady = ghost.steady /\ ghost'.chosen = ghost.chosen
BY DEF PageInv, PTyped

LEMMA AskIs ==
  ASSUME PageInv, plan.view # "none", NEW a \in Asks
  PROVE  /\ ask[a] \in Ask /\ ask[a].ids \in SUBSET Docs /\ ask[a].rows \in Seq(Row)
         /\ ask[a].next \in Docs \cup {None} /\ ask[a].call \in Calls \cup {None}
         /\ ask[a].tree \in SUBSET Folders /\ ask[a].tree \subseteq SeenFolders
         /\ ask[a].under \in Nat /\ ask[a].under <= page.under
         /\ Fit(ask[a], plan.view)
<1>1. ask[a] \in Ask /\ ask[a].tree \subseteq SeenFolders
  BY AskTyped DEF PageInv, SeenFoldersInv
<1>2. Fit(ask[a], plan.view) /\ ask[a].under <= page.under
  BY AskTyped DEF PageInv, AsksInv, Timely
<1>3. QED BY <1>1, <1>2 DEF Ask

LEMMA TakeListGoes ==
  ASSUME PageInv, BaseInv, plan.view # "none", NEW a \in Asks, TakeList(a)
  PROVE  WideStep /\ Going
<1>1. PICK u \in Ask : /\ u = ask[a] /\ u.kind = "list" /\ u.is = "served" /\ Flying(u)
                       /\ u.rows \in Seq(Row) /\ u.next \in Docs \cup {None} /\ u.tree \in SUBSET Folders
  BY AskIs DEF TakeList, Flying
<1>2. ask' = Take(a) /\ UNCHANGED <<docs, phase, starred, pushed>> /\ Unchanged
  BY DEF TakeList, NoNews
<1>3. UNCHANGED <<plan, folders, tags, labels, call, mix, late>>
  BY <1>2 DEF Unchanged
<1>4. CASE a # page.reading
  <2>1. UNCHANGED <<page, ghost>>
    BY <1>4 DEF TakeList, IsCurrent
  <2>2. page'.tree \subseteq SeenFolders
    BY <2>1 DEF PageInv, SeenFoldersInv
  <2>3. QED BY <1>1, <1>2, <1>3, <1>4, <2>1, <2>2, SamePage, GhostSame, TakenQuietly
<1>5. CASE a = page.reading
  <2>1. PICK ticked : ticked = IF plan.view = "trash" THEN [under |-> page.under, ids |-> {}] ELSE page.ticked
    OBVIOUS
  <2>2. page' = [page EXCEPT !.load = "ready", !.rows = u.rows, !.more = u.next, !.tree = u.tree,
                             !.ticked = ticked]
    BY <1>1, <1>5, <2>1 DEF TakeList, IsCurrent
  <2>3. page \in Page /\ page.under \in Nat /\ page.ticked \in [under : Nat, ids : SUBSET Docs]
    BY DEF PageInv, PTyped, Page
  <2>4. ticked \in [under : Nat, ids : SUBSET Docs]
    BY <2>1, <2>3
  <2>5. /\ page' \in Page /\ page'.rows = u.rows /\ page'.more = u.next /\ page'.tree = u.tree
        /\ page'.ticked = ticked /\ page'.filter = page.filter /\ page'.under = page.under
        /\ page'.reading = page.reading
    BY <1>1, <2>2, <2>3, <2>4 DEF Page
  <2>6. PICK crossed : crossed = {d \in Overtaken(a) : plan.view = "documents" /\ ghost.owner[d] = "bulk" => d \in ghost.crossed}
                                 \cup {d \in Docs : Starring(d)}
    OBVIOUS
  <2>7. crossed \in SUBSET Docs
    BY <2>6 DEF Overtaken
  <2>8. PICK steady : steady = [ghost.steady EXCEPT ![0] = ghost.steady[a]]
    OBVIOUS
  <2>9. ghost' = [ghost EXCEPT !.steady = steady, !.crossed = crossed, !.slipped = FALSE]
    BY <1>5, <2>6, <2>8 DEF TakeList, IsCurrent
  <2>10. /\ steady \in [{0} \cup Asks -> SUBSET Docs] /\ steady[0] = ghost.steady[a]
         /\ \A b \in Asks : steady[b] = ghost.steady[b]
    <3>1. \A b \in Asks : b # 0
      BY DEF Asks
    <3>2. QED BY <2>8, <3>1, AskTyped DEF PageInv
  <2>11. /\ ghost' \in Ghost /\ ghost'.chosen = ghost.chosen
         /\ ghost'.steady = steady /\ ghost'.stray = ghost.stray
    BY <2>7, <2>9, <2>10, GhostIs, AskTyped DEF Ghost, PageInv
  <2>12. \A b \in Asks : Calm(b)
    BY <1>2, <2>10, <2>11 DEF Calm
  <2>13. AsksMove
    BY <1>1, <1>2, <2>12, TakeMoves
  <2>14. Filters
    BY <2>5 DEF Filters
  <2>15. WideStep
    BY <1>2, <1>3, IdleIsWide
  <2>16. page'.tree \subseteq SeenFolders' /\ page'.filter.folder \in SeenFolders'
    BY <1>1, <2>5, <2>15, SeenGrow, AskIs DEF PageInv, SeenFoldersInv
  <2>17. TickInv'
    BY <2>1, <2>3, <2>5, <2>11 DEF TickInv, PageInv
  <2>18. u.under = page.under /\ u.filter = page.filter /\ u.cursor = None
    BY <1>1, <1>5, AskTyped DEF PageInv, ReadInv, AsksInv, Timely, Fit
  <2>19. a \notin ghost.stray
    BY <1>1 DEF PageInv, StrayInv
  <2>20. Sound(u, ghost.steady[a], docs, starred, plan.view)
    BY <1>1, <2>19, AskTyped DEF PageInv, AnswersInv
  <2>21. Covers(u.rows, None, u.next, ToShow(steady[0], page.filter, docs, starred, plan.view))
    BY <1>1, <2>10, <2>18, <2>20 DEF Sound
  <2>22. ListInv'
    BY <1>2, <1>3, <2>5, <2>11, <2>21 DEF ListInv
  <2>23. /\ phase' \in [Docs -> {"busy", "settled"}] /\ starred' \in SUBSET Docs
         /\ pushed' \in Seq(Docs)
    BY <1>2 DEF PageInv, PTyped
  <2>24. ghost.stray \subseteq ghost'.stray /\ ghost'.stray \ ghost.stray = {}
    BY <2>11
  <2>25. QED BY <1>3, <2>5, <2>11, <2>13, <2>14, <2>15, <2>16, <2>17, <2>22, <2>23, <2>24 DEF Going, AsksMove
<1>6. QED BY <1>4, <1>5

LEMMA TakeMoreGoes ==
  ASSUME PageInv, BaseInv, plan.view # "none", NEW a \in Asks, TakeMore(a)
  PROVE  WideStep /\ Going
<1>1. PICK u \in Ask : /\ u = ask[a] /\ u.kind = "more" /\ u.is = "served" /\ Flying(u)
                       /\ u.rows \in Seq(Row) /\ u.next \in Docs \cup {None} /\ u.cursor \in Docs \cup {None}
  BY AskIs DEF TakeMore, Flying, Ask
<1>2. ask' = Take(a) /\ UNCHANGED <<docs, phase, starred, pushed>> /\ Unchanged
  BY DEF TakeMore, NoNews
<1>3. UNCHANGED <<plan, folders, tags, labels, call, mix, late>>
  BY <1>2 DEF Unchanged
<1>4. PICK seq \in Seq(Row) : seq = page.rows \o u.rows
  BY <1>1, RowsTyped, RowsJoin
<1>5. page' = [page EXCEPT !.rows = seq, !.more = u.next]
  BY <1>1, <1>4 DEF TakeMore
<1>6. /\ page' \in Page /\ page'.rows = seq /\ page'.more = u.next /\ page'.tree = page.tree
      /\ page'.ticked = page.ticked /\ page'.filter = page.filter /\ page'.under = page.under
      /\ page'.reading = page.reading /\ page'.load = page.load
  BY <1>1, <1>5 DEF PageInv, PTyped, Page
<1>7. PICK crossed \in SUBSET Docs : crossed = ghost.crossed \cup RowDocs(u.rows) \cup (Overtaken(a) \ OnScreen)
  <2>1. \A i \in DOMAIN u.rows : u.rows[i] \in Row
    BY <1>1
  <2>2. RowDocs(u.rows) \subseteq Docs
    BY <2>1 DEF RowDocs, Row
  <2>3. QED BY <2>2, GhostIs DEF Overtaken
<1>8. PICK slipped \in BOOLEAN : slipped <=> \/ ghost.slipped
                                             \/ a \in ghost.stray
                                             \/ u.under # page.under
                                             \/ u.cursor # page.more
  OBVIOUS
<1>9. PICK steady : steady = [ghost.steady EXCEPT ![0] = ghost.steady[0] \cap ghost.steady[a]]
  OBVIOUS
<1>10. PICK over : over = (ghost.slipped \/ a \in ghost.stray \/ u.under # page.under \/ u.cursor # page.more)
  OBVIOUS
<1>11. ghost' = [ghost EXCEPT !.steady = steady, !.crossed = crossed, !.slipped = over]
  BY <1>1, <1>7, <1>9, <1>10 DEF TakeMore
<1>12. /\ steady \in [{0} \cup Asks -> SUBSET Docs] /\ steady[0] = ghost.steady[0] \cap ghost.steady[a]
       /\ \A b \in Asks : steady[b] = ghost.steady[b]
  <2>1. \A b \in Asks : b # 0
    BY DEF Asks
  <2>2. QED BY <1>9, <2>1, AskTyped DEF PageInv
<1>13. over \in BOOLEAN
  BY <1>10
<1>14. /\ ghost' \in Ghost /\ ghost'.chosen = ghost.chosen /\ ghost'.slipped = over
       /\ ghost'.steady = steady /\ ghost'.stray = ghost.stray
  BY <1>11, <1>12, <1>13, GhostIs, AskTyped DEF Ghost, PageInv
<1>15. \A b \in {0} \cup Asks : Calm(b)
  BY <1>2, <1>12, <1>14 DEF Calm
<1>16. AsksMove /\ Ends(a) /\ \A b \in Asks : b # a => ~Ends(b)
  BY <1>1, <1>2, <1>15, TakeMoves
<1>17. Filters
  BY <1>6 DEF Filters
<1>18. WideStep
  BY <1>2, <1>3, IdleIsWide
<1>19. page'.tree \subseteq SeenFolders' /\ page'.filter.folder \in SeenFolders'
  BY <1>6, <1>18, SeenGrow DEF PageInv, SeenFoldersInv
<1>20. TickInv'
  BY <1>6, <1>14, TicksKept
<1>21. ListInv'
  <2> SUFFICES ASSUME page'.load = "ready", ~Flying(ask'[page'.reading]), ~over
               PROVE  Covers(seq, None, u.next, ToShow(steady[0], page.filter, docs, starred, plan.view))
    BY <1>2, <1>3, <1>6, <1>14 DEF ListInv
  <2>1. ~ghost.slipped /\ a \notin ghost.stray /\ u.under = page.under /\ u.cursor = page.more
    BY <1>10
  <2>2. PICK b \in Asks : b = page.reading /\ b # a
    BY <1>1 DEF PageInv, ReadInv
  <2>3. ask'[b] = ask[b]
    BY <1>1, <1>2, <2>2, TakeIs
  <2>4. PICK old, new : /\ old = ToShow(ghost.steady[0], page.filter, docs, starred, plan.view)
                        /\ new = ToShow(ghost.steady[a], page.filter, docs, starred, plan.view)
    OBVIOUS
  <2>5. Covers(page.rows, None, page.more, old)
    BY <1>6, <2>1, <2>2, <2>3, <2>4 DEF PageInv, ListInv
  <2>6. u.filter = page.filter /\ u.cursor # None
    BY <1>1, <2>1, AskTyped DEF PageInv, AsksInv, Timely, Fit
  <2>7. Sound(u, ghost.steady[a], docs, starred, plan.view)
    BY <1>1, <2>1, AskTyped DEF PageInv, AnswersInv
  <2>8. Covers(u.rows, page.more, u.next, new)
    BY <1>1, <2>1, <2>4, <2>6, <2>7 DEF Sound
  <2>9. PICK both : both = ToShow(steady[0], page.filter, docs, starred, plan.view)
    OBVIOUS
  <2>10. both \subseteq old /\ both \subseteq new
    BY <1>12, <2>4, <2>9 DEF ToShow
  <2>11. Covers(page.rows, None, page.more, both) /\ Covers(u.rows, page.more, u.next, both)
    BY <2>5, <2>8, <2>10 DEF Covers
  <2>12. page.more \in Docs /\ page.more # None /\ page.rows \in Seq(Row)
    BY <1>1, <2>1, <2>6, RowsTyped
  <2>13. QED BY <1>1, <1>4, <2>9, <2>11, <2>12, CoversJoin
<1>22. /\ phase' \in [Docs -> {"busy", "settled"}] /\ starred' \in SUBSET Docs
       /\ pushed' \in Seq(Docs)
  BY <1>2 DEF PageInv, PTyped
<1>23. ghost.stray \subseteq ghost'.stray /\ ghost'.stray \ ghost.stray = {}
  BY <1>14
<1>24. QED BY <1>3, <1>6, <1>14, <1>16, <1>17, <1>18, <1>19, <1>20, <1>21, <1>22, <1>23 DEF Going, AsksMove

\* A late answer takes its documents out of what counts as unchanged.
LEMMA TakenOffIs ==
  ASSUME PageInv, plan.view # "none", NEW a \in Asks, ghost' = TakenOff(a), UNCHANGED <<docs, starred>>
  PROVE  /\ ghost' \in Ghost /\ ghost'.slipped = ghost.slipped /\ ghost'.stray = ghost.stray
         /\ ghost'.chosen = ghost.chosen
         /\ \A b \in {0} \cup Asks : Calm(b)
         /\ \A d \in ghost'.steady[0] : d \in ask[a].ids => d \in ghost.steady[a]
<1>1. PICK gone : gone = Overtaken(a) \cap ask[a].ids
  OBVIOUS
<1>2. PICK steady : steady = [ghost.steady EXCEPT ![0] = ghost.steady[0] \ gone]
  OBVIOUS
<1>c. PICK crossed \in SUBSET Docs : crossed = ghost.crossed \cup gone
  BY <1>1, GhostIs DEF Overtaken
<1>3. ghost' = [ghost EXCEPT !.steady = steady, !.crossed = crossed]
  BY <1>1, <1>2, <1>c DEF TakenOff
<1>4. /\ steady \in [{0} \cup Asks -> SUBSET Docs] /\ steady[0] = ghost.steady[0] \ gone
      /\ \A b \in Asks : steady[b] = ghost.steady[b]
      /\ ghost.steady[0] \subseteq Docs
  <2>1. \A b \in Asks : b # 0
    BY DEF Asks
  <2>2. QED BY <1>2, <2>1, AskTyped DEF PageInv
<1>5. /\ ghost' \in Ghost /\ ghost'.slipped = ghost.slipped /\ ghost'.stray = ghost.stray
      /\ ghost'.chosen = ghost.chosen /\ ghost'.steady = steady
  BY <1>3, <1>4, GhostIs, AskTyped DEF Ghost, PageInv
<1>6. \A b \in {0} \cup Asks : Calm(b)
  BY <1>4, <1>5 DEF Calm
<1>7. \A d \in steady[0] : d \in ask[a].ids => d \in ghost.steady[a]
  BY <1>1, <1>4 DEF Overtaken
<1>8. QED BY <1>5, <1>6, <1>7

\* Rows are taken off the list that a change of this page's has taken out of it.
LEMMA TakenOffGoes ==
  ASSUME PageInv, BaseInv, plan.view # "none", NEW a \in Asks, ask[a].is = "served",
         ask[a].kind \in {"delete", "restore"} \/ (ask[a].kind = "bulk" /\ plan.view = "trash"),
         ask' = Take(a), ghost' = TakenOff(a), NEW ids \in SUBSET ask[a].ids,
         page' \in Page, page'.rows = Without(page.rows, ids),
         page'.filter = page.filter, page'.under = page.under, page'.reading = page.reading,
         page'.more = page.more, page'.load = page.load, page'.tree = page.tree,
         page'.ticked \in {page.ticked, [under |-> page.under, ids |-> {}]},
         UNCHANGED <<docs, phase, starred, pushed>>, Unchanged
  PROVE  WideStep /\ Going
<1>1. PICK u \in Ask : u = ask[a] /\ u.is = "served" /\ Fit(u, plan.view) /\ Flying(u)
  BY AskIs DEF Flying
<1>2. /\ ghost' \in Ghost /\ ghost'.slipped = ghost.slipped /\ ghost'.stray = ghost.stray
      /\ ghost'.chosen = ghost.chosen
      /\ \A b \in {0} \cup Asks : Calm(b)
      /\ \A d \in ghost'.steady[0] : d \in u.ids => d \in ghost.steady[a]
  BY <1>1, TakenOffIs
<1>3. a \notin ghost.stray
  BY DEF PageInv, StrayInv
<1>4. Sound(u, ghost.steady[a], docs, starred, plan.view)
  BY <1>1, <1>3, AskTyped DEF PageInv, AnswersInv
<1>5. \A d \in u.ids \cap ghost.steady[a] : docs[d].status = "trashed" <=> u.kind = "delete"
  BY <1>1, <1>4 DEF Sound
<1>6. u.kind = "delete" <=> plan.view # "trash"
  BY <1>1 DEF Fit
<1>7. RowsKept
  <2> SUFFICES ASSUME NEW d \in ghost'.steady[0], d \in RowDocs(page.rows),
                      InList(d, page.filter, docs, starred, plan.view)
               PROVE  d \in RowDocs(page'.rows)
    BY DEF RowsKept
  <2>1. CASE d \in ids
    <3>1. docs[d].status = "trashed" <=> u.kind = "delete"
      BY <1>1, <1>2, <1>5, <2>1
    <3>2. docs[d].status = "trashed" <=> plan.view = "trash"
      BY DEF InList
    <3>3. QED BY <1>6, <3>1, <3>2
  <2>2. CASE d \notin ids
    BY <2>2, RowsTyped, WithoutIs
  <2>3. QED BY <2>1, <2>2
<1>8. Stable
  BY DEF Stable
<1>9. WideStep
  BY QuietIsWide
<1>10. page'.tree \subseteq SeenFolders'
  BY <1>9, TreeKept
<1>11. TickInv'
  BY <1>2 DEF PageInv, TickInv, PTyped, Page
<1>12. a # page.reading
  BY <1>1 DEF PageInv, ReadInv
<1>13. UNCHANGED <<plan, docs, phase, starred, pushed>>
  BY DEF Unchanged
<1>14. QED BY <1>1, <1>2, <1>7, <1>8, <1>9, <1>10, <1>11, <1>12, <1>13, TakenGoes

\* An answer is taken, and the list is read anew.
LEMMA TakeAndRead ==
  ASSUME PageInv, plan.view # "none", NEW a \in Asks, Flying(ask[a]),
         NEW n \in Asks, ask[n].is = "unsent", NEW r \in Ask, ask' = [Take(a) EXCEPT ![n] = r],
         ghost'.steady = ghost.steady, UNCHANGED <<docs, starred>>
  PROVE  /\ ask' \in [Asks -> Ask] /\ ask'[n] = r
         /\ \A b \in Asks : b = n \/ Ends(b) \/ Waits(b)
<1>1. PICK taken \in [Asks -> Ask] : taken = Take(a)
  BY TakeIs
<1>2. /\ taken[a].is = "taken" /\ taken[a].kind = ask[a].kind /\ taken[a].under = 0
      /\ taken[a].tree = {} /\ \A b \in Asks : b # a => taken[b] = ask[b]
  BY <1>1, TakeIs
<1>3. ask' = [taken EXCEPT ![n] = r]
  BY <1>1
<1>4. /\ ask' \in [Asks -> Ask] /\ ask'[n] = r /\ \A b \in Asks : b # n => ask'[b] = taken[b]
  BY <1>3
<1>5. n # a
  BY DEF Flying
<1>6. Ends(a)
  BY <1>2, <1>4, <1>5 DEF Ends
<1>7. \A b \in Asks : b # n /\ b # a => Waits(b)
  BY <1>2, <1>4, AllCalm DEF Waits
<1>8. QED BY <1>4, <1>6, <1>7

LEMMA AnswerFlies ==
  ASSUME NEW a, AnswerIn(a) PROVE Flying(ask[a])
BY DEF AnswerIn, Flying

LEMMA TakeBulkGoes ==
  ASSUME PageInv, BaseInv, plan.view # "none", NEW a \in Asks, TakeBulk(a)
  PROVE  WideStep /\ Going
<1>1. /\ ask[a].kind = "bulk" /\ AnswerIn(a) /\ Granted(a) /\ Flying(ask[a])
      /\ UNCHANGED <<docs, phase, starred, pushed>> /\ Unchanged
  BY AnswerFlies DEF TakeBulk, NoNews
<1>2. page \in Page /\ page.under \in Nat /\ page.rows \in Seq(Row) /\ page.filter \in Filter
  BY DEF PageInv, PTyped, Page
<1>3. CASE plan.view = "trash"
  <2>1. ask[a].call = None
    BY <1>1, <1>3, AskIs DEF Fit
  <2>2. ask[a].is = "served"
    BY <1>1, <2>1 DEF Granted
  <2>3. PICK ids \in SUBSET Docs : ids = ask[a].ids
    BY AskIs
  <2>4. PICK seq \in Seq(Row) : seq = Without(page.rows, ids)
    BY <1>2, WithoutIs
  <2>5. PICK ticked \in [under : Nat, ids : SUBSET Docs] : ticked = [under |-> page.under, ids |-> {}]
    BY <1>2
  <2>6. page' = [page EXCEPT !.rows = seq, !.ticked = ticked]
    BY <1>3, <2>3, <2>4, <2>5 DEF TakeBulk
  <2>7. /\ page' \in Page /\ page'.rows = seq /\ page'.ticked = ticked
        /\ page'.filter = page.filter /\ page'.under = page.under /\ page'.reading = page.reading
        /\ page'.more = page.more /\ page'.load = page.load /\ page'.tree = page.tree
    BY <1>2, <2>6 DEF Page
  <2>8. ask' = Take(a) /\ ghost' = TakenOff(a)
    BY <1>3 DEF TakeBulk
  <2>9. QED BY <1>1, <1>3, <2>2, <2>3, <2>4, <2>5, <2>7, <2>8, TakenOffGoes
<1>4. CASE plan.view # "trash"
  <2>1. PICK n \in Asks : n = NewAsk /\ ask[n].is = "unsent"
    BY <1>4, NewAskFree DEF TakeBulk
  <2>0. PICK under \in Nat : under = ask[a].under /\ under <= page.under
    BY AskIs
  <2>t. PICK ticked : ticked = [under |-> under, ids |-> {}]
    OBVIOUS
  <2>2. /\ ticked \in [under : Nat, ids : SUBSET Docs]
        /\ ticked.under <= page.under /\ ticked.ids = {}
    BY <2>0, <2>t
  <2>3. page' = [page EXCEPT !.ticked = ticked, !.reading = n]
    BY <1>4, <2>0, <2>1, <2>t DEF TakeBulk
  <2>4. /\ page' \in Page /\ page'.ticked = ticked
        /\ page'.filter = page.filter /\ page'.under = page.under /\ page'.reading = n
        /\ page'.tree = page.tree
    BY <1>2, <2>2, <2>3 DEF Page
  <2>5. PICK r \in Ask : r = Reading(page.filter, page.under)
    BY <1>2, ReadingIs
  <2>6. ask' = [Take(a) EXCEPT ![n] = r] /\ UNCHANGED ghost
    BY <1>4, <2>1, <2>5 DEF TakeBulk
  <2>7. ghost' \in Ghost /\ ghost'.stray = ghost.stray /\ ghost'.steady = ghost.steady
    BY <2>6, GhostSame
  <2>8. /\ ask' \in [Asks -> Ask] /\ ask'[n] = r
        /\ \A b \in Asks : b = n \/ Ends(b) \/ Waits(b)
    BY <1>1, <2>1, <2>6, <2>7, TakeAndRead
  <2>9. WideStep
    BY <1>1, QuietIsWide
  <2>10. page'.tree \subseteq SeenFolders' /\ page'.filter.folder \in SeenFolders'
    BY <2>4, <2>9, SeenGrow DEF PageInv, SeenFoldersInv
  <2>11. TickInv'
    BY <2>2, <2>4 DEF TickInv
  <2>12. UNCHANGED <<plan, phase, starred, pushed>>
    BY <1>1 DEF Unchanged
  <2>13. QED BY <2>1, <2>4, <2>5, <2>7, <2>8, <2>9, <2>10, <2>11, <2>12, RefetchGoes
<1>5. QED BY <1>3, <1>4

LEMMA TakeChangeGoes ==
  ASSUME PageInv, BaseInv, plan.view # "none", NEW a \in Asks, TakeChange(a)
  PROVE  WideStep /\ Going
<1>1. /\ ask[a].kind \in {"delete", "restore", "reprocess"} /\ ask[a].is = "served"
      /\ Flying(ask[a])
      /\ UNCHANGED <<docs, phase, starred, pushed>> /\ Unchanged /\ ask' = Take(a)
  BY DEF TakeChange, NoNews, Flying
<1>2. PICK d : d = CHOOSE x \in ask[a].ids : TRUE
  OBVIOUS
<1>3. /\ page' = [page EXCEPT !.rows = IF ask[a].kind = "reprocess" THEN Patched(@, d, "busy")
                                       ELSE Without(@, {d})]
      /\ ghost' = IF ask[a].kind = "reprocess"
                  THEN [ghost EXCEPT !.crossed = @ \cup (Overtaken(a) \cap {d})]
                  ELSE TakenOff(a)
  BY <1>2 DEF TakeChange
<1>4. page \in Page /\ page.under \in Nat /\ page.rows \in Seq(Row) /\ page.filter \in Filter
  BY DEF PageInv, PTyped, Page
<1>5. PICK seq \in Seq(Row) :
        /\ seq = IF ask[a].kind = "reprocess" THEN Patched(page.rows, d, "busy")
                 ELSE Without(page.rows, {d})
        /\ ask[a].kind = "reprocess" => RowDocs(seq) = RowDocs(page.rows)
  <2>1. Without(page.rows, {d}) \in Seq(Row)
    BY <1>4, WithoutIs
  <2>2. /\ Patched(page.rows, d, "busy") \in Seq(Row)
        /\ RowDocs(Patched(page.rows, d, "busy")) = RowDocs(page.rows)
    BY <1>4, PatchedIs DEF Shows
  <2>3. QED BY <2>1, <2>2
<1>6. page' = [page EXCEPT !.rows = seq]
  BY <1>3, <1>5
<1>7. /\ page' \in Page /\ page'.rows = seq /\ page'.ticked = page.ticked
      /\ page'.filter = page.filter /\ page'.under = page.under /\ page'.reading = page.reading
      /\ page'.more = page.more /\ page'.load = page.load /\ page'.tree = page.tree
  BY <1>4, <1>6 DEF Page
<1>8. CASE ask[a].kind = "reprocess"
  <2>1. PICK crossed \in SUBSET Docs : crossed = ghost.crossed \cup (Overtaken(a) \cap {d})
    BY GhostIs DEF Overtaken
  <2>2. ghost' = [ghost EXCEPT !.crossed = crossed]
    BY <1>3, <1>8, <2>1
  <2>3. /\ ghost' \in Ghost /\ ghost'.slipped = ghost.slipped /\ ghost'.stray = ghost.stray
        /\ ghost'.steady = ghost.steady /\ ghost'.chosen = ghost.chosen
    BY <2>2, GhostCrossed
  <2>4. Stable /\ page'.tree \subseteq SeenFolders
    BY <1>7 DEF Stable, PageInv, SeenFoldersInv
  <2>5. a # page.reading
    BY <1>8 DEF PageInv, ReadInv
  <2>6. UNCHANGED <<docs, phase, starred, pushed, folders, tags, labels, call, mix, late, plan>>
    BY <1>1 DEF Unchanged
  <2>7. RowDocs(page.rows) \subseteq RowDocs(page'.rows)
    BY <1>5, <1>7, <1>8
  <2>8. QED BY <1>1, <1>7, <2>3, <2>4, <2>5, <2>6, <2>7, TakenQuietly
<1>9. CASE ask[a].kind # "reprocess"
  <2>1. ghost' = TakenOff(a) /\ page'.rows = Without(page.rows, {d})
    BY <1>3, <1>5, <1>7, <1>9
  <2>2. {d} \in SUBSET ask[a].ids
    <3>1. ask[a].ids # {}
      BY <1>1, <1>9, AskIs DEF Fit
    <3>2. QED BY <1>2, <3>1
  <2>3. QED BY <1>1, <1>7, <1>9, <2>1, <2>2, TakenOffGoes
<1>10. QED BY <1>8, <1>9

LEMMA TakeUploadGoes ==
  ASSUME PageInv, BaseInv, plan.view # "none", NEW a \in Asks, TakeUpload(a)
  PROVE  WideStep /\ Going
<1>1. /\ ask[a].kind = "upload" /\ ask[a].is = "served" /\ Flying(ask[a])
      /\ UNCHANGED <<docs, phase, starred, pushed>> /\ Unchanged /\ ask' = Take(a)
  BY DEF TakeUpload, NoNews, Flying
<1>2. PICK d \in Docs : d = CHOOSE x \in ask[a].ids : TRUE
  <2>1. ask[a].ids # {} /\ ask[a].ids \in SUBSET Docs
    BY <1>1, AskIs DEF Fit
  <2>2. QED BY <2>1
<1>3. PICK row \in Row : row = [doc |-> d, shown |-> "busy", star |-> FALSE]
  BY DEF Row
<1>4. PICK unlisted : unlisted = (ask[a].under # page.under \/ page.filter.favorite \/ d \in OnScreen
                                        \/ Starring(d))
  OBVIOUS
<1>5. /\ page' = Idle([page EXCEPT !.rows = <<row>> \o @])
      /\ ghost' = [ghost EXCEPT !.crossed = @ \cup (IF unlisted THEN {d} ELSE {})
                                   \cup (Overtaken(a) \cap {d})]
  BY <1>2, <1>3, <1>4 DEF TakeUpload
<1>6. PICK seq \in Seq(Row) : seq = <<row>> \o page.rows /\ RowDocs(page.rows) \subseteq RowDocs(seq)
  <2>1. PICK one \in Seq(Row) : one = <<row>>
    <3>1. <<row>> \in Seq(Row)
      OBVIOUS
    <3>2. QED BY <3>1
  <2>2. PICK old \in Seq(Row) : old = page.rows
    BY RowsTyped
  <2>3. one \o old \in Seq(Row) /\ RowDocs(one \o old) = RowDocs(one) \cup RowDocs(old)
    BY RowsJoin
  <2>4. QED BY <2>1, <2>2, <2>3
<1>7. page' = [page EXCEPT !.rows = seq, !.queue = {}]
  BY <1>5, <1>6 DEF Idle
<1>8. /\ page' \in Page /\ page'.rows = seq /\ page'.ticked = page.ticked
      /\ page'.filter = page.filter /\ page'.under = page.under /\ page'.reading = page.reading
      /\ page'.more = page.more /\ page'.load = page.load /\ page'.tree = page.tree
  BY <1>7 DEF PageInv, PTyped, Page
<1>9. PICK crossed \in SUBSET Docs :
        crossed = ghost.crossed \cup (IF unlisted THEN {d} ELSE {}) \cup (Overtaken(a) \cap {d})
  BY GhostIs DEF Overtaken
<1>10. ghost' = [ghost EXCEPT !.crossed = crossed]
  BY <1>5, <1>9
<1>11. /\ ghost' \in Ghost /\ ghost'.slipped = ghost.slipped /\ ghost'.stray = ghost.stray
       /\ ghost'.steady = ghost.steady /\ ghost'.chosen = ghost.chosen
  BY <1>10, GhostCrossed
<1>12. Stable /\ page'.tree \subseteq SeenFolders
  BY <1>8 DEF Stable, PageInv, SeenFoldersInv
<1>13. a # page.reading
  BY <1>1 DEF PageInv, ReadInv
<1>14. UNCHANGED <<docs, phase, starred, pushed, folders, tags, labels, call, mix, late, plan>>
  BY <1>1 DEF Unchanged
<1>15. RowDocs(page.rows) \subseteq RowDocs(page'.rows)
  BY <1>6, <1>8
<1>16. QED BY <1>1, <1>8, <1>11, <1>12, <1>13, <1>14, <1>15, TakenQuietly

LEMMA TakeStarGoes ==
  ASSUME PageInv, BaseInv, plan.view # "none", NEW a \in Asks, TakeStar(a)
  PROVE  WideStep /\ Going
<1>1. ask[a].kind = "star" /\ Flying(ask[a]) /\ ask' = Take(a) /\ UNCHANGED page
  BY DEF TakeStar, Flying
<1>2. UNCHANGED <<docs, phase, starred, pushed, folders, tags, labels, call, mix, late, plan, ghost>>
  BY DEF TakeStar, Still, NoNews, Unchanged
<1>3. a # page.reading
  BY <1>1 DEF PageInv, ReadInv
<1>4. page'.tree \subseteq SeenFolders
  BY <1>1 DEF PageInv, SeenFoldersInv
<1>5. QED BY <1>1, <1>2, <1>3, <1>4, SamePage, GhostSame, TakenQuietly

LEMMA TakeCreatedFolderGoes ==
  ASSUME PageInv, BaseInv, plan.view # "none", NEW a \in Asks, TakeCreatedFolder(a)
  PROVE  WideStep /\ Going
<1>1. /\ ask[a].kind = "createFolder" /\ AnswerIn(a) /\ Granted(a) /\ Flying(ask[a])
      /\ ask' = Take(a)
  BY AnswerFlies DEF TakeCreatedFolder
<1>2. UNCHANGED <<docs, phase, starred, pushed, folders, tags, labels, call, mix, late, plan, ghost>>
  BY DEF TakeCreatedFolder, Still, NoNews, Unchanged
<1>3. ask[a].is = "sent" /\ ask[a].call # None
  BY <1>1, AskIs DEF Fit
<1>4. PICK c \in Calls : c = ask[a].call /\ call[c].ok
  BY <1>1, <1>3, AskIs DEF Granted
<1>5. c \in SeenFolders /\ c \in Folders
  BY <1>4 DEF SeenFolders, Existed, Folders
<1>6. PICK tree \in SUBSET Folders : tree = page.tree \cup {c} /\ tree \subseteq SeenFolders
  <2>1. page.tree \subseteq Folders /\ page.tree \subseteq SeenFolders
    BY DEF PageInv, PTyped, Page, SeenFoldersInv
  <2>2. QED BY <1>5, <2>1
<1>7. page' = [page EXCEPT !.tree = tree]
  BY <1>4, <1>6 DEF TakeCreatedFolder
<1>8. /\ Stable /\ page'.ticked = page.ticked /\ page'.tree = tree
      /\ RowDocs(page.rows) \subseteq RowDocs(page'.rows)
  BY <1>7 DEF PageInv, PTyped, Page, Stable
<1>9. a # page.reading
  BY <1>1 DEF PageInv, ReadInv
<1>10. QED BY <1>1, <1>2, <1>6, <1>8, <1>9, GhostSame, TakenQuietly

LEMMA TakeRemovedFolderGoes ==
  ASSUME PageInv, BaseInv, plan.view # "none", NEW a \in Asks, TakeRemovedFolder(a)
  PROVE  WideStep /\ Going
<1>1. /\ ask[a].kind = "removeFolder" /\ Flying(ask[a])
      /\ UNCHANGED <<docs, phase, starred, pushed>> /\ Unchanged
  BY AnswerFlies DEF TakeRemovedFolder, NoNews
<1>2. /\ page \in Page /\ page.under \in Nat /\ page.filter \in Filter
      /\ page.tree \in SUBSET Folders
  BY DEF PageInv, PTyped, Page
<1>3. PICK tree \in SUBSET Folders :
        tree = page.tree \ {ask[a].to} /\ tree \subseteq page.tree /\ tree \subseteq SeenFolders
  BY <1>2 DEF PageInv, SeenFoldersInv
<1>4. PICK kept \in Page : kept = [page EXCEPT !.tree = tree]
  BY <1>2 DEF Page
<1>5. PICK viewed : viewed = (ask[a].filter.folder = ask[a].to /\ page.filter.folder # None)
  OBVIOUS
<1>6. CASE viewed
  <2>1. PICK n \in Asks : n = NewAsk /\ ask[n].is = "unsent"
    BY <1>5, <1>6, NewAskFree DEF TakeRemovedFolder
  <2>f. PICK filter : filter = [page.filter EXCEPT !.folder = None]
    OBVIOUS
  <2>2. filter \in Filter /\ filter.folder = None
    <3>1. PICK old \in Filter : old = page.filter
      BY <1>2
    <3>2. filter = [old EXCEPT !.folder = None]
      BY <2>f, <3>1
    <3>3. QED BY <3>2 DEF Filter
  <2>3. PICK r \in Ask : r = Reading(filter, page.under + 1)
    <3>1. page.under + 1 \in Nat
      BY <1>2
    <3>2. QED BY <2>2, <3>1, ReadingIs
  <2>4. /\ page' = [kept EXCEPT !.filter = filter, !.under = page.under + 1, !.reading = n]
        /\ ask' = [Take(a) EXCEPT ![n] = r]
        /\ ghost' = [ghost EXCEPT !.chosen = {}]
    <3>1. kept.filter = page.filter /\ kept.under = page.under
      BY <1>2, <1>4 DEF Page
    <3>2. /\ page' = [kept EXCEPT !.filter.folder = None, !.under = @ + 1, !.reading = n]
          /\ ask' = [Take(a) EXCEPT ![n] = r]
          /\ ghost' = [ghost EXCEPT !.chosen = {}]
      BY <1>3, <1>4, <1>5, <1>6, <2>1, <2>f, <2>3 DEF TakeRemovedFolder
    <3>3. QED BY <2>f, <3>1, <3>2
  <2>5. /\ kept.under = page.under /\ kept.tree = tree /\ kept.ticked = page.ticked
        /\ page.ticked.under \in Nat
    BY <1>2, <1>4 DEF Page
  <2>6. /\ page' \in Page /\ page'.filter = filter /\ page'.under = page.under + 1
        /\ page'.reading = n /\ page'.tree = tree /\ page'.ticked = page.ticked
    <3>1. PICK under \in Nat : under = page.under + 1
      BY <1>2
    <3>2. page' = [kept EXCEPT !.filter = filter, !.under = under, !.reading = n]
      BY <2>4, <3>1
    <3>3. QED BY <2>2, <2>5, <3>1, <3>2 DEF Page
  <2>7. ghost' \in Ghost /\ ghost'.stray = ghost.stray /\ ghost'.steady = ghost.steady
    BY <2>4, GhostIs DEF Ghost
  <2>8. /\ ask' \in [Asks -> Ask] /\ ask'[n] = r
        /\ \A b \in Asks : b = n \/ Ends(b) \/ Waits(b)
    BY <1>1, <2>1, <2>4, <2>7, TakeAndRead
  <2>9. WideStep
    BY <1>1, QuietIsWide
  <2>10. page'.tree \subseteq SeenFolders' /\ page'.filter.folder \in SeenFolders'
    <3>1. page'.tree \subseteq SeenFolders'
      BY <1>3, <2>6, <2>9, SeenGrow
    <3>2. None \in SeenFolders /\ SeenFolders \subseteq SeenFolders'
      BY <2>9, SeenExisted, SeenGrow DEF SeenFolders
    <3>3. QED BY <2>2, <2>6, <3>1, <3>2
  <2>11. TickInv'
    <3>1. page.ticked.under <= page.under
      BY DEF PageInv, TickInv
    <3>2. page'.ticked.under <= page'.under /\ page'.ticked.under # page'.under
      BY <1>2, <2>5, <2>6, <3>1
    <3>3. QED BY <3>2 DEF TickInv
  <2>12. UNCHANGED <<plan, phase, starred, pushed>>
    BY <1>1 DEF Unchanged
  <2>13. ask'[n] = Reading(page'.filter, page'.under)
    BY <2>3, <2>6, <2>8
  <2>14. QED BY <2>1, <2>6, <2>7, <2>8, <2>9, <2>10, <2>11, <2>12, <2>13, RefetchGoes
<1>7. CASE ~viewed
  <2>1. page' = kept /\ ask' = Take(a) /\ UNCHANGED ghost
    BY <1>3, <1>4, <1>5, <1>7 DEF TakeRemovedFolder
  <2>2. /\ Stable /\ page'.ticked = page.ticked /\ page'.tree = tree
        /\ RowDocs(page.rows) \subseteq RowDocs(page'.rows)
    BY <1>2, <1>4, <2>1 DEF Page, Stable
  <2>3. UNCHANGED <<docs, phase, starred, pushed, folders, tags, labels, call, mix, late, plan, ghost>>
    BY <1>1, <2>1 DEF Unchanged
  <2>4. a # page.reading
    BY <1>1 DEF PageInv, ReadInv
  <2>5. QED BY <1>1, <1>3, <2>1, <2>2, <2>3, <2>4, GhostSame, TakenQuietly
<1>8. QED BY <1>6, <1>7

\* A failure leaves the list as it is, but for a star, or takes its place.
LEMMA FailsSo ==
  ASSUME PageInv, plan.view # "none", NEW a \in Asks, Flying(ask[a]), Fails(a)
  PROVE  /\ Stable /\ page'.ticked = page.ticked /\ page'.tree = page.tree
         /\ RowDocs(page.rows) \subseteq RowDocs(page'.rows)
         /\ a = page.reading => page'.load = "error"
         /\ ask' = Take(a) /\ UNCHANGED <<docs, phase, starred, pushed>>
<1>0. ask' = Take(a) /\ UNCHANGED <<docs, phase, starred, pushed>> /\ page \in Page
  BY DEF Fails, NoNews, PageInv, PTyped
<1>1. PICK d : d = CHOOSE x \in ask[a].ids : TRUE
  OBVIOUS
<1>2. PICK star \in BOOLEAN : star = (ask[a].action = "unstar")
  OBVIOUS
<1>3. PICK seq \in Seq(Row) : seq = Patch(page.rows, d, star) /\ RowDocs(seq) = RowDocs(page.rows)
  BY RowsTyped, PatchedIs
<1>4. page.reading \in Asks /\ ask[page.reading].kind = "list"
  BY DEF PageInv, ReadInv
<1>5. CASE ask[a].kind = "list" /\ a = page.reading
  <2>1. page' = [page EXCEPT !.load = "error"]
    BY <1>5 DEF Fails, IsCurrent
  <2>2. QED BY <1>0, <2>1 DEF Page, Stable
<1>6. CASE ask[a].kind = "star"
  <2>1. page' = [page EXCEPT !.rows = seq]
    BY <1>1, <1>2, <1>3, <1>6 DEF Fails
  <2>2. QED BY <1>0, <1>3, <1>4, <1>6, <2>1 DEF Page, Stable
<1>7. CASE ask[a].kind = "upload"
  <2>1. page' = [page EXCEPT !.queue = {}]
    BY <1>7 DEF Fails, Idle
  <2>2. QED BY <1>0, <1>4, <1>7, <2>1 DEF Page, Stable
<1>8. CASE /\ ask[a].kind \notin {"star", "upload"}
           /\ ~(ask[a].kind = "list" /\ a = page.reading)
  <2>1. page' = page
    BY <1>8 DEF Fails, IsCurrent
  <2>2. QED BY <1>0, <1>4, <1>8, <2>1 DEF Stable
<1>9. QED BY <1>5, <1>6, <1>7, <1>8

LEMMA TakeRefusalGoes ==
  ASSUME PageInv, BaseInv, plan.view # "none", NEW a \in Asks, TakeRefusal(a)
  PROVE  WideStep /\ Going
<1>1. Flying(ask[a]) /\ Fails(a)
  BY AnswerFlies DEF TakeRefusal
<1>2. UNCHANGED <<folders, tags, labels, call, mix, late, plan, ghost>>
  BY DEF TakeRefusal, Unchanged
<1>3. page.tree \subseteq SeenFolders
  BY DEF PageInv, SeenFoldersInv
<1>4. QED BY <1>1, <1>2, <1>3, FailsSo, GhostSame, TakenQuietly

LEMMA LoseGoes ==
  ASSUME PageInv, BaseInv, plan.view # "none", NEW a \in Asks, Lose(a)
  PROVE  WideStep /\ Going
<1>1. Flying(ask[a]) /\ Fails(a)
  BY DEF Lose, InFlight, Flying
<1>2. UNCHANGED <<folders, tags, labels, call, mix, late, plan>>
  BY DEF Lose
<1>3. PICK ids \in SUBSET Docs : ids = ask[a].ids
  BY AskIs
<1>4. PICK crossed \in SUBSET Docs : crossed = ghost.crossed \cup ids
  BY GhostIs
<1>5. ghost' = [ghost EXCEPT !.crossed = crossed]
  BY <1>3, <1>4 DEF Lose
<1>6. page.tree \subseteq SeenFolders
  BY DEF PageInv, SeenFoldersInv
<1>7. QED BY <1>1, <1>2, <1>5, <1>6, FailsSo, GhostCrossed, TakenQuietly

\* Nothing moves: no page is open, or nothing happens on it.
LEMMA StillGoes ==
  ASSUME PageInv, BaseInv, plan.view # "none", UNCHANGED pvars PROVE WideStep /\ Going
<1>1. UNCHANGED <<plan, docs, phase, starred, ghost, page, ask, pushed, folders, tags, labels, call, late>>
  BY DEF pvars
<1>2. WideStep
  BY <1>1, IdleIsWide
<1>3. AsksMove /\ ~Ends(page.reading)
  BY <1>1, AllCalm, AllWait
<1>4. pushed' \in Seq(Docs)
  BY <1>1 DEF PageInv, PTyped
<1>5. page'.tree \subseteq SeenFolders'
  BY <1>1, <1>2, TreeKept, SamePage
<1>6. QED BY <1>1, <1>2, <1>3, <1>4, <1>5, SamePage, QuietGoes

LEMMA ClosedKeeps ==
  ASSUME BaseInv, WideStep, PageInv, plan.view = "none",
         UNCHANGED <<plan, page, ask, phase, starred, pushed, ghost>>
  PROVE  PageInv'
<1>1. DOMAIN ask = {} /\ page.load = "closed" /\ SeenFolders \subseteq SeenFolders'
  BY SeenGrow DEF PageInv, PTyped
<1>2. PTyped'
  <2>1. (ghost \in Ghost)'
    BY DEF PageInv, PTyped, Ghost
  <2>2. QED BY <2>1 DEF PageInv, PTyped
<1>3. SeenFoldersInv'
  BY <1>1 DEF PageInv, SeenFoldersInv
<1>4. AsksInv' /\ AnswersInv' /\ ReadInv' /\ ListInv'
  BY <1>1 DEF AsksInv, AnswersInv, ReadInv, ListInv
<1>5. StrayInv' /\ TickInv'
  BY DEF PageInv, StrayInv, TickInv
<1>6. QED BY <1>2, <1>3, <1>4, <1>5 DEF PageInv

\* What the reader does, what the server does, and what comes back.
LEMMA ReaderGoes ==
  ASSUME PageInv, BaseInv, plan.view # "none", Reader PROVE WideStep /\ Going
<1>1. CASE Narrow \/ Retry \/ LoadMore \/ Tick
  BY <1>1, NarrowGoes, RetryGoes, LoadMoreGoes, TickGoes
<1>2. CASE StartBulk \/ StartMove \/ ActOnRow \/ StartCreateFolder \/ StartRemoveFolder
  BY <1>2, StartBulkGoes, StartMoveGoes, ActOnRowGoes, StartCreateFolderGoes, StartRemoveFolderGoes
<1>3. CASE PickFile \/ ToggleStar
  BY <1>3, PickFileGoes, ToggleStarGoes
<1>4. CASE \E a \in Asks : CancelUpload(a)
  BY <1>4, CancelUploadGoes
<1>5. DOMAIN ask = Asks
  BY AskTyped DEF PageInv
<1>6. QED BY <1>1, <1>2, <1>3, <1>4, <1>5 DEF Reader

LEMMA AnsweringGoes ==
  ASSUME PageInv, BaseInv, plan.view # "none", NEW a \in Asks, Served(a) \/ Taken(a)
  PROVE  WideStep /\ Going
<1>1. CASE Served(a)
  BY <1>1, ServeReadGoes, ServeChangeGoes, ServeUploadGoes, ServeStarGoes DEF Served
<1>2. CASE TakeList(a) \/ TakeMore(a) \/ TakeBulk(a) \/ TakeChange(a) \/ TakeUpload(a)
  BY <1>2, TakeListGoes, TakeMoreGoes, TakeBulkGoes, TakeChangeGoes, TakeUploadGoes
<1>3. CASE \/ TakeStar(a) \/ TakeCreatedFolder(a) \/ TakeRemovedFolder(a)
           \/ TakeRefusal(a) \/ Lose(a)
  BY <1>3, TakeStarGoes, TakeCreatedFolderGoes, TakeRemovedFolderGoes, TakeRefusalGoes, LoseGoes
<1>4. QED BY <1>1, <1>2, <1>3 DEF Taken

LEMMA OpenPageGoes ==
  ASSUME PageInv, BaseInv, plan.view # "none", [PNext]_pvars PROVE WideStep /\ Going
<1>1. DOMAIN ask = Asks
  BY AskTyped DEF PageInv
<1>2. CASE UNCHANGED pvars
  BY <1>2, StillGoes
<1>3. CASE Reader \/ Deliver
  BY <1>3, ReaderGoes, DeliverGoes
<1>4. CASE \E a \in Asks : Served(a) \/ Taken(a)
  BY <1>4, AnsweringGoes
<1>5. CASE \E d \in Docs : Finish(d) \/ Elsewhere(d)
  BY <1>5, FinishGoes, ElsewhereGoes
<1>6. CASE \E c \in Calls : LibraryStep(c)
  BY <1>6, LibraryStepGoes
<1>7. QED BY <1>1, <1>2, <1>3, <1>4, <1>5, <1>6 DEF PNext, PageStep

LEMMA ClosedPageGoes ==
  ASSUME PageInv, BaseInv, plan.view = "none", [PNext]_pvars
  PROVE  WideStep /\ UNCHANGED <<plan, page, ask, phase, starred, pushed, ghost>>
<1>1. CASE UNCHANGED pvars
  BY <1>1, IdleIsWide DEF pvars
<1>2. ASSUME NEW c \in Calls, LibraryStep(c)
      PROVE  WideStep /\ UNCHANGED <<plan, page, ask, phase, starred, pushed, ghost>>
  BY <1>2, CallStepIs DEF LibraryStep, BaseInv, WideStep
<1>3. ASSUME NEW d \in Docs, ChangeStatus(d)
      PROVE  WideStep
  BY <1>3, StatusIsWide DEF ChangeStatus
<1>4. QED BY <1>1, <1>2, <1>3 DEF PNext

LEMMA PageStepIs == BaseInv /\ PageInv /\ [PNext]_pvars => WideStep /\ PageInv'
<1> SUFFICES ASSUME BaseInv, PageInv, [PNext]_pvars PROVE WideStep /\ PageInv'
  OBVIOUS
<1>1. CASE plan.view = "none"
  BY <1>1, ClosedPageGoes, ClosedKeeps
<1>2. CASE plan.view # "none"
  BY <1>2, OpenPageGoes, GoingKeeps
<1>3. QED BY <1>1, <1>2

LEMMA PageStart == PInit => Init /\ PageInv
<1> SUFFICES ASSUME PInit PROVE PageInv /\ Init
  OBVIOUS
<1>1. Init
  BY DEF PInit
<1>2. 1 \in Asks /\ Asks \subseteq Nat
  BY PageAssumption DEF Asks
<1>3. AllFiles \in Filter /\ AllFiles.folder = None
  BY DEF AllFiles, Filter
<1>4. PICK first \in Ask : /\ first = Reading(AllFiles, 0) /\ first.kind = "list" /\ first.is = "sent"
                           /\ first.filter = AllFiles /\ first.under = 0 /\ Asking(first)
  BY <1>3, ReadingIs
<1>5. PICK open \in BOOLEAN : open <=> plan.view # "none"
  OBVIOUS
<1>6. /\ page = [filter |-> AllFiles, under |-> 0,
                 load |-> IF open THEN "loading" ELSE "closed", rows |-> <<>>, more |-> None,
                 tree |-> {}, ticked |-> [under |-> 0, ids |-> {}],
                 reading |-> IF open THEN 1 ELSE 0, queue |-> {}]
      /\ ask = [a \in IF open THEN Asks ELSE {} |-> IF a = 1 THEN first ELSE NoAsk]
  BY <1>4, <1>5 DEF PInit
<1>7. /\ phase = [d \in Docs |-> "settled"] /\ starred = {} /\ pushed = <<>>
      /\ ghost = [steady |-> [a \in {0} \cup DOMAIN ask |-> {}], owner |-> [d \in Docs |-> "other"],
                  crossed |-> {}, chosen |-> {}, stray |-> {}, slipped |-> FALSE]
  BY DEF PInit
<1>8. /\ DOMAIN ask = (IF open THEN Asks ELSE {}) /\ ask \in [DOMAIN ask -> Ask]
      /\ \A b \in DOMAIN ask : ask[b] = first \/ ask[b] = NoAsk
      /\ open => ask[1] = first
  BY <1>2, <1>6, NoAskOK
<1>9. page \in Page
  <2>1. <<>> \in Seq(Row)
    OBVIOUS
  <2>2. QED BY <1>2, <1>3, <1>6, <2>1 DEF Page
<1>10. ghost \in Ghost
  BY <1>7 DEF Ghost
<1>11. PTyped
  BY <1>5, <1>6, <1>7, <1>8, <1>9, <1>10 DEF PTyped
<1>12. SeenFoldersInv
  <2>1. Existed(None)
    BY NamesApart DEF Existed, Places, Folders
  <2>2. QED BY <1>3, <1>4, <1>6, <1>8, <2>1, NoAskOK DEF SeenFoldersInv, SeenFolders, Asking
<1>13. AsksInv
  <2>1. Fit(first, plan.view) /\ Timely(first, page.under, page.filter)
    BY <1>4, <1>6 DEF Fit, Timely, Flying, Asking
  <2>2. Fit(NoAsk, plan.view) /\ Timely(NoAsk, page.under, page.filter)
    BY <1>6 DEF Fit, Timely, Flying, NoAsk
  <2>3. ASSUME NEW b \in DOMAIN ask
        PROVE  Fit(ask[b], plan.view) /\ Timely(ask[b], page.under, page.filter)
    <3>1. CASE ask[b] = first
      BY <2>1, <3>1
    <3>2. CASE ask[b] = NoAsk
      BY <2>2, <3>2
    <3>3. QED BY <1>8, <3>1, <3>2
  <2>4. QED BY <2>3 DEF AsksInv
<1>14. AnswersInv
  <2>1. first.is # "served" /\ NoAsk.is # "served"
    BY <1>4 DEF NoAsk
  <2>2. \A b \in DOMAIN ask : ask[b].is # "served"
    BY <1>8, <2>1
  <2>3. QED BY <2>2 DEF AnswersInv, Sound
<1>15. ReadInv
  BY <1>2, <1>4, <1>5, <1>6, <1>8 DEF ReadInv
<1>16. StrayInv /\ ListInv /\ TickInv
  BY <1>6, <1>7 DEF StrayInv, ListInv, TickInv
<1>17. QED BY <1>1, <1>11, <1>12, <1>13, <1>14, <1>15, <1>16 DEF PageInv

LEMMA PageCorrect == PSpec => [](BaseInv /\ PageInv)
<1>1. PInit => BaseInv /\ PageInv
  BY PageStart, BaseStart
<1>2. BaseInv /\ PageInv /\ [PNext]_pvars => BaseInv' /\ PageInv'
  BY PageStepIs, BaseStep
<1>3. QED BY <1>1, <1>2, PTL DEF PSpec

-----------------------------------------------------------------------------
(* The page: what follows.                                                  *)

\* A list loaded to its end has left nothing out that has been in it since its
\* first page was read (DocumentsService.list, loadMore, and the effect that
\* refetches).
THEOREM NothingIsSkipped == PSpec => []NoneSkipped
<1>1. PageInv => NoneSkipped
  <2> SUFFICES ASSUME PageInv, Quiet, page.more = None, ~ghost.slipped,
                      NEW d \in ghost.steady[0], Belongs(d, page.filter)
               PROVE  d \in OnScreen
    BY DEF NoneSkipped
  <2>1. page.load = "ready" /\ plan.view # "none"
    BY DEF Quiet, PageInv, PTyped
  <2>2. page.reading \in DOMAIN ask
    BY <2>1, AskTyped DEF PageInv, ReadInv
  <2>3. ~Flying(ask[page.reading])
    BY <2>2 DEF Quiet, InFlight, Flying
  <2>4. Covers(page.rows, None, None, ToShow(ghost.steady[0], page.filter, docs, starred, plan.view))
    BY <2>1, <2>3 DEF PageInv, ListInv
  <2>5. d \in ToShow(ghost.steady[0], page.filter, docs, starred, plan.view)
    BY BelongsIs DEF ToShow
  <2>6. d \in Docs
    BY <2>1, AskTyped DEF PageInv
  <2>7. PICK i \in DOMAIN Newest : Newest[i] = d
    BY <2>6, NewestIs
  <2>8. QED BY <2>4, <2>5, <2>7 DEF Covers, OnScreen
<1>2. QED BY <1>1, PageCorrect, PTL

\* A batch names only documents that were ticked, on screen, since the filters
\* were last changed (the memo of the ticks in documents-view.tsx).
THEOREM BatchesWereTicked == PSpec => BatchWasTicked
<1>1. BaseInv /\ PageInv /\ [PNext]_pvars =>
        [\A a \in DOMAIN ask : ask[a].is = "unsent" /\ ask'[a].kind = "bulk"
                               => ask'[a].ids \subseteq ghost.chosen]_pvars
  <2> SUFFICES ASSUME BaseInv, PageInv, [PNext]_pvars, NEW a \in DOMAIN ask,
                      ask[a].is = "unsent", ask'[a].kind = "bulk"
               PROVE  ask'[a].ids \subseteq ghost.chosen
    OBVIOUS
  <2>1. plan.view # "none"
    BY DEF PageInv, PTyped
  <2>2. Going
    BY <2>1, OpenPageGoes
  <2>3. QED BY <2>2, GoingTicked
<1>2. QED BY <1>1, PageCorrect, PTL DEF PSpec, BatchWasTicked

\* The page's own requests, uploads and changes of other documents do the
\* library no harm: what Library promises holds of the two together.
THEOREM PageKeepsTheLibrary ==
  PSpec => /\ []NothingDetached
           /\ []ReplacementReplaces
           /\ NothingSweptAlong
           /\ FrozenStays
<1>1. PInit => TreeInv /\ RemoveInv /\ LabelsInv
  BY PageStart, TreeStart, RemoveStart, LabelsStart
<1>2. BaseInv /\ PageInv /\ [PNext]_pvars => WideStep
  BY PageStepIs
<1>3. BaseInv /\ PageInv /\ TreeInv /\ [PNext]_pvars => TreeInv'
  BY <1>2, TreeStep
<1>4. BaseInv /\ PageInv /\ RemoveInv /\ [PNext]_pvars => RemoveInv'
  BY <1>2, RemoveStep
<1>5. BaseInv /\ PageInv /\ LabelsInv /\ [PNext]_pvars => LabelsInv'
  BY <1>2, LabelsStep
<1>6. PSpec => [](TreeInv /\ RemoveInv /\ LabelsInv)
  BY <1>1, <1>3, <1>4, <1>5, PageCorrect, PTL DEF PSpec
<1>7. TreeInv => NothingDetached
  BY TreeSuffices
<1>8. LabelsInv => ReplacementReplaces
  BY LabelsSuffice
<1>9. BaseInv /\ PageInv /\ RemoveInv /\ [PNext]_pvars => [TakesNothingAlong]_vars
  BY <1>2, RemovalTakes
<1>10. BaseInv /\ PageInv /\ LabelsInv /\ [PNext]_pvars => [ChangesLate]_vars
  BY <1>2, OnlyLateChange
<1>11. PSpec => NothingSweptAlong
  BY <1>6, <1>9, PageCorrect, PTL DEF PSpec, NothingSweptAlong, TakesNothingAlong
<1>12. PSpec => FrozenStays
  BY <1>6, <1>10, PageCorrect, PTL DEF PSpec, FrozenStays, ChangesLate
<1>13. QED BY <1>6, <1>7, <1>8, <1>11, <1>12, PTL

=============================================================================
