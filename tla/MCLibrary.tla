----------------------------- MODULE MCLibrary -----------------------------
(* DocumentsPage and Library on small instances.                            *)
EXTENDS DocumentsPage

CONSTANTS c1, c2, c3, f1, f2, n1, n2, d1, d2, d3, t1, t2

Nothing == [kind \in {} |-> 0]
Anywhere == [file |-> 0]

LibraryMixes ==
  {[updateFolder |-> 3],
   [createFolder |-> 2, updateFolder |-> 1],
   [removeFolder |-> 1, updateFolder |-> 1],
   [removeFolder |-> 1, createFolder |-> 1],
   [removeFolder |-> 2, file |-> 1],
   [bulkMove |-> 1, removeFolder |-> 1],
   [setTags |-> 2, removeTag |-> 1],
   [bulkTags |-> 1, removeTag |-> 1, createTag |-> 1],
   [bulkTags |-> 1, setTags |-> 1]}

Open(view, mix_, known, ops) == [mix |-> mix_, view |-> view, known |-> known, ops |-> ops]

MCPlans ==
  {Open("none", m, {d1}, Nothing) : m \in LibraryMixes}
  \cup
  {Open("documents", Anywhere, {d1, d2}, [filter |-> 1, more |-> 1, elsewhere |-> 1]),
   Open("documents", Nothing, {d1, d2}, [more |-> 2, bulk |-> 1, delete |-> 1]),
   Open("documents", Nothing, {d1}, [filter |-> 1, delete |-> 1, elsewhere |-> 1]),
   Open("documents", Nothing, {d1}, [filter |-> 1, reprocess |-> 1, delete |-> 1]),
   Open("documents", [bulkMove |-> 1], {d1}, [filter |-> 1, bulk |-> 1]),
   Open("documents", [removeFolder |-> 1], {d1}, [filter |-> 1, removeFolder |-> 1]),
   Open("documents", [createFolder |-> 1], {d1}, [filter |-> 1, createFolder |-> 1]),
   Open("documents", Nothing, {d1}, [reprocess |-> 1, bulk |-> 1, lose |-> 1]),
   Open("documents", [removeFolder |-> 1], {}, [upload |-> 1, filter |-> 1, removeFolder |-> 1]),
   Open("documents", Nothing, {}, [upload |-> 2]),
   Open("documents", Nothing, {d1}, [star |-> 2, filter |-> 1, delete |-> 1]),
   Open("trash", Nothing, {d1, d2}, [restore |-> 1, bulk |-> 1, lose |-> 1])}

MCMixes == {p.mix : p \in MCPlans}
MCNewest == <<d3, d1, d2>>

\* Calls name the folders they create.
Symmetric == Permutations(Calls) \cup Permutations(OldFolders) \cup Permutations(Names)
             \cup Permutations(Tags)

=============================================================================
