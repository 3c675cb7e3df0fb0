----------------------------- MODULE MCLivePage -----------------------------
(* LivePage on small instances.                                             *)
EXTENDS LivePage, TLC

CONSTANTS c1, c2, c3, s1, s2, s3, me, pat, k1, ask

MCMixes ==
  {[decide |-> 2, cancel |-> 1],
   [request |-> 2],
   [request |-> 1, decide |-> 1, cancel |-> 1],
   [create |-> 1, update |-> 1, remove |-> 1],
   [remove |-> 2, update |-> 1],
   [request |-> 1, star |-> 1, create |-> 1],
   [unstar |-> 1],
   [streams |-> 2, visitors |-> 3],
   [streams |-> 2, create |-> 1],
   [streams |-> 1, create |-> 2],
   [streams |-> 1, create |-> 1, remove |-> 1],
   [streams |-> 1, create |-> 1, readAll |-> 1],
   [streams |-> 1, create |-> 1, panel |-> 1],
   [streams |-> 1, create |-> 1, readOne |-> 1]}

Symmetric == Permutations(Calls) \cup Permutations(Streams)

=============================================================================
