------------------------ MODULE MCDocumentLifecycle ------------------------
(* DocumentLifecycle on small instances.                                    *)
EXTENDS DocumentLifecycle, TLC

CONSTANTS r1, r2, r3, r4, w1, w2

\* Requests are interchangeable, and so are worker slots, in a safety run.
Symmetric == Permutations(Requests) \cup Permutations(Workers)

=============================================================================
