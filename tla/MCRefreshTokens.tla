-------------------------- MODULE MCRefreshTokens --------------------------
(* RefreshTokens on small instances.                                        *)
EXTENDS RefreshTokens, TLC

CONSTANTS c1, c2, c3, c4

\* Calls are interchangeable in a safety run.
Symmetric == Permutations(Calls)

=============================================================================
