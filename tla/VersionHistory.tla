--------------------------- MODULE VersionHistory ---------------------------
(***************************************************************************)
(* What versioning promises, with no request, transaction, bucket or       *)
(* worker in it: the history of a document only grows, at its end; a new   *)
(* entry is either new bytes or an exact copy of an earlier entry; and the *)
(* document serves the newest entry from the instant it exists.            *)
(***************************************************************************)
EXTENDS Naturals, Sequences

CONSTANTS Contents, None

VARIABLES
  history,     \* the bytes of version 1, 2, ...
  served       \* the bytes a download of the document returns

HistoryInit ==
  /\ history = <<>>
  /\ served = None

Extend(bytes) ==
  /\ history' = Append(history, bytes)
  /\ served' = bytes

\* Contents names uploads, not byte strings: an upload is published once.
Publish ==
  \E bytes \in Contents :
     /\ \A n \in DOMAIN history : history[n] # bytes
     /\ Extend(bytes)

Revert == \E n \in DOMAIN history : Extend(history[n])

HistoryNext == Publish \/ Revert

HistorySpec == HistoryInit /\ [][HistoryNext]_<<history, served>>

=============================================================================
