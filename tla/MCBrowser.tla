------------------------------ MODULE MCBrowser ------------------------------
(* Browser on a small instance.                                             *)
EXTENDS Browser, TLC

CONSTANTS c1, c2, c3, b1, b2

\* The first tab reads behind the session; the second goes through the forms.
VisitedPages ==
  [b \in Tabs |-> IF b = b1 THEN {"app"} ELSE {"register", "forgot", "reset", "invite"}]

=============================================================================
