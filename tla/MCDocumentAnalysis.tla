------------------------ MODULE MCDocumentAnalysis ------------------------
(* DocumentAnalysis on a small instance.                                    *)
EXTENDS DocumentAnalysis, TLC

CONSTANTS r1, r2, r3, w1, reasoner, plain

\* Three operations that are performed in one behaviour, beside any two, and the
\* faults there may then be.
ThirdRequest ==
  {[ops |-> {"upload", "remove", "restore"}, faults |-> 1],
   [ops |-> {"upload", "addVersion", "reprocess"}, faults |-> 0]}

\* Requests are begun in turn, which tells no two behaviours apart but by names.
InTurn ==
  /\ req'[r2].at # "idle" => req[r1].at # "idle"
  /\ req'[r3].at # "idle" =>
       /\ req[r2].at # "idle"
       /\ \E third \in ThirdRequest : /\ third.ops = {req'[r].op : r \in Requests}
                                      /\ faults' <= third.faults

MCSpec == AnalysisInit /\ [][AnalysisNext /\ InTurn]_analysisVars /\ AnalysisFairness

=============================================================================
