----------------------------- MODULE MCTenancy -----------------------------
(* TenantGuard, and the screens that keep what they were given, on small    *)
(* instances: a behaviour is one of tasks on the server, of a feed or of a  *)
(* document's page, while the other parts keep still.                       *)
EXTENDS TenantGuard, Feeds, DetailPage, TLC

VARIABLE part   \* what this behaviour is of

\* The guard tells neither tasks nor the rows of a table apart.
Symmetric == Permutations(Tasks) \cup Permutations(Ids)

\* Every operation beside those that make the rows it reaches, and the ones
\* that end them.
MCMixes == {{"create", "find", "update", "delete"},
            {"create", "findUnique", "search", "audit"},
            {"create", "upsert", "delete"},
            {"create", "readLinks", "createLink", "deleteLinks", "delete"}}

MCChores == {{"archive", "unarchive"}, {"reprocess", "star"}, {"version", "star"},
             {"tags", "archive"}}

\* No task is bound, and so no mix is begun.
NoTask == Init /\ mix = CHOOSE m \in Mixes : TRUE

NoFeed ==
  /\ screen = "none"
  /\ listing = <<>>
  /\ fits = <<>>
  /\ pending = {}
  /\ feed = [ask |-> Blank, turn |-> 0, shown |-> <<>>, cursor |-> Nil, load |-> "loading",
             resultsFor |-> Blank, message |-> FALSE, deciding |-> Nil, refetching |-> FALSE,
             loadingMore |-> FALSE, busy |-> FALSE]
  /\ sent = {}
  /\ live = FALSE
  /\ told = 0
  /\ missed = FALSE
  /\ spent = [requests |-> 0, changes |-> 0, refusals |-> 0]
  /\ crossed = FALSE

NoDetailPage ==
  /\ chore = {}
  /\ doc = [status |-> "READY", versions |-> 1, star |-> FALSE, tags |-> {}]
  /\ here = [load |-> "loading", detail |-> doc, turn |-> 0, busy |-> 0, starring |-> FALSE]
  /\ editor = ClosedEditor
  /\ asked = {}
  /\ streaming = FALSE
  /\ events = 0
  /\ used = [asks |-> 0, alterations |-> 0, refused |-> 0]
  /\ adrift = FALSE

PartInit ==
  \/ part = "tasks" /\ Init /\ NoFeed /\ NoDetailPage
  \/ part = "feed" /\ NoTask /\ FeedInit /\ NoDetailPage
  \/ part = "detail" /\ NoTask /\ NoFeed /\ DetailInit

PartNext ==
  /\ \/ part = "tasks" /\ Next /\ UNCHANGED <<feedVars, detailVars>>
     \/ part = "feed" /\ FeedNext /\ UNCHANGED <<vars, detailVars>>
     \/ part = "detail" /\ DetailNext /\ UNCHANGED <<vars, feedVars>>
  /\ UNCHANGED part

PartSpec == PartInit /\ [][PartNext]_<<part, vars, feedVars, detailVars>>

=============================================================================
