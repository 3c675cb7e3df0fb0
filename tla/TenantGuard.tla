---------------------------- MODULE TenantGuard ----------------------------
(***************************************************************************)
(* How one company's rows are kept from another's: the scope each task     *)
(* carries (AsyncLocalStorage), and the Prisma extension that rewrites     *)
(* every query of the code by the scope it finds when the query is sent.   *)
(*                                                                         *)
(* A task is a request, a job of the worker or the boot.  Its query is a   *)
(* lazy promise: it is written in one step and sent in a later one, and    *)
(* what the guard does with it is decided when it is sent.                 *)
(*                                                                         *)
(* A row of the table of companies is its own company; the other rows name *)
(* one.  The tables with no company column hold pairs of rows: the guard   *)
(* passes their queries on, and the code reaches them through a row it has *)
(* been given.                                                             *)
(***************************************************************************)
EXTENDS Naturals

CONSTANTS
  Tasks,       \* the requests, jobs and boots
  Companies,   \* the tenants, which are the rows of their own table
  Ids,         \* the rows of the scoped tables
  Founded,     \* the companies there are at the start
  MaxNesting,  \* bound: how deep runAsSystem is nested
  Mixes,       \* bound: a behaviour performs the operations of one of these
  None

ASSUME NamesAssumption ==
  None \notin Companies /\ Companies \cap Ids = {} /\ Founded \subseteq Companies
ASSUME NestingAssumption == MaxNesting \in Nat

Operations == {"find", "findUnique", "update", "delete", "create", "upsert",
               "readLinks", "createLink", "deleteLinks", "search", "audit"}

ASSUME MixesAssumption == Mixes \subseteq SUBSET Operations

Rows == Companies \cup Ids

VARIABLES
  company,  \* the company of each row, None when it was never inserted
  content,  \* whether a row is there, and which of two contents it has
  links,    \* the rows of the tables with no company column
  home,     \* the company a task is bound to, None when it is to none
  depth,    \* how many runAsSystem a task is in
  query,    \* the query a task has written and not sent yet
  given,    \* the rows a task was given by queries sent in its company's scope
  mix       \* the operations of this behaviour, which no step changes

vars == <<company, content, links, home, depth, query, given, mix>>

-----------------------------------------------------------------------------
(* State.                                                                   *)

\* What a caller asks for: the rows its own filter selects, the company its
\* payload or its unique selector names, and the scope it was written in.
Query == [op : Operations, rows : SUBSET Rows, names : Companies \cup {None},
          depth : 0..MaxNesting]

NoQuery == [op |-> "none"]

TypeOK ==
  /\ company \in [Rows -> Companies \cup {None}]
  /\ content \in [Rows -> {"none", "first", "second"}]
  /\ \A r \in Rows : content[r] # "none" => company[r] # None
  /\ links \subseteq Rows \X Rows
  /\ home \in [Tasks -> Companies \cup {None}]
  /\ depth \in [Tasks -> 0..MaxNesting]
  /\ query \in [Tasks -> Query \cup {NoQuery}]
  /\ given \in [Tasks -> SUBSET Rows]
  /\ mix \in Mixes

Init ==
  /\ company = [r \in Rows |-> IF r \in Founded THEN r ELSE None]
  /\ content = [r \in Rows |-> IF r \in Founded THEN "first" ELSE "none"]
  /\ links = {}
  /\ home = [t \in Tasks |-> None]
  /\ depth = [t \in Tasks |-> 0]
  /\ query = [t \in Tasks |-> NoQuery]
  /\ given = [t \in Tasks |-> {}]
  /\ mix \in Mixes

-----------------------------------------------------------------------------
(* The scope of a task.                                                     *)

isBypassed(t) == depth[t] > 0

\* Under runAsSystem the store's company is the empty string.
getCompanyId(t) == IF isBypassed(t) THEN None ELSE home[t]

\* TenantMiddleware binds the company of the verified token, and the worker
\* the company of the job; an anonymous request and the boot bind nothing.
Bind(t, c) ==
  /\ home[t] = None /\ depth[t] = 0 /\ query[t] = NoQuery
  /\ home' = [home EXCEPT ![t] = c]
  /\ UNCHANGED <<company, content, links, depth, query, given>>

\* The request is answered or the job is done, and the task serves another.
Unbind(t) ==
  /\ home[t] # None /\ depth[t] = 0 /\ query[t] = NoQuery
  /\ home' = [home EXCEPT ![t] = None]
  /\ given' = [given EXCEPT ![t] = {}]
  /\ UNCHANGED <<company, content, links, depth, query>>

runAsSystem(t) ==
  /\ query[t] = NoQuery /\ depth[t] < MaxNesting
  /\ depth' = [depth EXCEPT ![t] = @ + 1]
  /\ UNCHANGED <<company, content, links, home, query, given>>

\* The callback is awaited inside the scope: the query it returned is sent
\* before the scope is left.
Awaited(t) == query[t] = NoQuery

Return(t) ==
  /\ isBypassed(t) /\ Awaited(t)
  /\ depth' = [depth EXCEPT ![t] = @ - 1]
  /\ UNCHANGED <<company, content, links, home, query, given>>

-----------------------------------------------------------------------------
(* Writing a query.                                                         *)

Written(t, op, W, c) ==
  /\ op \in mix /\ query[t] = NoQuery
  /\ query' = [query EXCEPT ![t] =
                 [op |-> op, rows |-> W, names |-> c, depth |-> depth[t]]]
  /\ UNCHANGED <<company, content, links, home, depth, given>>

There(r) == content[r] # "none"

\* A find, an update or a delete, by an id that came from anywhere or for
\* every row of the table.  A company is only looked up by a unique field.
Select(t, op, W) ==
  /\ \/ op \in {"find", "update", "delete"} /\ (W = Ids \/ \E r \in Ids : W = {r})
     \/ op = "findUnique" /\ \E r \in Rows : W = {r}
  /\ Written(t, op, W, None)

\* A row of the table of companies is only created by register, which runs
\* under runAsSystem; so does every caller that names the company itself.
Create(t, r, c) ==
  /\ company[r] = None
  /\ IF isBypassed(t)
       THEN IF r \in Companies THEN c = r ELSE c \in Companies /\ There(c)
       ELSE r \in Ids
  /\ Written(t, "create", {r}, c)

\* A unique selector: a compound one names the company, a bare id does not.
Upsert(t, r, c) == r \in Ids /\ ~isBypassed(t) /\ Written(t, "upsert", {r}, c)

\* The tables with no company column are reached by ids the task was given.
Reach(t, op, W) ==
  /\ op \in {"readLinks", "createLink", "deleteLinks"}
  /\ W \subseteq given[t] /\ getCompanyId(t) # None
  /\ \E r, s \in W : W = {r, s} /\ (op # "createLink" => r = s)
  /\ Written(t, op, W, None)

\* SearchService: the statement is raw, no hook sees it, and the company it
\* pins is the one the service read.
Search(t) ==
  /\ getCompanyId(t) # None   \* or it throws
  /\ Written(t, "search", Ids, getCompanyId(t))

\* AuditService.record: the company is read before the scope is entered that
\* hides it; the row is dropped when there is none.
Ambient(t) == getCompanyId(t)

Record(t, r) ==
  /\ "audit" \in mix /\ r \in Ids /\ company[r] = None
  /\ Ambient(t) # None
  /\ depth[t] < MaxNesting /\ query[t] = NoQuery
  /\ depth' = [depth EXCEPT ![t] = @ + 1]
  /\ query' = [query EXCEPT ![t] =
                 [op |-> "audit", rows |-> {r}, names |-> Ambient(t),
                  depth |-> depth[t] + 1]]
  /\ UNCHANGED <<company, content, links, home, given>>

-----------------------------------------------------------------------------
(* Sending it: applyTenantGuard.                                            *)

Sent(t) == query' = [query EXCEPT ![t] = NoQuery]

ByGuard(t) == query[t].op \notin {"readLinks", "createLink", "deleteLinks", "search"}

\* With no company bound, the hook throws and the query is never sent.
NoContext(t) == ByGuard(t) /\ ~isBypassed(t) /\ getCompanyId(t) = None

\* Mutant: an upsert's selector is believed.
Believed(t) == query[t].op = "upsert" /\ query[t].names = None

\* The upsert must name the company, and name this one.
Unpinned(t) == query[t].op = "upsert" /\ query[t].names # getCompanyId(t)

Throws(t) ==
  /\ query[t] # NoQuery
  /\ NoContext(t) \/ (~NoContext(t) /\ ~isBypassed(t) /\ Unpinned(t))
  /\ Sent(t)
  /\ UNCHANGED <<company, content, links, home, depth, given>>

\* The query reaches the database.
Passes(t, op) ==
  /\ query[t].op = op
  /\ ~NoContext(t) /\ (isBypassed(t) \/ ~Unpinned(t))
  /\ Sent(t) /\ UNCHANGED <<home, depth>>

\* Mutant: the filter is the caller's.
Unfiltered(t) == {r \in query[t].rows : There(r)}

\* where: { ...where, [scopeField]: companyId }, whose field the guard writes
\* last; a unique read is checked when it has been answered.
Selected(t) ==
  {r \in query[t].rows : There(r) /\ (isBypassed(t) \/ company[r] = getCompanyId(t))}

Answered(t, W) ==
  given' = [given EXCEPT ![t] =
              IF getCompanyId(t) = None THEN @ ELSE @ \cup W]

Read(t) ==
  /\ Passes(t, "find") \/ Passes(t, "findUnique")
  /\ Answered(t, Selected(t))
  /\ UNCHANGED <<company, content, links>>

Other(text) == IF text = "first" THEN "second" ELSE "first"

Update(t) ==
  /\ Passes(t, "update")
  /\ content' = [r \in Rows |-> IF r \in Selected(t) THEN Other(content[r]) ELSE content[r]]
  /\ UNCHANGED <<company, links, given>>

Delete(t) ==
  /\ Passes(t, "delete")
  /\ content' = [r \in Rows |-> IF r \in Selected(t) THEN "none" ELSE content[r]]
  /\ links' = {l \in links : l[1] \notin Selected(t) /\ l[2] \notin Selected(t)}
  /\ UNCHANGED <<company, given>>

\* data: { ...data, companyId }, which overwrites what the caller names.
Stamp(t) == IF isBypassed(t) THEN query[t].names ELSE getCompanyId(t)

\* A row is inserted once: two tasks never draw the same id.
Insert(t) ==
  \E r \in query[t].rows :
    /\ company[r] = None
    /\ company' = [company EXCEPT ![r] = Stamp(t)]
    /\ content' = [content EXCEPT ![r] = "first"]
    /\ Answered(t, {r})

CreateSent(t) ==
  /\ Passes(t, "create")
  /\ Insert(t)
  /\ UNCHANGED links

\* The selector names the company, so that it matches no row of another.
UpsertSent(t) ==
  /\ Passes(t, "upsert")
  /\ \/ Insert(t)
     \/ \E r \in query[t].rows :
          /\ There(r) /\ company[r] = query[t].names
          /\ content' = [content EXCEPT ![r] = Other(@)]
          /\ Answered(t, {r})
          /\ UNCHANGED company
  /\ UNCHANGED links

\* An id drawn by another task meanwhile, or a compound key no row has.
Misses(t) ==
  /\ query[t] # NoQuery
  /\ query[t].op \in {"create", "upsert", "audit"}
  /\ Passes(t, query[t].op)
  /\ \A r \in query[t].rows : company[r] # None
  /\ query[t].op = "upsert" =>
       \A r \in query[t].rows : ~There(r) \/ company[r] # query[t].names
  /\ UNCHANGED <<company, content, links, given>>

\* A delegate the guard passes on: nothing but the ids given to it.
ReadLinks(t) ==
  /\ Passes(t, "readLinks")
  /\ Answered(t, {s \in Rows : \E r \in query[t].rows : <<r, s>> \in links})
  /\ UNCHANGED <<company, content, links>>

CreateLink(t) ==
  /\ Passes(t, "createLink")
  /\ \E r, s \in query[t].rows :
       /\ query[t].rows = {r, s}
       /\ links' = IF There(r) /\ There(s) THEN links \cup {<<r, s>>} ELSE links
  /\ UNCHANGED <<company, content, given>>

DeleteLinks(t) ==
  /\ Passes(t, "deleteLinks")
  /\ links' = {l \in links : l[1] \notin query[t].rows}
  /\ UNCHANGED <<company, content, given>>

\* d.company_id = ${companyId}
Matching(t) == {r \in query[t].rows : There(r) /\ company[r] = query[t].names}

SearchSent(t) ==
  /\ Passes(t, "search")
  /\ Answered(t, Matching(t))
  /\ UNCHANGED <<company, content, links>>

AuditSent(t) ==
  /\ Passes(t, "audit")
  /\ Insert(t)
  /\ UNCHANGED links

-----------------------------------------------------------------------------
(* The specification.                                                       *)

Scoping(t) ==
  \/ \E c \in Companies : There(c) /\ Bind(t, c)
  \/ Unbind(t)
  \/ runAsSystem(t)
  \/ Return(t)

Writing(t) ==
  \/ \E op \in mix, W \in {Ids} \cup {{r, s} : r, s \in Rows} :
       Select(t, op, W) \/ Reach(t, op, W)
  \/ \E r \in Rows, c \in Companies \cup {None} : Create(t, r, c) \/ Upsert(t, r, c)
  \/ Search(t)
  \/ \E r \in Ids : Record(t, r)

Sending(t) ==
  \/ Throws(t) \/ Read(t) \/ Update(t) \/ Delete(t)
  \/ CreateSent(t) \/ UpsertSent(t) \/ Misses(t)
  \/ ReadLinks(t) \/ CreateLink(t) \/ DeleteLinks(t)
  \/ SearchSent(t) \/ AuditSent(t)

Next == (\E t \in Tasks : Scoping(t) \/ Writing(t) \/ Sending(t)) /\ UNCHANGED mix

Spec == Init /\ [][Next]_vars

-----------------------------------------------------------------------------
(* Properties.                                                              *)

\* A task bound to a company is only ever given rows of that company, also
\* through the tables the guard does not filter and the raw statement
\* (tenant-guard.ts:27-36, search.sql.ts:8-13).
OnlyOwnRowsGiven == \A t \in Tasks : \A r \in given[t] : company[r] = home[t]

\* No link joins rows of two companies, which is what makes the isolation of
\* the tables with no company column transitive (tenant-guard.ts:27-29).
LinksStayInside == \A l \in links : company[l[1]] = company[l[2]]

\* A query is sent in the scope it was written in, although it is lazy
\* (tenant-context.service.ts:43-48).
SentWhereWritten == \A t \in Tasks : query[t] # NoQuery => query[t].depth = depth[t]

Touched == {r \in Rows : company'[r] # company[r] \/ content'[r] # content[r]}

\* What a task bound to a company writes outside runAsSystem, and every audit
\* row it leaves, is its own company's; no row ever changes company; and a
\* task bound to none writes only under runAsSystem.
TouchesOnlyItsOwn ==
  [][ \A t \in Tasks :
        (query[t] # NoQuery /\ query'[t] = NoQuery /\ (depth[t] = 0 \/ query[t].op = "audit"))
          => \A r \in Touched : home[t] # None /\ company'[r] = home[t] ]_vars

=============================================================================
