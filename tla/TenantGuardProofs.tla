------------------------- MODULE TenantGuardProofs -------------------------
(***************************************************************************)
(* Theorems about TenantGuard, for any tasks, companies and rows, any      *)
(* nesting of runAsSystem and any mixture of operations.                   *)
(***************************************************************************)
EXTENDS TenantGuard, TLAPS

-----------------------------------------------------------------------------
(* The inductive invariant.                                                 *)

\* A task bound to no company was given nothing.
GivenUnderHome == \A t \in Tasks : home[t] = None => given[t] = {}

\* A link joins rows that were inserted.
LinksOfRows == \A l \in links : company[l[1]] # None /\ company[l[2]] # None

\* What the guard does not look at was right when it was written: the ids of
\* an unfiltered table, the company a raw statement pins and the one an audit
\* row names.
QueriesPinned ==
  \A t \in Tasks :
    /\ query[t].op \in {"readLinks", "createLink", "deleteLinks"} =>
         query[t].rows \subseteq given[t] /\ home[t] # None
    /\ query[t].op = "search" => query[t].names = home[t] /\ home[t] # None
    /\ query[t].op = "audit" => query[t].names = home[t] /\ home[t] # None
    /\ query[t].op \in {"create", "audit"} /\ depth[t] > 0 => query[t].names # None
    /\ query[t].op = "audit" => depth[t] > 0
    /\ query[t].op = "upsert" => depth[t] = 0

IInv ==
  /\ TypeOK
  /\ OnlyOwnRowsGiven /\ LinksStayInside /\ SentWhereWritten
  /\ GivenUnderHome /\ LinksOfRows /\ QueriesPinned

-----------------------------------------------------------------------------
(* The scope of a task.                                                     *)

LEMMA InitInvariant == Init => IInv
BY NamesAssumption, NestingAssumption
DEF Init, IInv, TypeOK, OnlyOwnRowsGiven, LinksStayInside, SentWhereWritten,
    GivenUnderHome, LinksOfRows, QueriesPinned, NoQuery, Rows

LEMMA BindInvariant ==
  ASSUME IInv, NEW t \in Tasks, NEW c \in Companies, Bind(t, c), UNCHANGED mix
  PROVE  IInv'
BY NamesAssumption
DEF Bind, IInv, TypeOK, OnlyOwnRowsGiven, LinksStayInside, SentWhereWritten,
    GivenUnderHome, LinksOfRows, QueriesPinned, NoQuery, Rows

LEMMA UnbindInvariant ==
  ASSUME IInv, NEW t \in Tasks, Unbind(t), UNCHANGED mix
  PROVE  IInv'
BY NamesAssumption
DEF Unbind, IInv, TypeOK, OnlyOwnRowsGiven, LinksStayInside, SentWhereWritten,
    GivenUnderHome, LinksOfRows, QueriesPinned, NoQuery, Rows

LEMMA RunAsSystemInvariant ==
  ASSUME IInv, NEW t \in Tasks, runAsSystem(t), UNCHANGED mix
  PROVE  IInv'
BY NestingAssumption
DEF runAsSystem, IInv, TypeOK, OnlyOwnRowsGiven, LinksStayInside, SentWhereWritten,
    GivenUnderHome, LinksOfRows, QueriesPinned, NoQuery

LEMMA ReturnInvariant ==
  ASSUME IInv, NEW t \in Tasks, Return(t), UNCHANGED mix
  PROVE  IInv'
BY NestingAssumption
DEF Return, isBypassed, Awaited, IInv, TypeOK, OnlyOwnRowsGiven, LinksStayInside,
    SentWhereWritten, GivenUnderHome, LinksOfRows, QueriesPinned, NoQuery

-----------------------------------------------------------------------------
(* Writing a query.                                                         *)

\* A query that says what the guard will not check keeps the invariant.
LEMMA WrittenInvariant ==
  ASSUME IInv, NEW t \in Tasks, NEW op \in Operations, NEW W \in SUBSET Rows,
         NEW c \in Companies \cup {None}, Written(t, op, W, c), UNCHANGED mix,
         op \in {"readLinks", "createLink", "deleteLinks"} =>
           W \subseteq given[t] /\ home[t] # None,
         op = "search" => c = home[t] /\ home[t] # None,
         op = "create" /\ depth[t] > 0 => c # None,
         op # "audit", op = "upsert" => depth[t] = 0
  PROVE  IInv'
<1> DEFINE q == [op |-> op, rows |-> W, names |-> c, depth |-> depth[t]]
<1>1. q \in Query /\ q.op = op /\ q.rows = W /\ q.names = c /\ q.depth = depth[t]
  BY DEF Query, IInv, TypeOK
<1>2. /\ query' = [query EXCEPT ![t] = q]
      /\ UNCHANGED <<company, content, links, home, depth, given, mix>>
  BY DEF Written
<1> HIDE DEF q
<1>3. query'[t] = q /\ \A u \in Tasks : u # t => query'[u] = query[u]
  BY <1>2 DEF IInv, TypeOK
<1>4. TypeOK'
  BY <1>1, <1>2 DEF IInv, TypeOK
<1>5. SentWhereWritten'
  BY <1>1, <1>2, <1>3 DEF IInv, SentWhereWritten
<1>6. QueriesPinned'
  BY <1>1, <1>2, <1>3 DEF IInv, QueriesPinned
<1>7. QED
  BY <1>2, <1>4, <1>5, <1>6
  DEF IInv, OnlyOwnRowsGiven, LinksStayInside, GivenUnderHome, LinksOfRows

LEMMA WritingInvariant ==
  ASSUME IInv, NEW t \in Tasks, Writing(t), UNCHANGED mix
  PROVE  IInv'
<1>1. ASSUME NEW op \in Operations, NEW W \in SUBSET Rows, Select(t, op, W)
      PROVE  IInv'
  BY <1>1, WrittenInvariant DEF Select
<1>2. ASSUME NEW op \in Operations, NEW W \in SUBSET Rows, Reach(t, op, W)
      PROVE  IInv'
  BY <1>2, WrittenInvariant DEF Reach, getCompanyId
<1>3. ASSUME NEW r \in Rows, NEW c \in Companies \cup {None}, Create(t, r, c)
      PROVE  IInv'
  <2>1. depth[t] > 0 => c # None
    BY <1>3, NamesAssumption DEF Create, isBypassed
  <2>2. {r} \in SUBSET Rows /\ "create" \in Operations
    BY DEF Operations
  <2>3. Written(t, "create", {r}, c)
    BY <1>3 DEF Create
  <2>4. QED BY <2>1, <2>2, <2>3, WrittenInvariant
<1>4. ASSUME NEW r \in Rows, NEW c \in Companies \cup {None}, Upsert(t, r, c)
      PROVE  IInv'
  <2>1. depth[t] = 0
    BY <1>4 DEF Upsert, isBypassed, IInv, TypeOK
  <2>2. {r} \in SUBSET Rows /\ "upsert" \in Operations
    BY DEF Operations
  <2>3. Written(t, "upsert", {r}, c)
    BY <1>4 DEF Upsert
  <2>4. QED BY <2>1, <2>2, <2>3, WrittenInvariant
<1>5. ASSUME Search(t) PROVE IInv'
  <2>1. home[t] \in Companies /\ home[t] # None /\ getCompanyId(t) = home[t]
    BY <1>5 DEF Search, getCompanyId, IInv, TypeOK
  <2>2. Ids \in SUBSET Rows /\ "search" \in Operations
    BY DEF Operations, Rows
  <2>3. Written(t, "search", Ids, home[t])
    BY <1>5, <2>1 DEF Search
  <2>4. QED BY <2>1, <2>2, <2>3, WrittenInvariant
<1>6. ASSUME NEW r \in Ids, Record(t, r) PROVE IInv'
  <2> DEFINE q == [op |-> "audit", rows |-> {r}, names |-> home[t],
                   depth |-> depth[t] + 1]
  <2>1. home[t] \in Companies /\ home[t] # None /\ Ambient(t) = home[t]
    BY <1>6 DEF Record, Ambient, getCompanyId, IInv, TypeOK
  <2>2. depth[t] + 1 \in 0..MaxNesting /\ depth[t] + 1 > 0
    BY <1>6, NestingAssumption DEF Record, IInv, TypeOK
  <2>3. /\ q \in Query /\ q.op = "audit" /\ q.rows = {r} /\ q.names = home[t]
        /\ q.depth = depth[t] + 1
    BY <2>1, <2>2 DEF Query, Rows, Operations
  <2>4. /\ query' = [query EXCEPT ![t] = q]
        /\ depth' = [depth EXCEPT ![t] = depth[t] + 1]
        /\ UNCHANGED <<company, content, links, home, given, mix>>
    BY <1>6, <2>1 DEF Record
  <2> HIDE DEF q
  <2>5. /\ query'[t] = q /\ depth'[t] = depth[t] + 1
        /\ \A u \in Tasks : u # t => query'[u] = query[u] /\ depth'[u] = depth[u]
    BY <2>4 DEF IInv, TypeOK
  <2>6. TypeOK'
    BY <2>2, <2>3, <2>4 DEF IInv, TypeOK
  <2>7. SentWhereWritten'
    BY <2>3, <2>4, <2>5 DEF IInv, SentWhereWritten
  <2>8. QueriesPinned'
    BY <2>1, <2>2, <2>3, <2>4, <2>5 DEF IInv, QueriesPinned
  <2>9. QED
    BY <2>4, <2>6, <2>7, <2>8
    DEF IInv, OnlyOwnRowsGiven, LinksStayInside, GivenUnderHome, LinksOfRows
<1>7. /\ mix \subseteq Operations
      /\ {Ids} \cup {{r, s} : r, s \in Rows} \subseteq SUBSET Rows
  BY MixesAssumption DEF IInv, TypeOK, Rows
<1>8. QED BY <1>1, <1>2, <1>3, <1>4, <1>5, <1>6, <1>7 DEF Writing

-----------------------------------------------------------------------------
(* Sending it.                                                              *)

\* A query that was sent is gone, and nobody's scope has changed.
LEMMA SentQueries ==
  ASSUME IInv, NEW t \in Tasks, Sent(t), UNCHANGED <<home, depth>>,
         \A u \in Tasks : given[u] \subseteq given'[u]
  PROVE  /\ query'[t] = NoQuery /\ \A u \in Tasks : u # t => query'[u] = query[u]
         /\ query' \in [Tasks -> Query \cup {NoQuery}]
         /\ SentWhereWritten'
         /\ QueriesPinned'
<1>1. /\ query'[t] = NoQuery /\ \A u \in Tasks : u # t => query'[u] = query[u]
      /\ query' \in [Tasks -> Query \cup {NoQuery}]
  BY DEF IInv, TypeOK, Sent
<1>2. SentWhereWritten'
  BY <1>1 DEF IInv, SentWhereWritten
<1>3. NoQuery.op = "none"
  BY DEF NoQuery
<1>4. QueriesPinned'
  BY <1>1, <1>3 DEF IInv, QueriesPinned
<1>5. QED BY <1>1, <1>2, <1>4

\* What is given to a task is given in its company's scope.
LEMMA AnsweredInvariant ==
  ASSUME IInv, NEW t \in Tasks, NEW W \in SUBSET Rows, Answered(t, W),
         UNCHANGED <<home, depth>>,
         \A r \in Rows : company[r] # None => company'[r] = company[r],
         getCompanyId(t) # None => \A r \in W : company'[r] = getCompanyId(t)
  PROVE  /\ given' \in [Tasks -> SUBSET Rows]
         /\ \A u \in Tasks : given[u] \subseteq given'[u]
         /\ OnlyOwnRowsGiven'
         /\ GivenUnderHome'
<1>1. \A u \in Tasks : /\ u # t => given'[u] = given[u]
                       /\ getCompanyId(t) = None => given'[u] = given[u]
                       /\ getCompanyId(t) # None => given'[t] = given[t] \cup W
  BY DEF Answered, IInv, TypeOK
<1>2. given' \in [Tasks -> SUBSET Rows]
  BY DEF Answered, IInv, TypeOK
<1>3. getCompanyId(t) # None => home[t] = getCompanyId(t)
  BY DEF getCompanyId
<1>4. \A u \in Tasks : \A r \in given[u] : r \in Rows /\ company[r] = home[u] /\ home[u] # None
  BY DEF IInv, TypeOK, OnlyOwnRowsGiven, GivenUnderHome
<1>5. OnlyOwnRowsGiven'
  BY <1>1, <1>3, <1>4 DEF OnlyOwnRowsGiven
<1>6. GivenUnderHome'
  BY <1>1, <1>3 DEF GivenUnderHome, IInv
<1>7. QED BY <1>1, <1>2, <1>5, <1>6

\* The company a query that passes is stamped with or filtered by.
LEMMA PassingScope ==
  ASSUME IInv, NEW t \in Tasks, NEW op \in Operations, Passes(t, op)
  PROVE  /\ query[t] \in Query /\ query[t].op = op /\ query[t].rows \subseteq Rows
         /\ depth[t] = 0 \/ depth[t] > 0
         /\ isBypassed(t) <=> depth[t] > 0
         /\ depth[t] = 0 => getCompanyId(t) = home[t] /\ home[t] \in Companies
         /\ depth[t] > 0 => getCompanyId(t) = None
         /\ op = "upsert" => depth[t] = 0 /\ query[t].names = home[t]
<1>1. query[t].op = op
  BY DEF Passes
<1>2. query[t] \in Query /\ query[t].rows \subseteq Rows
  BY <1>1 DEF IInv, TypeOK, Query, NoQuery, Operations
<1>3. /\ depth[t] = 0 \/ depth[t] > 0
      /\ isBypassed(t) <=> depth[t] > 0
      /\ home[t] \in Companies \cup {None}
  BY DEF isBypassed, IInv, TypeOK
<1>4. /\ depth[t] = 0 => getCompanyId(t) = home[t]
      /\ depth[t] > 0 => getCompanyId(t) = None
  BY <1>3 DEF getCompanyId
<1>5. ASSUME depth[t] = 0 PROVE home[t] # None
  <2>1. CASE ByGuard(t)
    BY <1>3, <1>4, <1>5, <2>1 DEF Passes, NoContext
  <2>2. CASE ~ByGuard(t)
    BY <2>2 DEF ByGuard, IInv, QueriesPinned
  <2>3. QED BY <2>1, <2>2
<1>6. op = "upsert" => depth[t] = 0
  BY <1>1 DEF IInv, QueriesPinned
<1>7. op = "upsert" => query[t].names = home[t]
  BY <1>1, <1>3, <1>4, <1>6 DEF Passes, Unpinned
<1>8. QED BY <1>1, <1>2, <1>3, <1>4, <1>5, <1>6, <1>7

\* What passes the filter of a task in its company's scope is its company's.
LEMMA SelectedScope ==
  ASSUME IInv, NEW t \in Tasks, NEW op \in Operations, Passes(t, op)
  PROVE  /\ Selected(t) \subseteq Rows
         /\ depth[t] = 0 => \A r \in Selected(t) : company[r] = home[t]
         /\ \A r \in Selected(t) : content[r] # "none" /\ company[r] # None
<1>1. Selected(t) \subseteq Rows
  BY PassingScope DEF Selected
<1>2. depth[t] = 0 => \A r \in Selected(t) : company[r] = home[t]
  BY PassingScope DEF Selected
<1>3. \A r \in Selected(t) : content[r] # "none" /\ company[r] # None
  BY <1>1 DEF Selected, There, IInv, TypeOK
<1>4. QED BY <1>1, <1>2, <1>3

LEMMA ThrowsInvariant ==
  ASSUME IInv, NEW t \in Tasks, Throws(t), UNCHANGED mix
  PROVE  IInv'
<1>1. Sent(t) /\ UNCHANGED <<company, content, links, home, depth, given, mix>>
  BY DEF Throws
<1>2. SentWhereWritten' /\ QueriesPinned' /\ query' \in [Tasks -> Query \cup {NoQuery}]
  BY <1>1, SentQueries
<1>3. QED
  BY <1>1, <1>2
  DEF IInv, TypeOK, OnlyOwnRowsGiven, LinksStayInside, GivenUnderHome, LinksOfRows

\* A query that answers with rows of the company and writes nothing.
LEMMA AnsweringInvariant ==
  ASSUME IInv, NEW t \in Tasks, NEW op \in Operations, Passes(t, op),
         NEW W \in SUBSET Rows, Answered(t, W), UNCHANGED <<company, content, links, mix>>,
         depth[t] = 0 => \A r \in W : company[r] = home[t]
  PROVE  IInv'
<1>1. Sent(t) /\ UNCHANGED <<home, depth>>
  BY DEF Passes
<1>2. getCompanyId(t) # None => \A r \in W : company'[r] = getCompanyId(t)
  BY PassingScope
<1>3. /\ given' \in [Tasks -> SUBSET Rows]
      /\ \A u \in Tasks : given[u] \subseteq given'[u]
      /\ OnlyOwnRowsGiven' /\ GivenUnderHome'
  BY <1>1, <1>2, AnsweredInvariant
<1>4. SentWhereWritten' /\ QueriesPinned' /\ query' \in [Tasks -> Query \cup {NoQuery}]
  BY <1>1, <1>3, SentQueries
<1>5. QED
  BY <1>1, <1>3, <1>4 DEF IInv, TypeOK, LinksStayInside, LinksOfRows

\* A query that gives nothing and changes no company.
LEMMA WritingRowsInvariant ==
  ASSUME IInv, NEW t \in Tasks, NEW op \in Operations, Passes(t, op),
         UNCHANGED <<company, given, mix>>,
         content' \in [Rows -> {"none", "first", "second"}],
         \A r \in Rows : content[r] = "none" => content'[r] = "none",
         \A l \in links' : \/ l \in links
                           \/ /\ l \in Rows \X Rows
                              /\ company[l[1]] = company[l[2]]
                              /\ company[l[1]] # None
  PROVE  IInv'
<1>1. Sent(t) /\ UNCHANGED <<home, depth>>
  BY DEF Passes
<1>2. SentWhereWritten' /\ QueriesPinned' /\ query' \in [Tasks -> Query \cup {NoQuery}]
  BY <1>1, SentQueries
<1>3. TypeOK'
  BY <1>1, <1>2 DEF IInv, TypeOK
<1>4. LinksStayInside' /\ LinksOfRows'
  BY DEF IInv, LinksStayInside, LinksOfRows
<1>5. QED
  BY <1>1, <1>2, <1>3, <1>4 DEF IInv, OnlyOwnRowsGiven, GivenUnderHome

LEMMA InsertInvariant ==
  ASSUME IInv, NEW t \in Tasks, NEW op \in {"create", "upsert", "audit"},
         Passes(t, op), Insert(t), UNCHANGED <<links, mix>>
  PROVE  IInv'
<1>1. PICK r \in query[t].rows :
        /\ company[r] = None
        /\ company' = [company EXCEPT ![r] = Stamp(t)]
        /\ content' = [content EXCEPT ![r] = "first"]
        /\ Answered(t, {r})
  BY DEF Insert
<1>2. op \in Operations
  BY DEF Operations
<1>3. r \in Rows /\ query[t].names \in Companies \cup {None}
  BY <1>2, PassingScope DEF Query
<1>4. Stamp(t) \in Companies
  <2>1. CASE depth[t] = 0
    BY <2>1, <1>2, PassingScope DEF Stamp
  <2>2. CASE depth[t] > 0
    <3>1. op \in {"create", "audit"} /\ query[t].op = op
      BY <2>2, <1>2, PassingScope
    <3>2. query[t].names # None
      BY <2>2, <3>1 DEF IInv, QueriesPinned
    <3>3. QED BY <2>2, <3>2, <1>2, <1>3, PassingScope DEF Stamp
  <2>3. QED BY <2>1, <2>2, <1>2, PassingScope
<1>5. /\ company' \in [Rows -> Companies \cup {None}] /\ company'[r] = Stamp(t)
      /\ content' \in [Rows -> {"none", "first", "second"}]
      /\ \A s \in Rows : s # r => company'[s] = company[s] /\ content'[s] = content[s]
  BY <1>1, <1>3, <1>4 DEF IInv, TypeOK
<1>6. \A s \in Rows : company[s] # None => company'[s] = company[s] /\ company'[s] # None
  BY <1>1, <1>5
<1>7. getCompanyId(t) # None => company'[r] = getCompanyId(t)
  BY <1>2, <1>5, PassingScope DEF Stamp
<1>8. Sent(t) /\ UNCHANGED <<home, depth>>
  BY DEF Passes
<1>9. /\ given' \in [Tasks -> SUBSET Rows]
      /\ \A u \in Tasks : given[u] \subseteq given'[u]
      /\ OnlyOwnRowsGiven' /\ GivenUnderHome'
  <2>1. {r} \in SUBSET Rows
    BY <1>3
  <2>2. QED BY <2>1, <1>1, <1>6, <1>7, <1>8, AnsweredInvariant
<1>10. SentWhereWritten' /\ QueriesPinned' /\ query' \in [Tasks -> Query \cup {NoQuery}]
  BY <1>8, <1>9, SentQueries
<1>11. \A s \in Rows : content'[s] # "none" => company'[s] # None
  BY <1>4, <1>5, NamesAssumption DEF IInv, TypeOK
<1>12. TypeOK'
  BY <1>5, <1>8, <1>9, <1>10, <1>11 DEF IInv, TypeOK
<1>13. \A l \in links : /\ l[1] \in Rows /\ l[2] \in Rows
                        /\ company[l[1]] = company[l[2]]
                        /\ company[l[1]] # None /\ company[l[2]] # None
  BY DEF IInv, TypeOK, LinksStayInside, LinksOfRows
<1>14. LinksStayInside' /\ LinksOfRows'
  BY <1>6, <1>13 DEF LinksStayInside, LinksOfRows
<1>15. QED BY <1>9, <1>10, <1>12, <1>14 DEF IInv

LEMMA SendingInvariant ==
  ASSUME IInv, NEW t \in Tasks, Sending(t), UNCHANGED mix
  PROVE  IInv'
<1> USE DEF Operations
<1>1. CASE Throws(t)
  BY <1>1, ThrowsInvariant
<1>2. CASE Read(t)
  <2>1. PICK op \in {"find", "findUnique"} : Passes(t, op)
    BY <1>2 DEF Read
  <2>2. /\ Selected(t) \in SUBSET Rows
        /\ depth[t] = 0 => \A r \in Selected(t) : company[r] = home[t]
    BY <2>1, SelectedScope
  <2>3. QED BY <1>2, <2>1, <2>2, AnsweringInvariant DEF Read
<1>3. CASE Update(t)
  <2>1. /\ content' \in [Rows -> {"none", "first", "second"}]
        /\ \A r \in Rows : content[r] = "none" => content'[r] = "none"
    BY <1>3, SelectedScope DEF Update, Other, IInv, TypeOK
  <2>2. QED BY <1>3, <2>1, WritingRowsInvariant DEF Update
<1>4. CASE Delete(t)
  <2>1. /\ content' \in [Rows -> {"none", "first", "second"}]
        /\ \A r \in Rows : content[r] = "none" => content'[r] = "none"
        /\ links' \subseteq links
    BY <1>4 DEF Delete, IInv, TypeOK
  <2>2. QED BY <1>4, <2>1, WritingRowsInvariant DEF Delete
<1>5. CASE CreateSent(t)
  BY <1>5, InsertInvariant DEF CreateSent
<1>6. CASE UpsertSent(t)
  <2>1. Passes(t, "upsert") /\ UNCHANGED <<links, mix>>
    BY <1>6 DEF UpsertSent
  <2>2. CASE Insert(t)
    BY <2>1, <2>2, InsertInvariant
  <2>3. ASSUME NEW r \in query[t].rows, There(r), company[r] = query[t].names,
               content' = [content EXCEPT ![r] = Other(@)], Answered(t, {r}),
               UNCHANGED company
        PROVE  IInv'
    <3>1. /\ r \in Rows /\ depth[t] = 0 /\ company[r] = home[t]
          /\ getCompanyId(t) = home[t]
      BY <2>1, <2>3, PassingScope
    <3>2. /\ content' \in [Rows -> {"none", "first", "second"}]
          /\ \A s \in Rows : content[s] = "none" => content'[s] = "none"
      BY <2>3, <3>1 DEF There, Other, IInv, TypeOK
    <3>3. Sent(t) /\ UNCHANGED <<home, depth>>
      BY <2>1 DEF Passes
    <3>4. /\ given' \in [Tasks -> SUBSET Rows]
          /\ \A u \in Tasks : given[u] \subseteq given'[u]
          /\ OnlyOwnRowsGiven' /\ GivenUnderHome'
      <4>1. {r} \in SUBSET Rows
        BY <3>1
      <4>2. QED BY <4>1, <2>3, <3>1, <3>3, AnsweredInvariant
    <3>5. /\ SentWhereWritten' /\ QueriesPinned'
          /\ query' \in [Tasks -> Query \cup {NoQuery}]
      BY <3>3, <3>4, SentQueries
    <3>6. TypeOK'
      BY <2>1, <2>3, <3>2, <3>3, <3>4, <3>5 DEF IInv, TypeOK
    <3>7. QED
      BY <2>1, <2>3, <3>4, <3>5, <3>6 DEF IInv, LinksStayInside, LinksOfRows
  <2>4. QED BY <1>6, <2>2, <2>3 DEF UpsertSent
<1>7. CASE Misses(t)
  <2>1. PICK op \in {"create", "upsert", "audit"} : Passes(t, op)
    BY <1>7 DEF Misses
  <2>2. content \in [Rows -> {"none", "first", "second"}]
    BY DEF IInv, TypeOK
  <2>3. QED BY <1>7, <2>1, <2>2, WritingRowsInvariant DEF Misses
<1>8. CASE ReadLinks(t)
  <2> DEFINE W == {s \in Rows : \E r \in query[t].rows : <<r, s>> \in links}
  <2>1. Passes(t, "readLinks") /\ Answered(t, W) /\ UNCHANGED <<company, content, links>>
    BY <1>8 DEF ReadLinks
  <2>2. query[t].rows \subseteq given[t]
    BY <2>1, PassingScope DEF IInv, QueriesPinned
  <2>3. ASSUME NEW s \in W PROVE company[s] = home[t]
    <3>1. PICK r \in query[t].rows : <<r, s>> \in links
      OBVIOUS
    <3>2. company[r] = home[t]
      BY <2>2 DEF IInv, OnlyOwnRowsGiven
    <3>3. QED BY <3>1, <3>2 DEF IInv, LinksStayInside
  <2> HIDE DEF W
  <2>4. W \in SUBSET Rows
    BY DEF W
  <2>5. QED BY <2>1, <2>3, <2>4, AnsweringInvariant
<1>9. CASE CreateLink(t)
  <2>1. Passes(t, "createLink") /\ UNCHANGED <<company, content, given>>
    BY <1>9 DEF CreateLink
  <2>2. query[t].rows \subseteq given[t] /\ home[t] # None
    BY <2>1, PassingScope DEF IInv, QueriesPinned
  <2>3. PICK r, s \in query[t].rows : links' \subseteq links \cup {<<r, s>>}
    BY <1>9 DEF CreateLink
  <2>4. /\ r \in Rows /\ s \in Rows
        /\ company[r] = home[t] /\ company[s] = home[t]
    BY <2>2 DEF IInv, TypeOK, OnlyOwnRowsGiven
  <2>5. content \in [Rows -> {"none", "first", "second"}]
    BY DEF IInv, TypeOK
  <2>6. QED BY <2>1, <2>2, <2>3, <2>4, <2>5, WritingRowsInvariant
<1>10. CASE DeleteLinks(t)
  <2>1. content \in [Rows -> {"none", "first", "second"}] /\ links' \subseteq links
    BY <1>10 DEF DeleteLinks, IInv, TypeOK
  <2>2. QED BY <1>10, <2>1, WritingRowsInvariant DEF DeleteLinks
<1>11. CASE SearchSent(t)
  <2>1. Passes(t, "search") /\ Answered(t, Matching(t)) /\ UNCHANGED <<company, content, links>>
    BY <1>11 DEF SearchSent
  <2>2. query[t].names = home[t] /\ query[t].rows \subseteq Rows
    BY <2>1, PassingScope DEF IInv, QueriesPinned
  <2>3. Matching(t) \in SUBSET Rows /\ \A r \in Matching(t) : company[r] = home[t]
    BY <2>2 DEF Matching
  <2>4. QED BY <2>1, <2>3, AnsweringInvariant
<1>12. CASE AuditSent(t)
  BY <1>12, InsertInvariant DEF AuditSent
<1>13. QED
  BY <1>1, <1>2, <1>3, <1>4, <1>5, <1>6, <1>7, <1>8, <1>9, <1>10, <1>11, <1>12
  DEF Sending

-----------------------------------------------------------------------------
(* The theorems.                                                            *)

LEMMA NextInvariant == IInv /\ [Next]_vars => IInv'
<1> SUFFICES ASSUME IInv, [Next]_vars PROVE IInv'
  OBVIOUS
<1>1. ASSUME NEW t \in Tasks, Scoping(t), UNCHANGED mix PROVE IInv'
  BY <1>1, BindInvariant, UnbindInvariant, RunAsSystemInvariant, ReturnInvariant
  DEF Scoping
<1>2. CASE UNCHANGED vars
  BY <1>2
  DEF vars, IInv, TypeOK, OnlyOwnRowsGiven, LinksStayInside, SentWhereWritten,
      GivenUnderHome, LinksOfRows, QueriesPinned
<1>3. QED BY <1>1, <1>2, WritingInvariant, SendingInvariant DEF Next

LEMMA IInvariant == Spec => []IInv
BY InitInvariant, NextInvariant, PTL DEF Spec

\* Every row that is there has a company, and the state has its type.
THEOREM TypeCorrect == Spec => []TypeOK
<1>1. IInv => TypeOK
  BY DEF IInv
<1>2. QED BY <1>1, IInvariant, PTL

\* No task is ever given a row of another company than the one it is bound to,
\* by a filtered delegate, an unfiltered one or a raw statement.
THEOREM TasksSeeOneCompany == Spec => []OnlyOwnRowsGiven
<1>1. IInv => OnlyOwnRowsGiven
  BY DEF IInv
<1>2. QED BY <1>1, IInvariant, PTL

\* The tables without a company column join rows of one company only.
THEOREM LinksAreIsolated == Spec => []LinksStayInside
<1>1. IInv => LinksStayInside
  BY DEF IInv
<1>2. QED BY <1>1, IInvariant, PTL

\* A lazy query is sent in the scope its code wrote it in, because runAsSystem
\* and runAs await their callback inside.
THEOREM LazyQueriesKeepTheirScope == Spec => []SentWhereWritten
<1>1. IInv => SentWhereWritten
  BY DEF IInv
<1>2. QED BY <1>1, IInvariant, PTL

LEMMA InsertTouches ==
  ASSUME IInv, NEW t \in Tasks, NEW op \in {"create", "upsert", "audit"},
         Passes(t, op), Insert(t), depth[t] = 0 \/ query[t].op = "audit"
  PROVE  \A r \in Touched : home[t] # None /\ company'[r] = home[t]
<1>1. PICK r \in query[t].rows :
        /\ company' = [company EXCEPT ![r] = Stamp(t)]
        /\ content' = [content EXCEPT ![r] = "first"]
  BY DEF Insert
<1>2. op \in Operations
  BY DEF Operations
<1>3. r \in Rows /\ query[t].op = op
  BY <1>2, PassingScope
<1>4. Stamp(t) = home[t] /\ home[t] # None
  <2>1. CASE depth[t] = 0
    BY <2>1, <1>2, PassingScope, NamesAssumption DEF Stamp
  <2>2. CASE query[t].op = "audit"
    BY <2>2, <1>2, PassingScope DEF Stamp, IInv, QueriesPinned
  <2>3. QED BY <2>1, <2>2
<1>5. \A s \in Touched : s = r
  BY <1>1, <1>3 DEF Touched, IInv, TypeOK
<1>6. company'[r] = home[t]
  BY <1>1, <1>3, <1>4 DEF IInv, TypeOK
<1>7. QED BY <1>4, <1>5, <1>6

LEMMA SendingTouches ==
  ASSUME IInv, NEW t \in Tasks, Sending(t), depth[t] = 0 \/ query[t].op = "audit"
  PROVE  \A r \in Touched : home[t] # None /\ company'[r] = home[t]
<1> USE DEF Operations
<1>1. CASE UNCHANGED <<company, content>>
  BY <1>1 DEF Touched
<1>2. CASE Update(t) \/ Delete(t)
  <2>1. PICK op \in {"update", "delete"} : Passes(t, op)
    BY <1>2 DEF Update, Delete
  <2>2. depth[t] = 0 /\ home[t] # None
    BY <2>1, PassingScope, NamesAssumption
  <2>3. \A r \in Touched : r \in Selected(t)
    BY <1>2 DEF Update, Delete, Touched, IInv, TypeOK
  <2>4. UNCHANGED company
    BY <1>2 DEF Update, Delete
  <2>5. QED BY <2>1, <2>2, <2>3, <2>4, SelectedScope
<1>3. CASE CreateSent(t) \/ AuditSent(t)
  BY <1>3, InsertTouches DEF CreateSent, AuditSent
<1>4. CASE UpsertSent(t)
  <2>1. Passes(t, "upsert")
    BY <1>4 DEF UpsertSent
  <2>2. CASE Insert(t)
    BY <2>1, <2>2, InsertTouches
  <2>3. ASSUME NEW r \in query[t].rows, company[r] = query[t].names,
               content' = [content EXCEPT ![r] = Other(@)], UNCHANGED company
        PROVE  \A s \in Touched : home[t] # None /\ company'[s] = home[t]
    <3>1. /\ r \in Rows /\ company[r] = home[t] /\ home[t] # None
      BY <2>1, <2>3, PassingScope, NamesAssumption
    <3>2. \A s \in Touched : s = r
      BY <2>3, <3>1 DEF Touched, IInv, TypeOK
    <3>3. QED BY <2>3, <3>1, <3>2
  <2>4. QED BY <1>4, <2>2, <2>3 DEF UpsertSent
<1>5. QED
  BY <1>1, <1>2, <1>3, <1>4
  DEF Sending, Throws, Read, Misses, ReadLinks, CreateLink, DeleteLinks, SearchSent

\* What a task changes outside runAsSystem, and the audit rows it leaves
\* under it, are its own company's; a task bound to none changes nothing
\* but under runAsSystem.
THEOREM TasksTouchOneCompany == Spec => TouchesOnlyItsOwn
<1> DEFINE Own == \A t \in Tasks :
        (query[t] # NoQuery /\ query'[t] = NoQuery /\ (depth[t] = 0 \/ query[t].op = "audit"))
          => \A r \in Touched : home[t] # None /\ company'[r] = home[t]
<1>1. ASSUME IInv, [Next]_vars PROVE [Own]_vars
  <2> SUFFICES ASSUME Next PROVE Own
    BY <1>1
  <2> SUFFICES ASSUME NEW t \in Tasks, query[t] # NoQuery, query'[t] = NoQuery,
                      depth[t] = 0 \/ query[t].op = "audit"
               PROVE  \A r \in Touched : home[t] # None /\ company'[r] = home[t]
    OBVIOUS
  <2>1. ASSUME NEW u \in Tasks, Scoping(u) PROVE query' = query
    BY <2>1 DEF Scoping, Bind, Unbind, runAsSystem, Return
  <2>2. ASSUME NEW u \in Tasks, Writing(u) PROVE company' = company /\ content' = content
    BY <2>2 DEF Writing, Select, Reach, Create, Upsert, Search, Record, Written
  <2>3. ASSUME NEW u \in Tasks, Sending(u) PROVE u = t
    <3>1. Sent(u)
      BY <2>3 DEF Sending, Throws, Read, Update, Delete, CreateSent, UpsertSent, Misses,
                  ReadLinks, CreateLink, DeleteLinks, SearchSent, AuditSent, Passes
    <3>2. QED BY <3>1, <1>1 DEF Sent, IInv, TypeOK
  <2>4. QED BY <1>1, <2>1, <2>2, <2>3, SendingTouches DEF Next, Touched
<1>2. QED BY <1>1, IInvariant, PTL DEF Spec, TouchesOnlyItsOwn

=============================================================================
