# DocuFlow AI, verified

TLA+ specifications of DocuFlow AI, a multi-tenant document management
platform: a NestJS API (`src/apps/api`) over PostgreSQL (through Prisma),
MinIO (the bytes), Redis with BullMQ (background processing, live events), and
a Next.js client (`src/apps/web`). TLC checks the modules on small instances,
TLAPS proves the most important results for every value of the constants.

Paths below are relative to `src/apps/api/src/` unless they start with `src/`
or `web/`, which stands for `src/apps/web/src/`.

    tlc -workers 2 -config MCDocumentRaces.cfg MCDocumentLifecycle.tla
    tlapm DocumentLifecycleProofs.tla

## 1. Inventory

On the server everything runs in Node processes: one thread each, so code
between two `await`s is atomic, and every `await` of PostgreSQL, MinIO, Redis or
the AI provider is a point where another request, another API process or the
worker may go first. Transactions run at READ COMMITTED and the code takes no
row locks of its own; what it relies on are unique constraints, conditional
updates, and the BullMQ job id. A browser tab is one thread as well: between a
request and its answer the reader, a live event or another answer may come
first.

| Component | State | Operations | Hard behaviour | What makes it correct |
|---|---|---|---|---|
| **Document lifecycle** `documents/documents.service.ts`, `document-rules.ts` | `documents`, `document_metadata`, `document_versions`; the object under each storage key | upload, addVersion, revertToVersion, reprocess, remove, restore, archive, unarchive, update | every operation is check, then external calls, then a write by id alone; transaction unwinding; calls between three stores that share no transaction | the history is contiguous, append-only and has its bytes; the newest version is served; archive and trash mean what they say |
| **Processing pipeline** `documents/processing/` | the run of a job: key read, extraction, analysis | one run: read, advance x4, extract, write metadata, summarise, tail | a failing step, a thrown error and a retry, a killed worker, requests changing the row under the run | a failed step ends as a FAILED stage of a READY document; one run at a time; a run that starts is finished by somebody |
| **Processing queue** `queue/` | at most one job per document (job id = document id) | enqueue, forget; BullMQ: take, complete, retry, stalled check, retention | `add` under a retained id is dropped silently, `remove` of a locked job is refused and swallowed | no second run; an accepted job comes to an end |
| **Extraction, AI providers** `documents/extraction/`, `ai/` | models known to refuse a flag | extract, ocr page by page, complete, summarise | 429 with a wait, 400 for a flag, errors and empty answers in the middle of a scan | whatever the vendor answers, the run ends as the pipeline says |
| **Bulk operations** `documents/bulk-documents.service.ts` | the same rows | remove, restore, archive, unarchive, move, setTags over a selection | eligibility is read once, the `updateMany` names ids | the same rules as the single operations; a truthful partial result |
| **Object storage** `storage/` | the bucket | putFile, copyObject, removeQuietly, getBuffer, getStream | partial failure around a database transaction | no row names missing bytes, no rolled-back object stays |
| **Sessions** `auth/token.service.ts`, `auth.service.ts` | `refresh_tokens`, reset grants, password hash | login, refresh (rotate), logout, revokeAllForUser, forgot/resetPassword | several tabs rotate one token; reuse detection with ten seconds of leeway; revocation racing rotation | one successor per token; a stolen token's family dies; a password reset ends every session |
| **Session provider and forms** `web/components/auth/`, `web/app/[lang]/(auth)/` | the refresh cookie, each tab's access token and renewal | restore, renew, the six forms, sign out | tabs share a cookie and overtake each other; a page load abandons answers | whoever only opens tabs stays signed in; signing out ends the session |
| **Approvals** `approvals/` | `approval_requests` | request, decide, cancel | two deciders; a cancel against a decision; two requests | one open request per document; one outcome, and the trail tells it |
| **Comments, favourites, notifications** `comments/`, `favorites/`, `notifications/` | their rows | create, update, remove; star; list, markRead, markAllRead | a write by id after a check; the count that is announced after a write | what is gone is left alone; everyone concerned is told |
| **Invitations, members, roles** `invitations/`, `users/`, `roles/` | `invitations`, `users`, `user_roles` | create, revoke, accept, register; setRoles | superseding links; two Owners demoting each other | one live invitation per address; accepted once; a company keeps an Owner |
| **Folders, tags** `folders/`, `tags/` | the folder tree, `tags`, `document_tags` | create, update (rename, move), remove; setForDocument | a move checks ancestors one query at a time; two counts before a cascade | no folder is lost, none takes anything along; a replacement replaces |
| **Live events** `events/` | per company a Redis subscription and a map of listeners | stream, attach, detach, dispatch, publish | subscribe and unsubscribe are awaited around changes to the map | a listener that is attached is on the map of a subscribed company |
| **Tenant isolation** `prisma/tenant-guard.ts` | the bound company (AsyncLocalStorage) | every Prisma operation | lazy queries, models without a companyId, no company bound, raw SQL | every query is scoped or refused |
| **Screens** `web/app/[lang]/(app)/`, `web/components/` | lists, cursors, ticks, badges as each page holds them | filter, load more, act, hear events | answers that overtake each other, state of an older render written after an await | the page ends up showing what the server has |
| **Audit trail, permissions, search** | rows, a catalogue | recorded or read by the others | errors swallowed on purpose; raw SQL | modelled in part, with those that use them |
| **HTTP layer, deployment** | none of their own | - | - | - |

How they interact: a request of the lifecycle writes PostgreSQL and MinIO,
then calls the producer, which adds a job to Redis; a worker slot takes the job
and writes the same rows; both publish status events through Redis to every
API process, which fans them out to SSE listeners; approvals and comments read
a document's row, write a notification for each person concerned and publish
the number of unread ones; folders and documents refer to each other by id; the
screens call all of these and hear the events. `PROJECT.json` lists every
component with its status and every hazard at its line.

## 2. What is modelled

An arrow up is EXTENDS; the proof modules extend what they prove about.

    ProcessingQueue        the queue seen from one document
        ^
    DocumentLifecycle      requests + worker run + queue + bucket   -- refines -->  VersionHistory
        ^                    DocumentLifecycleProofs
    DocumentAnalysis       the run's calls to the AI vendor         -- refines -->  DocumentLifecycle
                             DocumentAnalysisProofs

    RefreshTokens          requests + rows + row locks              -- refines -->  Session
        ^
    Browser                cookie jar, tabs, forms
                             RefreshTokensProofs

    Membership             accounts, roles, invitations
        ^
    MembersPage            the members screen
                             MembershipProofs

    Library                folders, filing, tags, bulk operations
        ^
    DocumentsPage          the documents screen and the trash
                             LibraryProofs

    EventFanout            streams around one company's subscription
        ^
    Collaboration          approvals, comments, stars, inbox
        ^
    LivePage               the connection, the badge, the thread
                             LivePageProofs

    TenantGuard            scopes and the guarded queries
                             TenantGuardProofs
    Feeds                  approvals queue, trail, search screens
    DetailPage             one document's screen
                             FeedsProofs (of both)

Each family has an `MC` module with its configurations. The families share no
state: a document's row, a user's tokens, a member's roles, a folder and an
approval meet only in the database, by id, and where one family needs a fact of
another (a document that is trashed, an account that exists) it has the step
that changes it.

Three conventions hold throughout.

* *A call is a process.* It begins with its first read and the checks on it, and
  every `await` that reaches a store is a step of its own, named by `at`. In
  RefreshTokens and DocumentLifecycle failures and crashes are actions, because
  transactions and compensations hang on them. Elsewhere a call that crashes is
  one that takes no further step, which every behaviour may do (there is no
  fairness in those runs), and a refused check ends it.
* *What a call creates is named by it*: a fresh UUID is the name of the request
  that drew it. So are the bytes of an upload.
* *Ghosts.* A few variables and fields are there for the properties only and
  no guard reads them: `before` (the calls that were over when one began),
  `late` (the calls under way when a document or comment went), `visitors`,
  `missed`, `unheard`, `crossed`, `ghost` (of the documents screen: what has not
  changed since an answer was given, who changed a document last, which answers
  were overtaken), `given`, `adrift`, `met`, `may`,
  `raced`, `among`. They let a property name the race it excepts, and nothing
  more: two calls are "under way together" (`Overlap`, `Together`) when neither
  is in the other's `before`.

### ProcessingQueue

`job` is the one job BullMQ can hold under a document's id, with its failed
runs and stalls. `Enqueue` and `Forget` are `DocumentProcessingProducer`'s two
calls: an `add` under an id the queue still holds is dropped, and the removal
of a job whose worker holds its lock fails and is swallowed. `Take`,
`Complete`, `Fail`, `Stall`, `Expire` are BullMQ's own and are modelled from
the options in `queue.constants.ts`: `attempts`, `backoff` (a delayed job
counts as waiting), `removeOnComplete`, `removeOnFail`, and the default
`maxStalledCount` of 1. They are operators on `job`; DocumentLifecycle says
when each happens.

### DocumentLifecycle

One document, since documents share no state. The state:

| variable | in the code |
|---|---|
| `doc` | the `documents` row with its metadata: status, `deletedAt` (as `deleted`), `storageKey`, the two stages, and which bytes the text and the summary were made from |
| `versions` | the `document_versions` rows, number and key |
| `objects` | the bucket: the bytes under each key |
| `job` | the queue |
| `run` | each worker slot: the await it stands at and the locals that survive it (the key it read, the outcome and text of the extraction) |
| `req` | each request: its operation, the await it stands at and its locals (`source`, the bytes it stores or the key it copies; `number`, the version number its transaction will write) |
| `faults` | how many errors and crashes have happened |

A request is a process and performs one operation. `Begin...` is the first
read with the checks on it; then one action per await, in the code's order:

| operation | steps (values of `at`) |
|---|---|
| upload | BeginUpload (row at UPLOADING), `put`, `commit`, `enqueue` |
| addVersion, revertToVersion | Begin..., `put`, `forget`, `txread`, `commit`, `enqueue`; a failed transaction goes to `unwind` (removeQuietly) |
| reprocess | BeginReprocess, `forget`, `write`, `enqueue` |
| remove, restore, archive, unarchive | Begin..., `write` |

`txread` and `commit` split `replaceCurrentBytes` because its read takes no
lock: two transactions compute the same number and the second is refused by
the unique constraint (`CommitRefused`, P2002). Everything after the row lock
of the update is one step. `write` is the unconditional `update({ where: { id } })`
the lifecycle's operations end in; the bulk operations read and write each
selected document by the same rules, so they add no action.

A run is `TakeJob`, `ReadDocument` or `SkipDeleted`, then `AdvanceProcessing`,
`AdvanceOcr`, `Extract`, `WriteText`, then analysis (`AdvanceAnalysis`,
`Summarise` or `SummariseFails`, `WriteAnalysisFailed`) or
`WriteAnalysisSkipped`, then `AdvanceReady` and `FinishRun`, which stands for
the audit entry, the notification and its event: they leave the lifecycle
alone but the job stays active until they are done.

Faults, at most `MaxFaults` in a behaviour:
`RequestThrows` (a call rejects; `AfterThrow` says what the handler does then),
`RequestLost` (the process serving it dies), `RunThrows` (the processor
rejects, the job is retried or has failed; an error of `advance` may come
after its row is written, because it reads and publishes after that),
`RunLost` (the worker dies, the job stays active until `StalledCheck`). The
crash of a process is the loss of the activities it served, one by one, which
allows every subset. A failing extraction or analysis is an outcome and not a
fault: no bound applies to it.

Names: a storage key is a fresh UUID per request, so a key is named by the
request that minted it, and so are the bytes an upload brings. `objects[k] = b`
reads "the object that request k stored holds the bytes that request b
uploaded"; a revert makes the two differ.

### VersionHistory

What versioning promises, without any mechanism: `history`, a sequence of
bytes, only grows at its end, by new bytes (`Publish`) or by a copy of an
earlier entry (`Revert`), and `served` is its newest entry. The refinement
mapping at the end of DocumentLifecycle takes the object of row n as entry n and
the object under the document's key as `served`; only `Commit` is a step of it.

### DocumentAnalysis

DocumentLifecycle with two steps of its run taken apart: reading a file and
summarising. `asking[w]` is the call a slot has out (`at`, images `left`, images
that gave text, the `attempt`, whether the call carries the flag that hides the
model's reasoning); `learned` is `unsupportedReasoningModels`, which belongs to
the process and outlives documents, so the other slots read it and add to it
(`NeighbourLearns`). `RateLimited` and `Retry` are the wait that a 429 names,
`Refused` and `Resend` the 400 for the flag, after which the same try is sent
without it. `OcrEnds` decides what the pages that were read make of a scan.
The mapping to DocumentLifecycle forgets both variables; the step that ends a
reading is its `Extract`, the one that ends a summary its `Summarise` or
`SummariseFails`.

### RefreshTokens

The sessions of one user, since users share no rows:

| variable | in the code |
|---|---|
| `tokens` | the `refresh_tokens` rows: live or revoked, the family, and whether `revokedAt` is still within `REUSE_LEEWAY_MS` (`fresh`) |
| `grants` | the `password_reset_tokens` rows: open or used |
| `password` | which reset set the password last |
| `lock` | the row lock of an open transaction on a token row |
| `call` | each request: its kind, the await it stands at, the token or grant it presented, and the rows its statement under way has seen |
| `failures` | requests cut off so far |

A request is a process; it mints at most one token or grant, which is named by
it. The operations, and the values of `at`:

| operation | steps |
|---|---|
| login | BeginLogin, `issue` |
| refresh | BeginRefresh, `rotate` (the conditional `updateMany`: `Spend` or, count 0, `SpendRefused`), `commit` (insert and commit); or, for a spent token older than the leeway, `reuse` and `sweep` (`handleReuse`) |
| logout | BeginLogout, `logout` (the update by id alone) |
| forgotPassword | BeginForgot, `supersede`, `grant` |
| resetPassword | BeginReset (the grant is checked outside the transaction), `reset` (the grant's and the user's row lock), `snapshot` and `revokeall` (`revokeAllForUser`), `commitreset` |

The one thing modelled of PostgreSQL is what this code depends on: at READ
COMMITTED an `updateMany` takes the rows that meet its condition when it begins
(`See`), waits for the transactions that have locked one of them (`Free`), and
then tests its condition again (`StillLive`); a row inserted in between is not
among them. An update of one row by its id or with a condition on it waits and
tests again the same way, so the wait is its guard. A statement outside a
transaction commits by itself and holds no lock beyond its step.
`LeewayPasses` is the clock: ten seconds go by at any moment, and never for a
row that has not been revoked. `CutOff` is an error or a crash anywhere, which
rolls the open transaction back.

`Session` is what this promises: `SignIn` starts a session with a token,
`Refresh` replaces its one valid token by a new one, `End` ends some sessions,
and nothing revives one. In the mapping a family is a session and its live token
the valid one; `IssueSession` is `SignIn`, `CommitRotation` is `Refresh`, and every
other step is an `End` of the sessions whose live token it revokes, of none if
it revokes none.

### Browser

One browser of that user over RefreshTokens: `jar` is the refresh cookie, `wire`
each request of a tab (who sent it, with which cookie, whether it is on its
way, served, or answered), `tab` what a tab shows (`Pages`: "app" stands for the
seven pages behind the session), its access token, its renewal in flight and
the busy flags of its forms. A request is sent with the cookie of that moment
(`Send`), reaches the server later (`Reach`, which is a `Begin...` of
RefreshTokens), and its answer arrives later still (`Arrive`), in any order; `JarAfter`
is what `Set-Cookie` and `clearCookie` do then. `Visit` is a page load: the
provider starts over, and nobody takes the answers of the page before. `Follow`
and `Proxy` are the client's links and the redirects of `proxy.ts`. `Lose` drops a
request or an answer, `Outside` is another client of the same user.

### Membership, MembersPage

`holds[<<company, person>>]` are the `user_roles` rows of an account, each with the
call that inserted it; `invites` the `invitations` rows; `call` each request with
the rows its statement under way has seen. The operations, and the awaits:

| operation | steps |
|---|---|
| setRoles | `guard` (the permission check at the door), `member`, `count` (assertOwnerSurvives, outside the transaction), `delete` and `replace` (deleteMany sees its rows, then the transaction writes and commits) |
| invite | `guard`, `existing`, `retire` (the other live links of the address), `issue` |
| revoke | `guard`, `find`, `revoke` (by id alone) |
| accept | `resolve`, `taken`, `consume` (the conditional update and the transaction) |
| register | `available`, `create` |

`Expire` is an invitation's deadline passing.

MembersPage is the members screen of one person over it: `staff` what the screen
shows, `desk` the calls it has made and their answers. `Rounds` says what is done
on the screen in a behaviour and what others do meanwhile.

### Library, DocumentsPage

`folders`, `docs` (the folder and status of each document), `tags`, `labels` (the
`document_tags` rows, each with the call that inserted it) and `call`. A walk up
the tree is one step per folder read (`climb`, with its `cursor` and `depth`).

| operation | steps |
|---|---|
| createFolder, updateFolder | `find` (update: the row whose name and parent are written back), `climb` (the depth, and for a move the cycle check), `name`, `write` under the unique index and the foreign key |
| removeFolder | `find`, `count` (subfolders and documents, in either order), `delete` with the cascade |
| file (a document's folder), bulkMove | `doc` or `load` (which documents may be changed), `folder`, `file` |
| createTag, removeTag | `name`, `insert`; `delete` |
| setTags | `doc`, `tags`, `delete` and `replace` |
| bulkTags | `load`, `tags`, `unlabel`, `label` |

`ChangeStatus` is a document being trashed, restored, archived or un-archived (its
steps are DocumentLifecycle's). `Mixes` says how often each operation is performed
in a behaviour, because all of them at once is out of TLC's reach; the theorems
do not need it. "Reached from the root" is said without recursion: `Detached` is
the union of the sets of live folders that hold the parent of each of their
members, `Subtree(f)` what is left after the sets that reach the root without `f`.

DocumentsPage is the documents screen, or the trash, of one reader over it:
`page` (filters, rows, cursor, ticks, the read of the effect that ran last, the
upload queue), `ask` its requests with the render they were sent from, `pushed`
the status events on their way, `starred` and `phase` what the lists also show.
Creating, removing and moving folders are Library's calls, step by step; the
other changes are one step on the server. `Plans` says which screen is open and
what is done.

### EventFanout, Collaboration, LivePage

EventFanout is `EventsService` for one company on one instance: `registered` the
Map the company has, `members` what each Map holds (a Map is named by the stream
whose attach made it, because attach holds on to it across its await), `orders`
and `wire` the commands to and the messages from Redis in order, `subscribed`.
`Attach`, `Resume`, `Detach` are its code; `RedisObeys`, `ReadReply` and the delivery
of a message are Redis, modelled from how the code uses it.

Collaboration is what people do around one document: `approvals`, `comments`,
`stars`, `inbox` (the `notifications` rows), `trail` (the audit rows of decisions and
withdrawals), `trashed`. Its calls read the document, read whom they tell
(`voices`: the participants; `Addressees`: the assignee or the approvers), `insert` or
`write` (the partial unique index, the conditional updates, the updates by id), `record`
(audit row and notifications), `announce` and then `count` and `tell`: the unread
count that is read for each person and then published. `Trash` is the document
going to the trash and coming back.

LivePage is one person's open page over both: the provider's connection
(`ReadBadge`, `ShowBadge`, `OpenStream`, `LoseStream`), the bell's badge, and the thread
with its refetch in two answers (`FetchRows`, `FetchTotal`, `ShowThread`) and `mine`, the
comments whose own event is to be ignored. `OthersStream` are other pages of the
company coming and going.

### TenantGuard, Feeds, DetailPage

TenantGuard is the Prisma extension. `home[t]` is the company a task is bound to,
`depth[t]` how many `runAsSystem` it is in, `query[t]` a query that is written and
not sent yet: Prisma's promises are lazy, and the guard decides by the scope it
finds when the query is sent. `Scoping` enters and leaves scopes, `Writing` writes
a query with whatever filter, payload and unique selector the code may give it,
`Sending` is the guard's rewriting with PostgreSQL's effect. The tables without a
company column are `links`; the raw search and the audit row have operations of
their own. `given[t]` collects the rows a task was handed.

Feeds is the approvals queue, the activity trail and the search screen: `listing`
and `fits` are the server's table and what each row is listed for, `feed` what the
screen holds (`ask`, the `turn` whose answer is awaited, the rows with the ask that
brought them, the cursor, the signs of work). `Narrow`, `ClearTerm`, `RetryLoad`,
`LoadMore`, `HearChange`, the decision dialog (`OpenDecision`, `SubmitDecision`,
`CloseDecision`; it keeps its request whatever becomes of the list behind it) and
`Withdraw` are the screen's handlers, `Land` an answer in any order; `Appear`,
`SettledByOther` and `Rematch` are others.

DetailPage is one document's screen: `here` (the document it shows, the effect
whose answer counts, the busy flags; the version history's goes when another tab of
the page is chosen, `LeaveVersions`), `editor` (the tag editor), `asked` the requests
under way, each with the document of the render it was started in (`was`), because
the handlers write that one back after their await.

What the pages assume of the event stream. It is the layout's, not the page's. In
Feeds, DetailPage and LivePage it may be down when the page opens, it is lost and
opened again (`LoseStream`, `OpenStream`; `Disconnect`, `Reconnect`), and an event that
fires meanwhile, is on its way then, or is not taken by Redis (`publish` only logs
that) is gone. Neither the queue nor a document's page reads again when the stream
reopens, so `QueueCurrent` and `PageCatchesUp` except what was lost since the last
read, and nothing before. DocumentsPage does assume that the stream is attached
and delivers in order: its properties are about requests and answers, and a
lost event of another user's work is beyond them.

## 3. Properties

A property that passes and names an exception ("unless two calls were under way
together") is meant that way: the code excludes the bad outcome in every other
case, the exception is a race the code has, and TLC reaches it. (P) marks what
is also proved, see 5.

Of a document (DocumentLifecycle, DocumentAnalysis):

* `HistoryContiguous` (P): numbers 1..n, no two rows share a number or a key.
* `CurrentIsLatest` (P): the document's key is its newest version's.
* `VersionsHaveBytes` (P): no version row points at an object that is not there.
* `AtMostOneRun` (P): the danger `assertNotInFlight` names. The checks can be
  outrun; the job id and BullMQ's lock are what excludes a second run.
* `OrphansExplained` (P): an object no row names belongs to a request at work,
  to an upload that lost its number, or to a fault.
* `ImplementsVersionHistory` (P), `ImplementsLifecycle` (P): the refinements.
* `HistoryAppendOnly` (P, not in a run: the refinement implies it).
* `RequestsFinish`, `AcceptedJobSettles` (liveness): each request that has begun
  ends; a document whose job Redis accepted leaves the pipeline, though its run is
  retried, its worker dies, it is trashed and restored meanwhile, or another
  request forgets the waiting job (it brings one of its own). The exceptions are
  events, not states (`abandoned`): BullMQ gives the job up; a request that has
  forgotten it fails before it has added the next; its add is dropped for the
  sake of a job that has nothing left to write, as in `stranded`.

Of a user's sessions (RefreshTokens, Browser):

* `OneSuccessor` (P): two requests racing with one token never both mint a
  successor, whatever logs out, resets or sweeps meanwhile.
* `TabsNeverSignOut` (P): as long as no one logs out or resets and no token is
  older than the leeway, refreshing from any number of tabs, with errors, never
  leaves a session without a live token.
* `ImplementsSession` (P): at most one live token per family, and a family
  without one never has one again.
* `JarSurvivesTabs` (P): the same seen from the browser: the cookie that is left in
  the jar is a live one.
* `SignOutEnds` (P): once a logout is answered no token of its session is live,
  unless a renewal presented the same token.
* `CallsAreAnswered` (liveness): waiting for row locks ends, and losing is an
  answer.

Of a company's people (Membership, MembersPage):

* `OneLiveLink` (P): a second live link to one address takes two invitations
  under way together.
* `OneAcceptance` (P): an address joins by at most one of its links.
* `OwnerSurvives` (P): the last Owner goes only by two demotions under way
  together.
* `RevokedIsFinal` (P): what was revoked is never accepted.
* `MixedOnlyTogether` (P, not in a run): the roles of a member are those of one
  change, unless two were under way together.
* `StaffCurrent` (P): the screen shows the roles as they are, and every open link,
  but for what others did and for a choice made twice.

Of folders, tags and the documents screen (Library, DocumentsPage):

* `NothingDetached` (P): every folder can be reached from the root, unless two
  changes of folders were under way together.
* `NothingSweptAlong` (P): deleting a folder takes along only what a call under
  way put there.
* `FrozenStays` (P): an archived or trashed document keeps its folder and labels,
  but for calls under way when it got there.
* `ReplacementReplaces` (P): setting the tags leaves none of the old ones.
* `BatchWasTicked` (P): a batch names only what was ticked since the filters
  changed.
* `NoneSkipped` (P): a list read to its end has left nothing out that has been in
  it since its first page was read, unless a page was asked for from a document
  that had left the list, or from an earlier list, or a document was restored
  before the answer of its deletion came.
* `OwnWorkShows`: when all is answered the page shows its own changes, but for
  documents about which it was misled: by an answer or an event that a later
  change had overtaken, by a list they are not in, or by a lost answer.

Of live events and what people do around a document (EventFanout,
Collaboration, LivePage):

* `ListenersHear` (P): who is attached is listened for, on a live subscription.
* `AnswersStand` (P): what a decision or withdrawal was told to have done is how
  the request stands.
* `GoneIsLeftAlone` (P): nothing is written about what is gone but by calls that
  were under way when it went.
* `BadgeCurrent` (P), `ThreadCurrent` (P): at rest the badge and the thread are as the
  server has them, but for the named races.

Of tenants, and of screens that keep what they were given (TenantGuard, Feeds,
DetailPage):

* `OnlyOwnRowsGiven` (P), `TouchesOnlyItsOwn` (P): what a task is given, and what
  it writes, is its own company's.
* `LinksStayInside` (P, not in a run): no link joins two companies.
* `ShownIsAsked` (P), `PagesJoin` (P), `QueueCurrent` (P), `WaitsForSomething` (P): a
  feed shows what was asked last, in pages that join; the queue is current at
  rest, unless an event was lost since it last asked; what shows work has an
  answer to come.
* `PageCatchesUp` (P), `SavesWhatWasChosen` (P): a document's screen is right at
  rest, but for a colleague's tags, an end of a run that was lost since it was
  last read and three races of the reader's own changes; and saving tags takes off
  only what the reader took off.

Five more state what a comment of the code says and are violated; see 6.

Every property of a passing run has a mutant in PROJECT.json: a plausible bug,
written in the module next to the definition it would replace (`\* Mutant: ...`)
and used nowhere else, under which TLC finds the property violated. The type
invariants are proved (`TypeCorrect`, `TokensTypeCorrect` and the typed parts of
each inductive invariant) and not repeated in the runs.

## 4. Runs

| run | instance | distinct states | shows |
|---|---|---|---|
| `races` | 3 requests, any of the 8 operations each, 2 worker slots, 2 attempts, 1 fault; symmetric in requests and slots | 489 thousand | the safety properties and the refinement of the version history |
| `answers` | 2 requests of any operation and 2 faults, or upload, remove and restore and 1 fault, or upload, addVersion and reprocess without faults; 1 slot, 2 attempts; 2 models, 2 pages, 1 wait per call | 241 thousand | `RequestsFinish`, `AcceptedJobSettles`, `ImplementsLifecycle` |
| `sessions` | 3 calls, 2 tabs, at most 3 requests sent and 1 that fails; other clients refresh | 662 thousand | the sessions and their refinement, the jar |
| `company` | 3 calls of any of the 5 kinds, 2 people, 2 roles, 2 links sent before; alone, or 3 rounds on the members screen | 612 thousand | the properties of Membership and the screen |
| `library` | 3 calls, 2 old folders, 2 names, 3 documents, 2 tags, depth cap 3, 1 status change; 9 mixes of Library and 12 plans of the page with 1 row to a page and 5 requests | 399 thousand | the properties of Library and of the page |
| `live` | 3 calls, 3 streams, 2 people, 1 comment, 1 request, 1 status change; 14 mixes | 951 thousand | the properties of the server parts and of the page |
| `tenancy` | 2 tasks, 2 companies, 2 rows, nesting 1, 4 mixes; or a feed of 2 rows, 1 to a page, 3 requests, 1 change by others, 1 refusal; or a document's page, 4 chores, 4 requests, 1 alteration, 1 refusal; the stream open or not, lost and opened | 2.6 million | the guard, the feeds, the document's screen |
| `stranded`, `unarchived`, `ready_without_bytes`, `stale_summary`, `reset_sessions` | the smallest instance that shows it | | the findings |

A screen shares a run with the server part it calls. Where the two interact
(Browser, MembersPage, DocumentsPage, LivePage) they are composed step by step;
where a behaviour is of one part only (`part` in MCTenancy, `NoScreen` in MCCompany,
the view "none" in MCLibrary), the choice is made in the initial state and the
other parts keep still, which is the union of separate state spaces.

Why the bounds are enough to be interesting. Three requests are an upload and
two more, so two operations race each other on a document that exists, with
the run of the upload as a third party; that is what a lost version number, an
unwinding, a forget of another's job and trash-then-restore under a run need.
One fault is an error or a crash at every possible point of such a race;
`OrphansExplained` speaks of faults only as none or some. Two faults with two
attempts reach a job that has failed, a job that stalled twice, and an error
while another is being handled. Two slots are what a second run would need. Two
pages and a wait are what a scan needs to fail half way, after a call that was sent
again; the pause is timed and counted by the call alone, so a second wait repeats
the first. In `answers` any two operations race the run; the two sets of three are
those in which a third matters for an accepted job: a document that is trashed and
restored while its run is under way, and a waiting job that a second request
forgets and a third may find. Requests begin in turn there, which tells no two
behaviours apart but by names. For sessions, three calls are a login and two rotations of one
token, or a rotation and a logout; for the members, two calls that race and a
third that notices; for folders, three moves can close a circle that no two of
them would, and a cap of three levels is the least at which a walk takes two
steps. Two rows with pages of one are what a page boundary needs, and one row
that others add moves it. Symmetry is used in safety runs only.

`Mixes`, `Plans`, `Rounds` and `Chores` are bounds of their own: they say how often
each operation is performed in a behaviour, chosen so that every pair that can
disturb each other occurs. Theorems do not depend on any of these bounds.

`CHECK_DEADLOCK FALSE` in every run, because each request performs one operation
and the supply of requests runs out: a document that nobody touches any more is a
legitimate end.

Fairness, which only the liveness properties need. `AnalysisFairness`: a request
that has begun goes on (Node runs a continuation once its promise settles; a
call to a store or a vendor ends by its timeout), a worker slot that is up takes
waiting jobs and drives its run, and the stalled-job check comes around (BullMQ's
worker runs it on a timer). No fairness on beginning a request, on faults or on
a job expiring. After its last fault, a worker slot is up again: the process is
restarted (`restart: unless-stopped` in `src/docker-compose.yml`). In Browser it is
that a request the server has begun goes on when the rows it waits for are free;
nothing makes a tab move, the clock advance or a call fail. The other
specifications state none.

## 5. Proofs

A theorem is about the `Spec` of the module it names (`BSpec`, `StaffSpec` and
`PSpec` where a screen is at the server, `FeedSpec` and `DetailSpec`), for any sets of requests,
workers, people, folders, streams and rows, any subset of the operations and any
bound on faults. The assumptions are those the modules declare, and say only
what the constants are: `Attempts` is a positive number, the bounds are numbers,
kinds and operations are among those there are, `None`, `Nothing` and `Root` are not
names of anything, what calls create does not bear the name of what is there
at the start (`NamesAssumption`, `NewFoldersAssumption`: ids are
fresh UUIDs), the calls, the people and the comments at the start are finite sets
(`FinitenessAssumption`, of Collaboration: the badge and the thread show numbers
of rows), the depth cap is at least 2, `Owner` is among the roles that invite, a
page holds at least one row and a screen may send at least the request it opens
with (`PageAssumption`, `DetailBoundsAssumption`), and `Newest` is the documents in
some order, each once (`NewestAssumption`).

`DocumentLifecycleProofs`:

* `TypeInv` = `TypeOK` with three parts it needs. `WorkerInv`: a live run's job
  is active, there is one live run, and a job that may still be handed out has
  attempts left (or the failure counter could leave its type). `UnbornInv`:
  before the row exists nothing else does. `KeysInv`: a key that is looked up in
  the bucket was minted. `TypeInv` is inductive once the latest version number
  is known to be a number, which is a matter of the history, below.
* `IInv` = `TypeInv` with `HistoryInv` (the three history invariants) and
  `RequestInv`, what a request knows on its way to its commit: no version names
  its key yet, its object is stored, its number is at most the next one, and as
  long as there is no version the row names the upload's key. `HistoryInv` is
  not inductive by itself: a commit keeps `VersionsHaveBytes` only because the
  object is there by then, keeps the numbers contiguous only because the number
  was read from a history that can only have grown, and an upload's commit
  keeps `CurrentIsLatest` without writing the key. The proof has a lemma for
  each way a step can touch this state (`HistoryFrame`, `RequestMoves`,
  `CommitHistory`, ...) and one step per action. Hence **TypeCorrect**,
  **OneRunAtATime** (which `WorkerInv` contains), **HistoryIsContiguous**,
  **NewestIsServed**, **VersionsAreStored** and **HistoryOnlyGrows**.

* `OrphanInv` follows an object from the request that stores it to the row that
  names it or the step that loses it: **OrphansAreExplained**.
* `BytesInv` says where bytes come from (an uploaded file is its request's own,
  a revert's source is a version, and what a version holds was first published
  by a version under that name). With `IInv` it makes a commit a `Publish` or a
  `Revert` and everything else a stutter: **LifecycleRefinesHistory**.

`DocumentAnalysisProofs`: `AInv` = `IInv` with `FreshInv` (a request that has not
stored its object finds nothing under its key), `KnownInv` (a key a run has read
was named by some row) and `AskingInv` (a call belongs to a run at its extraction
or its summary, and its image to the object that run set out to read). The last
is what makes the end of a reading an `Extract` of DocumentLifecycle: the text is
said to come from the bytes that are under the key *now*, the images were rendered
from those found when the run asked. They are the same because an object is never
overwritten and not removed while a row names it; `FreshInv` and `KnownInv` say
so. Hence **AnalysisRefinesLifecycle** and **CallsBelongToTheirRun**, and with the
former everything above holds of the detailed pipeline as well.

`RefreshTokensProofs`: `IInv` is `TypeOK` with two parts. `RowInv`: what a
request may look up exists (`PresentedInv`), a locked row is live and locked by a
rotation of it or by a reset (`LockInv`), a rotation about to commit holds its
row (`CommitInv`), and a request mints with its last step (`BirthInv`).
`LineageInv`: the login that began a family exists (`FamilyInv`), what a
successor was exchanged for is revoked (`SpentInv`), `OneSuccessor`, and a family
has one live token (`OneLive`). `OneSuccessor` is not inductive by itself: a
commit keeps it because the token it spends is live until then (`CommitInv` with
`LockInv`) while any other successor of that token would have left it revoked
(`SpentInv`). Three lemmas say how a step can touch rows and locks (`MovesKeep`
for none, `LockingKeeps`, `EndingKeeps`), and the two steps that mint have their
own. Hence **TokensTypeCorrect** and **OneSuccessorPerToken**. `OneLive` makes the
mapping to `Session` a function of the rows (`ValidIs`, `ValidNone`), and each step a
`SignIn`, a `Refresh` or an `End`: **CallsRefineSessions**. `TabsInv` adds that while
nobody logs out or resets every family keeps a live token, the sweep of
`handleReuse` being out of reach until a token outlives its leeway:
**RestoredTabsStaySignedIn**.

All of this is about the server, whoever calls. `BInv` carries it to `BSpec`, a
browser at that server: `IInv`, `TabsInv`, and three parts about the browser. `WireOK`:
a cookie names a row that exists. `LogoutInv`: a logout under way is about to revoke
the token it carries, and one that is through has left it dead. `LastInv`: beside a
live token of a family, every other token of it has been presented for renewal.
Signing out then ends the session, because the token it presented is dead and any
live one of the family would mean that it was renewed too. **ServedBrowsersToo**, **SigningOutEndsTheSession**,
**BrowsedCallsRefineSessions**.

`JInv` adds the jar to it. A request and the call that serves it are at one point
(`ServedInv`) and a cookie came with an answer that was taken (`CookieInv`): with the
types, **BrowserTypeCorrect**. As long as the behaviour is one that `JarSurvivesTabs`
speaks of (`Calm`), a token whose answer has not been taken is not spent
(`UntakenInv`), so the cookie in the jar is live, or the answer that brings its
successor is on its way (`JarInv`). The sweep stays away because in such a behaviour
what is revoked is still within its leeway: **TheJarSurvives**.

`MembershipProofs`: `IInv` = `TypeOK`, `ShapeInv` (what a request under way is about,
and that an accepted invitation has its account) and `RolesInv` (who inserted a row
has been answered; a change that has begun to delete meets, beside what it saw,
only what changes not yet over when it began have inserted), and `OneAcceptance`:
**TypeCorrect**, **AcceptedOnce**, **RolesOfOneChange**, **RevocationHolds**. `OInv` adds what
the count of Owners means later: a change that takes the role has seen another
Owner (`TakersInv`), and only a change it does not have in its `before` can have
taken the role from that one: **CompaniesKeepAnOwner**. `LinksInv`: an invitation
about to be issued has seen the other links of its address, or they were made
while it was under way: **LinksAreRetired**.

`StaffInv` is about the members screen and everything on its way to it: what a call
of the screen is about on the server (`AskedInv`), that of two unanswered calls one
knows of the other (`AmongInv`), that a member's roles are on the screen or in the
one answer still to be shown (`RosterInv`), that a pending link is shown, or in an
answer, or somebody else's (`PendingInv`). A change of roles whose answer is shown
late is right because no other change of that member can have been granted
meanwhile without being entangled with it: **StaffShowsTheCompany**. Each step with
the screen is a step of Membership or leaves it alone (**ScreenDrivesTheServer**), so
the theorems about Membership hold with it (**ScreenKeepsTheRules**).

`TenantGuardProofs`: `IInv` says that a query written in a scope is sent in it (the
depth it was written at is the depth of its task until it is sent), that what a
task was given and the links are of one company, and what the raw search and the
audit row name. **TasksSeeOneCompany**, **TasksTouchOneCompany**, **LinksAreIsolated**,
**LazyQueriesKeepTheirScope**, **TypeCorrect**.

`LivePageProofs`, for EventFanout and Collaboration as they run under the page:
`FanInv` is about commands and answers in flight: orders alternate, the last one
decides whether there will be a subscription, and a waiting stream's Map is the
registered one unless a visitor took it away. **AttachedStreamsHear**. `CallsInv`
is about the calls: the row that a call makes is not there before it writes, one
call settles a request, the trail names it, and a call that has found its
document or comment was under way if that has gone since. **DecisionsStand**,
**TheGoneAreLeftAlone**.

Two more are about the page. Both say what the page is owed: of everything that
changes what it shows, something on its way is going to bring it up to date.

* `BadgeInv`. If the calls came one after the other (`Serial`), every count that a
  call or an event carries is the count there is (`CountInv`); if besides the page
  missed nothing (`unheard`), the badge is that count, or a call is about to
  announce it, or an event with it is on the wire (`ShownCount`, `Owed`). At rest
  nothing is: **TheBadgeIsCurrent**.
* `ThreadInv`. An answer of the page's own owes the thread exactly the change of its
  call (`OwesInv`), the event it is to pass over is still on the wire when it does
  (`MineInv`, `OwnSentInv`), and with no such answer out the thread is right, or a
  refetch that has read what there is is under way, or somebody else's event is
  (`ShownInv`). What was under way when a comment was deleted was so together with
  its deletion (`LateInv`). **TheThreadIsCurrent**.

`LibraryProofs`, of Library alone and beside the documents screen. A step is a
`WideStep`: one of a call of Library, or documents that arrive or change status
beside it (`Arriving`), which is all the screen's other requests do to it. The
invariants are kept by every `WideStep` and so hold in both (**PageKeepsTheLibrary**,
for the screen). `BaseInv` = rows and calls are of their types, a call knows only
folders that exist or existed, and a live folder's parent is live (the foreign
key). On it rest three invariants.

* `TreeInv`. The tree has no circle, and a move whose new parent is below the
  folder it moves is going to meet that folder on its walk: its cursor is still
  below it. This breaks only if another move crosses it, and then that move and
  this one are the exception, once both are carried out. The lemmas on
  `AsideOf` and `DetachedOf` say what putting a folder under another does to the
  sets below and above it; they take the table of folders as a parameter, so that
  they can be applied to the table before and after a step.
  **NoFolderIsLost**.
* `RemoveInv`. What `remove` has counted as empty is empty still, or somebody not
  yet over when it began has put something there. **NoFolderTakesAlong**, an action
  property.
* `LabelsInv`. A call that has checked its documents may change them, or was under
  way when they were frozen; a replacement that has begun to delete meets only
  labels it saw or that calls under way attached. **FrozenDocumentsStay**,
  **TagsAreReplaced**.

About the screen itself there is `PageInv`. A request in flight fits its kind
(`Fit`), and a read sent for the filters of now has the filters of now (`Timely`,
`ReadInv`). What the server answered covers what has not changed since: of the
documents after the cursor, up to the next one, none that is in the list is
missing (`Covers`, `Sound`), unless the cursor's own row had left the list, because
the server skips one row whatever it is. Then the rows on the screen cover
everything up to the screen's cursor (`ListInv`), because pages that are appended
begin where these end: **NothingIsSkipped**. Ticks that count were made under the
filters of now (`TickInv`): **BatchesWereTicked**. Three groups of lemmas carry this.
What the server lists is stated by counting places (`NthOf`, `Kept`), and that a page
so taken leaves no place out is in `ReadCovers`. Every handler of the screen is shown
to be a `Going`: each of its requests waits, is sent, is answered or ends, and the
filters change only with a new read. And `PageInv` is shown to survive any
`Going`, once for all handlers.

`FeedsProofs`, for any number of rows, any page size and any number of requests
on their way. `FInv` has four parts beside the types.

* `AskInv`, `WaitInv`: requests are numbered upwards, so that only an answer to the
  latest ask has its number, and a sign of work has its request. With
  `ShownIsAsked` they are inductive: **WorkIsUnderWay**, **LatestAskIsShown**,
  **FeedsAreTyped**.
* `ListInv`, `ListedInv`: outside the search the newest row comes first and only
  rows that are listed are spoken of, so a new row is above everything that is
  shown or on its way.
* `PieceInv`: every page on its way, and what is shown, is a piece of its list: its
  rows descend and are all those between the cursor and some row. As sets of rows
  two pieces that meet are one, and a row added above disturbs none. That a
  descending sequence with those rows is a `SubSeq` of the list is proved at the end
  (`StretchIsPiece`): **PagesJoinUp**.
* `CurrentInv`: while no event is on its way to the queue and none was lost since it
  last asked, the answers to its latest ask, and what it shows, reach to the top of
  the list and say of each row whether it is pending; a row that was settled stays
  so. Whatever changes the table puts an event on the way or loses it, and asking
  again, for whatever reason, gives a new number, which no answer on its way has,
  and is answered from the table as it then is: what was lost before is made up
  for. **QueueShowsTheTable**.

Of the document's page (DetailPage) the types (**DetailIsTyped**) and two invariants
are proved. `PageInv`: unless the page is behind (a reading or a run is under way,
one of the excepted races happened, or an event was lost since it was last read),
it shows the versions, the star and the status there are, or the answer that brings
them is on its way and was not met by another (**ShowsOrWaits**). A loss marks the
readings that are answered already (`Miss`); one that is still to be answered reads
what the lost event was about. At rest, **CatchesUp**. `TagsInv`: while the editor is open,
what the document carried is still chosen or was taken off, in the editor and in
the answer of a creation that will replace the choice, and a save on its way
leaves out only what its reader knew to be going (**ChoiceIsKept**), so
**SavesOnlyWhatWasChosen**.

What the server lists is computed row by row (`Those`, a WHERE), and the facts about
it (`ThoseSteps`, `ThoseDescend`) are by induction over the length, in the form this
prover takes: a set of numbers that holds 0 and with each its successor holds all
(`EveryNumber`).

Model-checked only. Liveness (`RequestsFinish`, `AcceptedJobSettles`,
`CallsAreAnswered`) and ENABLED are out of the prover's reach. One safety property of
a passing run has no theorem, `OwnWorkShows`: it needs an invariant that relates each
row on the screen, and each row of each answer in flight, to the last change of its
document and to who made it, and that has not been worked out. Elsewhere nothing
is proved by induction over data: what a walk up a tree computes is stated with
sets of folders instead.

## 6. Findings

1. **A refused enqueue strands the document** (`stranded`). The producer's
   comment says the document "stays at PROCESSING and can be reprocessed";
   `reprocess` refuses a document at PROCESSING.
2. **A run un-archives** (`unarchived`). `archive` is refused in flight so that
   a run cannot undo it, but its check reads UPLOADING, which is not in flight,
   and its write comes after the run began.
3. **READY without bytes** (`ready_without_bytes`). A document at UPLOADING can
   be trashed and restored, and restore lands at READY.
4. **A stale summary is served** (`stale_summary`). A run keeps the key it read
   and ends with an unconditional READY; a version committed in between shows
   the summary of the bytes before it.
5. **A session outlives the password** (`reset_sessions`). A rotation that has
   spent its token but not yet committed when the reset's `revokeAllForUser`
   starts commits a successor that the reset's statement does not see; the
   session is alive with the new password in place. The same mechanism lets a
   successor survive `handleReuse`.

Met while modelling, and named by the exceptions of properties that pass:

* A first stream that is waiting for its subscription never hears if another
  stream came and left meanwhile (`ListenersHear`; `events/events.service.ts:93-127`).
* Two invitations of one address under way together leave two live links; two
  demotions under way together leave no Owner; two changes of one member's roles
  can leave a mixture, which `users/users.controller.ts:18-22` says they cannot
  (`OneLiveLink`, `OwnerSurvives`, `MixedOnlyTogether`).
* Two moves of folders under way together, or a renaming (which writes back the
  place it read) and a move, can detach a part of the tree, and a move into it
  then walks for ever; a document or folder put into a folder between the counts
  of its removal and the delete goes with it (`NothingDetached`, `NothingSweptAlong`;
  `folders/folders.service.ts`).
* A withdrawal that loses to a decision is answered as a success and leaves its
  audit row and notifications (`AnswersStand`; `approvals/approvals.service.ts:285`);
  a comment deleted while its edit is under way is edited (`GoneIsLeftAlone`).
* The badge can show the older of two counts that were announced together, and
  misses what happened between its first count and the opening of the stream
  (`BadgeCurrent`; `web/components/providers/live-provider.tsx:99-111`). A thread's own event
  arrives before the answer that would have told it to ignore it, and the next
  one is ignored instead (`ThreadCurrent`; `web/components/documents/comment-thread.tsx`).
* The approvals queue and a document's page do not read again when the stream
  reopens: a decision of a colleague, or the end of a run, that fires while it is
  down is not shown until something else makes the page read; the page of a
  document whose run ended then stays at PROCESSING (`QueueCurrent`, `PageCatchesUp`;
  `web/app/[lang]/(app)/approvals/approvals-view.tsx:148-152`,
  `web/app/[lang]/(app)/documents/[id]/document-detail-view.tsx:176-180`).
* The decision dialog keeps its request when a refetch shows it settled, and a
  version history that is left and opened again offers a second version while the
  first is under way; the server refuses what comes too late (`RefuseIt`, `Decline`).
* "Load more" compares nothing when its answer comes: pressed before the filters
  changed, its rows are appended to another list and its cursor goes on from there
  (`NoneSkipped`, `ShownIsAsked`, `PagesJoin`); failing for an earlier search, it leaves
  the search waiting for nothing (`WaitsForSomething`).
* Handlers of a document's page lay their answer over the document of the render
  they were started in, which undoes what was read since; the tag input replaces
  the choice by an older one when a new tag is created, which the comment at
  `web/components/ui/tag-input.tsx:163-166` says it avoids (`PageCatchesUp`,
  `SavesWhatWasChosen`).
* A renewal answered after a sign-out signs its tab in again, and the refusal of a
  request without a cookie clears the cookie another tab has just been given
  (`JarSurvivesTabs` is about browsers whose tabs only open and sign in).
* A scan whose first page cannot be read is recorded as DONE without text rather
  than as FAILED (`DocumentAnalysis`, `OcrEnds`).

## 7. Not modelled, and why

* Ambiguous commits (the connection breaks while COMMIT is on its way), and a
  call to storage that takes effect and still reports an error. Here a
  transaction that threw is rolled back.
* A live worker that loses its lock (its event loop blocked for longer than the
  lock lasts): `AtMostOneRun` holds under the assumption that it does not.
* `record` of the audit trail and `create` of a notification swallowing an error:
  inside a transaction PostgreSQL fails it at its next statement, which is
  `RequestThrows`; outside, the row is missing and nothing reads it back.
* `update` of a document (rename, title), of a tag (name, colour), derived
  artifacts, downloads: they read or write columns no other step reads.
  User-curated metadata.
* In RefreshTokens: a user who is deactivated (nothing in the source writes
  `isActive: false`, so the branch of `refresh` that checks it is not
  reachable), expiry (a refusal without effect), access tokens (signed, not
  stored), the lookup of accounts by address and password, and deadlocks that
  PostgreSQL breaks by failing one statement, which is a `CutOff`.
* In Membership: the session an acceptance issues (RefreshTokens'), the mail, and
  which permission a role holds, which is the catalogue's constant.
* In EventFanout: shutdown, which ends every stream; several instances, which
  share nothing but Redis; a Redis connection that breaks.
* In TenantGuard: nested writes beyond the links, transactions (the scope of each
  statement is what counts), ranking and snippets of the search.
* On the screens: confirmation dialogs (but for the decision's) and the delay before a typed term is
  searched for (an action begins when it has passed), fields of the dialogs,
  the members screen's retry, the list of the bell with the count that comes with
  it (the badge is set by it as by the count at the connection), the dashboard. A star's `pending` guard for a row that left the
  list and came back. On a document's page, a colleague's changes of status and
  trashing; picking a new tag a second time.
* Time: backoff, retention, the stalled check, deadlines and the leeway happen at
  some later moment.
* Sizes, hashes, MIME rules, wording, logging.
* The components marked not_modelled in PROJECT.json.
* One hazard has no property: a reset grant is checked outside the transaction
  that spends it and spent unconditionally (`auth/auth.service.ts:434`), so two
  resets race with one grant. RefreshTokens has the race; what the second one
  overwrites is the password of the same user's choice.

## 8. Plan

Done: every component of the server that changes state together with another,
and the screens that keep what they were given. Next:

1. A proof of `OwnWorkShows`, the last safety property of the runs without one.
2. An ambiguous-commit fault for the lifecycle.
3. Whether a reset grant may be spent twice (section 7), once the repository says
   what it should promise.
