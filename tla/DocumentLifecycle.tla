------------------------- MODULE DocumentLifecycle -------------------------
(***************************************************************************)
(* The life of one document: the requests that upload it, add and revert   *)
(* versions, reprocess, trash, restore, archive and unarchive it, and the  *)
(* background run that extracts and analyses its text.                     *)
(*                                                                         *)
(* A request is a process that performs one operation.  Every await in the *)
(* source that reaches PostgreSQL, MinIO or Redis is a step of its own, so *)
(* two requests, or a request and the worker, interleave between a check   *)
(* and the write it was meant to protect.  Documents share no state, so    *)
(* one is enough.  A bulk operation reads and writes each selected document*)
(* as the single operation does, by the same rules.                        *)
(*                                                                         *)
(* A storage key is minted per request (a random UUID), so a key is named  *)
(* by the request that minted it, and the bytes a request uploads too.     *)
(***************************************************************************)
EXTENDS ProcessingQueue, FiniteSetsExt

CONSTANTS
  Requests,      \* the requests made over the behaviour, one operation each
  Workers,       \* worker slots, QUEUE_CONCURRENCY of them
  Operations,    \* the operations the requests may perform
  MaxFaults,     \* bound on thrown errors, lost processes and refused calls
  Nothing        \* no key, no bytes, no text

AllOperations == {"upload", "addVersion", "revert", "reprocess",
                  "remove", "restore", "archive", "unarchive"}

ASSUME OperationsAssumption == Operations \subseteq AllOperations
ASSUME MaxFaultsAssumption == MaxFaults \in Nat
ASSUME NothingAssumption == Nothing \notin Requests

VARIABLES
  doc,        \* the documents row with its document_metadata row
  versions,   \* the document_versions rows
  objects,    \* the MinIO bucket: the bytes stored under each key
  run,        \* what each worker slot is doing
  req,        \* where each request is, and what it has read
  faults      \* faults so far, at most MaxFaults

vars == <<job, doc, versions, objects, run, req, faults>>

-----------------------------------------------------------------------------
(* State.                                                                   *)

Status == {"NONE", "UPLOADING", "PROCESSING", "OCR", "AI_ANALYSIS",
           "READY", "ARCHIVED", "DELETED"}
Stage == {"PENDING", "QUEUED", "RUNNING", "DONE", "FAILED", "SKIPPED"}

Key == Requests \cup {Nothing}

\* text and summary name the bytes the extracted text and the summary came from.
Document == [status : Status, deleted : BOOLEAN, key : Key, text : Key,
             summary : Key, ocr : Stage, ai : Stage]

Version == [number : Nat, key : Requests]

RequestSteps == {"idle", "put", "forget", "txread", "commit", "unwind",
                 "write", "enqueue", "done"}

\* source is the key whose bytes the request stores, number the version
\* number its transaction will write.
Request == [op : AllOperations \cup {"none"}, at : RequestSteps,
            source : Key, number : Nat]

RunSteps == {"idle", "read", "start", "ocr", "extract", "text", "analyse",
             "summarise", "aifailed", "skip", "ready", "tail"}

\* key is the snapshot of the storage key; outcome and text the extraction.
Run == [at : RunSteps, key : Key, outcome : Stage, text : Key]

NoRun == [at |-> "idle", key |-> Nothing, outcome |-> "PENDING",
          text |-> Nothing]

TypeOK ==
  /\ job \in Job
  /\ doc \in Document
  /\ versions \subseteq Version
  /\ objects \in [Requests -> Key]
  /\ run \in [Workers -> Run]
  /\ req \in [Requests -> Request]
  /\ faults \in 0..MaxFaults

Init ==
  /\ job = NoJob
  /\ doc = [status |-> "NONE", deleted |-> FALSE, key |-> Nothing,
            text |-> Nothing, summary |-> Nothing,
            ocr |-> "PENDING", ai |-> "PENDING"]
  /\ versions = {}
  /\ objects = [k \in Requests |-> Nothing]
  /\ run = [w \in Workers |-> NoRun]
  /\ req = [r \in Requests |->
              [op |-> "none", at |-> "idle", source |-> Nothing, number |-> 0]]
  /\ faults = 0

-----------------------------------------------------------------------------
(* The eligibility rules of document-rules.ts and of the assert helpers.    *)

InFlight == {"PROCESSING", "OCR", "AI_ANALYSIS"}

Active == doc.status # "NONE" /\ ~doc.deleted      \* mustFindActive
Writable == doc.status # "ARCHIVED"                \* assertWritable
NotInFlight == doc.status \notin InFlight          \* assertNotInFlight

LatestNumber == Max({v.number : v \in versions} \cup {0})

Live(w) == run[w].at # "idle"
Locked == job.state = "active" /\ \E w \in Workers : Live(w)

-----------------------------------------------------------------------------
(* The first step of each operation: the read, and the checks on what it    *)
(* returned.  A refused request changes nothing and is not a step.          *)

Begin(r, op, next, source) ==
  /\ op \in Operations
  /\ req[r].at = "idle"
  /\ req' = [req EXCEPT ![r] = [op |-> op, at |-> next, source |-> source,
                                number |-> IF op = "upload" THEN 1 ELSE 0]]

\* upload: the row is created at UPLOADING, naming the key before it holds bytes.
BeginUpload(r) ==
  /\ doc.status = "NONE"
  /\ Begin(r, "upload", "put", r)
  /\ doc' = [doc EXCEPT !.status = "UPLOADING", !.key = r]
  /\ UNCHANGED <<job, versions, objects, run, faults>>

BeginAddVersion(r) ==
  /\ Active /\ Writable /\ NotInFlight
  /\ Begin(r, "addVersion", "put", r)
  /\ UNCHANGED <<job, doc, versions, objects, run, faults>>

BeginRevert(r) ==
  /\ Active /\ Writable /\ NotInFlight
  /\ \E v \in versions : Begin(r, "revert", "put", v.key)
  /\ UNCHANGED <<job, doc, versions, objects, run, faults>>

MayReprocess == Active /\ Writable /\ NotInFlight

BeginReprocess(r) ==
  /\ MayReprocess
  /\ Begin(r, "reprocess", "forget", Nothing)
  /\ UNCHANGED <<job, doc, versions, objects, run, faults>>

BeginRemove(r) ==
  /\ Active
  /\ Begin(r, "remove", "write", Nothing)
  /\ UNCHANGED <<job, doc, versions, objects, run, faults>>

BeginRestore(r) ==
  /\ doc.deleted
  /\ Begin(r, "restore", "write", Nothing)
  /\ UNCHANGED <<job, doc, versions, objects, run, faults>>

BeginArchive(r) ==
  /\ Active /\ Writable /\ NotInFlight
  /\ Begin(r, "archive", "write", Nothing)
  /\ UNCHANGED <<job, doc, versions, objects, run, faults>>

BeginUnarchive(r) ==
  /\ Active /\ ~Writable
  /\ Begin(r, "unarchive", "write", Nothing)
  /\ UNCHANGED <<job, doc, versions, objects, run, faults>>

-----------------------------------------------------------------------------
(* The later steps of a request.                                            *)

Goto(r, next) == req' = [req EXCEPT ![r].at = next]

\* putFile stores the uploaded file, copyObject the bytes of an older version.
Bytes(r) ==
  IF req[r].op = "revert" THEN objects[req[r].source] ELSE req[r].source

ObjectsAfterPut(r) == [objects EXCEPT ![r] = Bytes(r)]

PutObject(r) ==
  /\ req[r].at = "put"
  /\ Bytes(r) # Nothing
  /\ objects' = ObjectsAfterPut(r)
  /\ Goto(r, IF req[r].op = "upload" THEN "commit" ELSE "forget")
  /\ UNCHANGED <<job, doc, versions, run, faults>>

AfterForget(r) == IF req[r].op = "reprocess" THEN "write" ELSE "txread"

ForgetJob(r) ==
  /\ req[r].at = "forget"
  /\ Forget(Locked)
  /\ Goto(r, AfterForget(r))
  /\ UNCHANGED <<doc, versions, objects, run, faults>>

\* The read inside replaceCurrentBytes takes no lock: another transaction may
\* commit before this one writes.
ReadLatestNumber(r) ==
  /\ req[r].at = "txread"
  /\ req' = [req EXCEPT ![r].at = "commit", ![r].number = LatestNumber + 1]
  /\ UNCHANGED <<job, doc, versions, objects, run, faults>>

\* Mutant: the constraint below was never migrated.
AnyNumber(r) == FALSE

\* @@unique([documentId, versionNumber])
NumberTaken(r) == \E v \in versions : v.number = req[r].number

\* Mutant: the document keeps serving its old key beside the new version row.
RowAfterCommitKeepsKey(r) ==
  [doc EXCEPT !.status = "PROCESSING", !.ocr = "QUEUED", !.ai = "PENDING"]

\* upload only moves the status on; replaceCurrentBytes repoints the row.
RowAfterCommit(r) ==
  IF req[r].op = "upload"
  THEN [doc EXCEPT !.status = "PROCESSING"]
  ELSE [doc EXCEPT !.status = "PROCESSING", !.key = r,
                   !.ocr = "QUEUED", !.ai = "PENDING"]

\* The transaction: the row update, the version row and the audit entry.
Commit(r) ==
  /\ req[r].at = "commit"
  /\ ~NumberTaken(r)
  /\ doc' = RowAfterCommit(r)
  /\ versions' = versions \cup {[number |-> req[r].number, key |-> r]}
  /\ Goto(r, "enqueue")
  /\ UNCHANGED <<job, objects, run, faults>>

\* Mutant: the request tries the same version number again.
RetrySameNumber(r) == "commit"

\* Where a transaction that threw leaves the request: addVersion and
\* revertToVersion take their object back, upload has nothing to unwind.
AfterRollback(r) == IF req[r].op = "upload" THEN "done" ELSE "unwind"

\* P2002: another transaction wrote this version number first.
CommitRefused(r) ==
  /\ req[r].at = "commit"
  /\ NumberTaken(r)
  /\ Goto(r, AfterRollback(r))
  /\ UNCHANGED <<job, doc, versions, objects, run, faults>>

\* Mutant: the losing request leaves its object in the bucket.
UnwindNothing(r) ==
  /\ req[r].at = "unwind"
  /\ Goto(r, "done")
  /\ UNCHANGED <<job, doc, versions, objects, run, faults>>

\* removeQuietly
Unwind(r) ==
  /\ req[r].at = "unwind"
  /\ objects' = [objects EXCEPT ![r] = Nothing]
  /\ Goto(r, "done")
  /\ UNCHANGED <<job, doc, versions, run, faults>>

\* Mutant: the job there was is cleared after the new one is added, which goes too.
EnqueueThenForget(r) ==
  /\ req[r].at = "enqueue"
  /\ IF req[r].op = "upload" THEN Enqueue ELSE Forget(Locked)
  /\ Goto(r, "done")
  /\ UNCHANGED <<doc, versions, objects, run, faults>>

EnqueueJob(r) ==
  /\ req[r].at = "enqueue"
  /\ Enqueue
  /\ Goto(r, "done")
  /\ UNCHANGED <<doc, versions, objects, run, faults>>

\* The writes below are unconditional: each one names the row by id alone and
\* trusts the read that came before it.
Write(r, op, row, next) ==
  /\ req[r].at = "write"
  /\ req[r].op = op
  /\ doc' = row
  /\ Goto(r, next)
  /\ UNCHANGED <<job, versions, objects, run, faults>>

WriteReprocess(r) ==
  Write(r, "reprocess", [doc EXCEPT !.status = "PROCESSING",
                                    !.ocr = "QUEUED", !.ai = "PENDING"], "enqueue")

WriteRemove(r) ==
  Write(r, "remove", [doc EXCEPT !.deleted = TRUE, !.status = "DELETED"], "done")

WriteRestore(r) ==
  Write(r, "restore", [doc EXCEPT !.deleted = FALSE, !.status = "READY"], "done")

WriteArchive(r) ==
  Write(r, "archive", [doc EXCEPT !.status = "ARCHIVED"], "done")

WriteUnarchive(r) ==
  Write(r, "unarchive", [doc EXCEPT !.status = "READY"], "done")

Working(r) == req[r].at \notin {"idle", "done"}

\* Mutant: the handler around the transaction encloses the enqueue as well.
AfterThrowUnwindingEnqueue(r) ==
  CASE req[r].at = "forget" -> AfterForget(r)
    [] req[r].at \in {"txread", "commit", "enqueue"} -> AfterRollback(r)
    [] OTHER -> "done"

\* forget and removeQuietly swallow an error, a failed transaction is unwound,
\* a refused enqueue ends the request and so does every other error.
AfterThrow(r) ==
  CASE req[r].at = "forget" -> AfterForget(r)
    [] req[r].at \in {"txread", "commit"} -> AfterRollback(r)
    [] OTHER -> "done"

\* A call of the request throws: storage, database or Redis was unavailable.
RequestThrows(r) ==
  /\ Working(r)
  /\ faults < MaxFaults
  /\ faults' = faults + 1
  /\ Goto(r, AfterThrow(r))
  /\ UNCHANGED <<job, doc, versions, objects, run>>

\* The process serving the request is killed: nothing after this await runs.
RequestLost(r) ==
  /\ Working(r)
  /\ faults < MaxFaults
  /\ faults' = faults + 1
  /\ Goto(r, "done")
  /\ UNCHANGED <<job, doc, versions, objects, run>>

RequestContinues(r) ==
  \/ PutObject(r) \/ ForgetJob(r) \/ ReadLatestNumber(r)
  \/ Commit(r) \/ CommitRefused(r) \/ Unwind(r) \/ EnqueueJob(r)
  \/ WriteReprocess(r) \/ WriteRemove(r) \/ WriteRestore(r)
  \/ WriteArchive(r) \/ WriteUnarchive(r)

RequestBegins(r) ==
  \/ BeginUpload(r) \/ BeginAddVersion(r) \/ BeginRevert(r)
  \/ BeginReprocess(r) \/ BeginRemove(r) \/ BeginRestore(r)
  \/ BeginArchive(r) \/ BeginUnarchive(r)

RequestStep(r) ==
  RequestBegins(r) \/ RequestContinues(r) \/ RequestThrows(r) \/ RequestLost(r)

-----------------------------------------------------------------------------
(* The processing run.                                                      *)

RunGoto(w, next) == run' = [run EXCEPT ![w].at = next]

\* The row an advance() writes: the status, and a stage where the call names one.
AdvancedRow(step) ==
  CASE step = "start"   -> [doc EXCEPT !.status = "PROCESSING", !.ocr = "RUNNING"]
    [] step = "ocr"     -> [doc EXCEPT !.status = "OCR"]
    [] step = "analyse" -> [doc EXCEPT !.status = "AI_ANALYSIS", !.ai = "RUNNING"]
    [] step = "ready"   -> [doc EXCEPT !.status = "READY"]
    [] OTHER            -> doc

\* A step of the run that writes the row and goes on.
WriteRow(w, from, next, row) ==
  /\ run[w].at = from
  /\ doc' = row
  /\ RunGoto(w, next)
  /\ UNCHANGED <<job, versions, objects, req, faults>>

TakeJob(w) ==
  /\ run[w].at = "idle"
  /\ Take
  /\ RunGoto(w, "read")
  /\ UNCHANGED <<doc, versions, objects, req, faults>>

\* The row is read once, and its storage key is what the whole run works on.
ReadDocument(w) ==
  /\ run[w].at = "read"
  /\ Active
  /\ run' = [run EXCEPT ![w].at = "start", ![w].key = doc.key]
  /\ UNCHANGED <<job, doc, versions, objects, req, faults>>

\* A document deleted before pickup: nothing to do, and the job completes.
SkipDeleted(w) ==
  /\ run[w].at = "read"
  /\ ~Active
  /\ Complete
  /\ run' = [run EXCEPT ![w] = NoRun]
  /\ UNCHANGED <<doc, versions, objects, req, faults>>

\* advance() is unconditional, whatever the row has become since the run began.
Advance(w, from, next) == WriteRow(w, from, next, AdvancedRow(from))

AdvanceProcessing(w) == Advance(w, "start", "ocr")

AdvanceOcr(w) == Advance(w, "ocr", "extract")

Extracted(w, outcome, text) ==
  /\ run' = [run EXCEPT ![w].at = "text", ![w].outcome = outcome, ![w].text = text]
  /\ UNCHANGED <<job, doc, versions, objects, req, faults>>

\* getBuffer and extract: text, a file in which none was found (or none was
\* looked for), or an error that is kept for the document's ocrError.  An object
\* that is not there is an error.
Extract(w) ==
  /\ run[w].at = "extract"
  /\ \/ /\ objects[run[w].key] # Nothing
        /\ Extracted(w, "DONE", objects[run[w].key])
     \/ /\ objects[run[w].key] # Nothing
        /\ \E outcome \in {"DONE", "SKIPPED"} : Extracted(w, outcome, Nothing)
     \/ Extracted(w, "FAILED", Nothing)

WriteText(w) ==
  WriteRow(w, "text", IF run[w].text # Nothing THEN "analyse" ELSE "skip",
           [doc EXCEPT !.text = run[w].text, !.ocr = run[w].outcome])

AdvanceAnalysis(w) == Advance(w, "analyse", "summarise")

\* The provider answers, the summary is written and the embedding after it;
\* an error of either write, or of the provider, goes to the same handler.
Summarise(w) ==
  \E next \in {"ready", "aifailed"} :
     WriteRow(w, "summarise", next,
              [doc EXCEPT !.summary = run[w].text, !.ai = "DONE"])

SummariseFails(w) == WriteRow(w, "summarise", "aifailed", doc)

WriteAnalysisFailed(w) ==
  WriteRow(w, "aifailed", "ready", [doc EXCEPT !.ai = "FAILED"])

\* Without text the stage is SKIPPED; an older summary stays in the row.
WriteAnalysisSkipped(w) ==
  WriteRow(w, "skip", "ready", [doc EXCEPT !.ai = "SKIPPED"])

AdvanceReady(w) == Advance(w, "ready", "tail")

\* The audit entry, the owner's notification and its event are behind the run.
FinishRun(w) ==
  /\ run[w].at = "tail"
  /\ Complete
  /\ run' = [run EXCEPT ![w] = NoRun]
  /\ UNCHANGED <<doc, versions, objects, req, faults>>

\* A database call of the run throws; an advance() may have written its row by
\* then.  Only the advance to OCR sits inside a try: its error is recorded as a
\* failed extraction and the run goes on.
RunThrows(w) ==
  /\ run[w].at \notin {"idle", "extract", "summarise"}
  /\ faults < MaxFaults
  /\ faults' = faults + 1
  /\ \/ /\ run[w].at = "ocr"
        /\ run' = [run EXCEPT ![w].at = "text", ![w].outcome = "FAILED"]
        /\ UNCHANGED job
     \/ /\ run[w].at # "ocr"
        /\ run' = [run EXCEPT ![w] = NoRun]
        /\ Fail
  /\ doc' \in {doc, AdvancedRow(run[w].at)}
  /\ UNCHANGED <<versions, objects, req>>

\* The worker's process is killed; the job stays active in Redis.
RunLost(w) ==
  /\ Live(w)
  /\ faults < MaxFaults
  /\ faults' = faults + 1
  /\ run' = [run EXCEPT ![w] = NoRun]
  /\ UNCHANGED <<job, doc, versions, objects, req>>

StalledCheck ==
  /\ ~Locked
  /\ Stall
  /\ UNCHANGED <<doc, versions, objects, run, req, faults>>

ExpireJob ==
  /\ Expire
  /\ UNCHANGED <<doc, versions, objects, run, req, faults>>

RunContinues(w) ==
  \/ TakeJob(w) \/ ReadDocument(w) \/ SkipDeleted(w)
  \/ AdvanceProcessing(w) \/ AdvanceOcr(w) \/ Extract(w) \/ WriteText(w)
  \/ AdvanceAnalysis(w) \/ Summarise(w) \/ SummariseFails(w)
  \/ WriteAnalysisFailed(w) \/ WriteAnalysisSkipped(w)
  \/ AdvanceReady(w) \/ FinishRun(w)

-----------------------------------------------------------------------------

RunStep(w) == RunContinues(w) \/ RunThrows(w) \/ RunLost(w)

Next ==
  \/ \E r \in Requests : RequestStep(r)
  \/ \E w \in Workers : RunStep(w)
  \/ StalledCheck
  \/ ExpireJob

Spec == Init /\ [][Next]_vars

-----------------------------------------------------------------------------
(* Properties.                                                              *)

\* The version numbers are 1..n without a gap, no two rows share a number or
\* a key (documents.service.ts, replaceCurrentBytes; @@unique in the schema).
HistoryContiguous ==
  /\ {v.number : v \in versions} = 1..LatestNumber
  /\ \A u, v \in versions : u.number = v.number \/ u.key = v.key => u = v

\* Whatever races, the document serves the bytes of its newest version.
CurrentIsLatest ==
  versions # {} => [number |-> LatestNumber, key |-> doc.key] \in versions

\* No version row points at bytes that are not there: an object is stored
\* before the transaction names it, and only a rolled-back one is removed.
VersionsHaveBytes == \A v \in versions : objects[v.key] # Nothing

\* History is never rewritten: a version row stays, and its bytes stay as they
\* were, whatever later uploads, reverts, trips through the trash or faults do.
HistoryAppendOnly ==
  [][/\ versions \subseteq versions'
     /\ \A v \in versions : objects'[v.key] = objects[v.key]]_vars

\* "Two runs on one metadata row interleave" (assertNotInFlight): the job id
\* and the lock keep it to one, even when the eligibility checks are outrun.
AtMostOneRun ==
  \A w1, w2 \in Workers : Live(w1) /\ Live(w2) => w1 = w2

\* An object no row names belongs to a request still at work, to an upload
\* that lost its version number to a concurrent addVersion, or to a fault.
OrphansExplained ==
  \A k \in Requests :
     objects[k] # Nothing /\ doc.key # k /\ (\A v \in versions : v.key # k)
       => Working(k) \/ req[k].op = "upload" \/ faults > 0

-----------------------------------------------------------------------------
(* Liveness, under the fairness DocumentAnalysis states.  What becomes of   *)
(* an accepted job is stated there too.                                     *)

\* Every request comes to an end: no step of a handler waits for another
\* request, and losing a version number is an answer, not a retry.
RequestsFinish == \A r \in Requests : Working(r) ~> ~Working(r)

-----------------------------------------------------------------------------
(* The refinement: version n of the history is the object of row n.         *)

KeyOf(n) == (CHOOSE v \in versions : v.number = n).key

History == [n \in 1..LatestNumber |-> objects[KeyOf(n)]]

Served == IF versions = {} THEN Nothing ELSE objects[doc.key]

VH == INSTANCE VersionHistory
        WITH Contents <- Requests, None <- Nothing,
             history <- History, served <- Served

\* Requests racing at every await, rollbacks and faults included, implement
\* the append-only history with its newest entry served.
ImplementsVersionHistory == VH!HistorySpec

-----------------------------------------------------------------------------
(* What the comments of the repository say of the pipeline, as formulas.    *)

\* "it stays at PROCESSING and can be reprocessed" (the producer's comment):
\* a document in flight with no job and no request at work is eligible.
StrandedIsReprocessable ==
  Active /\ ~NotInFlight /\ job.state \notin {"waiting", "active"}
         /\ (\A r \in Requests : ~Working(r))
    => MayReprocess

\* Refusing to archive mid-pipeline is there so that no run un-archives a
\* document (the comment in archive): only a request takes it out again.
RunNeverUnarchives ==
  [][doc.status = "ARCHIVED" /\ doc'.status # "ARCHIVED" => run' = run]_vars

\* "Only READY is safe to serve", and no failure "can leave a row pointing at
\* bytes that are not there" (the comment on upload).
ReadyHasBytes == doc.status = "READY" => objects[doc.key] # Nothing

\* Adding a version resets both steps because "the previous run's summary and
\* extracted text describe a file that is no longer being served".
ReadySummaryIsCurrent ==
  doc.status = "READY" => doc.summary \in {Nothing, objects[doc.key]}

=============================================================================
