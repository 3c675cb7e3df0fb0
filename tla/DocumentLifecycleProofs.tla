---------------------- MODULE DocumentLifecycleProofs ----------------------
(***************************************************************************)
(* Theorems about DocumentLifecycle, for any set of requests, any number   *)
(* of workers, any selection of operations and any bound on faults; the    *)
(* last is that it implements VersionHistory: whatever the requests, the   *)
(* worker, errors and crashes do, what a client can download is an         *)
(* append-only history with its newest entry served.                       *)
(***************************************************************************)
EXTENDS DocumentLifecycle, Sequences, TLAPS

-----------------------------------------------------------------------------
(* The job and the runs.                                                    *)

\* A run is live only while its job is active, only one run is, and a job
\* that may still be handed out has attempts left.
WorkerInv ==
  /\ \A w \in Workers : Live(w) => job.state = "active"
  /\ AtMostOneRun
  /\ job.state \in {"waiting", "active"} => job.failures < Attempts

\* Before the upload creates the row nothing happens: no request has begun and
\* the queue has no job.
UnbornInv ==
  doc.status = "NONE" => /\ job.state = "none"
                         /\ ~doc.deleted
                         /\ \A r \in Requests : req[r].at = "idle"

\* The keys that steps look up in the bucket have been minted: the row's, the
\* one a revert copies from, and the snapshot a run extracts.
KeysInv ==
  /\ doc.status # "NONE" => doc.key \in Requests
  /\ \A r \in Requests : req[r].op = "revert" => req[r].source \in Requests
  /\ \A w \in Workers :
        run[w].at \in {"start", "ocr", "extract"} => run[w].key \in Requests

-----------------------------------------------------------------------------
(* What a step leaves alone.                                                *)

LEMMA RequestFrame ==
  ASSUME NEW r \in Requests, RequestStep(r) PROVE UNCHANGED run
BY DEF RequestStep, RequestBegins, BeginUpload, BeginAddVersion, BeginRevert,
       BeginReprocess, BeginRemove, BeginRestore, BeginArchive, BeginUnarchive,
       RequestContinues, PutObject, ForgetJob, ReadLatestNumber, Commit,
       CommitRefused, Unwind, EnqueueJob, Write, WriteReprocess, WriteRemove,
       WriteRestore, WriteArchive, WriteUnarchive, RequestThrows, RequestLost

LEMMA RunFrame ==
  ASSUME NEW w \in Workers, RunStep(w) PROVE UNCHANGED <<versions, objects, req>>
BY DEF RunStep, RunContinues, TakeJob, ReadDocument, SkipDeleted, Advance, WriteRow,
       AdvanceProcessing, AdvanceOcr, Extract, Extracted, WriteText,
       AdvanceAnalysis, Summarise, SummariseFails, WriteAnalysisFailed,
       WriteAnalysisSkipped, AdvanceReady, FinishRun, RunThrows, RunLost

LEMMA QueueFrame ==
  ASSUME StalledCheck \/ ExpireJob
  PROVE  UNCHANGED <<doc, versions, objects, run, req, faults>>
BY DEF StalledCheck, ExpireJob

-----------------------------------------------------------------------------
(* Types.                                                                   *)

\* What the queue does to the job, and when: nothing but these steps.
LEMMA EnqueueType ==
  ASSUME job \in Job, Enqueue PROVE job' \in Job
BY AttemptsAssumption DEF Job, JobStates, NoJob, NewJob, Enqueue

LEMMA ForgetType ==
  ASSUME job \in Job, Forget(Locked) PROVE job' \in Job
BY AttemptsAssumption DEF Job, JobStates, NoJob, Forget

LEMMA FailType ==
  ASSUME job \in Job, job.failures < Attempts, Fail PROVE job' \in Job
<1>1. job.failures + 1 \in 0..Attempts
  BY AttemptsAssumption DEF Job
<1>2. \E s \in JobStates :
        job' = [job EXCEPT !.failures = job.failures + 1, !.state = s]
  BY DEF Fail, JobStates
<1>3. QED BY <1>1, <1>2 DEF Job

\* Each step of a request keeps the types.
LEMMA RequestType ==
  ASSUME TypeOK, KeysInv, LatestNumber \in Nat, NEW r \in Requests, RequestStep(r)
  PROVE  TypeOK'
<1> USE DEF TypeOK
<1> Nothing \in Key /\ r \in Key
  BY DEF Key
<1>begin. ASSUME NEW op \in AllOperations, NEW next \in RequestSteps,
                 NEW source \in Key, Begin(r, op, next, source)
          PROVE  req' \in [Requests -> Request]
  BY <1>begin DEF Begin, Request
<1>goto. ASSUME NEW next \in RequestSteps, Goto(r, next)
         PROVE  req' \in [Requests -> Request]
  BY <1>goto DEF Goto, Request
<1>write. ASSUME NEW op, NEW row \in Document, NEW next \in RequestSteps,
                 Write(r, op, row, next)
          PROVE  TypeOK'
  BY <1>write, <1>goto DEF Write
<1>1. CASE RequestBegins(r)
  <2> USE DEF AllOperations, RequestSteps
  <2>1. CASE BeginUpload(r)
    BY <2>1, <1>begin DEF BeginUpload, Document, Status
  <2>2. CASE BeginAddVersion(r)
    BY <2>2, <1>begin DEF BeginAddVersion
  <2>3. CASE BeginRevert(r)
    <3>1. PICK v \in versions : Begin(r, "revert", "put", v.key)
      BY <2>3 DEF BeginRevert
    <3>2. v.key \in Key
      BY DEF Version, Key
    <3>3. QED BY <2>3, <3>1, <3>2, <1>begin DEF BeginRevert
  <2>4. CASE BeginReprocess(r)
    BY <2>4, <1>begin DEF BeginReprocess
  <2>5. CASE BeginRemove(r)
    BY <2>5, <1>begin DEF BeginRemove
  <2>6. CASE BeginRestore(r)
    BY <2>6, <1>begin DEF BeginRestore
  <2>7. CASE BeginArchive(r)
    BY <2>7, <1>begin DEF BeginArchive
  <2>8. CASE BeginUnarchive(r)
    BY <2>8, <1>begin DEF BeginUnarchive
  <2>9. QED BY <1>1, <2>1, <2>2, <2>3, <2>4, <2>5, <2>6, <2>7, <2>8
             DEF RequestBegins
<1>2. CASE RequestContinues(r)
  <2> USE DEF RequestSteps
  <2>1. CASE PutObject(r)
    <3>1. Bytes(r) \in Key
      BY DEF Bytes, Request, Key, KeysInv
    <3>2. QED BY <2>1, <3>1, <1>goto DEF PutObject, ObjectsAfterPut
  <2>2. CASE ForgetJob(r)
    BY <2>2, ForgetType, <1>goto DEF ForgetJob, AfterForget
  <2>3. CASE ReadLatestNumber(r)
    <3> DEFINE arrived == [req EXCEPT ![r].at = "commit"]
    <3>1. arrived \in [Requests -> Request]
      BY DEF Request
    <3>2. req' = [arrived EXCEPT ![r].number = LatestNumber + 1]
      BY <2>3, Zenon DEF ReadLatestNumber
    <3> HIDE DEF arrived
    <3>3. req' \in [Requests -> Request]
      BY <3>1, <3>2 DEF Request
    <3>4. UNCHANGED <<job, doc, versions, objects, run, faults>>
      BY <2>3 DEF ReadLatestNumber
    <3>5. QED BY <3>3, <3>4
  <2>4. CASE Commit(r)
    <3>1. doc' \in Document
      BY <2>4 DEF Commit, RowAfterCommit, Document, Status, Stage
    <3>2. versions' \subseteq Version
      BY <2>4 DEF Commit, Version, Request
    <3>3. QED BY <2>4, <3>1, <3>2, <1>goto DEF Commit
  <2>5. CASE CommitRefused(r)
    BY <2>5, <1>goto DEF CommitRefused, AfterRollback
  <2>6. CASE Unwind(r)
    BY <2>6, <1>goto DEF Unwind
  <2>7. CASE EnqueueJob(r)
    BY <2>7, EnqueueType, <1>goto DEF EnqueueJob
  <2>8. CASE WriteReprocess(r)
    BY <2>8, <1>write DEF WriteReprocess, Document, Status, Stage
  <2>9. CASE WriteRemove(r)
    BY <2>9, <1>write DEF WriteRemove, Document, Status
  <2>10. CASE WriteRestore(r)
    BY <2>10, <1>write DEF WriteRestore, Document, Status
  <2>11. CASE WriteArchive(r)
    BY <2>11, <1>write DEF WriteArchive, Document, Status
  <2>12. CASE WriteUnarchive(r)
    BY <2>12, <1>write DEF WriteUnarchive, Document, Status
  <2>13. QED BY <1>2, <2>1, <2>2, <2>3, <2>4, <2>5, <2>6, <2>7, <2>8, <2>9,
                <2>10, <2>11, <2>12 DEF RequestContinues
<1>3. CASE RequestThrows(r)
  <2>1. AfterThrow(r) \in RequestSteps
    BY DEF AfterThrow, AfterForget, AfterRollback, RequestSteps
  <2>2. QED BY <1>3, <2>1, <1>goto, MaxFaultsAssumption DEF RequestThrows
<1>4. CASE RequestLost(r)
  BY <1>4, <1>goto, MaxFaultsAssumption DEF RequestLost, RequestSteps
<1>5. QED BY <1>1, <1>2, <1>3, <1>4 DEF RequestStep


\* Each step of a run keeps the types.  A run that throws hands its job back
\* to the queue, which needs the job to have an attempt left.
LEMMA RunType ==
  ASSUME TypeOK, WorkerInv, KeysInv, NEW w \in Workers, RunStep(w)
  PROVE  TypeOK'
<1> USE DEF TypeOK
<1> Nothing \in Key /\ NoRun \in Run
  BY DEF Key, NoRun, Run, RunSteps, Stage
<1>write. ASSUME NEW row \in Document, NEW next \in RunSteps, NEW from,
                   WriteRow(w, from, next, row)
            PROVE  TypeOK'
  BY <1>write DEF WriteRow, RunGoto, Run
<1>row. \A step \in RunSteps : AdvancedRow(step) \in Document
  BY DEF AdvancedRow, Document, Status, Stage
<1>1. CASE RunContinues(w)
  <2> USE DEF RunSteps
  <2>1. CASE TakeJob(w)
    BY <2>1 DEF TakeJob, Take, RunGoto, Run, Job, JobStates
  <2>2. CASE ReadDocument(w)
    BY <2>2 DEF ReadDocument, Run, Document
  <2>3. CASE SkipDeleted(w)
    BY <2>3 DEF SkipDeleted, Complete, Job, JobStates
  <2>4. CASE AdvanceProcessing(w)
    BY <2>4, <1>row, <1>write DEF AdvanceProcessing, Advance
  <2>5. CASE AdvanceOcr(w)
    BY <2>5, <1>row, <1>write DEF AdvanceOcr, Advance
  <2>6. CASE Extract(w)
    <3>1. ASSUME NEW outcome \in Stage, NEW text \in Key, Extracted(w, outcome, text)
          PROVE  TypeOK'
      BY <3>1 DEF Extracted, Run
    <3>2. objects[run[w].key] \in Key
      BY <2>6 DEF Extract, KeysInv
    <3>3. QED BY <2>6, <3>1, <3>2 DEF Extract, Stage
  <2>7. CASE WriteText(w)
    <3>1. [doc EXCEPT !.text = run[w].text, !.ocr = run[w].outcome] \in Document
      BY DEF Document, Run
    <3>2. QED BY <2>7, <3>1, <1>write DEF WriteText
  <2>8. CASE AdvanceAnalysis(w)
    BY <2>8, <1>row, <1>write DEF AdvanceAnalysis, Advance
  <2>9. CASE Summarise(w)
    <3>1. [doc EXCEPT !.summary = run[w].text, !.ai = "DONE"] \in Document
      BY DEF Document, Run, Stage
    <3>2. PICK next \in {"ready", "aifailed"} :
            WriteRow(w, "summarise", next, [doc EXCEPT !.summary = run[w].text, !.ai = "DONE"])
      BY <2>9 DEF Summarise
    <3>3. QED BY <3>1, <3>2, <1>write
  <2>10. CASE SummariseFails(w)
    BY <2>10, <1>write DEF SummariseFails
  <2>11. CASE WriteAnalysisFailed(w)
    BY <2>11, <1>write DEF WriteAnalysisFailed, Document, Stage
  <2>12. CASE WriteAnalysisSkipped(w)
    BY <2>12, <1>write DEF WriteAnalysisSkipped, Document, Stage
  <2>13. CASE AdvanceReady(w)
    BY <2>13, <1>row, <1>write DEF AdvanceReady, Advance
  <2>14. CASE FinishRun(w)
    BY <2>14 DEF FinishRun, Complete, Job, JobStates
  <2>15. QED BY <1>1, <2>1, <2>2, <2>3, <2>4, <2>5, <2>6, <2>7, <2>8, <2>9,
                <2>10, <2>11, <2>12, <2>13, <2>14 DEF RunContinues
<1>2. CASE RunThrows(w)
  <2>1. faults' \in 0..MaxFaults
    BY <1>2, MaxFaultsAssumption DEF RunThrows
  <2>2. run' \in [Workers -> Run]
    BY <1>2 DEF RunThrows, Run, RunSteps, Stage
  <2> doc' \in Document
    BY <1>2, <1>row DEF RunThrows, Run
  <2>3. CASE UNCHANGED job
    BY <1>2, <2>1, <2>2, <2>3 DEF RunThrows
  <2>4. CASE Fail
    <3>1. job.failures < Attempts
      BY <1>2 DEF WorkerInv, RunThrows, Live
    <3>2. QED BY <1>2, <2>1, <2>2, <2>4, <3>1, FailType DEF RunThrows
  <2>5. QED BY <1>2, <2>3, <2>4 DEF RunThrows
<1>3. CASE RunLost(w)
  BY <1>3, MaxFaultsAssumption DEF RunLost
<1>4. QED BY <1>1, <1>2, <1>3 DEF RunStep

\* The steps the queue takes on its own.
LEMMA QueueType ==
  ASSUME TypeOK, StalledCheck \/ ExpireJob PROVE TypeOK'
<1>1. CASE StalledCheck
  <2>1. \/ job' = [job EXCEPT !.state = "waiting", !.stalls = 1]
        \/ job' = [job EXCEPT !.state = "failed"]
    BY <1>1 DEF StalledCheck, Stall
  <2>2. job' \in Job
    <3>1. job \in Job /\ 1 \in 0..1
      BY DEF TypeOK
    <3>2. QED BY <2>1, <3>1 DEF Job, JobStates
  <2>3. QED BY <1>1, <2>2 DEF TypeOK, StalledCheck
<1>2. CASE ExpireJob
  BY <1>2, AttemptsAssumption
     DEF TypeOK, ExpireJob, Expire, NoJob, Job, JobStates
<1>3. QED BY <1>1, <1>2

\* The worker's part of the invariant depends on nothing but the job and on
\* which runs are live.
LEMMA WorkerUnchanged ==
  ASSUME WorkerInv, UNCHANGED job,
         \A w \in Workers : run'[w].at # "idle" => run[w].at # "idle"
  PROVE  WorkerInv'
BY DEF WorkerInv, AtMostOneRun, Live

\* While no run is live, the job may become anything that has attempts left.
LEMMA WorkerIdle ==
  ASSUME \A w \in Workers : run'[w].at = "idle",
         job'.state \in {"waiting", "active"} => job'.failures < Attempts
  PROVE  WorkerInv'
BY DEF WorkerInv, AtMostOneRun, Live

\* Each step of a request keeps the worker's part: enqueue touches no
\* existing job, and forget is refused for the job of a live run.
LEMMA RequestWorker ==
  ASSUME TypeOK, WorkerInv, NEW r \in Requests, RequestStep(r)
  PROVE  WorkerInv'
<1>1. run' = run
  BY RequestFrame
<1>2. CASE EnqueueJob(r)
  <2>1. CASE job.state = "none"
    BY <1>1, <1>2, <2>1, AttemptsAssumption, WorkerIdle
       DEF EnqueueJob, Enqueue, NewJob, WorkerInv, Live
  <2>2. CASE job.state # "none"
    BY <1>1, <1>2, <2>2, WorkerUnchanged DEF EnqueueJob, Enqueue
  <2>3. QED BY <2>1, <2>2
<1>3. CASE ForgetJob(r)
  <2>1. CASE UNCHANGED job
    BY <1>1, <2>1, WorkerUnchanged
  <2>2. CASE ~Locked /\ job' = NoJob
    BY <1>1, <2>2, WorkerIdle DEF Locked, Live, NoJob, WorkerInv
  <2>3. QED BY <1>3, <2>1, <2>2 DEF ForgetJob, Forget
<1>4. CASE ~EnqueueJob(r) /\ ~ForgetJob(r)
  <2>1. UNCHANGED job
    BY <1>4
       DEF RequestStep, RequestBegins, BeginUpload, BeginAddVersion,
           BeginRevert, BeginReprocess, BeginRemove, BeginRestore,
           BeginArchive, BeginUnarchive, RequestContinues, PutObject, ReadLatestNumber,
           Commit, CommitRefused, Unwind, Write, WriteReprocess, WriteRemove,
           WriteRestore, WriteArchive, WriteUnarchive, RequestThrows,
           RequestLost
  <2>2. QED BY <1>1, <2>1, WorkerUnchanged
<1>5. QED BY <1>2, <1>3, <1>4

\* Each step of a run keeps the worker's part: only an idle slot takes a
\* waiting job, and a run gives its job up in the step it ends with.
LEMMA RunWorker ==
  ASSUME TypeOK, WorkerInv, NEW w \in Workers, RunStep(w)
  PROVE  WorkerInv'
<1> USE DEF TypeOK
<1>live. ASSUME Live(w) PROVE \A v \in Workers : v # w => run[v].at = "idle"
  BY <1>live DEF WorkerInv, AtMostOneRun, Live
<1>ends. ASSUME run' = [run EXCEPT ![w] = NoRun], Live(w)
         PROVE  \A v \in Workers : run'[v].at = "idle"
  BY <1>ends, <1>live DEF NoRun
<1>write. ASSUME NEW row, NEW next, NEW from, from # "idle",
                   WriteRow(w, from, next, row)
            PROVE  WorkerInv'
  BY <1>write, WorkerUnchanged DEF WriteRow, RunGoto
<1>1. CASE TakeJob(w)
  <2>1. \A v \in Workers : run[v].at = "idle"
    BY <1>1 DEF TakeJob, Take, WorkerInv, Live
  <2>2. \A v \in Workers : v # w => run'[v].at = "idle"
    BY <1>1, <2>1 DEF TakeJob, RunGoto
  <2>3. job'.state = "active" /\ job'.failures < Attempts
    BY <1>1 DEF TakeJob, Take, WorkerInv, Job
  <2>4. QED BY <2>2, <2>3 DEF WorkerInv, AtMostOneRun, Live
<1>2. CASE ReadDocument(w)
  BY <1>2, WorkerUnchanged DEF ReadDocument
<1>3. CASE SkipDeleted(w) \/ FinishRun(w)
  <2>1. \A v \in Workers : run'[v].at = "idle"
    BY <1>3, <1>ends DEF SkipDeleted, FinishRun, Live
  <2>2. job'.state = "completed"
    BY <1>3 DEF SkipDeleted, FinishRun, Complete, Job
  <2>3. QED BY <2>1, <2>2, WorkerIdle
<1>4. CASE Extract(w)
  BY <1>4, WorkerUnchanged DEF Extract, Extracted
<1>5. CASE \/ AdvanceProcessing(w) \/ AdvanceOcr(w) \/ WriteText(w)
           \/ AdvanceAnalysis(w) \/ Summarise(w) \/ SummariseFails(w)
           \/ WriteAnalysisFailed(w) \/ WriteAnalysisSkipped(w) \/ AdvanceReady(w)
  BY <1>5, <1>write
     DEF Advance, AdvanceProcessing, AdvanceOcr, WriteText, AdvanceAnalysis, Summarise,
         SummariseFails, WriteAnalysisFailed, WriteAnalysisSkipped, AdvanceReady
<1>6. CASE RunThrows(w)
  <2>1. CASE run[w].at = "ocr"
    BY <1>6, <2>1, WorkerUnchanged DEF RunThrows
  <2>2. CASE run[w].at # "ocr"
    <3>1. \A v \in Workers : run'[v].at = "idle"
      BY <1>6, <2>2, <1>ends DEF RunThrows, Live
    <3>2. job'.state \in {"waiting", "active"} => job'.failures < Attempts
      BY <1>6, <2>2 DEF RunThrows, Fail, Job
    <3>3. QED BY <3>1, <3>2, WorkerIdle
  <2>3. QED BY <2>1, <2>2
<1>7. CASE RunLost(w)
  BY <1>7, WorkerUnchanged DEF RunLost, NoRun
<1>8. QED BY <1>1, <1>2, <1>3, <1>4, <1>5, <1>6, <1>7
           DEF RunStep, RunContinues

\* The stalled check finds no live run, and a finished job has none.
LEMMA QueueWorker ==
  ASSUME TypeOK, WorkerInv, StalledCheck \/ ExpireJob PROVE WorkerInv'
<1>1. CASE StalledCheck
  <2>1. \A w \in Workers : run'[w].at = "idle"
    BY <1>1 DEF StalledCheck, Stall, Locked, Live
  <2>2. job'.state \in {"waiting", "active"} => job'.failures < Attempts
    BY <1>1 DEF StalledCheck, Stall, WorkerInv, TypeOK, Job
  <2>3. QED BY <2>1, <2>2, WorkerIdle
<1>2. CASE ExpireJob
  <2>1. \A w \in Workers : run'[w].at = "idle"
    BY <1>2 DEF ExpireJob, Expire, WorkerInv, Live
  <2>2. QED BY <1>2, <2>1, WorkerIdle DEF ExpireJob, Expire, NoJob
<1>3. QED BY <1>1, <1>2

-----------------------------------------------------------------------------
(* The row and the keys.                                                    *)

\* Every step but the creation of the row needs the row to exist already.
LEMMA BornFirst ==
  ASSUME TypeOK, WorkerInv, UnbornInv, Next, doc.status = "NONE"
  PROVE  \E r \in Requests : BeginUpload(r)
<1>1. \A r \in Requests : ~Working(r)
  BY DEF UnbornInv, Working
<1>2. \A w \in Workers : ~Live(w)
  BY DEF UnbornInv, WorkerInv
<1>3. ASSUME NEW r \in Requests PROVE ~RequestContinues(r)
  BY <1>1 DEF Working, RequestContinues, PutObject, ForgetJob,
         ReadLatestNumber, Commit, CommitRefused, Unwind, EnqueueJob, Write,
         WriteReprocess, WriteRemove, WriteRestore, WriteArchive, WriteUnarchive
<1>4. ASSUME NEW r \in Requests PROVE ~RequestThrows(r) /\ ~RequestLost(r)
  BY <1>1 DEF RequestThrows, RequestLost
<1>5. ASSUME NEW r \in Requests, RequestBegins(r) PROVE BeginUpload(r)
  BY <1>5 DEF RequestBegins, BeginAddVersion, BeginRevert, BeginReprocess,
         MayReprocess, BeginRemove, BeginRestore, BeginArchive, BeginUnarchive,
         Active, UnbornInv
<1>6. ASSUME NEW w \in Workers PROVE ~RunContinues(w) /\ ~RunThrows(w) /\ ~RunLost(w)
  BY <1>2 DEF Live, RunContinues, TakeJob, Take, ReadDocument, SkipDeleted,
         Advance, WriteRow, AdvanceProcessing, AdvanceOcr, Extract, WriteText,
         AdvanceAnalysis, Summarise, SummariseFails, WriteAnalysisFailed,
         WriteAnalysisSkipped, AdvanceReady, FinishRun, RunThrows, RunLost,
         UnbornInv
<1>7. ~StalledCheck /\ ~ExpireJob
  BY DEF StalledCheck, Stall, ExpireJob, Expire, UnbornInv
<1>8. QED BY <1>3, <1>4, <1>5, <1>6, <1>7 DEF Next, RequestStep, RunStep

\* No step takes the row away again, and none gives it a key that is not one.
LEMMA RowStays ==
  ASSUME TypeOK, KeysInv, Next, doc.status # "NONE"
  PROVE  doc'.status # "NONE" /\ doc'.key \in Requests
<1> USE DEF TypeOK, Document, Status
<1>1. doc.key \in Requests
  BY DEF KeysInv
<1>2. CASE \E r \in Requests : RequestBegins(r)
  BY <1>1, <1>2 DEF RequestBegins, BeginUpload, BeginAddVersion, BeginRevert,
         BeginReprocess, BeginRemove, BeginRestore, BeginArchive, BeginUnarchive
<1>3. CASE \E r \in Requests : RequestContinues(r)
  BY <1>1, <1>3 DEF RequestContinues, PutObject, ForgetJob, ReadLatestNumber,
         Commit, RowAfterCommit, CommitRefused, Unwind, EnqueueJob, Write,
         WriteReprocess, WriteRemove, WriteRestore, WriteArchive, WriteUnarchive
<1>4. CASE \E r \in Requests : RequestThrows(r) \/ RequestLost(r)
  BY <1>1, <1>4 DEF RequestThrows, RequestLost
<1>row. \A step : AdvancedRow(step).status # "NONE" /\ AdvancedRow(step).key = doc.key
  BY DEF AdvancedRow
<1>5. CASE \E w \in Workers : RunContinues(w)
  BY <1>1, <1>5, <1>row DEF RunContinues, TakeJob, ReadDocument, SkipDeleted,
         Advance, WriteRow, AdvanceProcessing, AdvanceOcr, Extract, Extracted,
         WriteText, AdvanceAnalysis, Summarise, SummariseFails,
         WriteAnalysisFailed, WriteAnalysisSkipped, AdvanceReady, FinishRun
<1>6. CASE \E w \in Workers : RunThrows(w) \/ RunLost(w)
  BY <1>1, <1>6, <1>row DEF RunThrows, RunLost
<1>7. CASE StalledCheck \/ ExpireJob
  BY <1>1, <1>7, QueueFrame
<1>8. QED BY <1>2, <1>3, <1>4, <1>5, <1>6, <1>7 DEF Next, RequestStep, RunStep

LEMMA UnbornStep ==
  ASSUME TypeOK, WorkerInv, UnbornInv, KeysInv, Next PROVE UnbornInv'
<1>1. doc'.status # "NONE"
  BY BornFirst, RowStays DEF BeginUpload, TypeOK, Document
<1>2. QED BY <1>1 DEF UnbornInv

LEMMA KeysStep ==
  ASSUME TypeOK, WorkerInv, UnbornInv, KeysInv, Next PROVE KeysInv'
<1>1. doc'.key \in Requests
  BY BornFirst, RowStays DEF BeginUpload, TypeOK, Document
<1>2. ASSUME NEW r \in Requests, req'[r].op = "revert"
      PROVE  req'[r].source \in Requests
  <2>1. CASE UNCHANGED req
    BY <1>2, <2>1 DEF KeysInv
  <2>2. ASSUME NEW q \in Requests, NEW next, Goto(q, next)
        PROVE  req'[r].source \in Requests
    BY <1>2, <2>2 DEF Goto, KeysInv, TypeOK, Request
  <2>3. ASSUME NEW q \in Requests, NEW op, NEW next, NEW source, Begin(q, op, next, source),
               op = "revert" => source \in Requests
        PROVE  req'[r].source \in Requests
    BY <1>2, <2>3 DEF Begin, KeysInv, TypeOK, Request
  <2>4. CASE \E q \in Requests : RequestBegins(q)
    BY <2>4, <2>3 DEF RequestBegins, BeginUpload, BeginAddVersion, BeginRevert,
         BeginReprocess, BeginRemove, BeginRestore, BeginArchive,
         BeginUnarchive, TypeOK, Version
  <2>5. CASE \E q \in Requests : ReadLatestNumber(q)
    BY <1>2, <2>5 DEF ReadLatestNumber, KeysInv, TypeOK, Request
  <2>6. CASE \E q \in Requests : \/ RequestContinues(q) /\ ~ReadLatestNumber(q)
                                 \/ RequestThrows(q) \/ RequestLost(q)
    BY <2>6, <2>2 DEF RequestContinues, PutObject, ForgetJob, Commit,
         CommitRefused, Unwind, EnqueueJob, Write, WriteReprocess, WriteRemove,
         WriteRestore, WriteArchive, WriteUnarchive, RequestThrows, RequestLost
  <2>7. CASE \E w \in Workers : RunStep(w)
    BY <2>7, <2>1, RunFrame
  <2>8. CASE StalledCheck \/ ExpireJob
    BY <2>8, <2>1, QueueFrame
  <2>9. QED BY <2>4, <2>5, <2>6, <2>7, <2>8 DEF Next, RequestStep
<1>3. ASSUME NEW w \in Workers, run'[w].at \in {"start", "ocr", "extract"}
      PROVE  run'[w].key \in Requests
  <2>1. CASE UNCHANGED run
    BY <1>3, <2>1 DEF KeysInv
  <2>2. CASE \E v \in Workers : ReadDocument(v)
    BY <1>3, <2>2 DEF ReadDocument, Active, KeysInv, TypeOK, Run
  <2>3. CASE \E v \in Workers : run' = [run EXCEPT ![v] = NoRun]
    BY <1>3, <2>3 DEF NoRun, KeysInv, TypeOK, Run
  <2>4. ASSUME NEW v \in Workers, NEW next,
               run[v].at \in {"start", "ocr", "extract"} \/ next \notin {"start", "ocr", "extract"},
               RunGoto(v, next)
        PROVE  run'[w].key \in Requests
    BY <1>3, <2>4 DEF RunGoto, KeysInv, TypeOK, Run
  <2>5. CASE \E v \in Workers : Extract(v)
    BY <1>3, <2>5 DEF Extract, Extracted, KeysInv, TypeOK, Run
  <2>6. CASE \E v \in Workers : RunContinues(v) /\ ~ReadDocument(v) /\ ~Extract(v)
    BY <2>6, <2>3, <2>4 DEF RunContinues, TakeJob, SkipDeleted, Advance, WriteRow,
         AdvanceProcessing, AdvanceOcr, WriteText, AdvanceAnalysis, Summarise,
         SummariseFails, WriteAnalysisFailed, WriteAnalysisSkipped,
         AdvanceReady, FinishRun
  <2>7. CASE \E v \in Workers : RunThrows(v) \/ RunLost(v)
    <3>1. PICK v \in Workers : RunThrows(v) \/ RunLost(v)
      BY <2>7
    <3>2. CASE run' = [run EXCEPT ![v] = NoRun]
      BY <3>2, <2>3
    <3>3. CASE run' = [run EXCEPT ![v].at = "text", ![v].outcome = "FAILED"]
      BY <1>3, <3>3 DEF KeysInv, TypeOK, Run
    <3>4. QED BY <3>1, <3>2, <3>3 DEF RunThrows, RunLost
  <2>8. CASE \E r \in Requests : RequestStep(r)
    BY <2>8, <2>1, RequestFrame
  <2>9. CASE StalledCheck \/ ExpireJob
    BY <2>9, <2>1, QueueFrame
  <2>10. QED BY <2>2, <2>5, <2>6, <2>7, <2>8, <2>9 DEF Next, RunStep
<1>4. QED BY <1>1, <1>2, <1>3 DEF KeysInv

-----------------------------------------------------------------------------
(* The first part of the inductive invariant.                               *)

TypeInv == TypeOK /\ WorkerInv /\ UnbornInv /\ KeysInv

LEMMA TypeInvInit == Init => TypeInv
<1> SUFFICES ASSUME Init PROVE TypeInv
  OBVIOUS
<1>1. TypeOK
  BY AttemptsAssumption, MaxFaultsAssumption
     DEF Init, TypeOK, NoJob, Job, JobStates, Document, Status, Stage, Key,
         Version, NoRun, Run, RunSteps, Request, RequestSteps
<1>2. WorkerInv /\ UnbornInv /\ KeysInv
  BY DEF Init, WorkerInv, AtMostOneRun, Live, NoJob, NoRun, UnbornInv, KeysInv
<1>3. QED BY <1>1, <1>2 DEF TypeInv

\* The number a transaction reads is a number as long as the history is
\* contiguous, so the types are only inductive together with the history.
LEMMA TypeInvStep == TypeInv /\ LatestNumber \in Nat /\ [Next]_vars => TypeInv'
<1> SUFFICES ASSUME TypeInv, LatestNumber \in Nat, [Next]_vars PROVE TypeInv'
  OBVIOUS
<1> USE DEF TypeInv
<1>1. CASE Next
  <2>1. TypeOK'
    BY <1>1, RequestType, RunType, QueueType DEF Next
  <2>2. WorkerInv'
    BY <1>1, RequestWorker, RunWorker, QueueWorker DEF Next
  <2>3. QED BY <1>1, <2>1, <2>2, UnbornStep, KeysStep
<1>2. CASE UNCHANGED vars
  BY <1>2 DEF vars, TypeOK, WorkerInv, AtMostOneRun, Live, UnbornInv, KeysInv
<1>3. QED BY <1>1, <1>2

-----------------------------------------------------------------------------
(* The version history.                                                     *)

HistoryInv ==
  /\ LatestNumber \in Nat
  /\ HistoryContiguous
  /\ CurrentIsLatest
  /\ VersionsHaveBytes

\* What a request knows while it is on its way to a commit: its key is in no
\* row yet, its object is stored, its number is at most the next one, and an
\* upload is still the key the row names if no version has appeared.
RequestInv ==
  \A r \in Requests :
    /\ req[r].op = "upload" => req[r].at \notin {"forget", "txread", "unwind"}
    /\ req[r].op = "reprocess" => req[r].at \notin {"put", "txread", "commit", "unwind"}
    /\ req[r].at \in {"idle", "put", "forget", "txread", "commit", "unwind"}
         => \A v \in versions : v.key # r
    /\ req[r].at \in {"txread", "commit"}
         => objects[r] # Nothing
    /\ req[r].at = "forget" /\ req[r].op # "reprocess"
         => objects[r] # Nothing
    /\ req[r].at \in {"put", "commit"} /\ req[r].op = "upload"
         => req[r].number = 1 /\ (versions = {} => doc.key = r)
    /\ req[r].at = "commit" => req[r].number \in 1..(LatestNumber + 1)

\* The latest of the numbers 1..n is n, and of no numbers 0.
LEMMA MaxUpTo ==
  ASSUME NEW n \in Nat PROVE Max((1..n) \cup {0}) = n
<1>1. \A m \in (1..n) \cup {0} : n >= m
  OBVIOUS
<1>2. \A x \in (1..n) \cup {0} : (\A y \in (1..n) \cup {0} : x >= y) => x = n
  OBVIOUS
<1>3. n \in (1..n) \cup {0}
  OBVIOUS
<1>4. QED BY <1>1, <1>2, <1>3 DEF Max

\* The history depends on the rows, the objects under their keys and the key
\* of the document alone.
LEMMA HistoryFrame ==
  ASSUME HistoryInv, UNCHANGED <<versions, objects>>, doc'.key = doc.key
  PROVE  HistoryInv'
BY DEF HistoryInv, LatestNumber, HistoryContiguous, CurrentIsLatest, VersionsHaveBytes

\* What a request that only moves on has to know about where it moves to.
LEMMA RequestMoves ==
  ASSUME TypeOK, RequestInv, UNCHANGED <<versions, objects>>, doc'.key = doc.key,
         NEW r \in Requests, NEW next \in RequestSteps, Goto(r, next),
         next \in {"txread", "unwind"} =>
           /\ req[r].at \in {"forget", "txread", "commit"}
           /\ req[r].op \notin {"upload", "reprocess"},
         next \in {"done", "write", "enqueue", "txread", "unwind"}
  PROVE  RequestInv'
<1> SUFFICES ASSUME NEW q \in Requests
             PROVE  RequestInv!(q)'
  BY DEF RequestInv
<1>1. CASE q # r
  <2>1. req'[q] = req[q] /\ LatestNumber' = LatestNumber
    BY <1>1 DEF Goto, TypeOK, LatestNumber
  <2>2. QED BY <2>1 DEF RequestInv
<1>2. CASE q = r
  <2>1. req'[r] = [req[r] EXCEPT !.at = next]
    BY DEF Goto, TypeOK
  <2>2. req'[r].at = next /\ req'[r].op = req[r].op
    BY <2>1 DEF TypeOK, Request
  <2>3. QED BY <1>2, <2>2 DEF RequestInv, TypeOK
<1>3. QED BY <1>1, <1>2

\* A request that has just begun has no key in any row; only an upload needs
\* more, and its row names its key.
LEMMA RequestStarts ==
  ASSUME TypeOK, RequestInv, UNCHANGED <<versions, objects>>,
         NEW r \in Requests, NEW op, NEW next \in {"put", "forget", "write"},
         NEW source, Begin(r, op, next, source),
         op = "reprocess" <=> next = "forget",
         IF op = "upload" THEN doc'.key = r /\ \A q \in Requests : req[q].at = "idle"
                          ELSE doc'.key = doc.key
  PROVE  RequestInv'
<1> SUFFICES ASSUME NEW q \in Requests
             PROVE  RequestInv!(q)'
  BY DEF RequestInv
<1>1. CASE q # r
  BY <1>1 DEF RequestInv, Begin, TypeOK, Request, LatestNumber
<1>2. CASE q = r
  BY <1>2 DEF RequestInv, Begin, TypeOK, Request, LatestNumber
<1>3. QED BY <1>1, <1>2

\* The commit of a number nobody holds extends 1..n to 1..n+1, and the row
\* serves the new version.
LEMMA CommitHistory ==
  ASSUME TypeOK, HistoryInv, RequestInv, NEW r \in Requests, Commit(r)
  PROVE  LatestNumber' = LatestNumber + 1 /\ HistoryInv' /\ RequestInv'
<1> USE DEF TypeOK
<1> DEFINE new == [number |-> req[r].number, key |-> r]
<1> DEFINE numbers == {v.number : v \in versions}
<1>1. /\ versions' = versions \cup {new}
      /\ UNCHANGED objects
      /\ req' = [req EXCEPT ![r].at = "enqueue"]
      /\ \A v \in versions : v.number # req[r].number
  BY DEF Commit, Goto, NumberTaken
<1>2. /\ LatestNumber \in Nat
      /\ numbers = 1..LatestNumber
  BY DEF HistoryInv, HistoryContiguous
<1>3. req[r].number \in 1..(LatestNumber + 1) /\ req[r].number \notin numbers
  BY <1>1 DEF RequestInv, Commit
<1>4. req[r].number = LatestNumber + 1
  BY <1>2, <1>3
<1>5. {v.number : v \in versions'} = 1..(LatestNumber + 1)
  <2>1. {v.number : v \in versions'} = numbers \cup {new.number}
    <3> HIDE DEF new
    <3>1. versions' = versions \cup {new}
      BY <1>1 DEF new
    <3>2. QED BY <3>1
  <2>2. QED BY <1>2, <1>4, <2>1
<1>6. LatestNumber' = LatestNumber + 1
  <2>1. LatestNumber' = Max({v.number : v \in versions'} \cup {0})
    BY DEF LatestNumber
  <2>2. Max((1..(LatestNumber + 1)) \cup {0}) = LatestNumber + 1
    BY <1>2, MaxUpTo
  <2>3. QED BY <1>5, <2>1, <2>2
<1>7. HistoryContiguous'
  <2>1. ASSUME NEW u \in versions', NEW v \in versions',
               u.number = v.number \/ u.key = v.key
        PROVE  u = v
    <3>1. \A x \in versions : x.key # r
      BY DEF RequestInv, Commit
    <3>2. QED BY <1>1, <2>1, <3>1 DEF HistoryInv, HistoryContiguous
  <2>2. QED BY <1>5, <1>6, <2>1 DEF HistoryContiguous
<1>8. CurrentIsLatest'
  <2>1. doc'.key = r
    <3>1. CASE req[r].op = "upload"
      <4>1. LatestNumber = 0
        BY <1>2, <1>4, <3>1 DEF RequestInv, Commit
      <4>2. versions = {}
        <5>1. \A v \in versions : v.number \in numbers
          OBVIOUS
        <5> HIDE DEF numbers
        <5>2. numbers = 1..0
          BY <1>2, <4>1
        <5>3. numbers = {}
          BY <5>2
        <5>4. QED BY <5>1, <5>3
      <4>3. QED BY <3>1, <4>2 DEF RequestInv, Commit, RowAfterCommit, Document
    <3>2. CASE req[r].op # "upload"
      BY <3>2 DEF Commit, RowAfterCommit, Document
    <3>3. QED BY <3>1, <3>2
  <2>2. QED BY <1>1, <1>4, <1>6, <2>1 DEF CurrentIsLatest
<1>9. VersionsHaveBytes'
  BY <1>1 DEF new, HistoryInv, VersionsHaveBytes, RequestInv, Commit
<1>10. RequestInv'
  <2> SUFFICES ASSUME NEW q \in Requests
               PROVE  RequestInv!(q)'
    BY DEF RequestInv
  <2>1. CASE q = r
    BY <1>1, <2>1 DEF RequestInv, Request
  <2>2. CASE q # r
    <3>1. UNCHANGED <<req[q], objects>> /\ versions' # {}
      BY <1>1, <2>2 DEF Request
    <3>2. \A v \in versions' : v \in versions \/ v.key = r
      BY <1>1
    <3>3. 1..(LatestNumber + 1) \subseteq 1..(LatestNumber + 1)'
      BY <1>2, <1>6
    <3>4. QED BY <2>2, <3>1, <3>2, <3>3 DEF RequestInv
  <2>3. QED BY <2>1, <2>2
<1>11. QED BY <1>2, <1>6, <1>7, <1>8, <1>9, <1>10 DEF HistoryInv

\* The two steps that touch the bucket touch the object of a key no row names.
LEMMA ObjectsHistory ==
  ASSUME TypeOK, HistoryInv, RequestInv, NEW r \in Requests,
         PutObject(r) \/ Unwind(r)
  PROVE  /\ HistoryInv' /\ RequestInv'
         /\ \A v \in versions : objects'[v.key] = objects[v.key]
<1> USE DEF TypeOK
<1>1. /\ UNCHANGED <<versions, doc>>
      /\ \A v \in versions : v.key # r
      /\ \A q \in Requests : q # r => objects'[q] = objects[q] /\ req'[q] = req[q]
  BY DEF PutObject, ObjectsAfterPut, Unwind, Goto, RequestInv
<1>2. \A v \in versions : objects'[v.key] = objects[v.key]
  BY <1>1 DEF Version
<1>3. HistoryInv'
  BY <1>1, <1>2 DEF HistoryInv, LatestNumber, HistoryContiguous,
                    CurrentIsLatest, VersionsHaveBytes
<1>4. RequestInv'
  <2> SUFFICES ASSUME NEW q \in Requests
               PROVE  RequestInv!(q)'
    BY DEF RequestInv
  <2>1. CASE q # r
    BY <1>1, <2>1 DEF RequestInv, LatestNumber
  <2>2. CASE q = r /\ PutObject(r)
    <3>1. /\ objects'[r] # Nothing
          /\ req'[r] = [req[r] EXCEPT !.at = IF req[r].op = "upload" THEN "commit" ELSE "forget"]
      BY <2>2 DEF PutObject, ObjectsAfterPut, Goto
    <3>2. 1 \in 1..(LatestNumber + 1)
      BY DEF HistoryInv
    <3>3. QED BY <1>1, <2>2, <3>1, <3>2 DEF RequestInv, PutObject, Request, LatestNumber
  <2>3. CASE q = r /\ Unwind(r)
    BY <1>1, <2>3 DEF RequestInv, Unwind, Goto, Request
  <2>4. QED BY <2>1, <2>2, <2>3
<1>5. QED BY <1>2, <1>3, <1>4

\* No run names another object: the worker only writes status and stages, text
\* and summary.
LEMMA RunKeepsKey ==
  ASSUME TypeOK, NEW w \in Workers, RunStep(w) PROVE doc'.key = doc.key
BY DEF TypeOK, Document, RunStep, RunContinues, TakeJob, ReadDocument,
       SkipDeleted, Advance, AdvancedRow, WriteRow, AdvanceProcessing,
       AdvanceOcr, Extract, Extracted,
       WriteText, AdvanceAnalysis, Summarise, SummariseFails,
       WriteAnalysisFailed, WriteAnalysisSkipped, AdvanceReady, FinishRun,
       RunThrows, RunLost

\* One step of one request.  Beside the invariant it says that every version
\* row keeps its bytes and stays.
LEMMA RequestHistory ==
  ASSUME TypeInv, HistoryInv, RequestInv, NEW r \in Requests, RequestStep(r)
  PROVE  /\ HistoryInv' /\ RequestInv'
         /\ versions \subseteq versions'
         /\ \A v \in versions : objects'[v.key] = objects[v.key]
<1> USE DEF TypeInv
<1>0. TypeOK
  OBVIOUS
<1>1. CASE RequestBegins(r)
  <2>1. UNCHANGED <<versions, objects>>
    BY <1>1 DEF RequestBegins, BeginUpload, BeginAddVersion, BeginRevert,
           BeginReprocess, BeginRemove, BeginRestore, BeginArchive, BeginUnarchive
  <2>2. CASE BeginUpload(r)
    <3>1. /\ doc.status = "NONE" /\ doc'.key = r
          /\ \A q \in Requests : req[q].at = "idle"
          /\ Begin(r, "upload", "put", r)
      BY <2>2 DEF BeginUpload, UnbornInv, TypeOK, Document
    <3>2. RequestInv'
      BY <1>0, <2>1, <3>1, RequestStarts
    <3>3. HistoryInv'
      <4>1. versions = {}
        BY <3>1 DEF RequestInv, TypeOK, Version
      <4>2. QED BY <2>1, <4>1 DEF HistoryInv, LatestNumber, HistoryContiguous,
                                  CurrentIsLatest, VersionsHaveBytes
    <3>4. QED BY <2>1, <3>2, <3>3
  <2>3. CASE ~BeginUpload(r)
    <3>1. doc' = doc
      BY <1>1, <2>3 DEF RequestBegins, BeginAddVersion, BeginRevert,
             BeginReprocess, BeginRemove, BeginRestore, BeginArchive, BeginUnarchive
    <3>2. PICK op \in AllOperations \ {"upload"}, next \in {"put", "forget", "write"},
               source \in Key :
            Begin(r, op, next, source) /\ (op = "reprocess" <=> next = "forget")
      BY <1>1, <2>3 DEF RequestBegins, BeginAddVersion, BeginRevert, BeginReprocess,
             BeginRemove, BeginRestore, BeginArchive, BeginUnarchive,
             AllOperations, Key, Version, TypeOK
    <3>3. RequestInv'
      BY <1>0, <2>1, <3>1, <3>2, RequestStarts
    <3>4. QED BY <2>1, <3>1, <3>3, HistoryFrame
  <2>4. QED BY <2>2, <2>3
<1>2. CASE Commit(r)
  <2>1. versions \subseteq versions' /\ objects' = objects
    BY <1>2 DEF Commit
  <2>2. QED BY <1>0, <1>2, <2>1, CommitHistory
<1>3. CASE PutObject(r) \/ Unwind(r)
  <2>1. versions' = versions
    BY <1>3 DEF PutObject, Unwind
  <2>2. QED BY <1>0, <1>3, <2>1, ObjectsHistory
<1>4. CASE ReadLatestNumber(r)
  <2>1. UNCHANGED <<versions, objects, doc>>
    BY <1>4 DEF ReadLatestNumber
  <2>2. RequestInv'
    <3> SUFFICES ASSUME NEW q \in Requests
                 PROVE  RequestInv!(q)'
      BY DEF RequestInv
    <3>1. CASE q # r
      BY <1>4, <2>1, <3>1 DEF ReadLatestNumber, RequestInv, LatestNumber, TypeOK, Request
    <3>2. CASE q = r
      <4>1. /\ req[r].at = "txread"
            /\ req' = [req EXCEPT ![r].at = "commit", ![r].number = LatestNumber + 1]
        BY <1>4 DEF ReadLatestNumber
      <4>2. req'[r] = [req[r] EXCEPT !.at = "commit", !.number = LatestNumber + 1]
        BY <4>1 DEF TypeOK, Request
      <4>3. req[r].op # "upload"
        BY <4>1 DEF RequestInv
      <4>4. LatestNumber \in Nat /\ LatestNumber' = LatestNumber
        BY <2>1 DEF HistoryInv, LatestNumber
      <4>5. QED BY <2>1, <3>2, <4>1, <4>2, <4>3, <4>4 DEF RequestInv, TypeOK, Request
    <3>3. QED BY <3>1, <3>2
  <2>3. QED BY <2>1, <2>2, HistoryFrame
<1>5. CASE \/ ForgetJob(r) \/ CommitRefused(r) \/ EnqueueJob(r)
           \/ WriteReprocess(r) \/ WriteRemove(r) \/ WriteRestore(r)
           \/ WriteArchive(r) \/ WriteUnarchive(r)
           \/ RequestThrows(r) \/ RequestLost(r)
  <2>1. UNCHANGED <<versions, objects>> /\ doc'.key = doc.key
    BY <1>5 DEF ForgetJob, CommitRefused, EnqueueJob, Write, WriteReprocess,
           WriteRemove, WriteRestore, WriteArchive, WriteUnarchive,
           RequestThrows, RequestLost, TypeOK, Document
  <2>2. RequestInv'
    <3>1. PICK next \in {"done", "write", "enqueue", "txread", "unwind"} :
            /\ Goto(r, next)
            /\ next \in {"txread", "unwind"} =>
                 /\ req[r].at \in {"forget", "txread", "commit"}
                 /\ req[r].op \notin {"upload", "reprocess"}
      BY <1>5 DEF ForgetJob, AfterForget, CommitRefused, AfterRollback, EnqueueJob,
             Write, WriteReprocess, WriteRemove, WriteRestore, WriteArchive,
             WriteUnarchive, RequestThrows, AfterThrow, RequestLost, RequestInv
    <3>2. next \in RequestSteps
      BY DEF RequestSteps
    <3>3. QED BY <1>0, <2>1, <3>1, <3>2, RequestMoves
  <2>3. QED BY <2>1, <2>2, HistoryFrame
<1>6. QED BY <1>1, <1>2, <1>3, <1>4, <1>5 DEF RequestStep, RequestContinues

LEMMA NextHistory ==
  ASSUME TypeInv, HistoryInv, RequestInv, Next
  PROVE  /\ HistoryInv' /\ RequestInv'
         /\ versions \subseteq versions'
         /\ \A v \in versions : objects'[v.key] = objects[v.key]
<1>1. CASE \E r \in Requests : RequestStep(r)
  BY <1>1, RequestHistory
<1>2. CASE \/ \E w \in Workers : RunStep(w)
           \/ StalledCheck
           \/ ExpireJob
  <2>1. UNCHANGED <<versions, objects, req>> /\ doc'.key = doc.key
    BY <1>2, RunFrame, RunKeepsKey, QueueFrame DEF TypeInv
  <2>2. RequestInv'
    BY <2>1 DEF RequestInv, LatestNumber
  <2>3. QED BY <2>1, <2>2, HistoryFrame
<1>3. QED BY <1>1, <1>2 DEF Next

-----------------------------------------------------------------------------
(* The inductive invariant, and what follows from it.                       *)

IInv == TypeInv /\ HistoryInv /\ RequestInv

LEMMA IInvInit == Init => IInv
<1> SUFFICES ASSUME Init PROVE IInv
  OBVIOUS
<1>1. versions = {} /\ \A r \in Requests : req[r].at = "idle" /\ req[r].op = "none"
  BY DEF Init
<1>2. LatestNumber = 0
  <2>1. {v.number : v \in versions} \cup {0} = (1..0) \cup {0}
    BY <1>1
  <2>2. Max((1..0) \cup {0}) = 0
    BY MaxUpTo
  <2>3. QED BY <2>1, <2>2 DEF LatestNumber
<1>3. HistoryInv
  BY <1>1, <1>2 DEF HistoryInv, HistoryContiguous, CurrentIsLatest, VersionsHaveBytes
<1>4. RequestInv
  BY <1>1 DEF RequestInv
<1>5. QED BY <1>3, <1>4, TypeInvInit DEF IInv

LEMMA IInvStep == IInv /\ [Next]_vars => IInv'
<1> SUFFICES ASSUME IInv, [Next]_vars PROVE IInv'
  OBVIOUS
<1>1. TypeInv'
  BY TypeInvStep DEF IInv, HistoryInv
<1>2. CASE Next
  BY <1>1, <1>2, NextHistory DEF IInv
<1>3. CASE UNCHANGED vars
  <2>1. UNCHANGED <<versions, objects, doc, req>>
    BY <1>3 DEF vars
  <2>2. RequestInv'
    BY <2>1 DEF IInv, RequestInv, LatestNumber
  <2>3. QED BY <1>1, <2>1, <2>2, HistoryFrame DEF IInv
<1>4. QED BY <1>2, <1>3

LEMMA IInvariant == Spec => []IInv
BY IInvInit, IInvStep, PTL DEF Spec

\* Every variable keeps its type: no interleaving, error or crash puts the row,
\* the queue, a run or a request into a state the code does not know.
THEOREM TypeCorrect == Spec => []TypeOK
<1>1. IInv => TypeOK
  BY DEF IInv, TypeInv
<1>2. QED BY <1>1, IInvariant, PTL

\* Two runs never write to one metadata row at once, whichever requests slip
\* past the eligibility checks (assertNotInFlight): the job id and the lock of
\* the job see to it.
THEOREM OneRunAtATime == Spec => []AtMostOneRun
<1>1. IInv => AtMostOneRun
  BY DEF IInv, TypeInv, WorkerInv
<1>2. QED BY <1>1, IInvariant, PTL

\* The version numbers of a document are 1..n whatever requests race for the
\* next one: the read of the latest number takes no lock, and the unique
\* constraint alone sees to it (replaceCurrentBytes).
THEOREM HistoryIsContiguous == Spec => []HistoryContiguous
<1>1. IInv => HistoryContiguous
  BY DEF IInv, HistoryInv
<1>2. QED BY <1>1, IInvariant, PTL

\* The document names the object of its newest version, so a download never
\* serves an older one: no update of the row comes between (replaceCurrentBytes,
\* and the writes that name the row by id alone).
THEOREM NewestIsServed == Spec => []CurrentIsLatest
<1>1. IInv => CurrentIsLatest
  BY DEF IInv, HistoryInv
<1>2. QED BY <1>1, IInvariant, PTL

\* Every version can be downloaded: no rollback takes an object a row names
\* (the unwinding in addVersion and revertToVersion).
THEOREM VersionsAreStored == Spec => []VersionsHaveBytes
<1>1. IInv => VersionsHaveBytes
  BY DEF IInv, HistoryInv
<1>2. QED BY <1>1, IInvariant, PTL

\* No step rewrites history: version rows stay, with their bytes.
THEOREM HistoryOnlyGrows == Spec => HistoryAppendOnly
<1>1. ASSUME IInv, [Next]_vars
      PROVE  [/\ versions \subseteq versions'
              /\ \A v \in versions : objects'[v.key] = objects[v.key]]_vars
  BY <1>1, NextHistory DEF IInv
<1>2. QED BY <1>1, IInvariant, PTL DEF Spec, HistoryAppendOnly

-----------------------------------------------------------------------------
(* What is in the bucket.                                                   *)

Storing == {"upload", "addVersion", "revert"}

\* Only requests that store bytes have an object, and with no fault so far its
\* request is at work or has ended with its version row: it does not enqueue
\* without one, and does not end before that but through its unwinding.
OrphanInv(r) ==
  /\ req[r].at = "put" => req[r].op \in Storing
  /\ req[r].at = "write" => req[r].op \notin Storing
  /\ req[r].at = "enqueue" /\ req[r].op \in Storing => \E v \in versions : v.key = r
  /\ objects[r] # Nothing =>
       /\ req[r].at # "idle" /\ req[r].op \in Storing
       /\ \/ Working(r) \/ req[r].op = "upload" \/ faults > 0
          \/ \E v \in versions : v.key = r

\* A step leaves what it does not touch as it was.
LEMMA StoredFrame ==
  ASSUME NEW r \in Requests, OrphanInv(r), TypeOK, TypeOK', versions \subseteq versions',
         faults' >= faults, req'[r] = req[r], objects'[r] = objects[r]
  PROVE  OrphanInv(r)'
BY DEF OrphanInv, Working, TypeOK

\* The request whose step it is.
LEMMA StoredStep ==
  ASSUME TypeOK, NEW r \in Requests, OrphanInv(r), RequestStep(r)
  PROVE  /\ OrphanInv(r)'
         /\ versions \subseteq versions' /\ faults' >= faults
         /\ \A k \in Requests \ {r} : req'[k] = req[k] /\ objects'[k] = objects[k]
<1> USE DEF TypeOK
<1>1. CASE RequestBegins(r)
  <2>1. PICK op \in Operations, next \in RequestSteps \ {"idle"}, source \in Key :
          /\ req[r].at = "idle"
          /\ req' = [req EXCEPT ![r] = [op |-> op, at |-> next, source |-> source,
                                        number |-> IF op = "upload" THEN 1 ELSE 0]]
          /\ UNCHANGED <<versions, objects, faults>>
          /\ next = "put" => op \in Storing
          /\ next = "write" => op \notin Storing
          /\ next # "enqueue"
    BY <1>1 DEF RequestBegins, Begin, BeginUpload, BeginAddVersion, BeginRevert, BeginReprocess,
       BeginRemove, BeginRestore, BeginArchive, BeginUnarchive, RequestSteps, Storing, Key, Version
  <2>2. objects[r] = Nothing
    BY <2>1 DEF OrphanInv
  <2>3. req'[r].op = op /\ req'[r].at = next
    BY <2>1
  <2>4. OrphanInv(r)'
    BY <2>1, <2>2, <2>3 DEF OrphanInv
  <2>5. QED BY <2>1, <2>4
<1>2. ASSUME NEW next \in RequestSteps, Goto(r, next)
      PROVE  /\ req'[r].at = next /\ req'[r].op = req[r].op
             /\ \A k \in Requests \ {r} : req'[k] = req[k]
  BY <1>2 DEF Goto, Request
<1>3. CASE RequestContinues(r)
  <2>1. CASE PutObject(r)
    <3>1. Goto(r, IF req[r].op = "upload" THEN "commit" ELSE "forget")
      BY <2>1 DEF PutObject
    <3>2. /\ req'[r].at \in {"commit", "forget"} /\ req'[r].op = req[r].op
          /\ \A k \in Requests \ {r} : req'[k] = req[k]
      BY <3>1, <1>2 DEF RequestSteps
    <3>3. req[r].op \in Storing
      BY <2>1 DEF PutObject, OrphanInv
    <3>4. QED BY <2>1, <3>2, <3>3 DEF PutObject, ObjectsAfterPut, OrphanInv, Working
  <2>2. CASE ForgetJob(r)
    <3>1. /\ req'[r].at = AfterForget(r) /\ req'[r].op = req[r].op
          /\ \A k \in Requests \ {r} : req'[k] = req[k]
      BY <2>2, <1>2 DEF ForgetJob, RequestSteps, AfterForget
    <3>2. QED BY <2>2, <3>1 DEF ForgetJob, AfterForget, OrphanInv, Working, Storing
  <2>3. CASE ReadLatestNumber(r)
    BY <2>3 DEF ReadLatestNumber, OrphanInv, Working, Request
  <2>4. CASE Commit(r)
    <3>1. /\ req'[r].at = "enqueue" /\ req'[r].op = req[r].op
          /\ \A k \in Requests \ {r} : req'[k] = req[k]
      BY <2>4, <1>2 DEF Commit, RequestSteps
    <3>2. \E v \in versions' : v.key = r
      <4>1. [number |-> req[r].number, key |-> r] \in versions'
        BY <2>4 DEF Commit
      <4>2. [number |-> req[r].number, key |-> r].key = r
        OBVIOUS
      <4>3. QED BY <4>1, <4>2
    <3>3. QED BY <2>4, <3>1, <3>2 DEF Commit, OrphanInv, Working
  <2>5. CASE CommitRefused(r)
    <3>1. /\ req'[r].at = AfterRollback(r) /\ req'[r].op = req[r].op
          /\ \A k \in Requests \ {r} : req'[k] = req[k]
      BY <2>5, <1>2 DEF CommitRefused, RequestSteps, AfterRollback
    <3>2. QED BY <2>5, <3>1 DEF CommitRefused, AfterRollback, OrphanInv, Working
  <2>6. CASE Unwind(r)
    <3>1. /\ req'[r].at = "done" /\ req'[r].op = req[r].op
          /\ \A k \in Requests \ {r} : req'[k] = req[k]
      BY <2>6, <1>2 DEF Unwind, RequestSteps
    <3>2. QED BY <2>6, <3>1 DEF Unwind, OrphanInv, Working
  <2>7. CASE EnqueueJob(r)
    <3>1. /\ req'[r].at = "done" /\ req'[r].op = req[r].op
          /\ \A k \in Requests \ {r} : req'[k] = req[k]
      BY <2>7, <1>2 DEF EnqueueJob, RequestSteps
    <3>2. QED BY <2>7, <3>1 DEF EnqueueJob, OrphanInv, Working
  <2>8. ASSUME NEW op \in AllOperations \ Storing, NEW row, NEW next \in {"enqueue", "done"},
               Write(r, op, row, next)
        PROVE  /\ OrphanInv(r)' /\ UNCHANGED <<versions, faults>>
               /\ \A k \in Requests \ {r} : req'[k] = req[k] /\ objects'[k] = objects[k]
    <3>1. /\ req'[r].at = next /\ req'[r].op = op /\ req[r].op = op
          /\ \A k \in Requests \ {r} : req'[k] = req[k]
      BY <2>8, <1>2 DEF Write, RequestSteps
    <3>2. objects[r] = Nothing
      BY <2>8, <3>1 DEF OrphanInv
    <3>3. UNCHANGED <<versions, objects, faults>>
      BY <2>8 DEF Write
    <3>4. QED BY <3>1, <3>2, <3>3 DEF OrphanInv
  <2>9. CASE WriteReprocess(r) \/ WriteRemove(r) \/ WriteRestore(r) \/ WriteArchive(r) \/ WriteUnarchive(r)
    <3>1. PICK op \in AllOperations \ Storing, next \in {"enqueue", "done"} :
            \E row : Write(r, op, row, next)
      BY <2>9 DEF WriteReprocess, WriteRemove, WriteRestore, WriteArchive, WriteUnarchive,
         AllOperations, Storing
    <3>2. PICK row : Write(r, op, row, next)
      BY <3>1
    <3>3. QED BY <3>2, <2>8
  <2>10. QED
    BY <1>3, <2>1, <2>2, <2>3, <2>4, <2>5, <2>6, <2>7, <2>9 DEF RequestContinues
<1>4. CASE RequestThrows(r)
  <2>1. /\ req'[r].at = AfterThrow(r) /\ req'[r].op = req[r].op
        /\ \A k \in Requests \ {r} : req'[k] = req[k]
    BY <1>4, <1>2 DEF RequestThrows, RequestSteps, AfterThrow, AfterForget, AfterRollback
  <2>2. AfterThrow(r) \in {"write", "txread", "unwind", "done"}
        /\ (AfterThrow(r) = "write" => req[r].op \notin Storing)
    BY DEF AfterThrow, AfterForget, AfterRollback, Storing
  <2>3. UNCHANGED <<versions, objects>> /\ faults' > 0 /\ faults' >= faults /\ Working(r)
    BY <1>4 DEF RequestThrows
  <2>4. QED BY <2>1, <2>2, <2>3 DEF OrphanInv, Working
<1>5. CASE RequestLost(r)
  <2>1. /\ req'[r].at = "done" /\ req'[r].op = req[r].op
        /\ \A k \in Requests \ {r} : req'[k] = req[k]
    BY <1>5, <1>2 DEF RequestLost, RequestSteps
  <2>2. UNCHANGED <<versions, objects>> /\ faults' > 0 /\ faults' >= faults /\ Working(r)
    BY <1>5 DEF RequestLost
  <2>3. QED BY <2>1, <2>2 DEF OrphanInv, Working
<1>6. QED BY <1>1, <1>3, <1>4, <1>5 DEF RequestStep

\* What is left in the bucket is explained: with no fault so far, an object that
\* no row names belongs to a request at work or to an upload that lost its
\* number (the unwinding in addVersion and revertToVersion; upload has none).
THEOREM OrphansAreExplained == Spec => []OrphansExplained
<1> DEFINE Inv == IInv /\ \A r \in Requests : OrphanInv(r)
<1>1. Init => Inv
  BY IInvInit DEF Init, OrphanInv
<1>2. Inv /\ [Next]_vars => Inv'
  <2> SUFFICES ASSUME Inv, [Next]_vars PROVE Inv'
    OBVIOUS
  <2>1. IInv' /\ TypeOK /\ TypeOK'
    BY IInvStep DEF IInv, TypeInv
  <2>2. ASSUME NEW r \in Requests, RequestStep(r), NEW k \in Requests
        PROVE  OrphanInv(k)'
    <3>1. OrphanInv(r)' /\ versions \subseteq versions' /\ faults' >= faults
          /\ \A j \in Requests \ {r} : req'[j] = req[j] /\ objects'[j] = objects[j]
      BY <2>1, <2>2, StoredStep
    <3>2. QED BY <3>1, <2>1, StoredFrame
  <2>3. CASE (\E w \in Workers : RunStep(w)) \/ StalledCheck \/ ExpireJob \/ UNCHANGED vars
    <3>1. UNCHANGED <<versions, objects, req>> /\ faults' >= faults
      <4>1. faults \in Nat
        BY <2>1 DEF TypeOK
      <4>2. ASSUME NEW w \in Workers, RunStep(w)
            PROVE  UNCHANGED <<versions, objects, req>> /\ faults' >= faults
        BY <4>1, <4>2 DEF RunStep, RunContinues, TakeJob, ReadDocument, SkipDeleted, AdvanceProcessing,
           AdvanceOcr, Extract, Extracted, WriteText, AdvanceAnalysis, Summarise, SummariseFails,
           WriteAnalysisFailed, WriteAnalysisSkipped, AdvanceReady, FinishRun, Advance, WriteRow,
           RunThrows, RunLost
      <4>3. QED BY <2>3, <4>1, <4>2 DEF StalledCheck, ExpireJob, vars
    <3>2. QED BY <3>1, <2>1, StoredFrame
  <2>4. QED BY <2>1, <2>2, <2>3 DEF Next
<1>3. Inv => OrphansExplained
  BY DEF OrphanInv, OrphansExplained
<1>4. QED BY <1>1, <1>2, <1>3, PTL DEF Spec

-----------------------------------------------------------------------------
(* Where the bytes under a key come from.                                   *)

Uploads == {"upload", "addVersion"}

\* An uploaded file is its request's own; a revert copies from a version; and
\* whatever a version holds was first published by the request that uploaded it.
SourceInv ==
  \A r \in Requests :
    /\ req[r].op \in Uploads => req[r].source = r
    /\ req[r].op = "revert" => \E v \in versions : v.key = req[r].source
    /\ req[r].at \in {"put", "forget", "txread", "commit"}
         => req[r].op \in Uploads \cup {"revert", "reprocess"}

StoredInv ==
  \A r \in Requests : req[r].at \in {"forget", "txread", "commit"} =>
    /\ req[r].op \in Uploads => objects[r] = r
    /\ req[r].op = "revert" => \E v \in versions : objects[r] = objects[v.key]

PublishedInv == \A v \in versions : \E u \in versions : u.key = objects[v.key]

BytesInv == SourceInv /\ StoredInv /\ PublishedInv

-----------------------------------------------------------------------------

\* A request that moves on keeps its operation and its source.
LEMMA BytesMoves ==
  ASSUME TypeOK, BytesInv, UNCHANGED <<versions, objects>>,
         NEW r \in Requests,
         req' = [req EXCEPT ![r] = req'[r]],
         req'[r].op = req[r].op, req'[r].source = req[r].source,
         req'[r].at \in {"forget", "txread", "commit"} =>
            req[r].at \in {"forget", "txread", "commit"},
         req'[r].at # "put"
  PROVE  BytesInv'
<1>1. ASSUME NEW q \in Requests, q # r PROVE req'[q] = req[q]
  BY <1>1 DEF TypeOK
<1>2. SourceInv'
  BY <1>1 DEF BytesInv, SourceInv
<1>3. StoredInv'
  BY <1>1 DEF BytesInv, StoredInv
<1>4. PublishedInv'
  BY DEF BytesInv, PublishedInv
<1>5. QED BY <1>2, <1>3, <1>4 DEF BytesInv

LEMMA BytesStarts ==
  ASSUME TypeOK, BytesInv, UNCHANGED <<versions, objects>>,
         NEW r \in Requests, NEW op, NEW source, NEW next \in {"put", "write", "forget"},
         Begin(r, op, next, source),
         op \in Uploads => source = r,
         op = "revert" => \E v \in versions : v.key = source,
         next = "put" => op \in Uploads \cup {"revert"},
         next = "forget" => op = "reprocess"
  PROVE  BytesInv'
<1>1. ASSUME NEW q \in Requests, q # r PROVE req'[q] = req[q]
  BY <1>1 DEF Begin, TypeOK
<1>2. req'[r].op = op /\ req'[r].at = next /\ req'[r].source = source
  BY DEF Begin, TypeOK
<1>3. SourceInv'
  BY <1>1, <1>2 DEF BytesInv, SourceInv
<1>4. StoredInv'
  BY <1>1, <1>2 DEF BytesInv, StoredInv, Uploads
<1>5. PublishedInv'
  BY DEF BytesInv, PublishedInv
<1>6. QED BY <1>3, <1>4, <1>5 DEF BytesInv

LEMMA BytesPut ==
  ASSUME IInv, BytesInv, NEW r \in Requests, PutObject(r)
  PROVE  BytesInv'
<1>1. TypeOK /\ RequestInv
  BY DEF IInv, TypeInv
<1>2. /\ versions' = versions
      /\ objects' = [objects EXCEPT ![r] = Bytes(r)]
      /\ req[r].at = "put"
      /\ \A v \in versions : v.key # r
  BY <1>1 DEF PutObject, ObjectsAfterPut, RequestInv
<1>3. \A q \in Requests : q # r => objects'[q] = objects[q] /\ req'[q] = req[q]
  BY <1>1, <1>2 DEF PutObject, Goto, TypeOK
<1>4. req'[r].op = req[r].op /\ req'[r].source = req[r].source
  BY <1>1 DEF PutObject, Goto, TypeOK, Request
<1>5. objects'[r] = Bytes(r)
  BY <1>1, <1>2 DEF TypeOK
<1>6. \A v \in versions : v.key \in Requests /\ objects'[v.key] = objects[v.key]
  BY <1>1, <1>2, <1>3 DEF TypeOK, Version
<1>7. SourceInv'
  BY <1>2, <1>3, <1>4 DEF BytesInv, SourceInv
<1>8. StoredInv'
  <2> SUFFICES ASSUME NEW q \in Requests PROVE StoredInv!(q)'
    BY DEF StoredInv
  <2>1. CASE q # r
    BY <1>2, <1>3, <1>6, <2>1 DEF BytesInv, StoredInv
  <2>2. CASE q = r
    BY <1>2, <1>4, <1>5, <1>6, <2>2 DEF BytesInv, SourceInv, Bytes, Uploads
  <2>3. QED BY <2>1, <2>2
<1>9. PublishedInv'
  BY <1>2, <1>6 DEF BytesInv, PublishedInv
<1>10. QED BY <1>7, <1>8, <1>9 DEF BytesInv

LEMMA BytesUnwind ==
  ASSUME IInv, BytesInv, NEW r \in Requests, Unwind(r)
  PROVE  BytesInv'
<1>1. TypeOK /\ RequestInv
  BY DEF IInv, TypeInv
<1>2. /\ versions' = versions
      /\ req[r].at = "unwind"
      /\ \A v \in versions : v.key # r
  BY <1>1 DEF Unwind, RequestInv
<1>3. \A q \in Requests : q # r => objects'[q] = objects[q] /\ req'[q] = req[q]
  BY <1>1 DEF Unwind, Goto, TypeOK
<1>4. req'[r].op = req[r].op /\ req'[r].source = req[r].source /\ req'[r].at = "done"
  BY <1>1 DEF Unwind, Goto, TypeOK, Request
<1>5. \A v \in versions : objects'[v.key] = objects[v.key]
  BY <1>1, <1>2, <1>3 DEF TypeOK, Version
<1>6. SourceInv'
  BY <1>2, <1>3, <1>4 DEF BytesInv, SourceInv
<1>7. StoredInv'
  <2> SUFFICES ASSUME NEW q \in Requests PROVE StoredInv!(q)'
    BY DEF StoredInv
  <2>1. CASE q # r
    BY <1>2, <1>3, <1>5, <2>1 DEF BytesInv, StoredInv
  <2>2. CASE q = r
    BY <1>4, <2>2
  <2>3. QED BY <2>1, <2>2
<1>8. PublishedInv'
  BY <1>2, <1>5 DEF BytesInv, PublishedInv
<1>9. QED BY <1>6, <1>7, <1>8 DEF BytesInv

LEMMA BytesCommit ==
  ASSUME IInv, BytesInv, NEW r \in Requests, Commit(r)
  PROVE  BytesInv'
<1>1. TypeOK /\ RequestInv
  BY DEF IInv, TypeInv
<1> DEFINE new == [number |-> req[r].number, key |-> r]
<1>2. /\ versions' = versions \cup {new} /\ new.key = r
      /\ objects' = objects
      /\ req[r].at = "commit"
      /\ Goto(r, "enqueue")
  BY DEF Commit
<1> HIDE DEF new
<1>3. \A q \in Requests : q # r => req'[q] = req[q]
  BY <1>1, <1>2 DEF Goto, TypeOK
<1>4. req'[r].op = req[r].op /\ req'[r].source = req[r].source /\ req'[r].at = "enqueue"
  BY <1>1, <1>2 DEF Goto, TypeOK, Request
<1>5. SourceInv'
  BY <1>2, <1>3, <1>4 DEF BytesInv, SourceInv
<1>6. StoredInv'
  BY <1>2, <1>3, <1>4 DEF BytesInv, StoredInv
<1>7. PublishedInv'
  <2>1. \E u \in versions' : u.key = objects'[r]
    <3>1. CASE req[r].op \in Uploads
      BY <1>2, <3>1 DEF BytesInv, StoredInv
    <3>2. CASE req[r].op = "revert"
      BY <1>2, <3>2 DEF BytesInv, StoredInv, PublishedInv
    <3>3. req[r].op # "reprocess"
      BY <1>1, <1>2 DEF RequestInv
    <3>4. QED BY <1>2, <3>1, <3>2, <3>3 DEF BytesInv, SourceInv
  <2>2. QED BY <1>2, <2>1 DEF BytesInv, PublishedInv
<1>8. QED BY <1>5, <1>6, <1>7 DEF BytesInv

LEMMA BytesRequest ==
  ASSUME IInv, BytesInv, NEW r \in Requests, RequestStep(r)
  PROVE  BytesInv'
<1>1. TypeOK /\ RequestInv
  BY DEF IInv, TypeInv
<1>2. CASE RequestBegins(r)
  <2>1. UNCHANGED <<versions, objects>>
    BY <1>2 DEF RequestBegins, BeginUpload, BeginAddVersion, BeginRevert,
           BeginReprocess, BeginRemove, BeginRestore, BeginArchive, BeginUnarchive
  <2>2. CASE BeginUpload(r) \/ BeginAddVersion(r)
    BY <1>1, <2>1, <2>2, BytesStarts DEF BeginUpload, BeginAddVersion, Uploads
  <2>3. CASE BeginRevert(r)
    BY <1>1, <2>1, <2>3, BytesStarts DEF BeginRevert, Uploads
  <2>4. CASE \/ BeginReprocess(r) \/ BeginRemove(r) \/ BeginRestore(r)
             \/ BeginArchive(r) \/ BeginUnarchive(r)
    BY <1>1, <2>1, <2>4, BytesStarts
       DEF BeginReprocess, BeginRemove, BeginRestore, BeginArchive,
           BeginUnarchive, Uploads
  <2>5. QED BY <1>2, <2>2, <2>3, <2>4 DEF RequestBegins
<1>3. CASE \/ ForgetJob(r) \/ ReadLatestNumber(r) \/ CommitRefused(r)
           \/ EnqueueJob(r) \/ WriteReprocess(r) \/ WriteRemove(r)
           \/ WriteRestore(r) \/ WriteArchive(r) \/ WriteUnarchive(r)
           \/ RequestThrows(r) \/ RequestLost(r)
  <2>1. UNCHANGED <<versions, objects>>
    BY <1>3 DEF ForgetJob, ReadLatestNumber, CommitRefused, EnqueueJob, Write,
           WriteReprocess, WriteRemove, WriteRestore, WriteArchive,
           WriteUnarchive, RequestThrows, RequestLost
  <2>2. CASE ReadLatestNumber(r)
    <3>1. /\ req[r].at = "txread"
          /\ req' = [req EXCEPT ![r].at = "commit", ![r].number = LatestNumber + 1]
      BY <2>2 DEF ReadLatestNumber
    <3>2. /\ req' = [req EXCEPT ![r] = req'[r]]
          /\ req'[r].op = req[r].op /\ req'[r].source = req[r].source
          /\ req'[r].at = "commit"
      BY <1>1, <3>1 DEF TypeOK, Request
    <3>3. QED BY <1>1, <2>1, <3>1, <3>2, BytesMoves
  <2>3. CASE ~ReadLatestNumber(r)
    <3>1. PICK next \in RequestSteps :
            /\ Goto(r, next)
            /\ next \in {"forget", "txread", "commit"} =>
                 req[r].at \in {"forget", "txread", "commit"}
            /\ next # "put"
      BY <1>3, <2>3 DEF ForgetJob, AfterForget, CommitRefused, AfterRollback,
             EnqueueJob, Write, WriteReprocess, WriteRemove, WriteRestore,
             WriteArchive, WriteUnarchive, RequestThrows, AfterThrow,
             RequestLost, RequestSteps
    <3>2. /\ req' = [req EXCEPT ![r] = req'[r]]
          /\ req'[r].op = req[r].op /\ req'[r].source = req[r].source
          /\ req'[r].at = next
      BY <1>1, <3>1 DEF Goto, TypeOK, Request
    <3>3. QED BY <1>1, <2>1, <3>1, <3>2, BytesMoves
  <2>4. QED BY <2>2, <2>3
<1>4. QED BY <1>2, <1>3, BytesPut, BytesUnwind, BytesCommit
          DEF RequestStep, RequestContinues

LEMMA BytesInit == Init => BytesInv
BY DEF Init, BytesInv, SourceInv, StoredInv, PublishedInv, Uploads

LEMMA BytesStep == IInv /\ BytesInv /\ [Next]_vars => BytesInv'
<1> SUFFICES ASSUME IInv, BytesInv, [Next]_vars PROVE BytesInv'
  OBVIOUS
<1>1. CASE \E r \in Requests : RequestStep(r)
  BY <1>1, BytesRequest
<1>2. CASE \/ \E w \in Workers : RunStep(w)
           \/ StalledCheck
           \/ ExpireJob
           \/ UNCHANGED vars
  <2>1. UNCHANGED <<versions, objects, req>>
    BY <1>2, RunFrame, QueueFrame DEF vars
  <2>2. QED BY <2>1 DEF BytesInv, SourceInv, StoredInv, PublishedInv
<1>3. QED BY <1>1, <1>2 DEF Next

LEMMA BytesInvariant == Spec => [](IInv /\ BytesInv)
BY IInvariant, BytesInit, BytesStep, PTL DEF Spec

-----------------------------------------------------------------------------
(* The refinement mapping, step by step.                                    *)

\* Row n is the only row with number n.
LEMMA KeyOfRow ==
  ASSUME NEW rows, NEW v \in rows, \A u \in rows : u.number = v.number => u = v
  PROVE  (CHOOSE u \in rows : u.number = v.number) = v
OBVIOUS

\* Every number up to the latest has its row.
LEMMA RowOf ==
  ASSUME HistoryInv, NEW n \in 1..LatestNumber
  PROVE  \E v \in versions : v.number = n /\ KeyOf(n) = v.key
<1>1. PICK v \in versions : v.number = n
  BY DEF HistoryInv, HistoryContiguous
<1>2. (CHOOSE u \in versions : u.number = v.number) = v
  BY KeyOfRow DEF HistoryInv, HistoryContiguous
<1>3. QED BY <1>1, <1>2 DEF KeyOf

\* A step that commits nothing leaves the history and the served bytes alone.
LEMMA OtherStutters ==
  ASSUME IInv, [Next]_vars, versions' = versions
  PROVE  UNCHANGED <<History, Served>>
<1>1. /\ TypeOK /\ HistoryInv
      /\ \A v \in versions : objects'[v.key] = objects[v.key]
  BY NextHistory DEF IInv, TypeInv, vars
<1>2. LatestNumber' = LatestNumber /\ \A n : KeyOf(n)' = KeyOf(n)
  BY DEF LatestNumber, KeyOf
<1>3. \A n \in 1..LatestNumber : objects'[KeyOf(n)] = objects[KeyOf(n)]
  BY <1>1, RowOf
<1>4. History' = History
  BY <1>2, <1>3 DEF History
<1>5. Served' = Served
  <2>1. CASE versions = {}
    BY <2>1 DEF Served
  <2>2. CASE versions # {}
    <3>1. [number |-> LatestNumber, key |-> doc.key] \in versions
      BY <1>1, <2>2 DEF HistoryInv, CurrentIsLatest
    <3>2. [number |-> LatestNumber, key |-> doc'.key] \in versions
      BY <1>2, <2>2, IInvStep DEF IInv, HistoryInv, CurrentIsLatest
    <3>3. doc'.key = doc.key
      BY <1>1, <3>1, <3>2 DEF HistoryInv, HistoryContiguous
    <3>4. objects'[doc.key] = objects[doc.key]
      BY <1>1, <3>1
    <3>5. QED BY <2>2, <3>3, <3>4 DEF Served
  <2>3. QED BY <2>1, <2>2
<1>6. QED BY <1>4, <1>5

\* The commit appends the bytes it stored, and the row serves them.
LEMMA CommitExtends ==
  ASSUME IInv, NEW r \in Requests, Commit(r)
  PROVE  VH!Extend(objects[r])
<1>1. /\ TypeOK /\ HistoryInv /\ HistoryInv' /\ RequestInv
      /\ LatestNumber' = LatestNumber + 1
      /\ LatestNumber \in Nat
  BY CommitHistory DEF IInv, TypeInv, HistoryInv
<1>2. PICK n \in Nat : LatestNumber = n /\ LatestNumber' = n + 1
  BY <1>1
<1>3. /\ versions \subseteq versions'
      /\ objects' = objects
      /\ \A v \in versions' : v \in versions \/ v.key = r
      /\ \A v \in versions : v.key # r
  BY <1>1 DEF Commit, RequestInv
<1>4. ASSUME NEW v \in versions' PROVE KeyOf(v.number)' = v.key
  <2>1. (CHOOSE u \in versions' : u.number = v.number) = v
    BY <1>1, KeyOfRow DEF HistoryInv, HistoryContiguous
  <2>2. QED BY <2>1 DEF KeyOf
<1>5. ASSUME NEW i \in 1..n PROVE KeyOf(i)' = KeyOf(i)
  BY <1>1, <1>2, <1>3, <1>4, RowOf
<1>6. doc'.key = r /\ KeyOf(n + 1)' = r /\ versions' # {}
  <2>1. PICK v \in versions' : v.key = r
    <3>1. [number |-> req[r].number, key |-> r] \in versions'
      BY DEF Commit
    <3>2. QED BY <3>1
  <2>2. v.number \notin 1..n
    <3>1. ASSUME v.number \in 1..n PROVE FALSE
      <4>1. PICK u \in versions : u.number = v.number
        BY <1>1, <1>2, <3>1 DEF HistoryInv, HistoryContiguous
      <4>2. u = v
        BY <1>1, <1>3, <2>1, <4>1 DEF HistoryInv, HistoryContiguous
      <4>3. QED BY <1>3, <2>1, <4>1, <4>2
    <3>2. QED BY <3>1
  <2>3. v.number \in 1..(n + 1)
    BY <1>1, <1>2 DEF HistoryInv, HistoryContiguous
  <2>4. v.number = n + 1
    BY <1>2, <2>2, <2>3
  <2>5. [number |-> n + 1, key |-> doc'.key] \in versions'
    BY <1>1, <1>2, <2>1 DEF HistoryInv, CurrentIsLatest
  <2>6. [number |-> n + 1, key |-> doc'.key] = v
    BY <1>1, <2>1, <2>4, <2>5 DEF HistoryInv, HistoryContiguous
  <2>7. QED BY <1>4, <2>1, <2>4, <2>6
<1>7. History' = Append(History, objects[r])
  <2>1. History' = [i \in 1..(n + 1) |-> objects[KeyOf(i)']]
    BY <1>2, <1>3 DEF History
  <2>2. History = [i \in 1..n |-> objects[KeyOf(i)]]
    BY <1>2 DEF History
  <2>3. DOMAIN History = 1..n
    BY <2>2
  <2>4. Len(History) = n
    BY <1>2, <2>3
  <2>5. Append(History, objects[r]) =
          [i \in 1..(n + 1) |-> IF i = n + 1 THEN objects[r] ELSE History[i]]
    BY <1>2, <2>4
  <2>6. \A i \in 1..(n + 1) : i # n + 1 => i \in 1..n
    BY <1>2
  <2>7. QED BY <1>5, <1>6, <2>1, <2>2, <2>5, <2>6
<1>8. Served' = objects[r]
  BY <1>3, <1>6 DEF Served
<1>9. QED BY <1>7, <1>8 DEF VH!Extend

\* The bytes a commit publishes are an upload nobody has published, or those
\* of an earlier version.
LEMMA CommitPublishes ==
  ASSUME IInv, BytesInv, NEW r \in Requests, Commit(r)
  PROVE  VH!HistoryNext
<1>1. TypeOK /\ HistoryInv /\ RequestInv
  BY DEF IInv, TypeInv
<1>2. req[r].at = "commit" /\ \A v \in versions : v.key # r
  BY <1>1 DEF Commit, RequestInv
<1>3. VH!Extend(objects[r])
  BY CommitExtends
<1>4. DOMAIN History = 1..LatestNumber
  BY DEF History
<1>5. ASSUME NEW n \in DOMAIN History
      PROVE  \E v \in versions : v.number = n /\ History[n] = objects[v.key]
  BY <1>1, <1>4, RowOf DEF History
<1>6. CASE req[r].op \in Uploads
  <2>1. objects[r] = r
    BY <1>2, <1>6 DEF BytesInv, StoredInv
  <2>2. \A n \in DOMAIN History : History[n] # r
    BY <1>2, <1>5 DEF BytesInv, PublishedInv
  <2>3. QED BY <1>3, <2>1, <2>2 DEF VH!HistoryNext, VH!Publish
<1>7. CASE req[r].op = "revert"
  <2>1. PICK v \in versions : objects[r] = objects[v.key]
    BY <1>2, <1>7 DEF BytesInv, StoredInv
  <2>2. v.number \in DOMAIN History
    BY <1>1, <1>4 DEF HistoryInv, HistoryContiguous
  <2>3. History[v.number] = objects[v.key]
    BY <1>1, <1>5, <2>2 DEF HistoryInv, HistoryContiguous
  <2>4. QED BY <1>3, <2>1, <2>2, <2>3 DEF VH!HistoryNext, VH!Revert
<1>8. req[r].op \in Uploads \cup {"revert"}
  BY <1>1, <1>2 DEF BytesInv, SourceInv, RequestInv
<1>9. QED BY <1>6, <1>7, <1>8

\* No other step adds a version row.
LEMMA OnlyCommits ==
  ASSUME [Next]_vars, \A r \in Requests : ~Commit(r)
  PROVE  versions' = versions
<1>1. CASE \E r \in Requests : RequestStep(r)
  BY <1>1 DEF RequestStep, RequestBegins, BeginUpload, BeginAddVersion, BeginRevert,
         BeginReprocess, BeginRemove, BeginRestore, BeginArchive, BeginUnarchive,
         RequestContinues, PutObject, ForgetJob, ReadLatestNumber, CommitRefused,
         Unwind, EnqueueJob, Write, WriteReprocess, WriteRemove, WriteRestore,
         WriteArchive, WriteUnarchive, RequestThrows, RequestLost
<1>2. CASE \/ \E w \in Workers : RunStep(w)
           \/ StalledCheck
           \/ ExpireJob
           \/ UNCHANGED vars
  BY <1>2, RunFrame, QueueFrame DEF vars
<1>3. QED BY <1>1, <1>2 DEF Next

LEMMA HistoryStarts == Init => VH!HistoryInit
<1> SUFFICES ASSUME Init PROVE VH!HistoryInit
  OBVIOUS
<1>1. versions = {} /\ HistoryInv
  BY IInvInit DEF Init, IInv
<1>2. LatestNumber \in Nat /\ {v.number : v \in versions} = 1..LatestNumber
  BY <1>1 DEF HistoryInv, HistoryContiguous
<1>3. LatestNumber = 0
  <2>1. 1..LatestNumber = {}
    BY <1>1, <1>2
  <2>2. QED BY <1>2, <2>1
<1>4. History = <<>>
  BY <1>3 DEF History
<1>5. QED BY <1>1, <1>4 DEF VH!HistoryInit, Served

\* The document's life implements the append-only history with its newest entry
\* served: the requests of replaceCurrentBytes and upload, racing at every await,
\* rolled back, crashed or retried, look like one published entry after another.
THEOREM LifecycleRefinesHistory == Spec => ImplementsVersionHistory
<1>1. ASSUME IInv, BytesInv, [Next]_vars
      PROVE  [VH!HistoryNext]_<<History, Served>>
  <2>1. CASE \E r \in Requests : Commit(r)
    BY <1>1, <2>1, CommitPublishes
  <2>2. CASE \A r \in Requests : ~Commit(r)
    BY <1>1, <2>2, OnlyCommits, OtherStutters
  <2>3. QED BY <2>1, <2>2
<1>2. QED BY <1>1, HistoryStarts, BytesInvariant, PTL
          DEF Spec, ImplementsVersionHistory, VH!HistorySpec

=============================================================================
