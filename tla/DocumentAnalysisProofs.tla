----------------------- MODULE DocumentAnalysisProofs -----------------------
(***************************************************************************)
(* DocumentAnalysis implements DocumentLifecycle: whatever the vendor      *)
(* answers, the calls behind a run amount to one extraction of the bytes   *)
(* the run set out to read, and to one analysis.  What is proved of every  *)
(* behaviour of DocumentLifecycle so holds of the detailed pipeline.       *)
(***************************************************************************)
EXTENDS DocumentAnalysis, DocumentLifecycleProofs

-----------------------------------------------------------------------------
(* The object a run reads is not replaced or taken away under it.           *)

\* A key some row has named: an upload's, or a version's.
Known(k) == req[k].op = "upload" \/ \E v \in versions : v.key = k

KeyedStates == {"start", "ocr", "extract"}

\* A request that has not put its object yet finds nothing under its key.
FreshInv ==
  \A r \in Requests :
    /\ req[r].at \in {"idle", "put"} => objects[r] = Nothing
    /\ req[r].at = "idle" => req[r].op = "none"

KnownInv ==
  /\ doc.status # "NONE" => Known(doc.key)
  /\ \A w \in Workers : run[w].at \in KeyedStates => Known(run[w].key)

LEMMA FreshStart ==
  ASSUME TypeOK, FreshInv, NEW r \in Requests, UNCHANGED objects,
         NEW op, NEW next \in RequestSteps \ {"idle"}, NEW source,
         Begin(r, op, next, source)
  PROVE  FreshInv'
BY DEF TypeOK, FreshInv, Begin, Request, RequestSteps

LEMMA FreshMove ==
  ASSUME TypeOK, FreshInv, NEW r \in Requests,
         \A q \in Requests : q # r => objects'[q] = objects[q],
         NEW next \in RequestSteps \ {"idle", "put"}, Goto(r, next)
  PROVE  FreshInv'
BY DEF TypeOK, FreshInv, Goto, Request

LEMMA FreshRequest ==
  ASSUME TypeOK, FreshInv, NEW r \in Requests, RequestStep(r) PROVE FreshInv'
<1>1. CASE RequestBegins(r)
  <2>1. UNCHANGED objects
    BY <1>1 DEF RequestBegins, BeginUpload, BeginAddVersion, BeginRevert,
           BeginReprocess, BeginRemove, BeginRestore, BeginArchive, BeginUnarchive
  <2>2. \E op \in AllOperations, next \in {"put", "forget", "write"}, source \in Key \cup {r} :
           Begin(r, op, next, source)
    BY <1>1 DEF RequestBegins, BeginUpload, BeginAddVersion, BeginRevert,
           BeginReprocess, BeginRemove, BeginRestore, BeginArchive, BeginUnarchive,
           AllOperations, Key, Version, TypeOK
  <2>3. QED BY <2>1, <2>2, FreshStart DEF RequestSteps
<1>2. CASE ReadLatestNumber(r)
  BY <1>2 DEF ReadLatestNumber, FreshInv, TypeOK, Request
<1>3. CASE ~RequestBegins(r) /\ ~ReadLatestNumber(r)
  <2>1. \A q \in Requests : q # r => objects'[q] = objects[q]
    BY <1>3 DEF RequestStep, RequestContinues, PutObject, ObjectsAfterPut, ForgetJob,
           Commit, CommitRefused, Unwind, EnqueueJob, Write, WriteReprocess,
           WriteRemove, WriteRestore, WriteArchive, WriteUnarchive,
           RequestThrows, RequestLost, TypeOK
  <2>2. \E next \in RequestSteps \ {"idle", "put"} : Goto(r, next)
    BY <1>3 DEF RequestStep, RequestContinues, PutObject, ForgetJob, AfterForget,
           Commit, CommitRefused, AfterRollback, Unwind, EnqueueJob, Write,
           WriteReprocess, WriteRemove, WriteRestore, WriteArchive, WriteUnarchive,
           RequestThrows, AfterThrow, RequestLost, RequestSteps
  <2>3. QED BY <2>1, <2>2, FreshMove
<1>4. QED BY <1>1, <1>2, <1>3

\* Once known, a key stays known.
LEMMA KnownStays ==
  ASSUME IInv, FreshInv, Next, NEW k \in Requests, Known(k) PROVE Known(k)'
<1>1. versions \subseteq versions'
  BY NextHistory DEF IInv
<1>2. CASE \E v \in versions : v.key = k
  BY <1>1, <1>2 DEF Known
<1>3. CASE req[k].op = "upload"
  <2>1. req[k].at # "idle"
    BY <1>3 DEF FreshInv
  <2>2. req'[k].op = "upload"
    <3>1. ASSUME NEW r \in Requests, RequestStep(r) PROVE req'[k].op = "upload"
      <4>1. CASE RequestBegins(r)
        BY <1>3, <2>1, <4>1
           DEF RequestBegins, BeginUpload, BeginAddVersion, BeginRevert,
               BeginReprocess, BeginRemove, BeginRestore, BeginArchive,
               BeginUnarchive, Begin, IInv, TypeInv, TypeOK
      <4>2. CASE ~RequestBegins(r)
        BY <1>3, <3>1, <4>2
           DEF RequestStep, RequestContinues, PutObject, ForgetJob, ReadLatestNumber,
               Commit, CommitRefused, Unwind, EnqueueJob, Write, WriteReprocess,
               WriteRemove, WriteRestore, WriteArchive, WriteUnarchive,
               RequestThrows, RequestLost, Goto, IInv, TypeInv, TypeOK, Request
      <4>3. QED BY <4>1, <4>2
    <3>2. CASE (\E w \in Workers : RunStep(w)) \/ StalledCheck \/ ExpireJob
      BY <1>3, <3>2, RunFrame, QueueFrame
    <3>3. QED BY <3>1, <3>2 DEF Next
  <2>3. QED BY <2>2 DEF Known
<1>4. QED BY <1>2, <1>3 DEF Known

\* The row comes to name another object only with the version that holds it,
\* or with the upload that creates the row.
LEMMA RowKnown ==
  ASSUME IInv, FreshInv, KnownInv, Next PROVE (doc.status # "NONE" => Known(doc.key))'
<1>1. TypeOK /\ (doc.status # "NONE" => doc.key \in Requests)
  BY DEF IInv, TypeInv, KeysInv
<1>2. CASE doc'.key = doc.key /\ doc.status # "NONE"
  BY <1>1, <1>2, KnownStays DEF KnownInv
<1>3. CASE doc'.key # doc.key \/ doc.status = "NONE"
  <2>1. CASE \E r \in Requests : BeginUpload(r)
    <3>1. PICK r \in Requests : BeginUpload(r)
      BY <2>1
    <3>2. doc' = [doc EXCEPT !.status = "UPLOADING", !.key = r]
      BY <3>1 DEF BeginUpload
    <3>3. doc'.key = r
      BY <1>1, <3>2 DEF TypeOK, Document
    <3>4. req'[r].op = "upload"
      BY <1>1, <3>1 DEF BeginUpload, Begin, TypeOK
    <3>5. QED BY <3>3, <3>4 DEF Known
  <2>2. CASE \E r \in Requests : Commit(r)
    <3>1. PICK r \in Requests : Commit(r)
      BY <2>2
    <3>2. CASE doc'.key = r
      <4>1. [number |-> req[r].number, key |-> r] \in versions'
        BY <3>1 DEF Commit
      <4>2. QED BY <3>2, <4>1 DEF Known
    <3>3. CASE doc'.key # r
      <4>1. doc'.key = doc.key
        <5>1. doc' = RowAfterCommit(r)
          BY <3>1 DEF Commit
        <5>2. QED BY <1>1, <3>3, <5>1 DEF RowAfterCommit, TypeOK, Document
      <4>2. req[r].at # "idle"
        BY <3>1 DEF Commit
      <4>3. doc.status # "NONE"
        BY <4>2, <3>1 DEF IInv, TypeInv, UnbornInv
      <4>4. QED BY <1>3, <4>1, <4>3
    <3>4. QED BY <3>2, <3>3
  <2>3. CASE ~(\E r \in Requests : BeginUpload(r) \/ Commit(r))
    <3>1. CASE doc.status = "NONE"
      BY <2>3, <3>1, BornFirst DEF IInv, TypeInv
    <3>2. CASE doc.status # "NONE"
      <4>1. doc'.key = doc.key
        <5>1. CASE \E r \in Requests : RequestStep(r)
          BY <1>1, <2>3, <5>1, <3>2
             DEF RequestStep, RequestBegins, BeginUpload, BeginAddVersion, BeginRevert,
                 BeginReprocess, BeginRemove, BeginRestore, BeginArchive, BeginUnarchive,
                 RequestContinues, PutObject, ForgetJob, ReadLatestNumber,
                 CommitRefused, Unwind, EnqueueJob, Write, WriteReprocess,
                 WriteRemove, WriteRestore, WriteArchive, WriteUnarchive,
                 RequestThrows, RequestLost, TypeOK, Document
        <5>2. CASE (\E w \in Workers : RunStep(w)) \/ StalledCheck \/ ExpireJob
          BY <1>1, <5>2, RunKeepsKey, QueueFrame
        <5>3. QED BY <5>1, <5>2 DEF Next
      <4>2. QED BY <1>3, <3>2, <4>1
    <3>3. QED BY <3>1, <3>2
  <2>4. QED BY <2>1, <2>2, <2>3
<1>4. QED BY <1>2, <1>3

LEMMA KnownStep ==
  ASSUME IInv, FreshInv, KnownInv, Next PROVE KnownInv'
<1>1. TypeOK /\ (\A w \in Workers : run[w].at \in KeyedStates => run[w].key \in Requests)
  BY DEF IInv, TypeInv, KeysInv, KeyedStates
<1>2. ASSUME NEW w \in Workers, run'[w].at \in KeyedStates PROVE Known(run[w].key)'
  <2>1. CASE run'[w].key = run[w].key /\ run[w].at \in KeyedStates
    BY <1>1, <2>1, KnownStays DEF KnownInv
  <2>2. CASE ReadDocument(w)
    <3>1. run'[w].key = doc.key /\ doc.status # "NONE"
      BY <1>1, <2>2 DEF ReadDocument, Active, TypeOK, Run
    <3>2. doc.key \in Requests
      BY <3>1 DEF IInv, TypeInv, KeysInv
    <3>3. QED BY <3>1, <3>2, KnownStays DEF KnownInv
  <2>3. CASE ~ReadDocument(w)
    <3>1. CASE \E v \in Workers : RunStep(v)
      <4>1. PICK v \in Workers : RunStep(v)
        BY <3>1
      <4>2. CASE v # w
        <5>1. run'[w] = run[w]
          BY <1>1, <4>1, <4>2
             DEF RunStep, RunContinues, TakeJob, ReadDocument, SkipDeleted, Advance,
                 WriteRow, RunGoto, AdvanceProcessing, AdvanceOcr, Extract, Extracted,
                 WriteText, AdvanceAnalysis, Summarise, SummariseFails,
                 WriteAnalysisFailed, WriteAnalysisSkipped, AdvanceReady, FinishRun,
                 RunThrows, RunLost, TypeOK
        <5>2. QED BY <1>2, <2>1, <5>1
      <4>3. CASE v = w
        <5>1. run'[w].key = run[w].key /\ run[w].at \in KeyedStates
          BY <1>1, <1>2, <2>3, <4>1, <4>3
             DEF KeyedStates, RunStep, RunContinues, TakeJob, SkipDeleted, Advance,
                 WriteRow, RunGoto, AdvanceProcessing, AdvanceOcr, Extract, Extracted,
                 WriteText, AdvanceAnalysis, Summarise, SummariseFails, NoRun,
                 WriteAnalysisFailed, WriteAnalysisSkipped, AdvanceReady, FinishRun,
                 RunThrows, RunLost, TypeOK, Run
        <5>2. QED BY <2>1, <5>1
      <4>4. QED BY <4>2, <4>3
    <3>2. CASE (\E r \in Requests : RequestStep(r)) \/ StalledCheck \/ ExpireJob
      <4>1. run' = run
        BY <3>2, RequestFrame, QueueFrame
      <4>2. QED BY <1>2, <2>1, <4>1
    <3>3. QED BY <3>1, <3>2 DEF Next
  <2>4. QED BY <2>2, <2>3
<1>3. QED BY <1>2, RowKnown DEF KnownInv

\* Bytes that are there under a known key are there to stay.
LEMMA BytesStay ==
  ASSUME IInv, FreshInv, Next, NEW k \in Requests, Known(k), objects[k] # Nothing
  PROVE  objects'[k] = objects[k]
<1>1. TypeOK /\ RequestInv
  BY DEF IInv, TypeInv
<1>2. ASSUME NEW r \in Requests, RequestStep(r), objects' # objects
      PROVE  PutObject(r) \/ Unwind(r)
  BY <1>2 DEF RequestStep, RequestBegins, BeginUpload, BeginAddVersion, BeginRevert,
       BeginReprocess, BeginRemove, BeginRestore, BeginArchive, BeginUnarchive,
       RequestContinues, PutObject, ForgetJob, ReadLatestNumber, Commit,
       CommitRefused, Unwind, EnqueueJob, Write, WriteReprocess, WriteRemove,
       WriteRestore, WriteArchive, WriteUnarchive, RequestThrows, RequestLost
<1>3. ASSUME NEW r \in Requests, PutObject(r) PROVE objects'[k] = objects[k]
  <2>1. r # k
    BY <1>3 DEF FreshInv, PutObject
  <2>2. QED BY <1>1, <1>3, <2>1 DEF PutObject, ObjectsAfterPut, TypeOK
<1>4. ASSUME NEW r \in Requests, Unwind(r) PROVE objects'[k] = objects[k]
  <2>1. r # k
    BY <1>1, <1>4 DEF RequestInv, Unwind, Known
  <2>2. QED BY <1>1, <1>4, <2>1 DEF Unwind, TypeOK
<1>5. CASE (\E w \in Workers : RunStep(w)) \/ StalledCheck \/ ExpireJob
  BY <1>5, RunFrame, QueueFrame
<1>6. QED BY <1>2, <1>3, <1>4, <1>5 DEF Next

-----------------------------------------------------------------------------
(* What is out with the vendor.                                             *)

\* A call belongs to a run that is reading or summarising, and the image it
\* sends to the object that run set out to read.
AskingInv ==
  /\ asking \in [Workers -> Asking]
  /\ \A w \in Workers : asking[w].at # "nothing" =>
       /\ run[w].at \in {"extract", "summarise"}
       /\ run[w].at = "extract" =>
            asking[w].bytes = objects[run[w].key] /\ asking[w].bytes # Nothing

AInv == IInv /\ FreshInv /\ KnownInv /\ AskingInv

AskingFrame == UNCHANGED <<asking, learned>>

\* One step of the run of w that has something to do with the vendor.
LEMMA CallRefines ==
  ASSUME AInv, NEW w \in Workers, CallStep(w)
  PROVE  UNCHANGED vars \/ Extract(w) \/ Summarise(w) \/ SummariseFails(w)
<1>1. ASSUME NEW call, OcrEnds(w, call), run[w].at = "extract",
             objects[run[w].key] # Nothing, call.bytes = objects[run[w].key]
      PROVE  Extract(w)
  BY <1>1 DEF OcrEnds, Extract
<1>2. ASSUME NEW call, NextPage(w, call), run[w].at = "extract",
             objects[run[w].key] # Nothing, call.bytes = objects[run[w].key]
      PROVE  UNCHANGED vars \/ Extract(w)
  BY <1>1, <1>2 DEF NextPage, AskNextPage
<1>3. CASE StartOcr(w)
  <2>1. PICK pages \in 1..MaxPages :
          NextPage(w, [NotAsking EXCEPT !.left = pages, !.bytes = objects[run[w].key]])
    BY <1>3 DEF StartOcr
  <2>2. [NotAsking EXCEPT !.left = pages, !.bytes = objects[run[w].key]].bytes
          = objects[run[w].key]
    BY DEF NotAsking
  <2>3. QED BY <1>2, <1>3, <2>1, <2>2 DEF StartOcr, Reading
<1>4. CASE PageRead(w)
  <2>1. PICK found \in 0..1 : NextPage(w, [asking[w] EXCEPT !.read = @ + found])
    BY <1>4 DEF PageRead
  <2>2. /\ run[w].at = "extract" /\ asking[w] \in Asking
        /\ asking[w].bytes = objects[run[w].key] /\ asking[w].bytes # Nothing
    BY <1>4 DEF PageRead, Reading, Out, AInv, AskingInv
  <2>3. [asking[w] EXCEPT !.read = @ + found].bytes = objects[run[w].key]
    BY <2>2 DEF Asking
  <2>4. QED BY <1>2, <2>1, <2>2, <2>3
<1>5. CASE PageFails(w)
  BY <1>1, <1>5 DEF PageFails, Reading, Out, AInv, AskingInv
<1>6. CASE RateLimited(w) \/ Retry(w) \/ Refused(w) \/ Resend(w) \/ StartSummary(w)
  BY <1>6 DEF RateLimited, Retry, Refused, Resend, StartSummary
<1>7. CASE ExtractWithoutModel(w) \/ SummaryAnswered(w) \/ SummaryUnusable(w)
  BY <1>7 DEF ExtractWithoutModel, SummaryAnswered, SummaryUnusable
<1>8. QED BY <1>3, <1>4, <1>5, <1>6, <1>7 DEF CallStep

\* Every step of the detailed pipeline is a step of the lifecycle, or none.
LEMMA StepRefines ==
  ASSUME AInv, [AnalysisNext]_analysisVars PROVE [Next]_vars
<1>1. ASSUME NEW w \in Workers, CallStep(w) PROVE [Next]_vars
  BY <1>1, CallRefines DEF Next, RunStep, RunContinues
<1>2. ASSUME NEW w \in Workers, OtherRunStep(w) \/ RunThrows(w) \/ RunLost(w) PROVE Next
  BY <1>2 DEF OtherRunStep, Next, RunStep, RunContinues
<1>3. CASE AnalysisNext
  BY <1>1, <1>2, <1>3 DEF AnalysisNext, AnalysisStep, AnalysisContinues, AnalysisLost,
                          NeighbourLearns, Next
<1>4. CASE UNCHANGED analysisVars
  BY <1>4 DEF analysisVars
<1>5. QED BY <1>3, <1>4

-----------------------------------------------------------------------------
(* The invariant is kept.                                                   *)

\* What AskingInv says of one slot.
Belongs(w) ==
  asking[w].at # "nothing" =>
    /\ run[w].at \in {"extract", "summarise"}
    /\ run[w].at = "extract" =>
         asking[w].bytes = objects[run[w].key] /\ asking[w].bytes # Nothing

LEMMA SendType ==
  ASSUME AskingInv, NEW w \in Workers, NEW call \in Asking, NEW known, Send(w, call, known)
  PROVE  asking' = [asking EXCEPT ![w] = asking'[w]] /\ asking'[w] \in Asking
         /\ asking'[w].bytes = call.bytes
<1> DEFINE sent == [call EXCEPT !.at = "asked",
                                !.hiding = HideReasoning /\ ModelOf(w) \notin known]
<1>1. (HideReasoning /\ ModelOf(w) \notin known) \in BOOLEAN
  BY SwitchesAssumption
<1>2. sent \in Asking /\ sent.bytes = call.bytes
  BY <1>1 DEF Asking
<1>3. asking' = [asking EXCEPT ![w] = sent]
  BY DEF Send
<1>4. asking'[w] = sent
  BY <1>3 DEF AskingInv
<1> HIDE DEF sent
<1>5. QED BY <1>2, <1>3, <1>4

\* A step of ocr(): the next page of the same file, or the end.
LEMMA NextPageBelongs ==
  ASSUME AInv, NEW w \in Workers, NEW call \in Asking, NextPage(w, call),
         run[w].at = "extract",
         call.bytes = objects[run[w].key], call.bytes # Nothing
  PROVE  /\ asking' = [asking EXCEPT ![w] = asking'[w]] /\ asking'[w] \in Asking
         /\ Belongs(w)'
<1>1. AskingInv
  BY DEF AInv
<1>2. CASE AskNextPage(w, call)
  <2>1. PICK skipped \in 0..call.left - 1 :
          Send(w, [call EXCEPT !.left = @ - skipped - 1, !.attempt = 0], learned)
    BY <1>2 DEF AskNextPage
  <2>2. /\ [call EXCEPT !.left = @ - skipped - 1, !.attempt = 0] \in Asking
        /\ [call EXCEPT !.left = @ - skipped - 1, !.attempt = 0].bytes = call.bytes
    <3>1. call.left \in Nat
      BY DEF Asking
    <3>2. call.left - skipped - 1 \in Nat
      BY <3>1
    <3>3. \A n \in Nat : /\ [call EXCEPT !.left = n, !.attempt = 0] \in Asking
                        /\ [call EXCEPT !.left = n, !.attempt = 0].bytes = call.bytes
      BY DEF Asking
    <3>4. QED BY <3>2, <3>3
  <2>3. /\ asking' = [asking EXCEPT ![w] = asking'[w]] /\ asking'[w] \in Asking
        /\ asking'[w].bytes = call.bytes
    BY <1>1, <2>1, <2>2, SendType
  <2>4. UNCHANGED <<run, objects>>
    BY <1>2 DEF AskNextPage, vars
  <2>5. QED BY <2>3, <2>4 DEF Belongs
<1>3. CASE OcrEnds(w, call)
  <2>1. asking' = [asking EXCEPT ![w] = NotAsking]
    BY <1>3 DEF OcrEnds, Settled
  <2>2. asking'[w] = NotAsking
    BY <1>1, <2>1 DEF AskingInv
  <2>3. NotAsking \in Asking /\ NotAsking.at = "nothing"
    BY DEF NotAsking, Asking, Key
  <2>4. QED BY <2>1, <2>2, <2>3 DEF Belongs
<1>4. QED BY <1>2, <1>3 DEF NextPage

\* A step of a call touches what its own slot has out, and nothing else.
LEMMA CallBelongs ==
  ASSUME AInv, NEW w \in Workers, CallStep(w)
  PROVE  /\ asking' = [asking EXCEPT ![w] = asking'[w]] /\ asking'[w] \in Asking
         /\ Belongs(w)'
<1>1. /\ AskingInv /\ TypeOK /\ asking[w] \in Asking /\ Belongs(w)
      /\ NotAsking \in Asking /\ NotAsking.at = "nothing"
  BY DEF AInv, AskingInv, IInv, TypeInv, Belongs, NotAsking, Asking, Key
<1>2. ASSUME NEW at \in {"waiting", "refused"}, Becomes(w, at), Out(w), UNCHANGED vars
      PROVE  /\ asking' = [asking EXCEPT ![w] = asking'[w]] /\ asking'[w] \in Asking
             /\ Belongs(w)'
  <2>1. asking'[w] = [asking[w] EXCEPT !.at = at]
    BY <1>1, <1>2 DEF Becomes, AskingInv
  <2>2. asking'[w] \in Asking /\ asking'[w].bytes = asking[w].bytes
    BY <1>1, <2>1 DEF Asking
  <2>3. asking' = [asking EXCEPT ![w] = asking'[w]]
    BY <1>1, <1>2, <2>1 DEF Becomes, AskingInv
  <2>4. QED BY <1>1, <1>2, <2>2, <2>3 DEF Belongs, Out, vars
<1>3. ASSUME NEW call \in Asking, NEW known, Send(w, call, known), UNCHANGED vars,
             run[w].at \in {"extract", "summarise"},
             run[w].at = "extract" => call.bytes = objects[run[w].key] /\ call.bytes # Nothing
      PROVE  /\ asking' = [asking EXCEPT ![w] = asking'[w]] /\ asking'[w] \in Asking
             /\ Belongs(w)'
  <2>1. /\ asking' = [asking EXCEPT ![w] = asking'[w]] /\ asking'[w] \in Asking
        /\ asking'[w].bytes = call.bytes
    BY <1>1, <1>3, SendType
  <2>2. QED BY <1>3, <2>1 DEF Belongs, vars
<1>4. ASSUME Settled(w)
      PROVE  /\ asking' = [asking EXCEPT ![w] = asking'[w]] /\ asking'[w] \in Asking
             /\ Belongs(w)'
  <2>1. asking' = [asking EXCEPT ![w] = NotAsking] /\ asking'[w] = NotAsking
    BY <1>1, <1>4 DEF Settled, AskingInv
  <2>2. QED BY <1>1, <2>1 DEF Belongs
<1>5. CASE RateLimited(w) \/ Refused(w)
  BY <1>2, <1>5 DEF RateLimited, Refused, vars
<1>6. CASE Retry(w) \/ Resend(w)
  <2>1. PICK call \in Asking :
          /\ \E known : Send(w, call, known)
          /\ call.bytes = asking[w].bytes /\ UNCHANGED vars
    <3>1. [asking[w] EXCEPT !.attempt = @ + 1] \in Asking
      BY <1>1 DEF Asking
    <3>2. [asking[w] EXCEPT !.attempt = @ + 1].bytes = asking[w].bytes
      BY <1>1 DEF Asking
    <3>3. QED BY <1>1, <1>6, <3>1, <3>2 DEF Retry, Resend
  <2>2. asking[w].at # "nothing"
    BY <1>6 DEF Retry, Resend
  <2>3. QED BY <1>1, <1>3, <2>1, <2>2 DEF Belongs
<1>7. CASE StartSummary(w)
  BY <1>1, <1>3, <1>7 DEF StartSummary, Summarising, vars
<1>8. CASE ExtractWithoutModel(w)
  <2>1. asking' = asking /\ asking[w].at = "nothing"
    BY <1>8 DEF ExtractWithoutModel
  <2>2. QED BY <1>1, <2>1 DEF Belongs, AskingInv
<1>9. CASE StartOcr(w)
  <2>1. PICK pages \in 1..MaxPages :
          NextPage(w, [NotAsking EXCEPT !.left = pages, !.bytes = objects[run[w].key]])
    BY <1>9 DEF StartOcr
  <2>2. /\ run[w].at = "extract" /\ objects[run[w].key] # Nothing
        /\ objects[run[w].key] \in Key
    BY <1>1, <1>9 DEF StartOcr, Reading, TypeOK, AInv, IInv, TypeInv, KeysInv
  <2>3. /\ [NotAsking EXCEPT !.left = pages, !.bytes = objects[run[w].key]] \in Asking
        /\ [NotAsking EXCEPT !.left = pages, !.bytes = objects[run[w].key]].bytes
             = objects[run[w].key]
    <3>1. pages \in Nat
      BY LimitsAssumption
    <3>2. \A n \in Nat, b \in Key :
             /\ [NotAsking EXCEPT !.left = n, !.bytes = b] \in Asking
             /\ [NotAsking EXCEPT !.left = n, !.bytes = b].bytes = b
      BY DEF NotAsking, Asking
    <3>3. QED BY <2>2, <3>1, <3>2
  <2>4. QED BY <2>1, <2>2, <2>3, NextPageBelongs
<1>10. CASE PageRead(w)
  <2>1. PICK found \in 0..1 : NextPage(w, [asking[w] EXCEPT !.read = @ + found])
    BY <1>10 DEF PageRead
  <2>2. /\ run[w].at = "extract" /\ asking[w].bytes = objects[run[w].key]
        /\ asking[w].bytes # Nothing
    BY <1>1, <1>10 DEF PageRead, Reading, Out, Belongs
  <2>3. /\ [asking[w] EXCEPT !.read = @ + found] \in Asking
        /\ [asking[w] EXCEPT !.read = @ + found].bytes = asking[w].bytes
    BY <1>1 DEF Asking
  <2>4. QED BY <2>1, <2>2, <2>3, NextPageBelongs
<1>11. CASE PageFails(w) \/ SummaryAnswered(w) \/ SummaryUnusable(w)
  BY <1>4, <1>11 DEF PageFails, OcrEnds, SummaryAnswered, SummaryUnusable
<1>12. QED BY <1>5, <1>6, <1>7, <1>8, <1>9, <1>10, <1>11 DEF CallStep

\* A call step of one slot leaves the objects and the other runs alone.
LEMMA CallFrame ==
  ASSUME TypeOK, NEW w \in Workers, UNCHANGED vars \/ Extract(w) \/ Summarise(w)
                                    \/ SummariseFails(w)
  PROVE  objects' = objects /\ \A v \in Workers : v # w => run'[v] = run[v]
BY DEF TypeOK, vars, Extract, Extracted, Summarise, SummariseFails, WriteRow, RunGoto

LEMMA AskingStep ==
  ASSUME AInv, [AnalysisNext]_analysisVars PROVE AskingInv'
<1>1. /\ AskingInv /\ TypeOK /\ \A w \in Workers : Belongs(w)
  BY DEF AInv, AskingInv, IInv, TypeInv, Belongs
<1>2. ASSUME NEW w \in Workers, CallStep(w) PROVE AskingInv'
  <2>1. /\ asking' = [asking EXCEPT ![w] = asking'[w]] /\ asking'[w] \in Asking
        /\ Belongs(w)'
    BY <1>2, CallBelongs
  <2>2. objects' = objects /\ \A v \in Workers : v # w => run'[v] = run[v]
    BY <1>1, <1>2, CallRefines, CallFrame
  <2>3. asking' \in [Workers -> Asking]
    BY <1>1, <2>1 DEF AskingInv
  <2>4. ASSUME NEW v \in Workers PROVE Belongs(v)'
    <3>1. CASE v = w
      BY <2>1, <3>1
    <3>2. CASE v # w
      <4>1. asking'[v] = asking[v] /\ run'[v] = run[v]
        BY <1>1, <2>1, <2>2, <3>2 DEF AskingInv
      <4>2. QED BY <1>1, <2>2, <4>1 DEF Belongs
    <3>3. QED BY <3>1, <3>2
  <2>5. QED BY <2>3, <2>4 DEF AskingInv, Belongs
<1>3. ASSUME UNCHANGED <<asking, run>>, Next PROVE AskingInv'
  <2>1. ASSUME NEW w \in Workers PROVE Belongs(w)'
    <3>1. CASE asking[w].at # "nothing" /\ run[w].at = "extract"
      <4>1. run[w].key \in Requests /\ Known(run[w].key)
        BY <3>1 DEF AInv, IInv, TypeInv, KeysInv, KnownInv, KeyedStates
      <4>2. asking[w].bytes = objects[run[w].key] /\ asking[w].bytes # Nothing
        BY <1>1, <3>1 DEF Belongs
      <4>3. objects'[run[w].key] = objects[run[w].key]
        BY <1>3, <4>1, <4>2, BytesStay DEF AInv
      <4>4. QED BY <1>3, <3>1, <4>2, <4>3 DEF Belongs
    <3>2. CASE asking[w].at = "nothing" \/ run[w].at # "extract"
      BY <1>1, <1>3, <3>2 DEF Belongs
    <3>3. QED BY <3>1, <3>2
  <2>2. QED BY <1>1, <1>3, <2>1 DEF AskingInv, Belongs
<1>4. ASSUME NEW w \in Workers, UNCHANGED <<asking, objects>>,
             OtherRunStep(w) \/ RunThrows(w)
      PROVE  AskingInv'
  <2>1. run[w].at \notin {"extract", "summarise"} /\ \A v \in Workers : v # w => run'[v] = run[v]
    BY <1>1, <1>4
       DEF OtherRunStep, TakeJob, ReadDocument, SkipDeleted, Advance, WriteRow, RunGoto,
           AdvanceProcessing, AdvanceOcr, WriteText, AdvanceAnalysis,
           WriteAnalysisFailed, WriteAnalysisSkipped, AdvanceReady, FinishRun,
           RunThrows, TypeOK
  <2>2. asking[w].at = "nothing"
    BY <1>1, <2>1 DEF Belongs
  <2>3. \A v \in Workers : Belongs(v)'
    BY <1>1, <1>4, <2>1, <2>2 DEF Belongs
  <2>4. QED BY <1>1, <1>4, <2>3 DEF AskingInv, Belongs
<1>5. ASSUME NEW w \in Workers, AnalysisLost(w) PROVE AskingInv'
  <2>1. /\ asking' = [asking EXCEPT ![w] = NotAsking]
        /\ run' = [run EXCEPT ![w] = NoRun]
        /\ objects' = objects
    BY <1>5 DEF AnalysisLost, RunLost, Settled
  <2>2. NotAsking \in Asking /\ NotAsking.at = "nothing"
    BY DEF NotAsking, Asking, Key
  <2>3. QED BY <1>1, <2>1, <2>2 DEF AskingInv, TypeOK
<1>6. CASE AnalysisNext
  <2>1. CASE \E r \in Requests : RequestStep(r) /\ UNCHANGED <<asking, learned>>
    BY <1>3, <2>1, RequestFrame DEF Next
  <2>2. CASE \E w \in Workers : \/ AnalysisContinues(w)
                                \/ RunThrows(w) /\ UNCHANGED <<asking, learned>>
                                \/ AnalysisLost(w)
    <3>1. PICK w \in Workers : \/ AnalysisContinues(w)
                               \/ RunThrows(w) /\ UNCHANGED <<asking, learned>>
                               \/ AnalysisLost(w)
      BY <2>2
    <3>2. CASE CallStep(w)
      BY <1>2, <3>2
    <3>3. CASE (OtherRunStep(w) \/ RunThrows(w)) /\ UNCHANGED <<asking, learned>>
      <4>1. UNCHANGED objects
        BY <3>3, RunFrame DEF OtherRunStep, RunStep, RunContinues
      <4>2. QED BY <1>4, <3>3, <4>1
    <3>4. CASE AnalysisLost(w)
      BY <1>5, <3>4
    <3>5. QED BY <3>1, <3>2, <3>3, <3>4 DEF AnalysisContinues
  <2>3. CASE \E m \in Refuses : NeighbourLearns(m)
    <3>1. UNCHANGED <<asking, run, objects>>
      BY <2>3 DEF NeighbourLearns, vars
    <3>2. QED BY <1>1, <3>1 DEF AskingInv
  <2>4. CASE (StalledCheck \/ ExpireJob) /\ UNCHANGED <<asking, learned>>
    BY <1>3, <2>4, QueueFrame DEF Next
  <2>5. QED BY <1>6, <2>1, <2>2, <2>3, <2>4 DEF AnalysisNext, AnalysisStep
<1>7. CASE UNCHANGED analysisVars
  <2>1. UNCHANGED <<asking, run, objects>>
    BY <1>7 DEF analysisVars, vars
  <2>2. QED BY <1>1, <2>1 DEF AskingInv
<1>8. QED BY <1>6, <1>7

LEMMA AInvInit == AnalysisInit => AInv
<1> SUFFICES ASSUME AnalysisInit PROVE AInv
  OBVIOUS
<1>1. IInv
  BY IInvInit DEF AnalysisInit
<1>2. FreshInv /\ KnownInv
  BY DEF AnalysisInit, Init, FreshInv, KnownInv, KeyedStates, NoRun
<1>3. AskingInv
  BY DEF AnalysisInit, AskingInv, NotAsking, Asking, Key
<1>4. QED BY <1>1, <1>2, <1>3 DEF AInv

LEMMA AInvStep == AInv /\ [AnalysisNext]_analysisVars => AInv'
<1> SUFFICES ASSUME AInv, [AnalysisNext]_analysisVars PROVE AInv'
  OBVIOUS
<1>1. [Next]_vars /\ AskingInv'
  BY StepRefines, AskingStep
<1>2. IInv'
  BY <1>1, IInvStep DEF AInv
<1>3. CASE Next
  <2>1. FreshInv'
    <3>1. CASE \E r \in Requests : RequestStep(r)
      BY <3>1, FreshRequest DEF AInv, IInv, TypeInv
    <3>2. CASE (\E w \in Workers : RunStep(w)) \/ StalledCheck \/ ExpireJob
      <4>1. UNCHANGED <<req, objects>>
        BY <3>2, RunFrame, QueueFrame
      <4>2. QED BY <4>1 DEF AInv, FreshInv
    <3>3. QED BY <1>3, <3>1, <3>2 DEF Next
  <2>2. QED BY <1>1, <1>2, <1>3, <2>1, KnownStep DEF AInv
<1>4. CASE UNCHANGED vars
  BY <1>1, <1>2, <1>4 DEF AInv, FreshInv, KnownInv, Known, vars
<1>5. QED BY <1>1, <1>3, <1>4

LEMMA AnalysisInvariant == AnalysisSpec => []AInv
BY AInvInit, AInvStep, PTL DEF AnalysisSpec

-----------------------------------------------------------------------------

\* Every image that is out with the vendor is a page of the bytes its run set
\* out to read, and every call belongs to a run at one of its two steps, for
\* any number of slots, pages and retries (ocr, summarise and complete).
THEOREM CallsBelongToTheirRun ==
  AnalysisSpec => []AskingInv
<1>1. AInv => AskingInv
  BY DEF AInv
<1>2. QED BY <1>1, AnalysisInvariant, PTL

\* The pipeline with its rate limits, refused flags, partial scans and unusable
\* answers is the pipeline of DocumentLifecycle.
THEOREM AnalysisRefinesLifecycle == AnalysisSpec => ImplementsLifecycle
<1>1. AnalysisInit => Init
  BY DEF AnalysisInit
<1>2. QED BY <1>1, StepRefines, AnalysisInvariant, PTL
          DEF AnalysisSpec, ImplementsLifecycle, Spec

=============================================================================
