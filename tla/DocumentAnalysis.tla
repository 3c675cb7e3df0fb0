-------------------------- MODULE DocumentAnalysis --------------------------
(***************************************************************************)
(* DocumentLifecycle with the two steps of its run that talk to a model of *)
(* the AI vendor taken apart: reading the pages of a scan one by one, and  *)
(* asking for the summary.  Each is a series of HTTP calls, and a call can *)
(* be told to wait, can be refused for a flag the model does not know,     *)
(* can fail, and can answer with something that is of no use.              *)
(*                                                                         *)
(* What a process has learned of the vendor's models outlives a document:  *)
(* the other slots of the process read it and add to it.                   *)
(***************************************************************************)
EXTENDS DocumentLifecycle

CONSTANTS
  Models,               \* the vendor's models
  TextModel,            \* the one that summarises
  VisionModel,          \* the one that reads images, or NoModel
  NoModel,
  Refuses,              \* models that refuse the flag hiding their reasoning
  HideReasoning,        \* whether this vendor is sent the flag at all
  OcrEnabled,           \* AI_OCR_ENABLED
  MaxPages,             \* AI_MAX_OCR_PAGES
  MaxRateLimitRetries   \* MAX_RATE_LIMIT_RETRIES

ASSUME ModelsAssumption ==
  /\ NoModel \notin Models
  /\ TextModel \in Models /\ VisionModel \in Models \cup {NoModel}
  /\ Refuses \subseteq Models
ASSUME SwitchesAssumption == HideReasoning \in BOOLEAN /\ OcrEnabled \in BOOLEAN
ASSUME LimitsAssumption == MaxPages \in Nat /\ MaxRateLimitRetries \in Nat

VARIABLES
  asking,     \* what each slot has out with the vendor
  learned,    \* models seen to refuse the flag (unsupportedReasoningModels)
  abandoned   \* for the properties only: since Redis last accepted a job, BullMQ
              \* has given it up, or the add that was to bring the next one failed
              \* or was dropped

analysisVars == <<vars, asking, learned, abandoned>>

-----------------------------------------------------------------------------
(* State.                                                                   *)

\* left counts the images still to be looked at, read those that gave text;
\* bytes is the file they were rendered from and hiding whether the call that
\* is out carries the flag.
Asking == [at : {"nothing", "asked", "waiting", "refused"}, left : Nat,
           read : Nat, attempt : Nat, hiding : BOOLEAN, bytes : Key]

NotAsking == [at |-> "nothing", left |-> 0, read |-> 0, attempt |-> 0,
              hiding |-> FALSE, bytes |-> Nothing]

AnalysisTypeOK == /\ asking \in [Workers -> Asking]
                  /\ learned \subseteq Models
                  /\ abandoned \in BOOLEAN

AnalysisInit ==
  /\ Init
  /\ asking = [w \in Workers |-> NotAsking]
  /\ learned = {}
  /\ abandoned = FALSE

-----------------------------------------------------------------------------
(* A call to the vendor.                                                    *)

CanOcr == OcrEnabled /\ VisionModel # NoModel

Reading(w) == run[w].at = "extract"
Summarising(w) == run[w].at = "summarise"

ModelOf(w) == IF Reading(w) THEN VisionModel ELSE TextModel

\* What complete() sends: the flag, unless the model is known to refuse it.
Send(w, call, known) ==
  asking' = [asking EXCEPT ![w] =
    [call EXCEPT !.at = "asked",
                 !.hiding = HideReasoning /\ ModelOf(w) \notin known]]

Becomes(w, at) == asking' = [asking EXCEPT ![w].at = at]
Settled(w) == asking' = [asking EXCEPT ![w] = NotAsking]
Out(w) == asking[w].at = "asked"

\* A 429 that says how long to wait, while retries are left.
RateLimited(w) ==
  /\ Out(w)
  /\ asking[w].attempt < MaxRateLimitRetries
  /\ Becomes(w, "waiting")
  /\ UNCHANGED <<vars, learned>>

Retry(w) ==
  /\ asking[w].at = "waiting"
  /\ Send(w, [asking[w] EXCEPT !.attempt = @ + 1], learned)
  /\ UNCHANGED <<vars, learned>>

FlagRefused(w) == asking[w].hiding /\ ModelOf(w) \in Refuses

\* A 400 that names reasoning_format; its body is still to be read.
Refused(w) ==
  /\ Out(w) /\ FlagRefused(w)
  /\ Becomes(w, "refused")
  /\ UNCHANGED <<vars, learned>>

\* The model is remembered, and the same try is sent without the flag.
Resend(w) ==
  /\ asking[w].at = "refused"
  /\ learned' = learned \cup {ModelOf(w)}
  /\ Send(w, asking[w], learned')
  /\ UNCHANGED vars

-----------------------------------------------------------------------------
(* Reading the text.                                                        *)

\* A file with text in it, one with none, or one that cannot be parsed.
ExtractWithoutModel(w) ==
  /\ asking[w].at = "nothing"
  /\ Extract(w)
  /\ UNCHANGED <<asking, learned>>

\* Mutant: a page that failed fails the step, beside the text that was found.
OcrEndsHalfFailed(w, call) ==
  /\ Extracted(w, IF call.left > 0 THEN "FAILED" ELSE "DONE",
               IF call.read > 0 THEN call.bytes ELSE Nothing)
  /\ Settled(w)
  /\ UNCHANGED learned

\* ocr() is through: a page that failed ends it too, and what was read by then
\* is kept.  Where nothing was read the step is DONE with no text.
OcrEnds(w, call) ==
  /\ Extracted(w, "DONE", IF call.read > 0 THEN call.bytes ELSE Nothing)
  /\ Settled(w)
  /\ UNCHANGED learned

\* The next image small enough to send; the larger ones before it are skipped.
AskNextPage(w, call) ==
  /\ \E skipped \in 0..call.left - 1 :
        Send(w, [call EXCEPT !.left = @ - skipped - 1, !.attempt = 0], learned)
  /\ UNCHANGED <<vars, learned>>

NextPage(w, call) == AskNextPage(w, call) \/ OcrEnds(w, call)

\* A scan, or an image: up to MaxPages pages are rendered before the first call.
StartOcr(w) ==
  /\ Reading(w) /\ asking[w].at = "nothing"
  /\ CanOcr
  /\ objects[run[w].key] # Nothing
  /\ \E pages \in 1..MaxPages :
        NextPage(w, [NotAsking EXCEPT !.left = pages,
                                      !.bytes = objects[run[w].key]])

\* A page answered with text, or with nothing but reasoning.
PageRead(w) ==
  /\ Reading(w) /\ Out(w) /\ ~FlagRefused(w)
  /\ \E found \in 0..1 : NextPage(w, [asking[w] EXCEPT !.read = @ + found])

\* Timeout, error status, wait too long or unknown, tries used up, token budget
\* spent before any output.
PageFails(w) ==
  /\ Reading(w) /\ Out(w)
  /\ OcrEnds(w, asking[w])

-----------------------------------------------------------------------------
(* The summary.                                                             *)

StartSummary(w) ==
  /\ Summarising(w) /\ asking[w].at = "nothing"
  /\ Send(w, NotAsking, learned)
  /\ UNCHANGED <<vars, learned>>

\* Valid JSON, or JSON the vendor rejected and sent back all the same.
SummaryAnswered(w) ==
  /\ Out(w) /\ ~FlagRefused(w)
  /\ Summarise(w)
  /\ Settled(w)
  /\ UNCHANGED learned

\* The call failed, or its answer did not have the shape that was asked for.
SummaryUnusable(w) ==
  /\ Out(w)
  /\ SummariseFails(w)
  /\ Settled(w)
  /\ UNCHANGED learned

-----------------------------------------------------------------------------

CallStep(w) ==
  \/ RateLimited(w) \/ Retry(w) \/ Refused(w) \/ Resend(w)
  \/ ExtractWithoutModel(w) \/ StartOcr(w) \/ PageRead(w) \/ PageFails(w)
  \/ StartSummary(w) \/ SummaryAnswered(w) \/ SummaryUnusable(w)

\* The steps of the run in which no vendor is asked.
OtherRunStep(w) ==
  \/ TakeJob(w) \/ ReadDocument(w) \/ SkipDeleted(w)
  \/ AdvanceProcessing(w) \/ AdvanceOcr(w) \/ WriteText(w)
  \/ AdvanceAnalysis(w) \/ WriteAnalysisFailed(w) \/ WriteAnalysisSkipped(w)
  \/ AdvanceReady(w) \/ FinishRun(w)

AnalysisContinues(w) ==
  \/ CallStep(w)
  \/ OtherRunStep(w) /\ UNCHANGED <<asking, learned>>

\* A process that dies takes what it had learned with it.
AnalysisLost(w) ==
  /\ RunLost(w)
  /\ Settled(w)
  /\ learned' = {}

\* Another slot of the process met the refusal with a document of its own.
NeighbourLearns(m) ==
  /\ HideReasoning /\ m \in (Refuses \cap {TextModel, VisionModel}) \ learned
  /\ learned' = learned \cup {m}
  /\ UNCHANGED <<vars, asking>>

AnalysisStep ==
  \/ \E r \in Requests : RequestStep(r) /\ UNCHANGED <<asking, learned>>
  \/ \E w \in Workers :
        \/ AnalysisContinues(w)
        \/ RunThrows(w) /\ UNCHANGED <<asking, learned>>
        \/ AnalysisLost(w)
  \/ \E m \in Refuses : NeighbourLearns(m)
  \/ (StalledCheck \/ ExpireJob) /\ UNCHANGED <<asking, learned>>

-----------------------------------------------------------------------------
(* For the properties only: who is to bring the document out of the         *)
(* pipeline.                                                                *)

\* The request has seen to the job there was, and is to add one.
OwesJob(r) == \/ req[r].at \in {"txread", "commit", "enqueue"}
              \/ req[r].at = "write" /\ req[r].op = "reprocess"

\* No job, a finished one that BullMQ keeps, or one whose run has written its last.
NothingToCome == \/ job.state \in {"none", "completed", "failed"}
                 \/ \E w \in Workers : run[w].at = "tail"

\* It fails before it has added one, or its add is dropped for the sake of a job
\* that has nothing left to do.
Abandons(r) ==
  /\ OwesJob(r)
  /\ NothingToCome
  /\ \/ RequestThrows(r)
     \/ RequestLost(r)
     \/ EnqueueJob(r) /\ job.state # "none"

Accepted == job.state = "none" /\ job'.state = "waiting"

\* The attempts are used up: the job threw as often as it may, or stalled twice.
GivenUp == job'.state = "failed" /\ (job'.failures = Attempts \/ job'.stalls = 1)

Watch ==
  abandoned' = (~Accepted /\ (abandoned \/ GivenUp \/ \E r \in Requests : Abandons(r)))

-----------------------------------------------------------------------------

AnalysisNext == AnalysisStep /\ Watch

AnalysisSpec == AnalysisInit /\ [][AnalysisNext]_analysisVars

\* Node runs every started request on, a worker that is up takes waiting jobs
\* and drives its run, and a call that is out ends, if only by its timeout.
\* Nobody has to make a request, no fault has to happen and a finished job has
\* to expire only some day.
AnalysisFairness ==
  /\ \A r \in Requests :
        WF_<<vars, asking, learned>>(RequestContinues(r) /\ UNCHANGED <<asking, learned>>)
  /\ \A w \in Workers : WF_<<vars, asking, learned>>(AnalysisContinues(w))
  /\ WF_<<vars, asking, learned>>(StalledCheck /\ UNCHANGED <<asking, learned>>)

FairAnalysisSpec == AnalysisSpec /\ AnalysisFairness

-----------------------------------------------------------------------------
(* Properties.                                                              *)

\* A job that Redis accepted ends with the document out of the pipeline (or
\* trashed): failing OCR or analysis, a worker that dies, a document trashed and
\* restored mid-run do not strand it, nor does a request that forgets the waiting
\* job of another, for it brings one of its own.  It is left where it is only when
\* the attempts are used up, when the request that forgot the job fails before it
\* has added the next, or when its add is dropped (StrandedIsReprocessable).
AcceptedJobSettles ==
  job.state \in {"waiting", "active"} ~> ~Active \/ NotInFlight \/ abandoned

\* The calls taken apart are nothing but the extraction and the analysis of
\* DocumentLifecycle: every step is one of its steps or none.
ImplementsLifecycle == Spec

=============================================================================
