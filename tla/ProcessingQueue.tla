-------------------------- MODULE ProcessingQueue --------------------------
(***************************************************************************)
(* The BullMQ queue "document-processing", seen from one document.         *)
(*                                                                         *)
(* The producer uses the document id as the job id, so there is at most    *)
(* one job for a document, the variable job.  The producer's two calls,    *)
(* enqueue and forget, are translated from the repository.  What the queue *)
(* does with a job once Redis holds it (hand it to a worker, retry it,     *)
(* notice that its worker died, drop it after a while) is BullMQ's own,    *)
(* modelled from the options the repository passes to it.                  *)
(***************************************************************************)
EXTENDS Naturals

CONSTANT Attempts       \* DOCUMENT_JOB_OPTIONS.attempts

ASSUME AttemptsAssumption == Attempts \in Nat \ {0}

VARIABLE job

(***************************************************************************)
(* failures counts the runs of the job that threw, stalls the times its    *)
(* worker was found dead (BullMQ forgives one).  A job that sits out its   *)
(* backoff delay counts as waiting.                                        *)
(***************************************************************************)
JobStates == {"none", "waiting", "active", "completed", "failed"}

Job == [state : JobStates, failures : 0..Attempts, stalls : 0..1]

NoJob  == [state |-> "none",    failures |-> 0, stalls |-> 0]
NewJob == [state |-> "waiting", failures |-> 0, stalls |-> 0]

-----------------------------------------------------------------------------
(* The producer's calls.                                                    *)

\* Mutant: the job is added without a job id, so a second add() runs as well.
EnqueueWithoutJobId == job' = NewJob

\* add() under an id the queue still holds is dropped; enqueue answers true.
Enqueue == job' = IF job.state = "none" THEN NewJob ELSE job

\* BullMQ refuses to remove a job whose worker holds its lock, and forget
\* swallows the refusal.  The lock of a dead worker may or may not be gone.
Forget(locked) ==
  \/ ~locked /\ job' = NoJob
  \/ job.state = "active" /\ UNCHANGED job

-----------------------------------------------------------------------------
(* The queue and its workers.                                               *)

Take ==
  /\ job.state = "waiting"
  /\ job' = [job EXCEPT !.state = "active"]

Complete == job' = [job EXCEPT !.state = "completed"]

\* A run that threw is retried until the attempts are used up.
Fail ==
  LET failures == job.failures + 1
  IN  job' = [job EXCEPT
                !.failures = failures,
                !.state = IF failures < Attempts THEN "waiting" ELSE "failed"]

\* The stalled-job check: an active job that no worker keeps alive.
Stall ==
  /\ job.state = "active"
  /\ job' = IF job.stalls = 0
            THEN [job EXCEPT !.state = "waiting", !.stalls = 1]
            ELSE [job EXCEPT !.state = "failed"]

\* removeOnComplete and removeOnFail drop a finished job after a while.
Expire ==
  /\ job.state \in {"completed", "failed"}
  /\ job' = NoJob

=============================================================================
