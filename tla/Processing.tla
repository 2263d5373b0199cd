----------------------------- MODULE Processing -----------------------------
(***************************************************************************)
(* The processing of uploaded papers by the NestJS backend: the job queue  *)
(* that lives in the backend process (DocumentProcessingQueueService), the *)
(* three requests that start and end its work (upload, reprocess and       *)
(* remove of DocumentsService), and the recovery of interrupted jobs when  *)
(* the process starts again.                                               *)
(*                                                                         *)
(* Every await of the code is a point where other handlers run and where   *)
(* the process can die, so each database write is an action of its own.    *)
(* The rows of the tables Document and ProcessingJob survive a crash; all  *)
(* the rest (program counters of runners and handlers) is lost with the    *)
(* process.  Of a document row only its status is kept, of a job row its   *)
(* status, its document and its attempts: stage, progress, messages and    *)
(* times are never read back by the code.                                  *)
(***************************************************************************)
EXTENDS Integers, FiniteSets

CONSTANTS
  Docs,                 \* ids of papers that may be uploaded
  NoDoc,                \* the document of a job that does not exist yet
  MaxJobs,              \* bound: job rows ever created, in creation order
  Handlers,             \* bound: HTTP requests being served at the same time
  MAX_RESUME_ATTEMPTS,  \* a job interrupted this often is failed
  MaxCrashes,           \* bound: deaths of the backend process
  MaxFaults             \* bound: database calls that fail

ASSUME NoDocAssumption   == NoDoc \notin Docs
ASSUME BoundsAssumption  == MaxJobs \in Nat /\ MaxCrashes \in Nat /\ MaxFaults \in Nat
ASSUME AttemptsAssumption == MAX_RESUME_ATTEMPTS \in Nat \ {0}

\* Jobs are numbered in the order of createdAt.
Jobs == 1 .. MaxJobs

DocStates  == {"ABSENT", "PENDING", "EXTRACTING", "EMBEDDING", "READY", "FAILED", "DELETED"}
JobStates  == {"NONE", "QUEUED", "ACTIVE", "COMPLETED", "FAILED", "GONE"}
Open       == {"QUEUED", "ACTIVE"}
Closed     == {"COMPLETED", "FAILED"}
InProgress == {"EXTRACTING", "EMBEDDING"}
Terminal   == {"READY", "FAILED"}

\* Where a runner (one call of runJobDirect) waits: named for its next step.
TryPoints == {"start", "extracting", "ingest", "embJob", "embDoc", "embed", "complete", "ready"}
Points    == TryPoints \cup {"idle", "failDoc", "failJob"}

VARIABLES
  docStatus,   \* Document.status; ABSENT before the upload, DELETED after remove
  jobStatus,   \* ProcessingJob.status; NONE before create, GONE after the cascade
  jobDoc,      \* ProcessingJob.documentId
  attempts,    \* ProcessingJob.attempts
  pc,          \* the runner of each job
  phase,       \* the backend process: "up", "down", or "boot"
  todo,        \* the interrupted jobs the bootstrap has still to handle
  snap,        \* the document statuses its findMany returned
  bootFail,    \* the job it has failed but whose document it has not, or 0
  hpc, hdoc,   \* each request handler: its next step and its document
  crashes, faults,
  torn         \* history: documents whose closing write was lost

database == <<docStatus, jobStatus, jobDoc, attempts>>
boot     == <<phase, todo, snap, bootFail>>
handlers == <<hpc, hdoc>>
vars     == <<database, pc, boot, handlers, crashes, faults, torn>>

NoSnap == [d \in Docs |-> "ABSENT"]

TypeOK ==
  /\ docStatus \in [Docs -> DocStates]
  /\ jobStatus \in [Jobs -> JobStates]
  /\ jobDoc \in [Jobs -> Docs \cup {NoDoc}]
  /\ attempts \in [Jobs -> Nat]
  /\ pc \in [Jobs -> Points]
  /\ phase \in {"up", "down", "boot"}
  /\ todo \subseteq Jobs
  /\ snap \in [Docs -> DocStates]
  /\ bootFail \in Jobs \cup {0}
  /\ hpc \in [Handlers -> {"idle", "reset", "enqueue"}]
  /\ hdoc \in [Handlers -> Docs \cup {NoDoc}]
  /\ crashes \in 0 .. MaxCrashes
  /\ faults \in 0 .. MaxFaults
  /\ torn \subseteq Docs

Init ==
  /\ docStatus = [d \in Docs |-> "ABSENT"]
  /\ jobStatus = [j \in Jobs |-> "NONE"]
  /\ jobDoc = [j \in Jobs |-> NoDoc]
  /\ attempts = [j \in Jobs |-> 0]
  /\ pc = [j \in Jobs |-> "idle"]
  /\ phase = "up" /\ todo = {} /\ snap = NoSnap /\ bootFail = 0
  /\ hpc = [h \in Handlers |-> "idle"]
  /\ hdoc = [h \in Handlers |-> NoDoc]
  /\ crashes = 0 /\ faults = 0 /\ torn = {}

-----------------------------------------------------------------------------
(* Database calls *)

DocExists(d) == docStatus[d] \notin {"ABSENT", "DELETED"}
JobExists(j) == jobStatus[j] \notin {"NONE", "GONE"}

\* A write to an existing document row; it supersedes a write lost before.
SetDoc(d, status) ==
  /\ DocExists(d)
  /\ docStatus' = [docStatus EXCEPT ![d] = status]
  /\ torn' = torn \ {d}

SetJob(j, status) ==
  /\ JobExists(j)
  /\ jobStatus' = [jobStatus EXCEPT ![j] = status]

\* A database call that fails although its row is there.
Fault == faults < MaxFaults /\ faults' = faults + 1

-----------------------------------------------------------------------------
(* Requests: upload (create), reprocess, remove *)

Serve(h, from, to) == phase = "up" /\ hpc[h] = from /\ hpc' = [hpc EXCEPT ![h] = to]

\* create: the row is inserted as PENDING, then the handler enqueues it.
Upload(h, d) ==
  /\ Serve(h, "idle", "enqueue")
  /\ docStatus[d] = "ABSENT"
  /\ docStatus' = [docStatus EXCEPT ![d] = "PENDING"]
  /\ hdoc' = [hdoc EXCEPT ![h] = d]
  /\ UNCHANGED <<jobStatus, jobDoc, attempts, pc, boot, crashes, faults, torn>>

\* reprocess, first await: the status it reads decides.
ReprocessCheck(h, d) ==
  /\ Serve(h, "idle", "reset")
  /\ docStatus[d] \in {"FAILED", "PENDING"}
  /\ hdoc' = [hdoc EXCEPT ![h] = d]
  /\ UNCHANGED <<database, pc, boot, crashes, faults, torn>>

\* reprocess, second await: the row is set to PENDING whatever it says by now.
ReprocessReset(h) ==
  /\ Serve(h, "reset", "enqueue")
  /\ SetDoc(hdoc[h], "PENDING")
  /\ UNCHANGED <<jobStatus, jobDoc, attempts, pc, boot, hdoc, crashes, faults>>

\* enqueueDocument: a fresh job row, and its runner is started.
Enqueue(h) ==
  /\ Serve(h, "enqueue", "idle")
  /\ DocExists(hdoc[h])
  /\ \E j \in Jobs :
       /\ jobStatus[j] = "NONE"
       /\ \A i \in Jobs : i < j => jobStatus[i] # "NONE"
       /\ jobStatus' = [jobStatus EXCEPT ![j] = "QUEUED"]
       /\ jobDoc' = [jobDoc EXCEPT ![j] = hdoc[h]]
       /\ pc' = [pc EXCEPT ![j] = "start"]
  /\ hdoc' = [hdoc EXCEPT ![h] = NoDoc]
  /\ UNCHANGED <<docStatus, attempts, boot, crashes, faults, torn>>

\* The row was deleted meanwhile, or the database call failed: the request
\* ends (an upload swallows the error and leaves the paper PENDING).
RequestFails(h) ==
  /\ hpc[h] # "idle"
  /\ Serve(h, hpc[h], "idle")
  /\ \/ ~DocExists(hdoc[h]) /\ UNCHANGED faults
     \/ Fault
  /\ hdoc' = [hdoc EXCEPT ![h] = NoDoc]
  /\ UNCHANGED <<database, pc, boot, crashes, torn>>

\* remove: the document row goes, and with it (onDelete: Cascade) its jobs.
Remove(d) ==
  /\ phase = "up"
  /\ SetDoc(d, "DELETED")
  /\ jobStatus' = [j \in Jobs |-> IF jobDoc[j] = d THEN "GONE" ELSE jobStatus[j]]
  /\ UNCHANGED <<jobDoc, attempts, pc, boot, handlers, crashes, faults>>

-----------------------------------------------------------------------------
(* runJobDirect *)

Run(j, from, to) == pc[j] = from /\ pc' = [pc EXCEPT ![j] = to]

StartJob(j) ==
  /\ Run(j, "start", "extracting")
  /\ SetJob(j, "ACTIVE")
  /\ attempts' = [attempts EXCEPT ![j] = @ + 1]
  /\ UNCHANGED <<docStatus, jobDoc, boot, handlers, crashes, faults, torn>>

MarkExtracting(j) ==
  /\ Run(j, "extracting", "ingest")
  /\ SetDoc(jobDoc[j], "EXTRACTING")
  /\ UNCHANGED <<jobStatus, jobDoc, attempts, boot, handlers, crashes, faults>>

\* The AI service answers the ingest request with "completed".
IngestDone(j) ==
  /\ Run(j, "ingest", "embJob")
  /\ UNCHANGED <<database, boot, handlers, crashes, faults, torn>>

MarkJobEmbedding(j) ==
  /\ Run(j, "embJob", "embDoc")
  /\ JobExists(j)
  /\ UNCHANGED <<database, boot, handlers, crashes, faults, torn>>

MarkEmbedding(j) ==
  /\ Run(j, "embDoc", "embed")
  /\ SetDoc(jobDoc[j], "EMBEDDING")
  /\ UNCHANGED <<jobStatus, jobDoc, attempts, boot, handlers, crashes, faults>>

\* The AI service answers the embed request with "completed".
EmbedDone(j) ==
  /\ Run(j, "embed", "complete")
  /\ UNCHANGED <<database, boot, handlers, crashes, faults, torn>>

\* Mutant: the job's completion is not saved.
CompleteJobUnsaved(j) ==
  /\ Run(j, "complete", "ready")
  /\ UNCHANGED <<database, boot, handlers, crashes, faults, torn>>

CompleteJob(j) ==
  /\ Run(j, "complete", "ready")
  /\ SetJob(j, "COMPLETED")
  /\ UNCHANGED <<docStatus, jobDoc, attempts, boot, handlers, crashes, faults, torn>>

\* Mutant: a call added after the last write, inside the try block, may throw.
MarkReadyThenThrow(j) ==
  /\ Run(j, "ready", "failDoc")
  /\ SetDoc(jobDoc[j], "READY")
  /\ UNCHANGED <<jobStatus, jobDoc, attempts, boot, handlers, crashes, faults>>

MarkReady(j) ==
  /\ Run(j, "ready", "idle")
  /\ SetDoc(jobDoc[j], "READY")
  /\ UNCHANGED <<jobStatus, jobDoc, attempts, boot, handlers, crashes, faults>>

\* Leaving the try block: the AI call fails or answers another status, the row
\* to write is gone, or the database call fails.
Throw(j) ==
  /\ pc[j] \in TryPoints
  /\ Run(j, pc[j], "failDoc")
  /\ \/ pc[j] \in {"ingest", "embed"} /\ UNCHANGED faults
     \/ pc[j] \notin {"ingest", "embed"} /\ ~JobExists(j) /\ UNCHANGED faults
     \/ pc[j] \notin {"ingest", "embed"} /\ Fault
  /\ UNCHANGED <<database, boot, handlers, crashes, torn>>

\* The catch block: the document first, then the job; an error of either
\* write is ignored.
FailDoc(j) ==
  /\ Run(j, "failDoc", "failJob")
  /\ \/ SetDoc(jobDoc[j], "FAILED") /\ UNCHANGED faults
     \/ ~DocExists(jobDoc[j]) /\ UNCHANGED <<docStatus, torn, faults>>
     \/ /\ DocExists(jobDoc[j]) /\ Fault
        /\ torn' = torn \cup {jobDoc[j]}
        /\ UNCHANGED docStatus
  /\ UNCHANGED <<jobStatus, jobDoc, attempts, boot, handlers, crashes>>

FailJob(j) ==
  /\ Run(j, "failJob", "idle")
  /\ \/ SetJob(j, "FAILED") /\ UNCHANGED faults
     \/ ~JobExists(j) /\ UNCHANGED <<jobStatus, faults>>
     \/ JobExists(j) /\ Fault /\ UNCHANGED jobStatus
  /\ UNCHANGED <<docStatus, jobDoc, attempts, boot, handlers, crashes, torn>>

-----------------------------------------------------------------------------
(* Crash and onApplicationBootstrap *)

\* The documents a crash leaves half closed: their job row is closed and the
\* write of the document row that had to follow is lost.
HalfClosed ==
  {d \in Docs : \E j \in Jobs :
     /\ jobDoc[j] = d /\ jobStatus[j] \in Closed
     /\ pc[j] \in {"ready", "failDoc"} \/ bootFail = j}

Crash ==
  /\ phase # "down"
  /\ crashes < MaxCrashes /\ crashes' = crashes + 1
  /\ phase' = "down" /\ todo' = {} /\ snap' = NoSnap /\ bootFail' = 0
  /\ pc' = [j \in Jobs |-> "idle"]
  /\ hpc' = [h \in Handlers |-> "idle"]
  /\ hdoc' = [h \in Handlers |-> NoDoc]
  /\ torn' = torn \cup HalfClosed
  /\ UNCHANGED <<database, faults>>

\* Mutant: the query asks for the QUEUED jobs only.
BootFetchQueued ==
  /\ phase = "down" /\ phase' = "boot"
  /\ snap' = docStatus
  /\ todo' = {j \in Jobs : jobStatus[j] = "QUEUED"}
  /\ UNCHANGED <<database, pc, bootFail, handlers, crashes, faults, torn>>

\* Mutant: the query does not ask for a status at all.
BootFetchEvery ==
  /\ phase = "down" /\ phase' = "boot"
  /\ snap' = docStatus
  /\ todo' = {j \in Jobs : JobExists(j)}
  /\ UNCHANGED <<database, pc, bootFail, handlers, crashes, faults, torn>>

\* findMany: the open jobs with their documents' statuses, or [] if it fails.
BootFetch ==
  /\ phase = "down"
  /\ phase' = "boot"
  /\ snap' = docStatus
  /\ \/ todo' = {j \in Jobs : jobStatus[j] \in Open} /\ UNCHANGED faults
     \/ todo' = {} /\ Fault
  /\ UNCHANGED <<database, pc, bootFail, handlers, crashes, torn>>

\* The loop is at job j, the oldest one left, and not inside an await.
BootAt(j) ==
  /\ phase = "boot" /\ bootFail = 0
  /\ j \in todo /\ \A i \in todo : j <= i

BootNext(j) == todo' = todo \ {j} /\ UNCHANGED <<phase, snap>>

\* The document had finished: only the job is closed, to match it.
BootClose(j) ==
  /\ BootAt(j) /\ snap[jobDoc[j]] \in Terminal
  /\ \/ /\ SetJob(j, IF snap[jobDoc[j]] = "FAILED" THEN "FAILED" ELSE "COMPLETED")
        /\ UNCHANGED faults
     \/ Fault /\ UNCHANGED jobStatus
  /\ BootNext(j)
  /\ UNCHANGED <<docStatus, jobDoc, attempts, pc, bootFail, handlers, crashes, torn>>

\* Mutant: the job is failed, its document is forgotten.
BootFailJobOnly(j) ==
  /\ BootAt(j) /\ snap[jobDoc[j]] \notin Terminal
  /\ attempts[j] >= MAX_RESUME_ATTEMPTS
  /\ SetJob(j, "FAILED")
  /\ BootNext(j)
  /\ UNCHANGED <<docStatus, jobDoc, attempts, pc, bootFail, handlers, crashes, faults, torn>>

\* Interrupted too often: the job is failed ...
BootFailJob(j) ==
  /\ BootAt(j) /\ snap[jobDoc[j]] \notin Terminal
  /\ attempts[j] >= MAX_RESUME_ATTEMPTS
  /\ \/ SetJob(j, "FAILED") /\ UNCHANGED faults
     \/ Fault /\ UNCHANGED jobStatus
  /\ bootFail' = j
  /\ UNCHANGED <<docStatus, jobDoc, attempts, pc, phase, todo, snap, handlers, crashes, torn>>

\* ... and then its document.
BootFailDoc(j) ==
  /\ phase = "boot" /\ bootFail = j
  /\ \/ SetDoc(jobDoc[j], "FAILED") /\ UNCHANGED faults
     \/ /\ Fault /\ torn' = torn \cup {jobDoc[j]}
        /\ UNCHANGED docStatus
  /\ bootFail' = 0
  /\ BootNext(j)
  /\ UNCHANGED <<jobStatus, jobDoc, attempts, pc, handlers, crashes>>

\* Mutant: resumed however often it was interrupted.
BootResumeAlways(j) ==
  /\ BootAt(j) /\ snap[jobDoc[j]] \notin Terminal
  /\ pc' = [pc EXCEPT ![j] = "start"]
  /\ BootNext(j)
  /\ UNCHANGED <<database, bootFail, handlers, crashes, faults, torn>>

BootResume(j) ==
  /\ BootAt(j) /\ snap[jobDoc[j]] \notin Terminal
  /\ attempts[j] < MAX_RESUME_ATTEMPTS
  /\ pc' = [pc EXCEPT ![j] = "start"]
  /\ BootNext(j)
  /\ UNCHANGED <<database, bootFail, handlers, crashes, faults, torn>>

\* The bootstrap returns and the server starts to listen.
BootDone ==
  /\ phase = "boot" /\ todo = {}
  /\ phase' = "up" /\ snap' = NoSnap
  /\ UNCHANGED <<database, pc, todo, bootFail, handlers, crashes, faults, torn>>

-----------------------------------------------------------------------------
HandlerStep(h) ==
  \/ \E d \in Docs : Upload(h, d) \/ ReprocessCheck(h, d)
  \/ ReprocessReset(h) \/ Enqueue(h) \/ RequestFails(h)

RunnerStep(j) ==
  \/ StartJob(j) \/ MarkExtracting(j) \/ IngestDone(j) \/ MarkJobEmbedding(j)
  \/ MarkEmbedding(j) \/ EmbedDone(j) \/ CompleteJob(j) \/ MarkReady(j)
  \/ Throw(j) \/ FailDoc(j) \/ FailJob(j)

BootStep ==
  \/ BootFetch \/ BootDone
  \/ \E j \in Jobs : BootClose(j) \/ BootFailJob(j) \/ BootFailDoc(j) \/ BootResume(j)

Next ==
  \/ \E h \in Handlers : HandlerStep(h)
  \/ \E d \in Docs : Remove(d)
  \/ \E j \in Jobs : RunnerStep(j)
  \/ BootStep
  \/ Crash

Spec == Init /\ [][Next]_vars

\* Every await of a runner ends: database calls return and the AI calls have a
\* timeout (900 s).  A process that died is started again and its bootstrap
\* goes on.  Users owe nothing, and no crash or fault has to happen.
Fairness ==
  /\ \A j \in Jobs : WF_vars(RunnerStep(j))
  /\ WF_vars(BootStep)

FairSpec == Spec /\ Fairness

-----------------------------------------------------------------------------
(* Properties *)

\* Job j is going to write the status of document d again: it is open (a
\* restart would resume it) and has not passed the catch block's document
\* write, or its own last document write is still to come.
Owner(j, d) ==
  /\ jobDoc[j] = d
  /\ \/ jobStatus[j] \in Open /\ pc[j] # "failJob"
     \/ pc[j] \in {"ready", "failDoc"}
     \/ bootFail = j

\* A paper shown as being processed always has a job that will move it on,
\* except when exactly the write that closes the document was lost after its
\* job was closed.  (The jobs of DocumentProcessingQueueService against the
\* crashes, deletes and concurrent retries around them.)
InProgressOwned ==
  \A d \in Docs :
    docStatus[d] \in InProgress => d \in torn \/ \E j \in Jobs : Owner(j, d)

\* A paper is READY only if some run of the pipeline for it went through to
\* its end and nothing is left of that run (runJobDirect completes the job
\* before it releases the document).
ReadyHasCompletedJob ==
  \A d \in Docs :
    docStatus[d] = "READY" =>
      \E j \in Jobs : jobDoc[j] = d /\ jobStatus[j] = "COMPLETED" /\ pc[j] = "idle"

\* Once the server listens, every job that is not closed has a runner: the
\* bootstrap missed none.  Only a failed database call can leave one behind.
OpenJobsRun ==
  phase = "up" /\ faults = 0 =>
    \A j \in Jobs : jobStatus[j] \in Open => pc[j] # "idle"

\* A paper submitted once and READY stays READY until it is removed: no crash,
\* restart or leftover runner reopens it.
SubmittedOnce(d) ==
  /\ \A i, j \in Jobs : jobDoc[i] = d /\ jobDoc[j] = d => i = j
  /\ \A h \in Handlers : hdoc[h] # d
ReadyStaysReady ==
  [][\A d \in Docs : docStatus[d] = "READY" /\ SubmittedOnce(d) =>
       docStatus'[d] \in {"READY", "DELETED"}]_vars

\* What the queue promises about one job: see JobLifecycle.
Lifecycle(status) ==
  CASE status = "NONE" -> "none"
    [] status \in Open -> "open"
    [] status \in Closed -> "closed"
    [] OTHER -> "gone"
JL == INSTANCE JobLifecycle
        WITH state <- [j \in Jobs |-> Lifecycle(jobStatus[j])], tries <- attempts,
             MaxTries <- MAX_RESUME_ATTEMPTS
JobsFollowLifecycle == JL!Spec

\* Every job is closed in the end, however often the backend is restarted.
JobsEnd == \A j \in Jobs : jobStatus[j] \in Open ~> jobStatus[j] \notin Open

\* A paper does not stay in processing: it becomes READY or FAILED, goes back
\* to PENDING or is removed, unless its closing write was lost.
ProcessingEnds ==
  \A d \in Docs :
    docStatus[d] \in InProgress ~> docStatus[d] \notin InProgress \/ d \in torn

\* The comment at the head of the queue's spec file: after a restart no paper
\* is stuck mid-pipeline, its interrupted job is resumed or failed.
NoStrandedDocument ==
  phase = "up" =>
    \A d \in Docs :
      docStatus[d] \in InProgress =>
        \E j \in Jobs : jobDoc[j] = d /\ (jobStatus[j] \in Open \/ pc[j] # "idle")

-----------------------------------------------------------------------------
(* The inductive invariant behind the safety properties.  The properties    *)
(* alone are not inductive: that a job which completes was open, that the   *)
(* bootstrap closes a job only when its paper has not moved since the       *)
(* findMany, and that no runner is left when the process is down must be    *)
(* known as well.                                                           *)

Working == {"extracting", "ingest", "embJob", "embDoc", "embed", "complete"}

\* A job row exists exactly as long as its document row.
RowsAgree ==
  \A j \in Jobs :
    /\ jobStatus[j] = "NONE" => jobDoc[j] = NoDoc /\ pc[j] = "idle"
    /\ jobStatus[j] # "NONE" =>
         /\ jobDoc[j] \in Docs
         /\ docStatus[jobDoc[j]] # "ABSENT"
         /\ jobStatus[j] = "GONE" <=> docStatus[jobDoc[j]] = "DELETED"

\* What a runner knows of its job's row at each of its awaits.
RunnersAgree ==
  \A j \in Jobs :
    /\ attempts[j] <= MAX_RESUME_ATTEMPTS
    /\ jobStatus[j] = "NONE" => attempts[j] = 0
    /\ pc[j] = "start" => /\ jobStatus[j] \in Open \cup {"GONE"}
                          /\ attempts[j] < MAX_RESUME_ATTEMPTS
    /\ pc[j] \in Working => jobStatus[j] \in {"ACTIVE", "GONE"}
    /\ pc[j] = "ready" => jobStatus[j] \in {"COMPLETED", "GONE"}

\* What only lives in a listening, or in a starting, process.
PhasesAgree ==
  /\ phase = "down" => \A j \in Jobs : pc[j] = "idle"
  /\ phase # "boot" => todo = {} /\ bootFail = 0
  /\ phase # "up" => \A h \in Handlers : hpc[h] = "idle"
  /\ \A h \in Handlers : hpc[h] # "idle" => hdoc[h] \in Docs

\* The bootstrap's list and its snapshot are still true when they are used.
BootAgrees ==
  /\ \A j \in todo :
       /\ pc[j] = "idle"
       /\ jobStatus[j] \in Open \/ (j = bootFail /\ jobStatus[j] = "FAILED")
  /\ bootFail # 0 => bootFail \in todo /\ snap[jobDoc[bootFail]] \notin Terminal
  /\ phase = "boot" =>
       /\ \A j \in Jobs : pc[j] # "idle" => snap[jobDoc[j]] \notin Terminal
       /\ \A d \in Docs : snap[d] \in Terminal => docStatus[d] = snap[d]

\* Without a failed database call an open job is run, or will be fetched, or
\* is one the bootstrap has still to decide on.
OpenJobsKept ==
  faults = 0 =>
    \A j \in Jobs :
      jobStatus[j] \in Open =>
        pc[j] # "idle" \/ phase = "down" \/ (j \in todo /\ j # bootFail)

IInv ==
  /\ TypeOK
  /\ RowsAgree
  /\ RunnersAgree
  /\ PhasesAgree
  /\ BootAgrees
  /\ OpenJobsKept
  /\ InProgressOwned
  /\ ReadyHasCompletedJob
=============================================================================
