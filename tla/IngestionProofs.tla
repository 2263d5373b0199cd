-------------------------- MODULE IngestionProofs --------------------------
(***************************************************************************)
(* Proofs about Processing and about Ingestion, which composes it with     *)
(* ChunkStore, for every set of papers, any number of jobs, handlers,      *)
(* requests, crashes and faults, any texts, models and ids.                *)
(*                                                                         *)
(* Processing: IInv holds initially and every action keeps it, one lemma   *)
(* per action with one step per conjunct.  The safety properties are       *)
(* conjuncts of IInv or follow from it; ReadyStaysReady and the refinement *)
(* of JobLifecycle are proved step by step with IInv at hand.              *)
(*                                                                         *)
(* Ingestion: the composition keeps the specifications of both components, *)
(* so all that is proved of Processing and of ChunkStore holds in it; and  *)
(* a paper whose last run had no company is READY only when it can be      *)
(* searched in full.                                                       *)
(***************************************************************************)
EXTENDS Ingestion, SequenceTheorems, TLAPS

CP == INSTANCE ChunkStoreProofs WITH present <- docStatus[Paper] # "DELETED"

-----------------------------------------------------------------------------
(* Processing                                                               *)

\* No job has the number that stands for "no job" in bootFail.
LEMMA ZeroIsNoJob == 0 \notin Jobs
  BY DEF Jobs

\* The inductive invariant holds in the initial state.
LEMMA InitEstablishesIInv == Init => IInv
<1> SUFFICES ASSUME Init PROVE IInv
  OBVIOUS
<1> USE DEF Init
<1>1. TypeOK
  BY BoundsAssumption DEF TypeOK, NoSnap, DocStates, JobStates, Points
<1>2. RowsAgree  BY DEF RowsAgree
<1>3. RunnersAgree  BY AttemptsAssumption DEF RunnersAgree, Working
<1>4. PhasesAgree  BY DEF PhasesAgree
<1>5. BootAgrees  BY DEF BootAgrees
<1>6. OpenJobsKept  BY DEF OpenJobsKept, Open
<1>7. InProgressOwned  BY DEF InProgressOwned, InProgress
<1>8. ReadyHasCompletedJob  BY DEF ReadyHasCompletedJob
<1> QED  BY <1>1, <1>2, <1>3, <1>4, <1>5, <1>6, <1>7, <1>8 DEF IInv

\* IInv is kept: a paper is uploaded.
LEMMA UploadKeepsIInv ==
  ASSUME IInv, NEW h \in Handlers, NEW d \in Docs, Upload(h, d)
  PROVE  IInv'
<1>1. TypeOK'  BY DEF IInv, TypeOK, DocStates, Upload, Serve, boot
<1>2. RowsAgree'  BY DEF IInv, RowsAgree, Upload
<1>3. RunnersAgree'  BY DEF IInv, RunnersAgree, Upload
<1>4. PhasesAgree'  BY DEF IInv, PhasesAgree, TypeOK, Upload, Serve, boot
<1>5. BootAgrees'  BY DEF IInv, BootAgrees, Upload, Serve, boot
<1>6. OpenJobsKept'  BY DEF IInv, OpenJobsKept, Upload, boot
<1>7. InProgressOwned'  BY DEF IInv, InProgressOwned, Owner, InProgress, Upload, boot
<1>8. ReadyHasCompletedJob'  BY DEF IInv, ReadyHasCompletedJob, Upload
<1> QED  BY <1>1, <1>2, <1>3, <1>4, <1>5, <1>6, <1>7, <1>8 DEF IInv

\* IInv is kept: a retry is admitted.
LEMMA ReprocessCheckKeepsIInv ==
  ASSUME IInv, NEW h \in Handlers, NEW d \in Docs, ReprocessCheck(h, d)
  PROVE  IInv'
<1>1. TypeOK'  BY DEF IInv, TypeOK, ReprocessCheck, Serve, database, boot
<1>2. RowsAgree'  BY DEF IInv, RowsAgree, ReprocessCheck, database
<1>3. RunnersAgree'  BY DEF IInv, RunnersAgree, ReprocessCheck, database
<1>4. PhasesAgree'  BY DEF IInv, PhasesAgree, TypeOK, ReprocessCheck, Serve, boot
<1>5. BootAgrees'  BY DEF IInv, BootAgrees, ReprocessCheck, database, boot
<1>6. OpenJobsKept'  BY DEF IInv, OpenJobsKept, ReprocessCheck, database, boot
<1>7. InProgressOwned'
  BY DEF IInv, InProgressOwned, Owner, ReprocessCheck, database, boot
<1>8. ReadyHasCompletedJob'
  BY DEF IInv, ReadyHasCompletedJob, ReprocessCheck, database
<1> QED  BY <1>1, <1>2, <1>3, <1>4, <1>5, <1>6, <1>7, <1>8 DEF IInv

\* IInv is kept: a retry resets the paper.
LEMMA ReprocessResetKeepsIInv ==
  ASSUME IInv, NEW h \in Handlers, ReprocessReset(h)
  PROVE  IInv'
<1>1. TypeOK'
  BY DEF IInv, TypeOK, PhasesAgree, DocStates, ReprocessReset, Serve, SetDoc, boot
<1>2. RowsAgree'  BY DEF IInv, RowsAgree, ReprocessReset, SetDoc, DocExists
<1>3. RunnersAgree'  BY DEF IInv, RunnersAgree, ReprocessReset
<1>4. PhasesAgree'  BY DEF IInv, PhasesAgree, ReprocessReset, Serve, boot
<1>5. BootAgrees'  BY DEF IInv, BootAgrees, ReprocessReset, Serve, boot
<1>6. OpenJobsKept'  BY DEF IInv, OpenJobsKept, ReprocessReset, boot
<1>7. InProgressOwned'
  BY DEF IInv, InProgressOwned, Owner, TypeOK, InProgress, ReprocessReset, SetDoc,
         boot
<1>8. ReadyHasCompletedJob'  BY DEF IInv, ReadyHasCompletedJob, ReprocessReset, SetDoc
<1> QED  BY <1>1, <1>2, <1>3, <1>4, <1>5, <1>6, <1>7, <1>8 DEF IInv

\* IInv is kept: a job is created and its runner started.
LEMMA EnqueueKeepsIInv ==
  ASSUME IInv, NEW h \in Handlers, Enqueue(h)
  PROVE  IInv'
<1>1. TypeOK'  BY DEF IInv, TypeOK, JobStates, Points, TryPoints, Enqueue, Serve, boot
<1>2. RowsAgree'
  BY DEF IInv, RowsAgree, TypeOK, PhasesAgree, Enqueue, Serve, DocExists
<1>3. RunnersAgree'
  BY AttemptsAssumption DEF IInv, RunnersAgree, TypeOK, Open, Working, Enqueue
<1>4. PhasesAgree'  BY DEF IInv, PhasesAgree, TypeOK, Enqueue, Serve, boot
<1>5. BootAgrees'  BY DEF IInv, BootAgrees, Open, Enqueue, Serve, boot
<1>6. OpenJobsKept'  BY DEF IInv, OpenJobsKept, TypeOK, Enqueue, boot
<1>7. InProgressOwned'
  BY NoDocAssumption DEF IInv, InProgressOwned, Owner, RowsAgree, Enqueue, boot
<1>8. ReadyHasCompletedJob'  BY DEF IInv, ReadyHasCompletedJob, Enqueue
<1> QED  BY <1>1, <1>2, <1>3, <1>4, <1>5, <1>6, <1>7, <1>8 DEF IInv

\* IInv is kept: a request ends with an error.
LEMMA RequestFailsKeepsIInv ==
  ASSUME IInv, NEW h \in Handlers, RequestFails(h)
  PROVE  IInv'
<1>1. TypeOK'
  BY BoundsAssumption DEF IInv, TypeOK, RequestFails, Serve, Fault, database, boot
<1>2. RowsAgree'  BY DEF IInv, RowsAgree, RequestFails, database
<1>3. RunnersAgree'  BY DEF IInv, RunnersAgree, RequestFails, database
<1>4. PhasesAgree'  BY DEF IInv, PhasesAgree, TypeOK, RequestFails, Serve, boot
<1>5. BootAgrees'  BY DEF IInv, BootAgrees, RequestFails, database, boot
<1>6. OpenJobsKept'
  BY DEF IInv, OpenJobsKept, TypeOK, RequestFails, Fault, database, boot
<1>7. InProgressOwned'
  BY DEF IInv, InProgressOwned, Owner, RequestFails, database, boot
<1>8. ReadyHasCompletedJob'  BY DEF IInv, ReadyHasCompletedJob, RequestFails, database
<1> QED  BY <1>1, <1>2, <1>3, <1>4, <1>5, <1>6, <1>7, <1>8 DEF IInv

\* IInv is kept: a paper and its jobs are deleted.
LEMMA RemoveKeepsIInv ==
  ASSUME IInv, NEW d \in Docs, Remove(d)
  PROVE  IInv'
<1>1. TypeOK'
  BY DEF IInv, TypeOK, DocStates, JobStates, Remove, SetDoc, boot, handlers
<1>2. RowsAgree'  BY DEF IInv, RowsAgree, TypeOK, Remove, SetDoc
<1>3. RunnersAgree'  BY DEF IInv, RunnersAgree, Remove
<1>4. PhasesAgree'  BY DEF IInv, PhasesAgree, Remove, boot, handlers
<1>5. BootAgrees'  BY DEF IInv, BootAgrees, PhasesAgree, Remove, boot
<1>6. OpenJobsKept'  BY DEF IInv, OpenJobsKept, Open, Remove, boot
<1>7. InProgressOwned'
  BY DEF IInv, InProgressOwned, Owner, TypeOK, InProgress, Remove, SetDoc, boot
<1>8. ReadyHasCompletedJob'  BY DEF IInv, ReadyHasCompletedJob, TypeOK, Remove, SetDoc
<1> QED  BY <1>1, <1>2, <1>3, <1>4, <1>5, <1>6, <1>7, <1>8 DEF IInv

\* IInv is kept: a runner starts its job.
LEMMA StartJobKeepsIInv ==
  ASSUME IInv, NEW j \in Jobs, StartJob(j)
  PROVE  IInv'
<1>1. TypeOK'
  BY DEF IInv, TypeOK, JobStates, Points, TryPoints, StartJob, Run, SetJob, boot,
         handlers
<1>2. RowsAgree'  BY DEF IInv, RowsAgree, StartJob, Run, SetJob, JobExists
<1>3. RunnersAgree'
  BY AttemptsAssumption DEF IInv, RunnersAgree, TypeOK, StartJob, Run, SetJob
<1>4. PhasesAgree'  BY DEF IInv, PhasesAgree, StartJob, Run, boot, handlers
<1>5. BootAgrees'  BY DEF IInv, BootAgrees, StartJob, Run, SetJob, boot
<1>6. OpenJobsKept'  BY DEF IInv, OpenJobsKept, StartJob, Run, SetJob, boot
<1>7. InProgressOwned'
  BY DEF IInv, InProgressOwned, Owner, Open, StartJob, Run, SetJob, boot
<1>8. ReadyHasCompletedJob'  BY DEF IInv, ReadyHasCompletedJob, StartJob, Run, SetJob
<1> QED  BY <1>1, <1>2, <1>3, <1>4, <1>5, <1>6, <1>7, <1>8 DEF IInv

\* IInv is kept: a runner shows the paper as EXTRACTING.
LEMMA MarkExtractingKeepsIInv ==
  ASSUME IInv, NEW j \in Jobs, MarkExtracting(j)
  PROVE  IInv'
<1>1. TypeOK'
  BY DEF IInv, TypeOK, RowsAgree, DocStates, Points, TryPoints, MarkExtracting, Run,
         SetDoc, boot, handlers
<1>2. RowsAgree'  BY DEF IInv, RowsAgree, MarkExtracting, Run, SetDoc, DocExists
<1>3. RunnersAgree'  BY DEF IInv, RunnersAgree, Working, MarkExtracting, Run
<1>4. PhasesAgree'  BY DEF IInv, PhasesAgree, MarkExtracting, Run, boot, handlers
<1>5. BootAgrees'  BY DEF IInv, BootAgrees, MarkExtracting, Run, SetDoc, boot
<1>6. OpenJobsKept'  BY DEF IInv, OpenJobsKept, MarkExtracting, Run, boot
<1>7. InProgressOwned'
  BY DEF IInv, InProgressOwned, Owner, RunnersAgree, RowsAgree, Open, Working,
         MarkExtracting, Run, SetDoc, DocExists, boot
<1>8. ReadyHasCompletedJob'
  BY DEF IInv, ReadyHasCompletedJob, MarkExtracting, Run, SetDoc
<1> QED  BY <1>1, <1>2, <1>3, <1>4, <1>5, <1>6, <1>7, <1>8 DEF IInv

\* IInv is kept: the ingest answer arrives.
LEMMA IngestDoneKeepsIInv ==
  ASSUME IInv, NEW j \in Jobs, IngestDone(j)
  PROVE  IInv'
<1>1. TypeOK'
  BY DEF IInv, TypeOK, Points, TryPoints, IngestDone, Run, database, boot, handlers
<1>2. RowsAgree'  BY DEF IInv, RowsAgree, IngestDone, Run, database
<1>3. RunnersAgree'  BY DEF IInv, RunnersAgree, Working, IngestDone, Run, database
<1>4. PhasesAgree'  BY DEF IInv, PhasesAgree, IngestDone, Run, boot, handlers
<1>5. BootAgrees'  BY DEF IInv, BootAgrees, IngestDone, Run, database, boot
<1>6. OpenJobsKept'  BY DEF IInv, OpenJobsKept, IngestDone, Run, database, boot
<1>7. InProgressOwned'
  BY DEF IInv, InProgressOwned, Owner, IngestDone, Run, database, boot
<1>8. ReadyHasCompletedJob'
  BY DEF IInv, ReadyHasCompletedJob, IngestDone, Run, database
<1> QED  BY <1>1, <1>2, <1>3, <1>4, <1>5, <1>6, <1>7, <1>8 DEF IInv

\* IInv is kept: a runner records the embedding stage of its job.
LEMMA MarkJobEmbeddingKeepsIInv ==
  ASSUME IInv, NEW j \in Jobs, MarkJobEmbedding(j)
  PROVE  IInv'
<1>1. TypeOK'
  BY DEF IInv, TypeOK, Points, TryPoints, MarkJobEmbedding, Run, database, boot,
         handlers
<1>2. RowsAgree'  BY DEF IInv, RowsAgree, MarkJobEmbedding, Run, database
<1>3. RunnersAgree'
  BY DEF IInv, RunnersAgree, Working, MarkJobEmbedding, Run, database
<1>4. PhasesAgree'  BY DEF IInv, PhasesAgree, MarkJobEmbedding, Run, boot, handlers
<1>5. BootAgrees'  BY DEF IInv, BootAgrees, MarkJobEmbedding, Run, database, boot
<1>6. OpenJobsKept'  BY DEF IInv, OpenJobsKept, MarkJobEmbedding, Run, database, boot
<1>7. InProgressOwned'
  BY DEF IInv, InProgressOwned, Owner, MarkJobEmbedding, Run, database, boot
<1>8. ReadyHasCompletedJob'
  BY DEF IInv, ReadyHasCompletedJob, MarkJobEmbedding, Run, database
<1> QED  BY <1>1, <1>2, <1>3, <1>4, <1>5, <1>6, <1>7, <1>8 DEF IInv

\* IInv is kept: a runner shows the paper as EMBEDDING.
LEMMA MarkEmbeddingKeepsIInv ==
  ASSUME IInv, NEW j \in Jobs, MarkEmbedding(j)
  PROVE  IInv'
<1>1. TypeOK'
  BY DEF IInv, TypeOK, RowsAgree, DocStates, Points, TryPoints, MarkEmbedding, Run,
         SetDoc, boot, handlers
<1>2. RowsAgree'  BY DEF IInv, RowsAgree, MarkEmbedding, Run, SetDoc, DocExists
<1>3. RunnersAgree'  BY DEF IInv, RunnersAgree, Working, MarkEmbedding, Run
<1>4. PhasesAgree'  BY DEF IInv, PhasesAgree, MarkEmbedding, Run, boot, handlers
<1>5. BootAgrees'  BY DEF IInv, BootAgrees, MarkEmbedding, Run, SetDoc, boot
<1>6. OpenJobsKept'  BY DEF IInv, OpenJobsKept, MarkEmbedding, Run, boot
<1>7. InProgressOwned'
  BY DEF IInv, InProgressOwned, Owner, RunnersAgree, RowsAgree, Open, Working,
         MarkEmbedding, Run, SetDoc, DocExists, boot
<1>8. ReadyHasCompletedJob'
  BY DEF IInv, ReadyHasCompletedJob, MarkEmbedding, Run, SetDoc
<1> QED  BY <1>1, <1>2, <1>3, <1>4, <1>5, <1>6, <1>7, <1>8 DEF IInv

\* IInv is kept: the embed answer arrives.
LEMMA EmbedDoneKeepsIInv ==
  ASSUME IInv, NEW j \in Jobs, EmbedDone(j)
  PROVE  IInv'
<1>1. TypeOK'
  BY DEF IInv, TypeOK, Points, TryPoints, EmbedDone, Run, database, boot, handlers
<1>2. RowsAgree'  BY DEF IInv, RowsAgree, EmbedDone, Run, database
<1>3. RunnersAgree'  BY DEF IInv, RunnersAgree, Working, EmbedDone, Run, database
<1>4. PhasesAgree'  BY DEF IInv, PhasesAgree, EmbedDone, Run, boot, handlers
<1>5. BootAgrees'  BY DEF IInv, BootAgrees, EmbedDone, Run, database, boot
<1>6. OpenJobsKept'  BY DEF IInv, OpenJobsKept, EmbedDone, Run, database, boot
<1>7. InProgressOwned'
  BY DEF IInv, InProgressOwned, Owner, EmbedDone, Run, database, boot
<1>8. ReadyHasCompletedJob'
  BY DEF IInv, ReadyHasCompletedJob, EmbedDone, Run, database
<1> QED  BY <1>1, <1>2, <1>3, <1>4, <1>5, <1>6, <1>7, <1>8 DEF IInv

\* IInv is kept: a runner completes its job.
LEMMA CompleteJobKeepsIInv ==
  ASSUME IInv, NEW j \in Jobs, CompleteJob(j)
  PROVE  IInv'
<1>1. TypeOK'
  BY DEF IInv, TypeOK, JobStates, Points, TryPoints, CompleteJob, Run, SetJob, boot,
         handlers
<1>2. RowsAgree'  BY DEF IInv, RowsAgree, CompleteJob, Run, SetJob, JobExists
<1>3. RunnersAgree'
  BY DEF IInv, RunnersAgree, TypeOK, Working, CompleteJob, Run, SetJob
<1>4. PhasesAgree'  BY DEF IInv, PhasesAgree, CompleteJob, Run, boot, handlers
<1>5. BootAgrees'  BY DEF IInv, BootAgrees, CompleteJob, Run, SetJob, boot
<1>6. OpenJobsKept'  BY DEF IInv, OpenJobsKept, CompleteJob, Run, SetJob, boot
<1>7. InProgressOwned'
  BY DEF IInv, InProgressOwned, Owner, TypeOK, CompleteJob, Run, SetJob, boot
<1>8. ReadyHasCompletedJob'
  BY DEF IInv, ReadyHasCompletedJob, CompleteJob, Run, SetJob
<1> QED  BY <1>1, <1>2, <1>3, <1>4, <1>5, <1>6, <1>7, <1>8 DEF IInv

\* IInv is kept: a runner releases the paper as READY.
LEMMA MarkReadyKeepsIInv ==
  ASSUME IInv, NEW j \in Jobs, MarkReady(j)
  PROVE  IInv'
<1>1. TypeOK'
  BY DEF IInv, TypeOK, RowsAgree, DocStates, Points, MarkReady, Run, SetDoc, boot,
         handlers
<1>2. RowsAgree'  BY DEF IInv, RowsAgree, MarkReady, Run, SetDoc, DocExists
<1>3. RunnersAgree'  BY DEF IInv, RunnersAgree, Working, MarkReady, Run
<1>4. PhasesAgree'  BY DEF IInv, PhasesAgree, MarkReady, Run, boot, handlers
<1>5. BootAgrees'  BY DEF IInv, BootAgrees, MarkReady, Run, SetDoc, boot
<1>6. OpenJobsKept'
  BY DEF IInv, OpenJobsKept, RunnersAgree, Open, MarkReady, Run, boot
<1>7. InProgressOwned'
  BY DEF IInv, InProgressOwned, Owner, TypeOK, InProgress, MarkReady, Run, SetDoc,
         boot
<1>8. ReadyHasCompletedJob'
  BY DEF IInv, ReadyHasCompletedJob, RunnersAgree, RowsAgree, TypeOK, MarkReady, Run,
         SetDoc, DocExists
<1> QED  BY <1>1, <1>2, <1>3, <1>4, <1>5, <1>6, <1>7, <1>8 DEF IInv

\* IInv is kept: a runner leaves the try block.
LEMMA ThrowKeepsIInv ==
  ASSUME IInv, NEW j \in Jobs, Throw(j)
  PROVE  IInv'
<1>1. TypeOK'
  BY BoundsAssumption DEF IInv, TypeOK, Points, Throw, Run, Fault, database, boot,
         handlers
<1>2. RowsAgree'  BY DEF IInv, RowsAgree, Throw, Run, TryPoints, database
<1>3. RunnersAgree'  BY DEF IInv, RunnersAgree, Working, Throw, Run, database
<1>4. PhasesAgree'  BY DEF IInv, PhasesAgree, Throw, TryPoints, boot, handlers
<1>5. BootAgrees'  BY DEF IInv, BootAgrees, Throw, Run, TryPoints, database, boot
<1>6. OpenJobsKept'
  BY DEF IInv, OpenJobsKept, TypeOK, Throw, Run, Fault, database, boot
<1>7. InProgressOwned'
  BY DEF IInv, InProgressOwned, Owner, Throw, Run, database, boot
<1>8. ReadyHasCompletedJob'
  BY DEF IInv, ReadyHasCompletedJob, Throw, Run, TryPoints, database
<1> QED  BY <1>1, <1>2, <1>3, <1>4, <1>5, <1>6, <1>7, <1>8 DEF IInv

\* IInv is kept: the catch block fails the paper.
LEMMA FailDocKeepsIInv ==
  ASSUME IInv, NEW j \in Jobs, FailDoc(j)
  PROVE  IInv'
<1>1. TypeOK'
  BY BoundsAssumption DEF IInv, TypeOK, RowsAgree, DocStates, Points, FailDoc, Run,
         SetDoc, Fault, boot, handlers
<1>2. RowsAgree'  BY DEF IInv, RowsAgree, TypeOK, FailDoc, Run, SetDoc, DocExists
<1>3. RunnersAgree'  BY DEF IInv, RunnersAgree, Working, FailDoc, Run
<1>4. PhasesAgree'  BY DEF IInv, PhasesAgree, FailDoc, Run, boot, handlers
<1>5. BootAgrees'  BY DEF IInv, BootAgrees, TypeOK, FailDoc, Run, SetDoc, boot
<1>6. OpenJobsKept'  BY DEF IInv, OpenJobsKept, TypeOK, FailDoc, Run, Fault, boot
<1>7. InProgressOwned'
  BY DEF IInv, InProgressOwned, Owner, TypeOK, InProgress, FailDoc, Run, SetDoc,
         DocExists, boot
<1>8. ReadyHasCompletedJob'
  BY DEF IInv, ReadyHasCompletedJob, TypeOK, FailDoc, Run, SetDoc
<1> QED  BY <1>1, <1>2, <1>3, <1>4, <1>5, <1>6, <1>7, <1>8 DEF IInv

\* IInv is kept: the catch block fails the job.
LEMMA FailJobKeepsIInv ==
  ASSUME IInv, NEW j \in Jobs, FailJob(j)
  PROVE  IInv'
<1>1. TypeOK'
  BY BoundsAssumption DEF IInv, TypeOK, JobStates, Points, FailJob, Run, SetJob,
         Fault, boot, handlers
<1>2. RowsAgree'  BY DEF IInv, RowsAgree, TypeOK, FailJob, Run, SetJob, JobExists
<1>3. RunnersAgree'  BY DEF IInv, RunnersAgree, TypeOK, Working, FailJob, Run, SetJob
<1>4. PhasesAgree'  BY DEF IInv, PhasesAgree, FailJob, Run, boot, handlers
<1>5. BootAgrees'  BY DEF IInv, BootAgrees, TypeOK, FailJob, Run, SetJob, boot
<1>6. OpenJobsKept'
  BY DEF IInv, OpenJobsKept, TypeOK, Open, FailJob, Run, SetJob, JobExists, Fault,
         boot
<1>7. InProgressOwned'
  BY DEF IInv, InProgressOwned, Owner, TypeOK, FailJob, Run, SetJob, boot
<1>8. ReadyHasCompletedJob'
  BY DEF IInv, ReadyHasCompletedJob, TypeOK, FailJob, Run, SetJob
<1> QED  BY <1>1, <1>2, <1>3, <1>4, <1>5, <1>6, <1>7, <1>8 DEF IInv

\* IInv is kept: the process dies; an owner that is lost had a closed job, and
\* then the paper is torn.
LEMMA CrashKeepsIInv ==
  ASSUME IInv, Crash
  PROVE  IInv'
<1>1. TypeOK'
  BY BoundsAssumption DEF IInv, TypeOK, DocStates, Points, Crash, HalfClosed, NoSnap,
         database
<1>2. RowsAgree'  BY DEF IInv, RowsAgree, Crash, database
<1>3. RunnersAgree'  BY DEF IInv, RunnersAgree, Working, Crash, database
<1>4. PhasesAgree'  BY DEF PhasesAgree, Crash
<1>5. BootAgrees'  BY DEF BootAgrees, Crash
<1>6. OpenJobsKept'  BY DEF OpenJobsKept, Crash
<1>7. InProgressOwned'
  <2> SUFFICES ASSUME NEW d \in Docs, docStatus[d] \in InProgress
               PROVE  d \in torn' \/ \E j \in Jobs : Owner(j, d)'
    BY DEF InProgressOwned, Crash, database
  <2>1. CASE d \in torn
    BY <2>1 DEF Crash
  <2>2. CASE \E j \in Jobs : Owner(j, d) /\ jobStatus[j] \in Open
    <3>1. PICK j \in Jobs : Owner(j, d) /\ jobStatus[j] \in Open  BY <2>2
    <3>2. Owner(j, d)'  BY <3>1 DEF Owner, Crash, database
    <3> QED  BY <3>2
  <2>3. CASE \E j \in Jobs : Owner(j, d) /\ jobStatus[j] \notin Open
    <3>1. PICK j \in Jobs : Owner(j, d) /\ jobStatus[j] \notin Open  BY <2>3
    <3>2. jobStatus[j] \in Closed
      BY <3>1, NoDocAssumption
      DEF IInv, TypeOK, RowsAgree, JobStates, Open, Closed, InProgress, Owner
    <3>3. d \in HalfClosed  BY <3>1, <3>2 DEF HalfClosed, Owner
    <3> QED  BY <3>3 DEF Crash
  <2> QED  BY <2>1, <2>2, <2>3 DEF IInv, InProgressOwned
<1>8. ReadyHasCompletedJob'  BY DEF IInv, ReadyHasCompletedJob, Crash, database
<1> QED  BY <1>1, <1>2, <1>3, <1>4, <1>5, <1>6, <1>7, <1>8 DEF IInv

\* IInv is kept: the bootstrap reads the interrupted jobs.
LEMMA BootFetchKeepsIInv ==
  ASSUME IInv, BootFetch
  PROVE  IInv'
<1>1. TypeOK'
  BY BoundsAssumption DEF IInv, TypeOK, BootFetch, Fault, database, handlers
<1>2. RowsAgree'  BY DEF IInv, RowsAgree, BootFetch, database
<1>3. RunnersAgree'  BY DEF IInv, RunnersAgree, BootFetch, database
<1>4. PhasesAgree'  BY DEF IInv, PhasesAgree, BootFetch, handlers
<1>5. BootAgrees'  BY DEF IInv, BootAgrees, PhasesAgree, BootFetch, database
<1>6. OpenJobsKept'
  BY ZeroIsNoJob DEF IInv, OpenJobsKept, PhasesAgree, TypeOK, BootFetch, Fault,
         database
<1>7. InProgressOwned'  BY DEF IInv, InProgressOwned, Owner, BootFetch, database
<1>8. ReadyHasCompletedJob'  BY DEF IInv, ReadyHasCompletedJob, BootFetch, database
<1> QED  BY <1>1, <1>2, <1>3, <1>4, <1>5, <1>6, <1>7, <1>8 DEF IInv

\* IInv is kept: the bootstrap closes the job of a finished paper.
LEMMA BootCloseKeepsIInv ==
  ASSUME IInv, NEW j \in Jobs, BootClose(j)
  PROVE  IInv'
<1>1. TypeOK'
  BY BoundsAssumption DEF IInv, TypeOK, JobStates, BootClose, BootNext, SetJob, Fault,
         handlers
<1>2. RowsAgree'  BY DEF IInv, RowsAgree, TypeOK, BootClose, SetJob, JobExists
<1>3. RunnersAgree'
  BY DEF IInv, RunnersAgree, TypeOK, BootAgrees, Working, BootClose, BootAt, SetJob
<1>4. PhasesAgree'  BY DEF IInv, PhasesAgree, BootClose, BootNext, handlers
<1>5. BootAgrees'  BY DEF IInv, BootAgrees, TypeOK, BootClose, BootNext, SetJob
<1>6. OpenJobsKept'
  BY DEF IInv, OpenJobsKept, TypeOK, Open, BootClose, BootNext, SetJob, Fault
<1>7. InProgressOwned'
  BY DEF IInv, InProgressOwned, Owner, BootAgrees, TypeOK, InProgress, Terminal,
         BootClose, BootAt, SetJob
<1>8. ReadyHasCompletedJob'
  BY DEF IInv, ReadyHasCompletedJob, BootAgrees, TypeOK, BootClose, BootAt, SetJob
<1> QED  BY <1>1, <1>2, <1>3, <1>4, <1>5, <1>6, <1>7, <1>8 DEF IInv

\* IInv is kept: the bootstrap fails a job interrupted too often.
LEMMA BootFailJobKeepsIInv ==
  ASSUME IInv, NEW j \in Jobs, BootFailJob(j)
  PROVE  IInv'
<1>1. TypeOK'
  BY BoundsAssumption DEF IInv, TypeOK, JobStates, BootFailJob, SetJob, Fault,
         handlers
<1>2. RowsAgree'  BY DEF IInv, RowsAgree, TypeOK, BootFailJob, SetJob, JobExists
<1>3. RunnersAgree'
  BY DEF IInv, RunnersAgree, TypeOK, BootAgrees, Working, BootFailJob, BootAt, SetJob
<1>4. PhasesAgree'  BY DEF IInv, PhasesAgree, BootFailJob, BootAt, handlers
<1>5. BootAgrees'
  BY ZeroIsNoJob DEF IInv, BootAgrees, TypeOK, BootFailJob, BootAt, SetJob
<1>6. OpenJobsKept'
  BY DEF IInv, OpenJobsKept, TypeOK, Open, BootFailJob, SetJob, Fault
<1>7. InProgressOwned'
  BY ZeroIsNoJob DEF IInv, InProgressOwned, Owner, TypeOK, BootFailJob, BootAt, SetJob
<1>8. ReadyHasCompletedJob'
  BY DEF IInv, ReadyHasCompletedJob, BootAgrees, TypeOK, Open, BootFailJob, BootAt,
         SetJob
<1> QED  BY <1>1, <1>2, <1>3, <1>4, <1>5, <1>6, <1>7, <1>8 DEF IInv

\* IInv is kept: the bootstrap fails the paper of such a job.
LEMMA BootFailDocKeepsIInv ==
  ASSUME IInv, NEW j \in Jobs, BootFailDoc(j)
  PROVE  IInv'
<1>1. TypeOK'
  <2>1. jobDoc[j] \in Docs
    BY ZeroIsNoJob DEF IInv, TypeOK, BootAgrees, RowsAgree, BootFailDoc, Open
  <2>2. docStatus' \in [Docs -> DocStates]
    BY <2>1 DEF IInv, TypeOK, BootFailDoc, SetDoc, DocStates
  <2>3. torn' \subseteq Docs
    BY <2>1 DEF IInv, TypeOK, BootFailDoc, SetDoc
  <2>4. faults' \in 0 .. MaxFaults
    BY BoundsAssumption DEF IInv, TypeOK, BootFailDoc, Fault
  <2> QED
    BY <2>2, <2>3, <2>4 DEF IInv, TypeOK, BootFailDoc, BootNext, handlers
<1>2. RowsAgree'  BY DEF IInv, RowsAgree, TypeOK, BootFailDoc, SetDoc, DocExists
<1>3. RunnersAgree'  BY DEF IInv, RunnersAgree, BootFailDoc
<1>4. PhasesAgree'  BY DEF IInv, PhasesAgree, BootFailDoc, BootNext, handlers
<1>5. BootAgrees'
  BY ZeroIsNoJob DEF IInv, BootAgrees, TypeOK, BootFailDoc, BootNext, SetDoc
<1>6. OpenJobsKept'
  BY ZeroIsNoJob DEF IInv, OpenJobsKept, TypeOK, BootFailDoc, BootNext, Fault
<1>7. InProgressOwned'
  BY DEF IInv, InProgressOwned, Owner, TypeOK, InProgress, BootFailDoc, SetDoc
<1>8. ReadyHasCompletedJob'
  BY DEF IInv, ReadyHasCompletedJob, TypeOK, BootFailDoc, SetDoc
<1> QED  BY <1>1, <1>2, <1>3, <1>4, <1>5, <1>6, <1>7, <1>8 DEF IInv

\* IInv is kept: the bootstrap resumes a job.
LEMMA BootResumeKeepsIInv ==
  ASSUME IInv, NEW j \in Jobs, BootResume(j)
  PROVE  IInv'
<1>1. TypeOK'
  BY DEF IInv, TypeOK, Points, TryPoints, BootResume, BootNext, database, handlers
<1>2. RowsAgree'
  BY DEF IInv, RowsAgree, BootAgrees, Open, BootResume, BootAt, database
<1>3. RunnersAgree'
  BY ZeroIsNoJob DEF IInv, RunnersAgree, BootAgrees, Working, BootResume, BootAt,
         database
<1>4. PhasesAgree'  BY DEF IInv, PhasesAgree, BootResume, BootAt, BootNext, handlers
<1>5. BootAgrees'  BY DEF IInv, BootAgrees, BootResume, BootAt, BootNext, database
<1>6. OpenJobsKept'  BY DEF IInv, OpenJobsKept, TypeOK, BootResume, BootNext, database
<1>7. InProgressOwned'
  BY DEF IInv, InProgressOwned, Owner, BootAgrees, BootResume, BootAt, database
<1>8. ReadyHasCompletedJob'
  BY DEF IInv, ReadyHasCompletedJob, BootAgrees, Open, BootResume, BootAt, database
<1> QED  BY <1>1, <1>2, <1>3, <1>4, <1>5, <1>6, <1>7, <1>8 DEF IInv

\* IInv is kept: the bootstrap is over.
LEMMA BootDoneKeepsIInv ==
  ASSUME IInv, BootDone
  PROVE  IInv'
<1>1. TypeOK'  BY DEF IInv, TypeOK, DocStates, BootDone, NoSnap, database, handlers
<1>2. RowsAgree'  BY DEF IInv, RowsAgree, BootDone, database
<1>3. RunnersAgree'  BY DEF IInv, RunnersAgree, BootDone, database
<1>4. PhasesAgree'  BY DEF IInv, PhasesAgree, BootAgrees, BootDone, handlers
<1>5. BootAgrees'  BY DEF IInv, BootAgrees, BootDone
<1>6. OpenJobsKept'  BY DEF IInv, OpenJobsKept, BootDone, database
<1>7. InProgressOwned'  BY DEF IInv, InProgressOwned, Owner, BootDone, database
<1>8. ReadyHasCompletedJob'  BY DEF IInv, ReadyHasCompletedJob, BootDone, database
<1> QED  BY <1>1, <1>2, <1>3, <1>4, <1>5, <1>6, <1>7, <1>8 DEF IInv

-----------------------------------------------------------------------------
\* Every step of the system keeps the inductive invariant.
LEMMA NextKeepsIInv == IInv /\ [Next]_vars => IInv'
<1> SUFFICES ASSUME IInv, [Next]_vars PROVE IInv'
  OBVIOUS
<1>1. ASSUME NEW h \in Handlers, HandlerStep(h) PROVE IInv'
  BY <1>1, UploadKeepsIInv, ReprocessCheckKeepsIInv, ReprocessResetKeepsIInv,
     EnqueueKeepsIInv, RequestFailsKeepsIInv DEF HandlerStep
<1>2. ASSUME NEW d \in Docs, Remove(d) PROVE IInv'
  BY <1>2, RemoveKeepsIInv
<1>3. ASSUME NEW j \in Jobs, RunnerStep(j) PROVE IInv'
  BY <1>3, StartJobKeepsIInv, MarkExtractingKeepsIInv, IngestDoneKeepsIInv,
     MarkJobEmbeddingKeepsIInv, MarkEmbeddingKeepsIInv, EmbedDoneKeepsIInv,
     CompleteJobKeepsIInv, MarkReadyKeepsIInv, ThrowKeepsIInv, FailDocKeepsIInv,
     FailJobKeepsIInv DEF RunnerStep
<1>4. CASE BootStep
  BY <1>4, BootFetchKeepsIInv, BootDoneKeepsIInv, BootCloseKeepsIInv,
     BootFailJobKeepsIInv, BootFailDocKeepsIInv, BootResumeKeepsIInv DEF BootStep
<1>5. CASE Crash
  BY <1>5, CrashKeepsIInv
<1>6. CASE UNCHANGED vars
  BY <1>6 DEF IInv, TypeOK, RowsAgree, RunnersAgree, PhasesAgree, BootAgrees,
     OpenJobsKept, InProgressOwned, Owner, ReadyHasCompletedJob,
     vars, database, boot, handlers
<1> QED  BY <1>1, <1>2, <1>3, <1>4, <1>5, <1>6 DEF Next

\* The inductive invariant holds in every reachable state.
THEOREM IInvHolds == Spec => []IInv
<1> QED  BY InitEstablishesIInv, NextKeepsIInv, PTL DEF Spec

\* Every variable keeps its type.
THEOREM TypeCorrect == Spec => []TypeOK
<1>1. IInv => TypeOK  BY DEF IInv
<1> QED  BY <1>1, IInvHolds, PTL

\* A paper in processing has a job that will move it on, or its closing write
\* was lost: whatever crashes, retries and deletes happen.
THEOREM InProgressIsOwned == Spec => []InProgressOwned
<1>1. IInv => InProgressOwned  BY DEF IInv
<1> QED  BY <1>1, IInvHolds, PTL

\* A READY paper has a job whose run went through to its end.
THEOREM ReadyIsEarned == Spec => []ReadyHasCompletedJob
<1>1. IInv => ReadyHasCompletedJob  BY DEF IInv
<1> QED  BY <1>1, IInvHolds, PTL

\* While the server listens and no database call has failed, every open job
\* has a runner.
THEOREM NoOpenJobForgotten == Spec => []OpenJobsRun
<1>1. IInv => OpenJobsRun
  BY DEF IInv, OpenJobsKept, OpenJobsRun, PhasesAgree
<1> QED  BY <1>1, IInvHolds, PTL

-----------------------------------------------------------------------------
\* The one job of a READY paper submitted once has no runner and is not being
\* failed by the bootstrap.
LEMMA ReadyIsAtRest ==
  ASSUME IInv, NEW d \in Docs, docStatus[d] = "READY", SubmittedOnce(d),
         NEW j \in Jobs, jobDoc[j] = d
  PROVE  pc[j] = "idle" /\ jobStatus[j] = "COMPLETED" /\ bootFail # j
<1>1. pc[j] = "idle" /\ jobStatus[j] = "COMPLETED"
  BY DEF IInv, ReadyHasCompletedJob, SubmittedOnce
<1> QED  BY <1>1, ZeroIsNoJob DEF IInv, BootAgrees, Open

\* No step takes a READY paper submitted once away from READY, except its
\* removal.
LEMMA StepKeepsReady ==
  ASSUME IInv, [Next]_vars, NEW d \in Docs, docStatus[d] = "READY", SubmittedOnce(d)
  PROVE  docStatus'[d] \in {"READY", "DELETED"}
<1>1. ASSUME NEW h \in Handlers, HandlerStep(h) PROVE docStatus'[d] = "READY"
  <2>1. ASSUME NEW e \in Docs, Upload(h, e) PROVE docStatus'[d] = "READY"
    BY <2>1 DEF Upload, IInv, TypeOK
  <2>2. ASSUME ReprocessReset(h) PROVE docStatus'[d] = "READY"
    BY <2>2 DEF ReprocessReset, SetDoc, SubmittedOnce, IInv, TypeOK
  <2> QED
    BY <1>1, <2>1, <2>2
    DEF HandlerStep, ReprocessCheck, Enqueue, RequestFails, database
<1>2. ASSUME NEW e \in Docs, Remove(e) PROVE docStatus'[d] \in {"READY", "DELETED"}
  BY <1>2 DEF Remove, SetDoc, IInv, TypeOK
<1>3. ASSUME NEW j \in Jobs, RunnerStep(j) PROVE docStatus'[d] = "READY"
  <2>1. CASE jobDoc[j] = d
    <3>1. pc[j] = "idle"  BY <2>1, ReadyIsAtRest
    <3> QED
      BY <1>3, <3>1
      DEF RunnerStep, Run, TryPoints, StartJob, MarkExtracting, IngestDone,
          MarkJobEmbedding, MarkEmbedding, EmbedDone, CompleteJob, MarkReady, Throw,
          FailDoc, FailJob
  <2>2. CASE jobDoc[j] # d
    BY <1>3, <2>2
    DEF RunnerStep, SetDoc, StartJob, MarkExtracting, IngestDone, MarkJobEmbedding,
        MarkEmbedding, EmbedDone, CompleteJob, MarkReady, Throw, FailDoc, FailJob,
        database, IInv, TypeOK
  <2> QED  BY <2>1, <2>2
<1>4. ASSUME BootStep PROVE docStatus'[d] = "READY"
  <2>1. ASSUME NEW j \in Jobs, BootFailDoc(j) PROVE docStatus'[d] = "READY"
    <3>1. jobDoc[j] # d  BY <2>1, ReadyIsAtRest DEF BootFailDoc
    <3> QED  BY <2>1, <3>1 DEF BootFailDoc, SetDoc, IInv, TypeOK
  <2> QED
    BY <1>4, <2>1
    DEF BootStep, BootFetch, BootDone, BootClose, BootFailJob, BootResume, database
<1>5. CASE Crash
  BY <1>5 DEF Crash, database
<1>6. CASE UNCHANGED vars
  BY <1>6 DEF vars, database
<1> QED  BY <1>1, <1>2, <1>3, <1>4, <1>5, <1>6 DEF Next

\* A paper submitted once and READY is reopened by no step of the system.
THEOREM ReadyIsKept == Spec => ReadyStaysReady
<1>1. IInv /\ [Next]_vars =>
        [\A d \in Docs : docStatus[d] = "READY" /\ SubmittedOnce(d) =>
           docStatus'[d] \in {"READY", "DELETED"}]_vars
  BY StepKeepsReady
<1> QED  BY <1>1, IInvHolds, PTL DEF Spec, ReadyStaysReady

-----------------------------------------------------------------------------
(* The queue implements JobLifecycle. *)

AbstractState == [j \in Jobs |-> Lifecycle(jobStatus[j])]

\* The abstract state of each status of a job row.
LEMMA LifecycleValues ==
  /\ Lifecycle("NONE") = "none"
  /\ \A s \in Open : Lifecycle(s) = "open"
  /\ \A s \in Closed : Lifecycle(s) = "closed"
  /\ Lifecycle("GONE") = "gone"
BY DEF Lifecycle, Open, Closed

\* A write of one job row changes the abstract state of that job only.
LEMMA OneJobChanges ==
  ASSUME TypeOK, NEW j \in Jobs, NEW s, jobStatus' = [jobStatus EXCEPT ![j] = s]
  PROVE  AbstractState' = [AbstractState EXCEPT ![j] = Lifecycle(s)]
BY DEF TypeOK, AbstractState

\* A job that is open and gets closed closes in the abstract system as well.
LEMMA Closes ==
  ASSUME TypeOK, NEW j \in Jobs, NEW s \in Closed, jobStatus[j] \in Open,
         jobStatus' = [jobStatus EXCEPT ![j] = s], UNCHANGED attempts
  PROVE  JL!Close(j)
<1>1. AbstractState[j] = "open" /\ Lifecycle(s) = "closed"
  BY LifecycleValues DEF AbstractState
<1>2. AbstractState' = [AbstractState EXCEPT ![j] = "closed"]
  BY <1>1, OneJobChanges
<1> QED  BY <1>1, <1>2 DEF JL!Close, AbstractState

\* A step that writes no job row is a stutter of the abstract system.
LEMMA NoJobWritten ==
  ASSUME UNCHANGED <<jobStatus, attempts>>
  PROVE  UNCHANGED <<AbstractState, attempts>>
BY DEF AbstractState

\* A new job is submitted.
LEMMA EnqueueSubmits ==
  ASSUME IInv, NEW h \in Handlers, Enqueue(h)
  PROVE  \E j \in Jobs : JL!Submit(j)
<1>1. PICK j \in Jobs : /\ jobStatus[j] = "NONE"
                        /\ jobStatus' = [jobStatus EXCEPT ![j] = "QUEUED"]
  BY DEF Enqueue
<1>2. AbstractState[j] = "none"  BY <1>1, LifecycleValues DEF AbstractState
<1>3. AbstractState' = [AbstractState EXCEPT ![j] = "open"]
  <2>1. Lifecycle("QUEUED") = "open"  BY LifecycleValues DEF Open
  <2>2. AbstractState' = [AbstractState EXCEPT ![j] = Lifecycle("QUEUED")]
    BY <1>1, OneJobChanges DEF IInv
  <2> QED  BY <2>1, <2>2
<1>4. JL!Submit(j)  BY <1>2, <1>3 DEF JL!Submit, AbstractState, Enqueue
<1> QED  BY <1>4

\* Starting a job is a try, and there is one left.
LEMMA StartTries ==
  ASSUME IInv, NEW j \in Jobs, StartJob(j)
  PROVE  JL!Try(j)
<1>1. jobStatus[j] \in Open /\ attempts[j] < MAX_RESUME_ATTEMPTS
  BY DEF StartJob, Run, SetJob, JobExists, IInv, RunnersAgree
<1>2. AbstractState[j] = "open"  BY <1>1, LifecycleValues DEF AbstractState
<1>3. AbstractState' = [AbstractState EXCEPT ![j] = "open"]
  <2>1. TypeOK /\ jobStatus' = [jobStatus EXCEPT ![j] = "ACTIVE"]
    BY DEF IInv, StartJob, SetJob
  <2>2. Lifecycle("ACTIVE") = "open"
    BY LifecycleValues DEF Open
  <2> QED  BY <2>1, <2>2, OneJobChanges
<1>4. AbstractState' = AbstractState  BY <1>2, <1>3 DEF AbstractState
<1> QED  BY <1>1, <1>2, <1>4 DEF JL!Try, AbstractState, StartJob

\* Deleting a paper removes its jobs for good.
LEMMA RemoveCascades ==
  ASSUME IInv, NEW d \in Docs, Remove(d)
  PROVE  \E S \in SUBSET Jobs : JL!Cascade(S)
<1> DEFINE S == {j \in Jobs : jobDoc[j] = d}
<1>1. \A j \in S : jobStatus[j] # "NONE"
  BY NoDocAssumption DEF IInv, RowsAgree
<1>2. \A j \in S : AbstractState[j] \in {"open", "closed", "gone"}
  BY <1>1, LifecycleValues DEF AbstractState, IInv, TypeOK, JobStates, Open, Closed
<1>3. AbstractState' = [j \in Jobs |-> IF j \in S THEN "gone" ELSE AbstractState[j]]
  BY LifecycleValues DEF AbstractState, Remove
<1>4. JL!Cascade(S)  BY <1>2, <1>3 DEF JL!Cascade, AbstractState, Remove
<1> QED  BY <1>4

\* Every step of a runner is a step of the abstract system or none.
LEMMA RunnerSimulates ==
  ASSUME IInv, NEW j \in Jobs, RunnerStep(j)
  PROVE  JL!Try(j) \/ JL!Close(j) \/ UNCHANGED <<AbstractState, attempts>>
<1>1. CASE StartJob(j)
  BY <1>1, StartTries
<1>2. CASE CompleteJob(j)
  <2>1. jobStatus[j] \in Open
    BY <1>2 DEF CompleteJob, Run, SetJob, JobExists, IInv, RunnersAgree, Working, Open
  <2> QED
    BY <1>2, <2>1, Closes DEF CompleteJob, SetJob, IInv, Closed
<1>3. CASE FailJob(j)
  <2>1. CASE UNCHANGED jobStatus
    BY <1>3, <2>1, NoJobWritten DEF FailJob
  <2>2. CASE SetJob(j, "FAILED") /\ jobStatus[j] \in Open
    BY <1>3, <2>2, Closes DEF FailJob, SetJob, IInv, Closed
  <2>3. CASE SetJob(j, "FAILED") /\ jobStatus[j] \notin Open
    <3>1. AbstractState[j] = "closed"
      BY <2>3, LifecycleValues
      DEF SetJob, JobExists, AbstractState, IInv, TypeOK, JobStates, Open, Closed
    <3>2. AbstractState' = [AbstractState EXCEPT ![j] = "closed"]
      <4>1. Lifecycle("FAILED") = "closed"  BY LifecycleValues DEF Closed
      <4>2. AbstractState' = [AbstractState EXCEPT ![j] = Lifecycle("FAILED")]
        BY <2>3, OneJobChanges DEF SetJob, IInv
      <4> QED  BY <4>1, <4>2
    <3>3. AbstractState' = AbstractState  BY <3>1, <3>2 DEF AbstractState
    <3> QED  BY <1>3, <3>3 DEF FailJob
  <2> QED  BY <1>3, <2>1, <2>2, <2>3 DEF FailJob
<1>4. CASE ~StartJob(j) /\ ~CompleteJob(j) /\ ~FailJob(j)
  BY <1>4, NoJobWritten
  DEF RunnerStep, MarkExtracting, IngestDone, MarkJobEmbedding, MarkEmbedding,
      EmbedDone, MarkReady, Throw, FailDoc, database
<1> QED  BY <1>1, <1>2, <1>3, <1>4

\* Every step of the bootstrap closes an open job or touches none.
LEMMA BootSimulates ==
  ASSUME IInv, BootStep
  PROVE  (\E j \in Jobs : JL!Close(j)) \/ UNCHANGED <<AbstractState, attempts>>
<1>1. ASSUME NEW j \in Jobs, BootClose(j) \/ BootFailJob(j)
      PROVE  JL!Close(j) \/ UNCHANGED <<AbstractState, attempts>>
  <2>1. jobStatus[j] \in Open
    BY <1>1, ZeroIsNoJob DEF BootClose, BootFailJob, BootAt, IInv, BootAgrees
  <2>2. CASE UNCHANGED jobStatus
    BY <1>1, <2>2, NoJobWritten DEF BootClose, BootFailJob
  <2>3. CASE ~UNCHANGED jobStatus
    <3>1. PICK s \in Closed : jobStatus' = [jobStatus EXCEPT ![j] = s]
      BY <1>1, <2>3 DEF BootClose, BootFailJob, SetJob, Closed
    <3> QED  BY <1>1, <2>1, <3>1, Closes DEF BootClose, BootFailJob, IInv
  <2> QED  BY <2>2, <2>3
<1>2. ASSUME BootFetch \/ BootDone \/ \E j \in Jobs : BootFailDoc(j) \/ BootResume(j)
      PROVE  UNCHANGED <<AbstractState, attempts>>
  BY <1>2, NoJobWritten DEF BootFetch, BootDone, BootFailDoc, BootResume, database
<1> QED  BY <1>1, <1>2 DEF BootStep

\* Every step of the system is a step of JobLifecycle or leaves it alone.
LEMMA StepSimulates ==
  ASSUME IInv, [Next]_vars
  PROVE  JL!Next \/ UNCHANGED <<AbstractState, attempts>>
<1>1. ASSUME NEW h \in Handlers, HandlerStep(h)
      PROVE  JL!Next \/ UNCHANGED <<AbstractState, attempts>>
  <2>1. CASE Enqueue(h)
    BY <2>1, EnqueueSubmits DEF JL!Next
  <2>2. CASE ~Enqueue(h)
    BY <1>1, <2>2, NoJobWritten
    DEF HandlerStep, Upload, ReprocessCheck, ReprocessReset, RequestFails, database
  <2> QED  BY <2>1, <2>2
<1>2. ASSUME NEW d \in Docs, Remove(d) PROVE JL!Next
  BY <1>2, RemoveCascades DEF JL!Next
<1>3. ASSUME NEW j \in Jobs, RunnerStep(j)
      PROVE  JL!Next \/ UNCHANGED <<AbstractState, attempts>>
  BY <1>3, RunnerSimulates DEF JL!Next
<1>4. CASE BootStep
  BY <1>4, BootSimulates DEF JL!Next
<1>5. CASE Crash
  BY <1>5, NoJobWritten DEF Crash, database
<1>6. CASE UNCHANGED vars
  BY <1>6, NoJobWritten DEF vars, database
<1> QED  BY <1>1, <1>2, <1>3, <1>4, <1>5, <1>6 DEF Next

\* The queue implements JobLifecycle: a job is tried at most MAX_RESUME_ATTEMPTS
\* times, and once closed it is never tried again, whatever crashes happen.
THEOREM QueueImplementsLifecycle == Spec => JobsFollowLifecycle
<1>1. Init => JL!Init
  BY LifecycleValues DEF Init, JL!Init
<1>2. IInv /\ [Next]_vars => [JL!Next]_<<AbstractState, attempts>>
  BY StepSimulates
<1>3. IInv /\ [Next]_vars
        => [JL!Next]_<<[j \in Jobs |-> Lifecycle(jobStatus[j])], attempts>>
  BY <1>2 DEF AbstractState
<1> QED  BY <1>1, <1>3, IInvHolds, PTL DEF Spec, JobsFollowLifecycle, JL!Spec

-----------------------------------------------------------------------------
(* Ingestion                                                                *)

-----------------------------------------------------------------------------
(* C and CP are instances of the same definitions *)

\* They start in the same states.
LEMMA SameInit == C!Init <=> CP!Init
BY DEF C!Init, CP!Init, C!Idle, CP!Idle

\* In particular an ingest builds the same.
LEMMA SameBuild == \A r : C!IngestBuild(r) <=> CP!IngestBuild(r)
BY DEF C!IngestBuild, CP!IngestBuild, C!Begin, CP!Begin, C!Busy, CP!Busy, C!Idle, CP!Idle,
       C!Adoptions, CP!Adoptions, C!NewIds, CP!NewIds, C!Differ, CP!Differ, C!Free, CP!Free,
       C!StoredModel, CP!StoredModel, C!IdsInUse, CP!IdsInUse, C!HeldBy, CP!HeldBy,
       C!ToSet, CP!ToSet, C!Cardinality, CP!Cardinality

\* Every step of the one is a step of the other.
LEMMA SameStep == [C!Next]_(C!vars) => [CP!Next]_(CP!vars)
<1>1. C!Idle = CP!Idle
  BY DEF C!Idle, CP!Idle
<1>2. \A r : C!IngestRefuse(r) <=> CP!IngestRefuse(r)
  BY DEF C!IngestRefuse, CP!IngestRefuse, C!Begin, CP!Begin, C!Busy, CP!Busy, C!Idle, CP!Idle
<1>3. \A r : C!IngestBuild(r) <=> CP!IngestBuild(r)
  BY SameBuild
<1>4. \A r : C!IngestSelect(r) <=> CP!IngestSelect(r)
  BY DEF C!IngestSelect, CP!IngestSelect
<1>5. \A r : C!IngestCommit(r) <=> CP!IngestCommit(r)
  BY DEF C!IngestCommit, CP!IngestCommit, C!End, CP!End, C!Idle, CP!Idle, C!ToSet, CP!ToSet
<1>6. \A r : C!EmbedRead(r) <=> CP!EmbedRead(r)
  BY DEF C!EmbedRead, CP!EmbedRead, C!Begin, CP!Begin, C!Busy, CP!Busy, C!Idle, CP!Idle,
         C!Unembedded, CP!Unembedded
<1>7. \A r : C!EmbedWrite(r) <=> CP!EmbedWrite(r)
  BY DEF C!EmbedWrite, CP!EmbedWrite, C!End, CP!End, C!Idle, CP!Idle
<1>8. \A r : C!Fail(r) <=> CP!Fail(r)
  BY DEF C!Fail, CP!Fail, C!Busy, CP!Busy, C!End, CP!End, C!Idle, CP!Idle
<1>9. \A r : C!Answered(r) <=> CP!Answered(r)
  BY DEF C!Answered, CP!Answered, C!Idle, CP!Idle
<1>10. \A id : C!Cite(id) <=> CP!Cite(id)
  BY DEF C!Cite, CP!Cite, C!Cardinality, CP!Cardinality
<1>11. C!RemovePaper <=> CP!RemovePaper
  BY DEF C!RemovePaper, CP!RemovePaper
<1>12. \A b, m : C!Restart(b, m) <=> CP!Restart(b, m)
  BY DEF C!Restart, CP!Restart, C!Idle, CP!Idle
<1>13. C!Next => CP!Next
  BY <1>2, <1>3, <1>4, <1>5, <1>6, <1>7, <1>8, <1>9, <1>10, <1>11, <1>12, Zenon
  DEF C!Next, CP!Next
<1>14. UNCHANGED C!vars => UNCHANGED CP!vars
  BY DEF C!vars, CP!vars
<1> QED  BY <1>13, <1>14

\* The assumptions of ChunkStore.
LEMMA StoreAssumes ==
  /\ CP!IsFiniteSet(Ids) /\ MaxCitations \in Nat /\ MaxStarts \in Nat
  /\ \A b \in Bodies : b \in CP!Seq(CP!ToSet(b))
  /\ NoCard \notin Cards
  /\ NoId \notin Ids /\ NoVec \notin Models
  /\ NoVec \notin CP!Vectors
<1>1. CP!IsFiniteSet(Ids) /\ MaxCitations \in Nat /\ MaxStarts \in Nat
  BY StoreAssumption DEF CP!IsFiniteSet, IsFiniteSet
<1>2. \A b \in Bodies : b \in CP!Seq(CP!ToSet(b))
  BY StoreAssumption DEF CP!ToSet, C!ToSet
<1>3. NoVec \notin CP!Vectors
  BY StoreAssumption DEF CP!Vectors, C!Vectors, CP!Texts, C!Texts, C!ToSet, CP!ToSet
<1> QED  BY <1>1, <1>2, <1>3, StoreAssumption

\* What is proved of ChunkStore holds of C.
LEMMA StoreInvKept == C!Spec => []CP!StoreInv
<1>1. C!Spec => CP!Spec
  BY SameInit, SameStep, PTL DEF C!Spec, CP!Spec
<1> QED  BY <1>1, StoreAssumes, CP!StoreInvariant, PTL

-----------------------------------------------------------------------------
(* Both components keep their specifications *)

Wire ==
  /\ sent \in [Requests -> {"none", "ingest", "embed"}]
  /\ serving \in [Jobs -> Requests \cup {NoRequest}]
  /\ raced \in BOOLEAN
  /\ body \in Bodies /\ model \in Models

\* Every step is one of the queue's or leaves the queue alone.
LEMMA QueueStep == NextAll => [Next]_vars
<1>1. ASSUME NEW j \in Jobs, NEW r \in Requests, SendIngest(j, r) \/ SendEmbed(j, r)
      PROVE  UNCHANGED vars
  BY <1>1 DEF SendIngest, SendEmbed, Send
<1>2. ASSUME NEW j \in Jobs, Receive(j) \/ ReceiveFailure(j) \/ GiveUp(j) \/ RunnerLocal(j)
      PROVE  RunnerStep(j)
  BY <1>2, Zenon DEF Receive, ReceiveFailure, GiveUp, RunnerLocal, RunnerStep
<1>3. BackendLocal => (\E h \in Handlers : HandlerStep(h)) \/ BootStep
  BY Zenon DEF BackendLocal
<1>4. BackendCrash => Crash
  BY DEF BackendCrash
<1>5. RemoveAll => \E d \in Docs : Remove(d)
  BY PaperAssumption DEF RemoveAll
<1>6. ASSUME NEW r \in Requests, Begin(r) \/ AiStep(r) PROVE UNCHANGED vars
  BY <1>6, Zenon DEF Begin, AiStep, queue
<1>7. AiRestart => UNCHANGED vars
  BY Zenon DEF AiRestart, queue
<1> QED  BY <1>1, <1>2, <1>3, <1>4, <1>5, <1>6, <1>7, Zenon DEF NextAll, Next

\* Only remove changes whether the paper is there.
LEMMA PaperStays ==
  ASSUME TypeOK, \/ \E h \in Handlers : HandlerStep(h)
                 \/ \E j \in Jobs : RunnerStep(j)
                 \/ BootStep \/ Crash
  PROVE  docStatus'[Paper] = "DELETED" <=> docStatus[Paper] = "DELETED"
<1>1. Paper \in Docs /\ docStatus \in [Docs -> DocStates]
  BY PaperAssumption DEF TypeOK
<1>2. ASSUME NEW d, NEW s \in DocStates \ {"DELETED"}, SetDoc(d, s)
      PROVE  docStatus'[Paper] = "DELETED" <=> docStatus[Paper] = "DELETED"
  BY <1>1, <1>2 DEF SetDoc, DocExists
<1>3. ASSUME NEW h \in Handlers, HandlerStep(h)
      PROVE  docStatus'[Paper] = "DELETED" <=> docStatus[Paper] = "DELETED"
  <2>1. ASSUME NEW d \in Docs, Upload(h, d)
        PROVE  docStatus'[Paper] = "DELETED" <=> docStatus[Paper] = "DELETED"
    BY <1>1, <2>1 DEF Upload
  <2>2. ASSUME ReprocessReset(h)
        PROVE  docStatus'[Paper] = "DELETED" <=> docStatus[Paper] = "DELETED"
    BY <1>2, <2>2 DEF ReprocessReset, DocStates
  <2>3. (\E d \in Docs : ReprocessCheck(h, d)) \/ Enqueue(h) \/ RequestFails(h)
          => UNCHANGED docStatus
    BY DEF ReprocessCheck, Enqueue, RequestFails, database
  <2> QED  BY <1>3, <2>1, <2>2, <2>3, Zenon DEF HandlerStep
<1>4. ASSUME NEW j \in Jobs, RunnerStep(j)
      PROVE  docStatus'[Paper] = "DELETED" <=> docStatus[Paper] = "DELETED"
  <2>1. MarkExtracting(j) => SetDoc(jobDoc[j], "EXTRACTING")
    BY DEF MarkExtracting
  <2>2. MarkEmbedding(j) => SetDoc(jobDoc[j], "EMBEDDING")
    BY DEF MarkEmbedding
  <2>3. MarkReady(j) => SetDoc(jobDoc[j], "READY")
    BY DEF MarkReady
  <2>4. FailDoc(j) => SetDoc(jobDoc[j], "FAILED") \/ UNCHANGED docStatus
    BY DEF FailDoc
  <2>5. StartJob(j) \/ IngestDone(j) \/ MarkJobEmbedding(j) \/ EmbedDone(j) \/ CompleteJob(j)
          \/ Throw(j) \/ FailJob(j) => UNCHANGED docStatus
    BY DEF StartJob, IngestDone, MarkJobEmbedding, EmbedDone, CompleteJob, Throw, FailJob, database
  <2>6. {"EXTRACTING", "EMBEDDING", "READY", "FAILED"} \subseteq DocStates \ {"DELETED"}
    BY DEF DocStates
  <2>7. \/ UNCHANGED docStatus
        \/ \E s \in {"EXTRACTING", "EMBEDDING", "READY", "FAILED"} : SetDoc(jobDoc[j], s)
    BY <1>4, <2>1, <2>2, <2>3, <2>4, <2>5, Zenon DEF RunnerStep
  <2> QED  BY <1>2, <2>6, <2>7
<1>5. ASSUME BootStep
      PROVE  docStatus'[Paper] = "DELETED" <=> docStatus[Paper] = "DELETED"
  <2>1. \A j \in Jobs : BootFailDoc(j) => SetDoc(jobDoc[j], "FAILED") \/ UNCHANGED docStatus
    BY DEF BootFailDoc
  <2>2. \A j \in Jobs : BootClose(j) \/ BootFailJob(j) \/ BootResume(j) => UNCHANGED docStatus
    BY DEF BootClose, BootFailJob, BootResume, database
  <2>3. BootFetch \/ BootDone => UNCHANGED docStatus
    BY DEF BootFetch, BootDone, database
  <2>4. UNCHANGED docStatus \/ \E j \in Jobs : SetDoc(jobDoc[j], "FAILED")
    BY <1>5, <2>1, <2>2, <2>3, Zenon DEF BootStep
  <2>5. "FAILED" \in DocStates \ {"DELETED"}
    BY DEF DocStates
  <2> QED  BY <1>2, <2>4, <2>5
<1>6. Crash => UNCHANGED docStatus
  BY DEF Crash, database
<1> QED  BY <1>3, <1>4, <1>5, <1>6

\* What travels between the processes has its type, and the parser and the model
\* deployed stay what they are.
LEMMA WireStep == ASSUME Wire, NextAll PROVE Wire'
<1>1. "none" \in {"none", "ingest", "embed"} /\ "ingest" \in {"none", "ingest", "embed"}
      /\ "embed" \in {"none", "ingest", "embed"}
  OBVIOUS
<1>2. ASSUME NEW j \in Jobs, NEW r \in Requests, SendIngest(j, r) \/ SendEmbed(j, r) PROVE Wire'
  <2>1. /\ \E k \in {"ingest", "embed"} : sent' = [sent EXCEPT ![r] = k]
        /\ serving' = [serving EXCEPT ![j] = r]
        /\ UNCHANGED <<body, model>>
    BY <1>2 DEF SendIngest, SendEmbed, Send, store
  <2>2. raced' \in BOOLEAN
    BY <1>2, Zenon DEF SendIngest, SendEmbed, Wire
  <2> QED  BY <2>1, <2>2 DEF Wire
<1>3. ASSUME NEW j \in Jobs, Receive(j) \/ ReceiveFailure(j) \/ GiveUp(j) PROVE Wire'
  <2>1. serving' = [serving EXCEPT ![j] = NoRequest] /\ UNCHANGED <<body, model, sent, raced>>
    BY <1>3, Zenon DEF Receive, ReceiveFailure, GiveUp, Hangup, C!Answered, store
  <2> QED  BY <2>1 DEF Wire
<1>4. ASSUME NEW j \in Jobs, RunnerLocal(j) PROVE Wire'
  <2>1. UNCHANGED <<body, model, sent, serving>>
    BY <1>4 DEF RunnerLocal, store
  <2>2. raced' \in BOOLEAN
    BY <1>4, Zenon DEF RunnerLocal, Wire, Company
  <2> QED  BY <2>1, <2>2 DEF Wire
<1>5. ASSUME BackendLocal PROVE Wire'
  BY <1>5 DEF BackendLocal, store, Wire
<1>6. ASSUME BackendCrash PROVE Wire'
  BY <1>6 DEF BackendCrash, store, Wire
<1>7. ASSUME RemoveAll PROVE Wire'
  BY <1>7 DEF RemoveAll, C!RemovePaper, Wire
<1>8. ASSUME NEW r \in Requests, Begin(r) PROVE Wire'
  <2>1. UNCHANGED <<body, model, serving, raced>> /\ sent' = [sent EXCEPT ![r] = "none"]
    BY <1>8, Zenon DEF Begin, queue, C!IngestRefuse, C!IngestBuild, C!EmbedRead
  <2> QED  BY <2>1 DEF Wire
<1>9. ASSUME NEW r \in Requests, AiStep(r) PROVE Wire'
  <2>1. UNCHANGED <<body, model, serving, raced, sent>>
    BY <1>9, Zenon DEF AiStep, queue, C!IngestSelect, C!IngestCommit, C!EmbedWrite, C!Fail, C!Answered
  <2> QED  BY <2>1 DEF Wire
<1>10. ASSUME AiRestart PROVE Wire'
  <2>1. UNCHANGED <<body, model, serving, raced>> /\ sent' = [r \in Requests |-> "none"]
    BY <1>10, Zenon DEF AiRestart, queue, C!Restart
  <2> QED  BY <2>1 DEF Wire
<1> QED  BY <1>2, <1>3, <1>4, <1>5, <1>6, <1>7, <1>8, <1>9, <1>10, Zenon DEF NextAll

\* Every step is one of the store's or leaves the store alone.
LEMMA StoreStep == ASSUME TypeOK, Wire, NextAll PROVE [C!Next]_(C!vars)
<1>1. ASSUME UNCHANGED store, docStatus'[Paper] = "DELETED" <=> docStatus[Paper] = "DELETED"
      PROVE  UNCHANGED C!vars
  BY <1>1 DEF store, C!vars
<1>2. ASSUME NEW j \in Jobs, NEW r \in Requests, SendIngest(j, r) \/ SendEmbed(j, r)
      PROVE  UNCHANGED C!vars
  <2>1. UNCHANGED store /\ UNCHANGED docStatus
    BY <1>2 DEF SendIngest, SendEmbed, Send, vars, database
  <2> QED  BY <1>1, <2>1
<1>3. ASSUME NEW j \in Jobs, Receive(j) \/ ReceiveFailure(j) PROVE C!Next
  <2>1. serving[j] \in Requests /\ C!Answered(serving[j])
    BY <1>3 DEF Receive, ReceiveFailure, Wire
  <2> QED  BY <2>1, Zenon DEF C!Next
<1>4. ASSUME NEW j \in Jobs, GiveUp(j) \/ RunnerLocal(j) PROVE UNCHANGED C!vars
  <2>1. UNCHANGED store
    BY <1>4 DEF GiveUp, RunnerLocal
  <2>2. RunnerStep(j)
    BY <1>4, Zenon DEF GiveUp, RunnerLocal, RunnerStep
  <2> QED  BY <1>1, <2>1, <2>2, PaperStays
<1>5. ASSUME BackendLocal \/ BackendCrash PROVE UNCHANGED C!vars
  <2>1. UNCHANGED store
    BY <1>5 DEF BackendLocal, BackendCrash
  <2>2. (\E h \in Handlers : HandlerStep(h)) \/ BootStep \/ Crash
    BY <1>5, Zenon DEF BackendLocal, BackendCrash
  <2> QED  BY <1>1, <2>1, <2>2, PaperStays
<1>6. RemoveAll => C!Next
  BY Zenon DEF RemoveAll, C!Next
<1>7. ASSUME NEW r \in Requests, Begin(r) \/ AiStep(r) PROVE C!Next
  BY <1>7, Zenon DEF Begin, AiStep, C!Next
<1>8. AiRestart => C!Next
  BY Zenon DEF AiRestart, C!Next, Wire
<1> QED  BY <1>2, <1>3, <1>4, <1>5, <1>6, <1>7, <1>8, Zenon DEF NextAll

\* Put together, the queue is still a Processing and the store a ChunkStore:
\* runners and requests meet in nothing but the calls, and remove takes the chunks
\* with the paper.
THEOREM ComponentsAreKept == SpecAll => ComponentsKept
<1>1. InitAll => Init /\ C!Init /\ Wire
  BY DEF InitAll, Wire, C!Init
<1>2. [NextAll]_allVars => [Next]_vars
  BY QueueStep DEF allVars
<1>3. Wire /\ [NextAll]_allVars => Wire'
  <2>1. Wire /\ UNCHANGED allVars => Wire'
    BY DEF allVars, store, Wire
  <2> QED  BY <2>1, WireStep
<1>4. TypeOK /\ Wire /\ [NextAll]_allVars => [C!Next]_(C!vars)
  <2>1. UNCHANGED allVars => UNCHANGED C!vars
    BY DEF allVars, store, vars, database, C!vars
  <2> QED  BY <2>1, StoreStep
<1>5. SpecAll => Spec
  BY <1>1, <1>2, PTL DEF SpecAll, Spec
<1> QED  BY <1>1, <1>3, <1>4, <1>5, TypeCorrect, PTL DEF SpecAll, C!Spec, ComponentsKept

\* What travels has its type in every state of the composition.
LEMMA WireHolds == SpecAll => []Wire
<1>1. InitAll => Wire
  BY DEF InitAll, Wire, C!Init
<1>2. Wire /\ [NextAll]_allVars => Wire'
  <2>1. Wire /\ UNCHANGED allVars => Wire'
    BY DEF allVars, store, Wire
  <2> QED  BY <2>1, WireStep
<1> QED  BY <1>1, <1>2, PTL DEF SpecAll

\* The types of the queue, of the store and of what travels between them.
THEOREM TypesHold == SpecAll => []TypeOKAll
<1>1. CP!StoreInv => C!TypeOK
  BY DEF CP!StoreInv, CP!TypeOK, C!TypeOK, CP!Texts, C!Texts, CP!Rows, C!Rows, CP!Vectors,
         C!Vectors, CP!Chunks, C!Chunks, CP!Stages, C!Stages, CP!ToSet, C!ToSet
<1>2. Wire /\ TypeOK /\ C!TypeOK => TypeOKAll
  BY DEF Wire, TypeOKAll
<1> QED  BY <1>1, <1>2, ComponentsAreKept, StoreInvKept, TypeCorrect, WireHolds, PTL DEF ComponentsKept

-----------------------------------------------------------------------------
(* What the steps of a request change *)

\* The other requests keep all but the mark that they have company.
OthersKept(r) ==
  \A s \in Requests \ {r} :
    /\ req'[s].stage = req[s].stage /\ req'[s].chunks = req[s].chunks
    /\ req'[s].existing = req[s].existing /\ req'[s].batch = req[s].batch

Move(r, from, to) ==
  req[r].stage \in from /\ req'[r].stage = to /\ OthersKept(r)

\* A request that begins has the fields of its record.
LEMMA Begins ==
  ASSUME CP!RequestsTyped, NEW r \in Requests, NEW s, NEW list, NEW batch, NEW o,
         C!Begin(r, [stage |-> s, chunks |-> list, existing |-> {}, batch |-> batch, alone |-> o])
  PROVE  Move(r, {"idle"}, s) /\ req'[r].chunks = list /\ req'[r].batch = batch
<1> DEFINE q == [stage |-> s, chunks |-> list, existing |-> {}, batch |-> batch, alone |-> o]
<1>1. PICK a : req' = [t \in Requests |-> IF t = r THEN [q EXCEPT !.alone = a]
                                          ELSE [req[t] EXCEPT !.alone = FALSE]]
  BY Zenon DEF C!Begin
<1>2. [q EXCEPT !.alone = a] = [stage |-> s, chunks |-> list, existing |-> {}, batch |-> batch,
                                alone |-> a]
  OBVIOUS
<1> HIDE DEF q
<1>3. req'[r] = [stage |-> s, chunks |-> list, existing |-> {}, batch |-> batch, alone |-> a]
  BY <1>1, <1>2
<1>4. PICK no : no = FALSE
  BY Zenon
<1>5. \A row \in CP!ReqRow :
        /\ [row EXCEPT !.alone = no].stage = row.stage
        /\ [row EXCEPT !.alone = no].chunks = row.chunks
        /\ [row EXCEPT !.alone = no].existing = row.existing
        /\ [row EXCEPT !.alone = no].batch = row.batch
  BY DEF CP!ReqRow
<1>6. \A t \in Requests \ {r} : req'[t] = [req[t] EXCEPT !.alone = no] /\ req[t] \in CP!ReqRow
  BY <1>1, <1>4, Zenon DEF CP!RequestsTyped
<1>7. OthersKept(r)
  BY <1>5, <1>6 DEF OthersKept
<1>8. req[r].stage = "idle"
  BY DEF C!Begin
<1> QED  BY <1>3, <1>7, <1>8 DEF Move

\* A request that ends, or whose answer is taken, has the stage it is given.
LEMMA Ends ==
  ASSUME CP!RequestsTyped, NEW r \in Requests, NEW s,
         req' = [req EXCEPT ![r] = [C!Idle EXCEPT !.stage = s]]
  PROVE  req'[r].stage = s /\ OthersKept(r)
<1>1. PICK e, o : e = <<>> /\ o = FALSE
  BY Zenon
<1>2. C!Idle = [stage |-> "idle", chunks |-> e, existing |-> {}, batch |-> e, alone |-> o]
  BY <1>1, Zenon DEF C!Idle
<1>3. [C!Idle EXCEPT !.stage = s].stage = s
  BY <1>2
<1> QED  BY <1>3 DEF CP!RequestsTyped, OthersKept

\* A paper without text: the request has failed.
LEMMA Refuses ==
  ASSUME CP!RequestsTyped, NEW r \in Requests, C!IngestRefuse(r)
  PROVE  Move(r, {"idle"}, "failed") /\ UNCHANGED rows
<1>1. PICK e, o : e = <<>> /\ o = FALSE
  BY Zenon
<1>2. C!Idle = [stage |-> "idle", chunks |-> e, existing |-> {}, batch |-> e, alone |-> o]
  BY <1>1, Zenon DEF C!Idle
<1>3. [C!Idle EXCEPT !.stage = "failed"]
      = [stage |-> "failed", chunks |-> e, existing |-> {}, batch |-> e, alone |-> o]
  BY <1>2
<1>4. C!Begin(r, [stage |-> "failed", chunks |-> e, existing |-> {}, batch |-> e, alone |-> o])
  BY <1>3 DEF C!IngestRefuse
<1> QED  BY <1>4, Begins DEF C!IngestRefuse

\* What is built has at least one chunk.
LEMMA Builds ==
  ASSUME CP!TypeOK, CP!RequestsTyped, NEW r \in Requests, C!IngestBuild(r)
  PROVE  Move(r, {"idle"}, "built") /\ req'[r].chunks # <<>> /\ UNCHANGED rows
<1>1. PICK e, o : e = <<>> /\ o = FALSE
  BY Zenon
<1>2. C!Idle = [stage |-> "idle", chunks |-> e, existing |-> {}, batch |-> e, alone |-> o]
  BY <1>1, Zenon DEF C!Idle
<1>3. PICK list : C!Begin(r, [C!Idle EXCEPT !.stage = "built", !.chunks = list])
  BY Zenon DEF C!IngestBuild
<1>4. [C!Idle EXCEPT !.stage = "built", !.chunks = list]
      = [stage |-> "built", chunks |-> list, existing |-> {}, batch |-> e, alone |-> o]
  <2>1. PICK none : none = [C!Idle EXCEPT !.stage = "built"]
    OBVIOUS
  <2>2. none = [stage |-> "built", chunks |-> e, existing |-> {}, batch |-> e, alone |-> o]
    BY <1>2, <2>1
  <2>3. [C!Idle EXCEPT !.stage = "built", !.chunks = list] = [none EXCEPT !.chunks = list]
    BY <2>1, Zenon
  <2> QED  BY <2>2, <2>3
<1>5. C!Begin(r, [stage |-> "built", chunks |-> list, existing |-> {}, batch |-> e, alone |-> o])
  BY <1>3, <1>4, Zenon
<1>6. Move(r, {"idle"}, "built")
  BY <1>5, Begins
<1>7. CP!IngestBuild(r)
  BY SameBuild
<1>8. req'[r].chunks # <<>>
  BY <1>7, StoreAssumes, CP!BuildsSomething, Zenon
<1> QED  BY <1>6, <1>8 DEF C!IngestBuild

\* The ids stored now are read.
LEMMA Selects ==
  ASSUME CP!RequestsTyped, NEW r \in Requests, C!IngestSelect(r)
  PROVE  /\ Move(r, {"built"}, "selected") /\ UNCHANGED rows
         /\ req'[r].chunks = req[r].chunks /\ req'[r].existing = DOMAIN rows
<1>1. req[r] \in CP!ReqRow /\ DOMAIN req = Requests
  BY DEF CP!RequestsTyped
<1>2. PICK q : q = [req[r] EXCEPT !.stage = "selected", !.existing = DOMAIN rows]
  OBVIOUS
<1>3. q.stage = "selected" /\ q.existing = DOMAIN rows /\ q.chunks = req[r].chunks
  BY <1>1, <1>2 DEF CP!ReqRow
<1>4. req' = [req EXCEPT ![r] = q]
  BY <1>2 DEF C!IngestSelect
<1> QED  BY <1>1, <1>3, <1>4 DEF C!IngestSelect, Move, OthersKept

\* With nothing to embed the request is complete, else it holds all there is.
LEMMA Reads ==
  ASSUME CP!RequestsTyped, NEW r \in Requests, C!EmbedRead(r)
  PROVE  /\ \/ Move(r, {"idle"}, "completed") /\ C!Unembedded = {}
            \/ Move(r, {"idle"}, "encoded") /\ DOMAIN req'[r].batch = C!Unembedded
         /\ UNCHANGED rows
<1>1. PICK e, o : e = <<>> /\ o = FALSE
  BY Zenon
<1>2. C!Idle = [stage |-> "idle", chunks |-> e, existing |-> {}, batch |-> e, alone |-> o]
  BY <1>1, Zenon DEF C!Idle
<1>3. CASE C!Unembedded = {}
  <2>1. [C!Idle EXCEPT !.stage = "completed"]
        = [stage |-> "completed", chunks |-> e, existing |-> {}, batch |-> e, alone |-> o]
    BY <1>2
  <2>2. C!Begin(r, [stage |-> "completed", chunks |-> e, existing |-> {}, batch |-> e, alone |-> o])
    BY <1>3, <2>1 DEF C!EmbedRead
  <2> QED  BY <1>3, <2>2, Begins DEF C!EmbedRead
<1>4. CASE C!Unembedded # {}
  <2>1. PICK b : b = [id \in C!Unembedded |-> rows[id].text]
    OBVIOUS
  <2>2. [C!Idle EXCEPT !.stage = "encoded", !.batch = b]
        = [stage |-> "encoded", chunks |-> e, existing |-> {}, batch |-> b, alone |-> o]
    <3>1. PICK none : none = [C!Idle EXCEPT !.stage = "encoded"]
      OBVIOUS
    <3>2. none = [stage |-> "encoded", chunks |-> e, existing |-> {}, batch |-> e, alone |-> o]
      BY <1>2, <3>1
    <3>3. [C!Idle EXCEPT !.stage = "encoded", !.batch = b] = [none EXCEPT !.batch = b]
      BY <3>1, Zenon
    <3> QED  BY <3>2, <3>3
  <2>3. C!Begin(r, [stage |-> "encoded", chunks |-> e, existing |-> {}, batch |-> b, alone |-> o])
    BY <1>4, <2>1, <2>2 DEF C!EmbedRead
  <2>4. Move(r, {"idle"}, "encoded") /\ req'[r].batch = b
    BY <2>3, Begins
  <2> QED  BY <2>1, <2>4 DEF C!EmbedRead
<1> QED  BY <1>3, <1>4

\* The batch is written; where the metadata names a model there is a vector.
LEMMA Writes ==
  ASSUME CP!RequestsTyped, CP!VectorsTrue', NEW r \in Requests, C!EmbedWrite(r)
  PROVE  /\ Move(r, {"encoded"}, "completed") /\ DOMAIN rows' = DOMAIN rows
         /\ C!Unembedded' \subseteq C!Unembedded \ DOMAIN req[r].batch
<1>1. Move(r, {"encoded"}, "completed")
  BY Ends DEF C!EmbedWrite, C!End, Move
<1>2. /\ DOMAIN rows' = DOMAIN rows /\ DOMAIN req[r].batch \subseteq DOMAIN meta'
      /\ \A id \in DOMAIN rows \ DOMAIN req[r].batch : rows'[id] = rows[id]
  BY DEF C!EmbedWrite
<1>3. \A id \in DOMAIN rows' : id \in DOMAIN meta' => rows'[id].vec # NoVec
  BY DEF CP!VectorsTrue
<1> QED  BY <1>1, <1>2, <1>3 DEF C!Unembedded

\* An ingest that has chunks, and what was stored when it looked, leaves some.
LEMMA Commits ==
  ASSUME CP!RequestsTyped, NEW r \in Requests, C!IngestCommit(r)
  PROVE  /\ Move(r, {"selected"}, "completed")
         /\ req[r].chunks # <<>> /\ req[r].existing \subseteq DOMAIN rows => DOMAIN rows' # {}
<1>1. Move(r, {"selected"}, "completed")
  BY Ends, Zenon DEF C!IngestCommit, C!End, Move
<1>2. ASSUME req[r].chunks # <<>>, req[r].existing \subseteq DOMAIN rows PROVE DOMAIN rows' # {}
  <2>1. req[r].chunks \in Seq(CP!Chunks)
    BY DEF CP!RequestsTyped, CP!ReqRow
  <2>2. 1 \in DOMAIN req[r].chunks
    BY <1>2, <2>1
  <2> DEFINE chunks  == req[r].chunks
             reused  == {c.id : c \in {k \in C!ToSet(chunks) : k.reuse}} \cap req[r].existing
             stale   == req[r].existing \ reused
             others  == DOMAIN rows \ (stale \cup reused)
             inserts == {i \in DOMAIN chunks : chunks[i].id \notin reused}
             written == {i \in DOMAIN chunks : i \in inserts \/ chunks[i].id \in DOMAIN rows}
             left    == others \cup {chunks[i].id : i \in written}
             at(id)  == CHOOSE i \in written : chunks[i].id = id
             newRow(i) ==
               [text |-> chunks[i].text, index |-> i - 1,
                vec |-> IF i \notin inserts /\ chunks[i].keep THEN rows[chunks[i].id].vec
                        ELSE NoVec]
  <2>3. rows' = [id \in left |-> IF id \in others THEN rows[id] ELSE newRow(at(id))]
    BY Zenon DEF C!IngestCommit
  <2> HIDE DEF at, newRow
  <2>6. DOMAIN rows' = left
    BY <2>3
  <2>4. reused \subseteq DOMAIN rows
    BY <1>2
  <2> HIDE DEF reused
  <2>5. 1 \in written
    BY <2>2, <2>4
  <2> QED  BY <2>5, <2>6
<1> QED  BY <1>1, <1>2

\* A request that fails, and one whose answer is taken.
LEMMA FailsOrIsAnswered ==
  ASSUME CP!RequestsTyped, NEW r \in Requests
  PROVE  /\ C!Fail(r) => Move(r, {"built", "selected", "encoded"}, "failed") /\ UNCHANGED rows
         /\ C!Answered(r) => Move(r, {"completed", "failed"}, "idle") /\ UNCHANGED rows
<1>1. PICK e, o : e = <<>> /\ o = FALSE
  BY Zenon
<1>2. C!Idle = [stage |-> "idle", chunks |-> e, existing |-> {}, batch |-> e, alone |-> o]
  BY <1>1, Zenon DEF C!Idle
<1>3. C!Idle = [C!Idle EXCEPT !.stage = "idle"]
  BY <1>2
<1>4. C!Answered(r) => Move(r, {"completed", "failed"}, "idle") /\ UNCHANGED rows
  BY <1>3, Ends DEF C!Answered, Move
<1>5. C!Fail(r) => Move(r, {"built", "selected", "encoded"}, "failed") /\ UNCHANGED rows
  BY Ends DEF C!Fail, C!End, C!Busy, Move
<1> QED  BY <1>4, <1>5

-----------------------------------------------------------------------------
(* What the two processes know of each other, raced or not *)

\* A request that was received and not begun holds nothing.
SentIsIdle == \A r \in Requests : sent[r] # "none" => req[r].stage = "idle"

\* A runner waits for a request of the kind it sent.
WaitsForItsKind ==
  \A j \in Jobs, r \in Requests : serving[j] = r =>
    \/ pc[j] = "ingest" /\ sent[r] # "embed" /\ req[r].stage # "encoded"
    \/ pc[j] = "embed" /\ sent[r] # "ingest" /\ req[r].stage \notin {"built", "selected"}

\* No two runners wait for one request.
OwnRequest == \A i, j \in Jobs : serving[i] = serving[j] /\ serving[i] \in Requests => i = j

\* An ingest that has not failed has something to store.
NothingEmpty ==
  \A r \in Requests : req[r].stage \in {"built", "selected"} => req[r].chunks # <<>>

CallsAgree == SentIsIdle /\ WaitsForItsKind /\ OwnRequest /\ NothingEmpty

\* A job stays where it is, or its runner goes on waiting for nothing.
LEMMA CallsAfterMove ==
  ASSUME CallsAgree, UNCHANGED <<sent, req>>,
         \A i \in Jobs : \/ pc'[i] = pc[i] /\ serving'[i] = serving[i]
                         \/ serving'[i] = NoRequest
  PROVE  CallsAgree'
<1>1. NoRequest \notin Requests
  BY PaperAssumption
<1>2. SentIsIdle' /\ NothingEmpty'
  BY DEF CallsAgree, SentIsIdle, NothingEmpty
<1>3. WaitsForItsKind' /\ OwnRequest'
  BY <1>1 DEF CallsAgree, WaitsForItsKind, OwnRequest
<1> QED  BY <1>2, <1>3 DEF CallsAgree

\* A call is made on a request nobody uses.
LEMMA CallsAfterSend ==
  ASSUME CallsAgree, Wire, NEW j \in Jobs, NEW r \in Requests, NEW kind \in {"ingest", "embed"},
         Send(j, r, kind)
  PROVE  CallsAgree'
<1>1. /\ pc[j] = kind /\ UNCHANGED <<pc, req>> /\ req[r].stage = "idle"
      /\ \A i \in Jobs : serving[i] # r
  BY DEF Send, Free, vars, store
<1>2. /\ \A s \in Requests : sent'[s] = IF s = r THEN kind ELSE sent[s]
      /\ \A i \in Jobs : serving'[i] = IF i = j THEN r ELSE serving[i]
  BY DEF Send, Wire
<1>3. SentIsIdle' /\ NothingEmpty'
  BY <1>1, <1>2 DEF CallsAgree, SentIsIdle, NothingEmpty
<1>4. WaitsForItsKind'
  BY <1>1, <1>2 DEF CallsAgree, WaitsForItsKind
<1>5. OwnRequest'
  BY <1>1, <1>2 DEF CallsAgree, OwnRequest
<1> QED  BY <1>3, <1>4, <1>5 DEF CallsAgree

\* An answer is taken by the one runner that waited for it.
LEMMA CallsAfterAnswer ==
  ASSUME CallsAgree, NEW j \in Jobs, NEW r \in Requests, serving[j] = r,
         Move(r, {"completed", "failed"}, "idle"), UNCHANGED sent, serving'[j] = NoRequest,
         \A i \in Jobs \ {j} : pc'[i] = pc[i] /\ serving'[i] = serving[i]
  PROVE  CallsAgree'
<1>1. NoRequest \notin Requests
  BY PaperAssumption
<1>2. \A i \in Jobs \ {j} : serving'[i] # r
  BY DEF CallsAgree, OwnRequest
<1>3. SentIsIdle' /\ NothingEmpty'
  BY DEF CallsAgree, SentIsIdle, NothingEmpty, Move, OthersKept
<1>4. WaitsForItsKind'
  BY <1>1, <1>2 DEF CallsAgree, WaitsForItsKind, Move, OthersKept
<1>5. OwnRequest'
  BY <1>1 DEF CallsAgree, OwnRequest
<1> QED  BY <1>3, <1>4, <1>5 DEF CallsAgree

\* A request moves on by what it was sent for.
LEMMA CallsAfterWork ==
  ASSUME CallsAgree, NEW r \in Requests, NEW from, NEW to, Move(r, from, to),
         UNCHANGED <<pc, serving>>, sent'[r] = "none",
         \A s \in Requests \ {r} : sent'[s] = sent[s],
         \/ to = "built" /\ sent[r] = "ingest" /\ req'[r].chunks # <<>>
         \/ to = "selected" /\ req[r].stage = "built" /\ req'[r].chunks = req[r].chunks
         \/ to = "encoded" /\ sent[r] = "embed"
         \/ to \in {"completed", "failed", "idle"}
  PROVE  CallsAgree'
<1>1. req'[r].stage = to
  BY DEF Move
<1>2. SentIsIdle' /\ NothingEmpty'
  BY <1>1 DEF CallsAgree, SentIsIdle, NothingEmpty, Move, OthersKept
<1>3. WaitsForItsKind'
  BY <1>1 DEF CallsAgree, WaitsForItsKind, Move, OthersKept
<1>4. OwnRequest'
  BY DEF CallsAgree, OwnRequest
<1> QED  BY <1>2, <1>3, <1>4 DEF CallsAgree

\* A runner that is not inside a call waits for nothing.
LEMMA NotWaiting ==
  ASSUME CallsAgree, Wire, NEW j \in Jobs, pc[j] \notin {"ingest", "embed"}
  PROVE  serving[j] = NoRequest
BY DEF CallsAgree, WaitsForItsKind, Wire

\* The steps of a runner that are no calls.
LocalStep(j) ==
  \/ StartJob(j) \/ MarkExtracting(j) \/ MarkJobEmbedding(j) \/ MarkEmbedding(j)
  \/ CompleteJob(j) \/ MarkReady(j) \/ FailDoc(j) \/ FailJob(j)

\* Where they lead.
LEMMA LocalPlaces ==
  ASSUME TypeOK, NEW j \in Jobs, LocalStep(j)
  PROVE  /\ pc[j] \notin {"ingest", "embed"}
         /\ \A i \in Jobs \ {j} : pc'[i] = pc[i]
         /\ \/ pc[j] = "extracting" /\ pc'[j] = "ingest"
            \/ pc[j] = "embDoc" /\ pc'[j] = "embed"
            \/ pc[j] = "embJob" /\ pc'[j] = "embDoc"
            \/ pc[j] = "complete" /\ pc'[j] = "ready"
            \/ pc'[j] \in {"extracting", "idle", "failJob"}
<1>1. pc \in [Jobs -> Points]
  BY DEF TypeOK
<1>2. \E from, to : /\ Run(j, from, to)
                    /\ \/ from = "start" /\ to = "extracting"
                       \/ from = "extracting" /\ to = "ingest"
                       \/ from = "embJob" /\ to = "embDoc"
                       \/ from = "embDoc" /\ to = "embed"
                       \/ from = "complete" /\ to = "ready"
                       \/ from = "ready" /\ to = "idle"
                       \/ from = "failDoc" /\ to = "failJob"
                       \/ from = "failJob" /\ to = "idle"
  BY Zenon DEF LocalStep, StartJob, MarkExtracting, MarkJobEmbedding, MarkEmbedding, CompleteJob,
               MarkReady, FailDoc, FailJob
<1> QED  BY <1>1, <1>2 DEF Run

\* The requests and the bootstrap start runners of jobs that have none.
LEMMA BackendPlaces ==
  ASSUME IInv, (\E h \in Handlers : HandlerStep(h)) \/ BootStep
  PROVE  \A i \in Jobs : pc'[i] = pc[i] \/ (pc[i] = "idle" /\ pc'[i] = "start")
<1>1. /\ pc \in [Jobs -> Points]
      /\ \A j \in Jobs : jobStatus[j] = "NONE" => pc[j] = "idle"
      /\ \A j \in todo : pc[j] = "idle"
  BY DEF IInv, TypeOK, RowsAgree, BootAgrees
<1>2. ASSUME NEW h \in Handlers, HandlerStep(h)
      PROVE  UNCHANGED pc \/ \E j \in Jobs : pc[j] = "idle" /\ pc' = [pc EXCEPT ![j] = "start"]
  <2>1. Enqueue(h) => \E j \in Jobs : pc[j] = "idle" /\ pc' = [pc EXCEPT ![j] = "start"]
    BY <1>1 DEF Enqueue
  <2>2. (\E d \in Docs : Upload(h, d) \/ ReprocessCheck(h, d)) \/ ReprocessReset(h)
          \/ RequestFails(h) => UNCHANGED pc
    BY DEF Upload, ReprocessCheck, ReprocessReset, RequestFails
  <2> QED  BY <1>2, <2>1, <2>2, Zenon DEF HandlerStep
<1>3. ASSUME BootStep
      PROVE  UNCHANGED pc \/ \E j \in Jobs : pc[j] = "idle" /\ pc' = [pc EXCEPT ![j] = "start"]
  <2>1. ASSUME NEW j \in Jobs, BootResume(j)
        PROVE  pc[j] = "idle" /\ pc' = [pc EXCEPT ![j] = "start"]
    BY <1>1, <2>1 DEF BootResume, BootAt
  <2>2. BootFetch \/ BootDone \/ (\E j \in Jobs : BootClose(j) \/ BootFailJob(j) \/ BootFailDoc(j))
          => UNCHANGED pc
    BY DEF BootFetch, BootDone, BootClose, BootFailJob, BootFailDoc
  <2> QED  BY <1>3, <2>1, <2>2, Zenon DEF BootStep
<1> QED  BY <1>1, <1>2, <1>3

\* The processes agree after every step.
LEMMA CallsStep ==
  ASSUME IInv, Wire, CP!TypeOK, CP!RequestsTyped, CallsAgree, NextAll
  PROVE  CallsAgree'
<1>1. TypeOK /\ pc \in [Jobs -> Points] /\ serving \in [Jobs -> Requests \cup {NoRequest}]
      /\ sent \in [Requests -> {"none", "ingest", "embed"}]
  BY DEF IInv, TypeOK, Wire
<1>2. ASSUME NEW j \in Jobs, NEW r \in Requests, SendIngest(j, r) \/ SendEmbed(j, r)
      PROVE  CallsAgree'
  <2>1. \E kind \in {"ingest", "embed"} : Send(j, r, kind)
    BY <1>2 DEF SendIngest, SendEmbed
  <2> QED  BY <2>1, CallsAfterSend
<1>3. ASSUME NEW j \in Jobs, Receive(j) \/ ReceiveFailure(j) PROVE CallsAgree'
  <2>1. /\ serving[j] \in Requests /\ C!Answered(serving[j]) /\ UNCHANGED sent
        /\ serving' = [serving EXCEPT ![j] = NoRequest]
    BY <1>1, <1>3 DEF Receive, ReceiveFailure, Hangup
  <2>2. \E from, to : Run(j, from, to)
    BY <1>3, Zenon DEF Receive, ReceiveFailure, IngestDone, EmbedDone, Throw
  <2>3. \A i \in Jobs \ {j} : pc'[i] = pc[i]
    BY <1>1, <2>2 DEF Run
  <2>4. Move(serving[j], {"completed", "failed"}, "idle")
    BY <2>1, FailsOrIsAnswered
  <2> QED  BY <1>1, <2>1, <2>3, <2>4, CallsAfterAnswer
<1>4. ASSUME NEW j \in Jobs, GiveUp(j) PROVE CallsAgree'
  <2>1. serving' = [serving EXCEPT ![j] = NoRequest] /\ UNCHANGED <<sent, req>>
    BY <1>4 DEF GiveUp, Hangup, store
  <2>2. \A i \in Jobs \ {j} : pc'[i] = pc[i]
    BY <1>1, <1>4 DEF GiveUp, Throw, Run
  <2> QED  BY <1>1, <2>1, <2>2, CallsAfterMove
<1>5. ASSUME NEW j \in Jobs, RunnerLocal(j) PROVE CallsAgree'
  <2>1. LocalStep(j) /\ UNCHANGED <<sent, req, serving>>
    BY <1>5, Zenon DEF RunnerLocal, LocalStep, store
  <2>2. serving[j] = NoRequest /\ \A i \in Jobs \ {j} : pc'[i] = pc[i]
    BY <1>1, <2>1, LocalPlaces, NotWaiting
  <2> QED  BY <2>1, <2>2, CallsAfterMove
<1>6. ASSUME BackendLocal PROVE CallsAgree'
  <2>1. UNCHANGED <<sent, req, serving>>
    BY <1>6 DEF BackendLocal, store
  <2>2. \A i \in Jobs : pc'[i] = pc[i] \/ pc[i] = "idle"
    BY <1>6, BackendPlaces DEF BackendLocal
  <2>3. \A i \in Jobs : pc[i] = "idle" => serving[i] = NoRequest
    BY NotWaiting
  <2> QED  BY <2>1, <2>2, <2>3, CallsAfterMove
<1>7. ASSUME BackendCrash PROVE CallsAgree'
  <2>1. UNCHANGED <<sent, req>> /\ \A i \in Jobs : serving'[i] = NoRequest
    BY <1>7 DEF BackendCrash, store
  <2> QED  BY <2>1, CallsAfterMove
<1>8. ASSUME RemoveAll PROVE CallsAgree'
  <2>1. UNCHANGED <<sent, req, serving, pc>>
    BY <1>8 DEF RemoveAll, C!RemovePaper, Remove
  <2> QED  BY <2>1, CallsAfterMove
<1>9. ASSUME NEW r \in Requests, Begin(r) PROVE CallsAgree'
  <2>1. UNCHANGED <<pc, serving>> /\ sent'[r] = "none" /\ \A s \in Requests \ {r} : sent'[s] = sent[s]
    BY <1>1, <1>9 DEF Begin, queue, vars
  <2>2. \/ sent[r] = "ingest" /\ C!IngestRefuse(r)
        \/ sent[r] = "ingest" /\ C!IngestBuild(r)
        \/ sent[r] = "embed" /\ C!EmbedRead(r)
    BY <1>9, Zenon DEF Begin
  <2>3. CASE sent[r] = "ingest" /\ C!IngestRefuse(r)
    BY <2>1, <2>3, Refuses, CallsAfterWork
  <2>4. CASE sent[r] = "ingest" /\ C!IngestBuild(r)
    BY <2>1, <2>4, Builds, CallsAfterWork
  <2>5. CASE sent[r] = "embed" /\ C!EmbedRead(r)
    BY <2>1, <2>5, Reads, CallsAfterWork
  <2> QED  BY <2>2, <2>3, <2>4, <2>5
<1>10. ASSUME NEW r \in Requests, AiStep(r) PROVE CallsAgree'
  <2>1. UNCHANGED <<pc, serving, sent>>
    BY <1>10 DEF AiStep, queue, vars
  <2>2. C!IngestSelect(r) \/ C!IngestCommit(r) \/ C!EmbedWrite(r) \/ C!Fail(r) \/ C!Answered(r)
    BY <1>10, Zenon DEF AiStep
  <2>3. req[r].stage # "idle"
    BY <2>2 DEF C!IngestSelect, C!IngestCommit, C!EmbedWrite, C!Fail, C!Answered, C!Busy, C!End
  <2>4. sent'[r] = "none"
    BY <2>1, <2>3 DEF CallsAgree, SentIsIdle
  <2>5. CASE C!IngestSelect(r)
    <3>1. Move(r, {"built"}, "selected") /\ req'[r].chunks = req[r].chunks
      BY <2>5, Selects
    <3> QED  BY <2>1, <2>4, <3>1, CallsAfterWork DEF Move
  <2>6. ASSUME NEW from, NEW to \in {"completed", "failed", "idle"}, Move(r, from, to)
        PROVE  CallsAgree'
    BY <2>1, <2>4, <2>6, CallsAfterWork
  <2>7. CASE C!IngestCommit(r)
    BY <2>6, <2>7, Commits
  <2>8. CASE C!EmbedWrite(r)
    <3>1. Move(r, {"encoded"}, "completed")
      BY <2>8, Ends DEF C!EmbedWrite, C!End, Move
    <3> QED  BY <2>6, <3>1
  <2>9. CASE C!Fail(r) \/ C!Answered(r)
    BY <2>6, <2>9, FailsOrIsAnswered
  <2> QED  BY <2>2, <2>5, <2>7, <2>8, <2>9
<1>11. ASSUME AiRestart PROVE CallsAgree'
  <2>1. UNCHANGED <<pc, serving>> /\ \A r \in Requests : sent'[r] = "none" /\ req'[r] = C!Idle
    BY <1>11 DEF AiRestart, C!Restart, queue, vars
  <2>2. C!Idle.stage = "idle"
    BY Zenon DEF C!Idle
  <2>3. SentIsIdle' /\ NothingEmpty'
    BY <2>1, <2>2 DEF SentIsIdle, NothingEmpty
  <2>4. WaitsForItsKind' /\ OwnRequest'
    BY <2>1, <2>2 DEF CallsAgree, WaitsForItsKind, OwnRequest
  <2> QED  BY <2>3, <2>4 DEF CallsAgree
<1> QED  BY <1>2, <1>3, <1>4, <1>5, <1>6, <1>7, <1>8, <1>9, <1>10, <1>11, Zenon DEF NextAll

-----------------------------------------------------------------------------
(* What holds while the last run of the pipeline has had no company *)

\* A run of the pipeline shows from its first write of the document.
LatePoints == {"ingest", "embJob", "embDoc", "embed", "complete", "ready"}
Late(j) == pc[j] \in LatePoints

\* Runner j has been given an answer, or its request is at stage s.
Waits(j, s) == serving[j] \in Requests /\ req[serving[j]].stage = s

PastIngest(j) == pc[j] \in LatePoints \ {"ingest"} \/ (pc[j] = "ingest" /\ Waits(j, "completed"))
PastEmbed(j)  == pc[j] \in {"complete", "ready"} \/ (pc[j] = "embed" /\ Waits(j, "completed"))

\* One runner is in the pipeline, and the paper is not READY before it has ended.
OneLate     == \A i, j \in Jobs : Late(i) /\ Late(j) => i = j
NotReadyYet == \A j \in Jobs : Late(j) => docStatus[Paper] # "READY"

\* An ingest under way is the only one; whoever is in the pipeline waits for it.
IngestInTime ==
  \A r \in Requests : Ingesting(r) =>
    /\ docStatus[Paper] # "READY"
    /\ \A j \in Jobs : Late(j) => pc[j] = "ingest" /\ serving[j] = r
    /\ \A s \in Requests : Ingesting(s) => s = r

\* What an ingest saw is still there when it commits.
SelectedStands ==
  docStatus[Paper] # "DELETED" =>
    \A r \in Requests : req[r].stage = "selected" => req[r].existing \subseteq DOMAIN rows

\* The pipeline has done what its place says.
Progress ==
  docStatus[Paper] # "DELETED" =>
    \A j \in Jobs :
      /\ PastIngest(j) => DOMAIN rows # {}
      /\ PastEmbed(j) => C!Unembedded = {}
      /\ pc[j] = "embed" /\ Waits(j, "encoded") => C!Unembedded \subseteq DOMAIN req[serving[j]].batch

InTime ==
  /\ OneLate /\ NotReadyYet /\ IngestInTime /\ SelectedStands /\ Progress
  /\ docStatus[Paper] = "READY" => Searchable

\* What a runner without a call does: it goes on after the ingest, or leaves.
Leaves(i) ==
  /\ serving'[i] = NoRequest /\ pc'[i] # "ingest"
  /\ pc'[i] \in LatePoints => pc[i] \in LatePoints \ {"ingest"}
  /\ pc'[i] \in {"complete", "ready"} => pc[i] \in {"complete", "ready"}

\* Steps of runners that leave the requests and the chunks alone.
LEMMA InTimeAfterMove ==
  ASSUME InTime, UNCHANGED <<sent, req, rows>>,
         docStatus'[Paper] = "READY" => docStatus[Paper] = "READY",
         docStatus'[Paper] = "DELETED" <=> docStatus[Paper] = "DELETED",
         \A i \in Jobs : (pc'[i] = pc[i] /\ serving'[i] = serving[i]) \/ Leaves(i)
  PROVE  InTime'
<1>1. NoRequest \notin Requests
  BY PaperAssumption
<1>2. \A i \in Jobs : Late(i)' =>
       /\ Late(i)
       /\ (pc'[i] = pc[i] /\ serving'[i] = serving[i]) \/ pc[i] # "ingest"
  BY DEF Leaves, Late
<1>3. OneLate' /\ NotReadyYet'
  BY <1>2 DEF InTime, OneLate, NotReadyYet
<1>4. \A r \in Requests : Ingesting(r)' <=> Ingesting(r)
  BY DEF Ingesting
<1>5. IngestInTime'
  BY <1>2, <1>4 DEF InTime, IngestInTime
<1>6. SelectedStands'
  BY DEF InTime, SelectedStands
<1>7. C!Unembedded' = C!Unembedded
  BY DEF C!Unembedded
<1>8. ASSUME NEW i \in Jobs
      PROVE  /\ PastIngest(i)' => PastIngest(i)
             /\ PastEmbed(i)' => PastEmbed(i)
             /\ (pc[i] = "embed" /\ Waits(i, "encoded"))' =>
                  pc[i] = "embed" /\ Waits(i, "encoded") /\ serving'[i] = serving[i]
  BY <1>1 DEF Leaves, PastIngest, PastEmbed, Waits, LatePoints
<1>9. Progress'
  BY <1>7, <1>8 DEF InTime, Progress
<1>10. (docStatus[Paper] = "READY" => Searchable)'
  BY DEF InTime, Searchable
<1> QED  BY <1>3, <1>5, <1>6, <1>9, <1>10 DEF InTime

\* The first write of a run that has no company.
LEMMA InTimeAfterStart ==
  ASSUME NEW j \in Jobs, ~Company(j), serving[j] = NoRequest, UNCHANGED <<sent, req, rows, serving>>,
         pc'[j] = "ingest", \A i \in Jobs \ {j} : pc'[i] = pc[i],
         docStatus'[Paper] = "EXTRACTING"
  PROVE  InTime'
<1>1. NoRequest \notin Requests
  BY PaperAssumption
<1>2. \A i \in Jobs \ {j} : pc'[i] = "idle"
  BY DEF Company
<1>3. \A i \in Jobs : Late(i)' => i = j
  BY <1>2 DEF Late, LatePoints
<1>4. \A r \in Requests : ~Ingesting(r)'
  BY DEF Company, Ingesting
<1>5. OneLate' /\ NotReadyYet' /\ IngestInTime'
  BY <1>3, <1>4 DEF OneLate, NotReadyYet, IngestInTime
<1>6. SelectedStands'
  BY <1>4 DEF SelectedStands, Ingesting
<1>7. Progress'
  BY <1>1, <1>2 DEF Progress, PastIngest, PastEmbed, Waits, LatePoints
<1> QED  BY <1>5, <1>6, <1>7 DEF InTime

\* The ingest request of a run that has no company.
LEMMA InTimeAfterSendIngest ==
  ASSUME InTime, Wire, NEW j \in Jobs, NEW r \in Requests, SendIngest(j, r), ~Company(j)
  PROVE  InTime'
<1>1. /\ pc[j] = "ingest" /\ UNCHANGED <<pc, req, rows, docStatus>> /\ req[r].stage = "idle"
      /\ \A i \in Jobs : serving[i] # r
  BY DEF SendIngest, Send, Free, vars, database, store
<1>2. /\ \A s \in Requests : sent'[s] = IF s = r THEN "ingest" ELSE sent[s]
      /\ \A i \in Jobs : serving'[i] = IF i = j THEN r ELSE serving[i]
  BY DEF SendIngest, Send, Wire
<1>3. /\ \A i \in Jobs : Late(i) => i = j
      /\ \A s \in Requests : ~Ingesting(s)
  BY DEF Company, Late, LatePoints
<1>4. docStatus[Paper] # "READY"
  BY <1>1 DEF InTime, NotReadyYet, Late, LatePoints
<1>5. \A i \in Jobs : Late(i)' <=> Late(i)
  BY <1>1 DEF Late
<1>6. \A s \in Requests : Ingesting(s)' => s = r
  BY <1>1, <1>2, <1>3 DEF Ingesting
<1>7. OneLate' /\ NotReadyYet' /\ IngestInTime'
  BY <1>1, <1>2, <1>3, <1>4, <1>5, <1>6 DEF InTime, OneLate, NotReadyYet, IngestInTime
<1>8. SelectedStands'
  BY <1>1 DEF InTime, SelectedStands
<1>9. C!Unembedded' = C!Unembedded
  BY <1>1 DEF C!Unembedded
<1>10. \A i \in Jobs : i # j => ~Late(i)
  BY <1>3
<1>11. Progress'
  BY <1>1, <1>2, <1>9, <1>10 DEF InTime, Progress, PastIngest, PastEmbed, Waits, Late, LatePoints
<1> QED  BY <1>1, <1>4, <1>7, <1>8, <1>11 DEF InTime

\* The embed request of a run.
LEMMA InTimeAfterSendEmbed ==
  ASSUME InTime, Wire, NEW j \in Jobs, NEW r \in Requests, SendEmbed(j, r)
  PROVE  InTime'
<1>1. /\ pc[j] = "embed" /\ UNCHANGED <<pc, req, rows, docStatus>> /\ req[r].stage = "idle"
      /\ sent[r] = "none"
  BY DEF SendEmbed, Send, Free, vars, database, store
<1>2. /\ \A s \in Requests : sent'[s] = IF s = r THEN "embed" ELSE sent[s]
      /\ \A i \in Jobs : serving'[i] = IF i = j THEN r ELSE serving[i]
  BY DEF SendEmbed, Send, Wire
<1>3. Late(j) /\ pc[j] # "ingest"
  BY <1>1 DEF Late, LatePoints
<1>4. \A s \in Requests : ~Ingesting(s)
  BY <1>3 DEF InTime, IngestInTime
<1>5. \A s \in Requests : ~Ingesting(s)'
  BY <1>1, <1>2, <1>4 DEF Ingesting
<1>6. OneLate' /\ NotReadyYet' /\ IngestInTime' /\ SelectedStands'
  BY <1>1, <1>5 DEF InTime, OneLate, NotReadyYet, Late, IngestInTime, SelectedStands
<1>7. C!Unembedded' = C!Unembedded
  BY <1>1 DEF C!Unembedded
<1>8. \A i \in Jobs : Waits(i, "completed")' => i # j /\ Waits(i, "completed")
  BY <1>1, <1>2 DEF Waits
<1>9. \A i \in Jobs : Waits(i, "encoded")' => i # j /\ Waits(i, "encoded")
  BY <1>1, <1>2 DEF Waits
<1>10. Progress'
  BY <1>1, <1>2, <1>7, <1>8, <1>9 DEF InTime, Progress, PastIngest, PastEmbed
<1>11. (docStatus[Paper] = "READY" => Searchable)'
  BY <1>1 DEF InTime, Searchable
<1> QED  BY <1>6, <1>10, <1>11 DEF InTime

\* The answer taken: nobody ingests then, so nothing is rewritten afterwards.
LEMMA InTimeAfterAnswer ==
  ASSUME InTime, CallsAgree, NEW j \in Jobs, NEW r \in Requests, serving[j] = r,
         Move(r, {"completed", "failed"}, "idle"), UNCHANGED <<sent, rows, docStatus>>,
         serving'[j] = NoRequest,
         \A i \in Jobs \ {j} : pc'[i] = pc[i] /\ serving'[i] = serving[i],
         \/ pc[j] = "ingest" /\ req[r].stage = "completed" /\ pc'[j] = "embJob"
         \/ pc[j] = "embed" /\ req[r].stage = "completed" /\ pc'[j] = "complete"
         \/ pc'[j] = "failDoc"
  PROVE  InTime'
<1>1. NoRequest \notin Requests
  BY PaperAssumption
<1>2. \A i \in Jobs \ {j} : serving[i] # r
  BY DEF CallsAgree, OwnRequest
<1>3. ~Ingesting(r) /\ Late(j)
  BY DEF CallsAgree, SentIsIdle, WaitsForItsKind, Ingesting, Move, Late, LatePoints
<1>4. \A s \in Requests : ~Ingesting(s)
  BY <1>3 DEF InTime, IngestInTime
<1>5. \A s \in Requests : ~Ingesting(s)'
  BY <1>4 DEF Ingesting, Move, OthersKept
<1>6. \A i \in Jobs : Late(i)' => Late(i)
  BY <1>3 DEF Late
<1>7. OneLate' /\ NotReadyYet' /\ IngestInTime' /\ SelectedStands'
  BY <1>5, <1>6 DEF InTime, OneLate, NotReadyYet, IngestInTime, SelectedStands, Ingesting
<1>8. C!Unembedded' = C!Unembedded
  BY DEF C!Unembedded
<1>9. \A i \in Jobs : /\ PastIngest(i)' => PastIngest(i)
                      /\ PastEmbed(i)' => PastEmbed(i)
  <2>1. ASSUME NEW i \in Jobs \ {j}, NEW s, Waits(i, s)' PROVE Waits(i, s)
    BY <1>2, <2>1 DEF Waits, Move, OthersKept
  <2>2. ASSUME NEW i \in Jobs \ {j} PROVE (PastIngest(i)' => PastIngest(i)) /\ (PastEmbed(i)' => PastEmbed(i))
    BY <2>1 DEF PastIngest, PastEmbed
  <2>3. (PastIngest(j)' => PastIngest(j)) /\ (PastEmbed(j)' => PastEmbed(j))
    BY DEF PastIngest, PastEmbed, Waits, LatePoints
  <2> QED  BY <2>2, <2>3
<1>10. \A i \in Jobs : (pc[i] = "embed" /\ Waits(i, "encoded"))' =>
         /\ pc[i] = "embed" /\ Waits(i, "encoded") /\ serving'[i] = serving[i]
         /\ req'[serving[i]].batch = req[serving[i]].batch
  BY <1>1, <1>2 DEF Waits, Move, OthersKept
<1>11. Progress'
  BY <1>8, <1>9, <1>10 DEF InTime, Progress
<1>12. (docStatus[Paper] = "READY" => Searchable)'
  BY DEF InTime, Searchable
<1> QED  BY <1>7, <1>11, <1>12 DEF InTime

\* The end of the pipeline: everything is stored and embedded.
LEMMA InTimeAfterReady ==
  ASSUME InTime, NEW j \in Jobs, serving[j] = NoRequest, UNCHANGED <<sent, req, rows, serving>>,
         pc[j] = "ready", pc'[j] = "idle", \A i \in Jobs \ {j} : pc'[i] = pc[i],
         docStatus[Paper] # "DELETED", docStatus'[Paper] = "READY"
  PROVE  InTime'
<1>1. Late(j) /\ pc[j] # "ingest"
  BY DEF Late, LatePoints
<1>2. \A i \in Jobs : ~Late(i)'
  BY <1>1 DEF InTime, OneLate, Late, LatePoints
<1>3. \A r \in Requests : ~Ingesting(r)
  BY <1>1 DEF InTime, IngestInTime
<1>4. \A r \in Requests : ~Ingesting(r)'
  BY <1>3 DEF Ingesting
<1>5. OneLate' /\ NotReadyYet' /\ IngestInTime' /\ SelectedStands'
  BY <1>2, <1>4 DEF OneLate, NotReadyYet, IngestInTime, SelectedStands, Ingesting
<1>6. \A i \in Jobs : pc'[i] \notin LatePoints
  BY <1>2 DEF Late
<1>7. Progress'
  BY <1>6 DEF Progress, PastIngest, PastEmbed, LatePoints
<1>8. PastIngest(j) /\ PastEmbed(j)
  BY DEF PastIngest, PastEmbed, LatePoints
<1>9. DOMAIN rows # {} /\ C!Unembedded = {}
  BY <1>8 DEF InTime, Progress
<1>10. Searchable'
  BY <1>9 DEF Searchable, C!Unembedded
<1> QED  BY <1>5, <1>7, <1>10 DEF InTime

\* With the paper go its chunks, and all that was promised of them.
LEMMA InTimeAfterRemove ==
  ASSUME InTime, UNCHANGED <<pc, sent, serving, req>>, docStatus'[Paper] = "DELETED"
  PROVE  InTime'
<1>1. OneLate' /\ NotReadyYet' /\ SelectedStands' /\ Progress'
  BY DEF InTime, OneLate, NotReadyYet, Late, SelectedStands, Progress
<1>2. IngestInTime'
  BY DEF InTime, IngestInTime, Ingesting, Late
<1> QED  BY <1>1, <1>2 DEF InTime

\* Work on a request that writes no chunk.
LEMMA InTimeAfterWork ==
  ASSUME InTime, CallsAgree, NEW r \in Requests, NEW from, NEW to, Move(r, from, to),
         UNCHANGED <<pc, serving, rows, docStatus>>, sent'[r] = "none",
         \A s \in Requests \ {r} : sent'[s] = sent[s],
         to \in {"built", "selected"} => Ingesting(r),
         to = "selected" => req'[r].existing = DOMAIN rows,
         to = "completed" => sent[r] = "embed" /\ C!Unembedded = {},
         to = "encoded" => sent[r] = "embed" /\ DOMAIN req'[r].batch = C!Unembedded
  PROVE  InTime'
<1>1. req'[r].stage = to
  BY DEF Move
<1>2. \A s \in Requests : Ingesting(s)' => Ingesting(s)
  BY <1>1 DEF Ingesting, Move, OthersKept
<1>3. OneLate' /\ NotReadyYet'
  BY DEF InTime, OneLate, NotReadyYet, Late
<1>4. IngestInTime'
  BY <1>2 DEF InTime, IngestInTime, Late
<1>5. SelectedStands'
  BY <1>1 DEF InTime, SelectedStands, Move, OthersKept
<1>6. C!Unembedded' = C!Unembedded
  BY DEF C!Unembedded
<1>7. ASSUME NEW i \in Jobs, serving[i] # r
      PROVE  /\ PastIngest(i)' => PastIngest(i)
             /\ PastEmbed(i)' => PastEmbed(i)
             /\ (pc[i] = "embed" /\ Waits(i, "encoded"))' =>
                  /\ pc[i] = "embed" /\ Waits(i, "encoded")
                  /\ req'[serving[i]].batch = req[serving[i]].batch
  <2>1. ASSUME NEW s, Waits(i, s)'
        PROVE  Waits(i, s) /\ req'[serving[i]].batch = req[serving[i]].batch
    BY <1>7, <2>1 DEF Waits, Move, OthersKept
  <2> QED  BY <2>1 DEF PastIngest, PastEmbed
<1>8. ASSUME NEW i \in Jobs, serving[i] = r
      PROVE  /\ PastIngest(i)' => PastIngest(i)
             /\ PastEmbed(i)' => PastEmbed(i) \/ C!Unembedded = {}
             /\ (pc[i] = "embed" /\ Waits(i, "encoded"))' => DOMAIN req'[r].batch = C!Unembedded
  <2>1. to = "completed" => pc[i] = "embed"
    BY <1>8 DEF CallsAgree, WaitsForItsKind
  <2> QED  BY <1>1, <1>8, <2>1 DEF PastIngest, PastEmbed, Waits, LatePoints
<1>9. Progress'
  BY <1>6, <1>7, <1>8 DEF InTime, Progress
<1>10. (docStatus[Paper] = "READY" => Searchable)'
  BY DEF InTime, Searchable
<1> QED  BY <1>3, <1>4, <1>5, <1>9, <1>10 DEF InTime

\* The commit of an ingest: the runner that waits for it finds chunks.
LEMMA InTimeAfterCommit ==
  ASSUME InTime, CallsAgree, CP!RequestsTyped, NEW r \in Requests, C!IngestCommit(r),
         UNCHANGED <<pc, serving, sent, docStatus>>
  PROVE  InTime'
<1>1. /\ Move(r, {"selected"}, "completed")
      /\ req[r].chunks # <<>> /\ req[r].existing \subseteq DOMAIN rows => DOMAIN rows' # {}
  BY Commits
<1>2. req[r].stage = "selected" /\ req'[r].stage = "completed" /\ sent[r] = "none"
  BY <1>1 DEF Move, CallsAgree, SentIsIdle
<1>3. Ingesting(r)
  BY <1>2 DEF Ingesting
<1>4. /\ docStatus[Paper] # "READY"
      /\ \A j \in Jobs : Late(j) => pc[j] = "ingest" /\ serving[j] = r
      /\ \A s \in Requests : Ingesting(s) => s = r
  BY <1>3 DEF InTime, IngestInTime
<1>5. \A s \in Requests : ~Ingesting(s)'
  BY <1>1, <1>2, <1>4 DEF Ingesting, Move, OthersKept
<1>6. OneLate' /\ NotReadyYet' /\ IngestInTime' /\ SelectedStands'
  BY <1>5 DEF InTime, OneLate, NotReadyYet, Late, IngestInTime, SelectedStands, Ingesting
<1>7. docStatus[Paper] # "DELETED" => DOMAIN rows' # {}
  BY <1>1, <1>2 DEF InTime, SelectedStands, CallsAgree, NothingEmpty
<1>8. \A j \in Jobs : Late(j)' => pc'[j] = "ingest"
  BY <1>4 DEF Late
<1>9. Progress'
  BY <1>7, <1>8 DEF Progress, PastIngest, PastEmbed, Late, LatePoints
<1> QED  BY <1>4, <1>6, <1>9 DEF InTime

\* The write of an embed: the runner that waits for it finds all chunks embedded.
LEMMA InTimeAfterWrite ==
  ASSUME InTime, CallsAgree, CP!RequestsTyped, CP!VectorsTrue', NEW r \in Requests,
         C!EmbedWrite(r), UNCHANGED <<pc, serving, sent, docStatus>>
  PROVE  InTime'
<1>1. /\ Move(r, {"encoded"}, "completed") /\ DOMAIN rows' = DOMAIN rows
      /\ C!Unembedded' \subseteq C!Unembedded \ DOMAIN req[r].batch
  BY Writes
<1>2. req[r].stage = "encoded" /\ req'[r].stage = "completed"
  BY <1>1 DEF Move
<1>3. \A s \in Requests : Ingesting(s)' => Ingesting(s)
  BY <1>1, <1>2 DEF Ingesting, Move, OthersKept
<1>4. OneLate' /\ NotReadyYet'
  BY DEF InTime, OneLate, NotReadyYet, Late
<1>5. IngestInTime'
  BY <1>3 DEF InTime, IngestInTime, Late
<1>6. SelectedStands'
  BY <1>1, <1>2 DEF InTime, SelectedStands, Move, OthersKept
<1>7. ASSUME NEW i \in Jobs, serving[i] # r
      PROVE  /\ PastIngest(i)' => PastIngest(i)
             /\ PastEmbed(i)' => PastEmbed(i)
             /\ (pc[i] = "embed" /\ Waits(i, "encoded"))' =>
                  /\ pc[i] = "embed" /\ Waits(i, "encoded")
                  /\ req'[serving[i]].batch = req[serving[i]].batch
  <2>1. ASSUME NEW s, Waits(i, s)'
        PROVE  Waits(i, s) /\ req'[serving[i]].batch = req[serving[i]].batch
    BY <1>1, <1>7, <2>1 DEF Waits, Move, OthersKept
  <2> QED  BY <2>1 DEF PastIngest, PastEmbed
<1>8. ASSUME NEW i \in Jobs, serving[i] = r
      PROVE  pc[i] = "embed" /\ Waits(i, "encoded") /\ ~Waits(i, "encoded")'
  BY <1>2, <1>8 DEF CallsAgree, WaitsForItsKind, Waits
<1>9. Progress'
  <2> SUFFICES ASSUME docStatus[Paper] # "DELETED", NEW i \in Jobs
               PROVE  /\ PastIngest(i)' => DOMAIN rows' # {}
                      /\ PastEmbed(i)' => C!Unembedded' = {}
                      /\ (pc[i] = "embed" /\ Waits(i, "encoded"))' =>
                           C!Unembedded' \subseteq DOMAIN req'[serving[i]].batch
    BY DEF Progress
  <2>1. /\ PastIngest(i) => DOMAIN rows # {}
        /\ PastEmbed(i) => C!Unembedded = {}
        /\ pc[i] = "embed" /\ Waits(i, "encoded") => C!Unembedded \subseteq DOMAIN req[serving[i]].batch
    BY DEF InTime, Progress
  <2>2. CASE serving[i] # r
    BY <1>1, <1>7, <2>1, <2>2
  <2>3. CASE serving[i] = r
    <3>1. C!Unembedded' = {}
      BY <1>1, <1>8, <2>1, <2>3
    <3>2. PastIngest(i)
      BY <1>8, <2>3 DEF PastIngest, LatePoints
    <3> QED  BY <1>1, <1>8, <2>1, <2>3, <3>1, <3>2
  <2> QED  BY <2>2, <2>3
<1>10. Searchable => Searchable'
  BY <1>1 DEF Searchable, C!Unembedded
<1> QED  BY <1>4, <1>5, <1>6, <1>9, <1>10 DEF InTime

\* The AI service restarts: all its requests are forgotten.
LEMMA InTimeAfterRestart ==
  ASSUME InTime, UNCHANGED <<pc, serving, rows, docStatus>>,
         \A r \in Requests : sent'[r] = "none" /\ req'[r].stage = "idle"
  PROVE  InTime'
<1>1. \A r \in Requests : ~Ingesting(r)'
  BY DEF Ingesting
<1>2. OneLate' /\ NotReadyYet' /\ IngestInTime' /\ SelectedStands'
  BY <1>1 DEF InTime, OneLate, NotReadyYet, Late, IngestInTime, SelectedStands, Ingesting
<1>3. C!Unembedded' = C!Unembedded
  BY DEF C!Unembedded
<1>4. \A i \in Jobs : ~Waits(i, "completed")' /\ ~Waits(i, "encoded")'
  BY DEF Waits
<1>5. Progress'
  BY <1>3, <1>4 DEF InTime, Progress, PastIngest, PastEmbed
<1>6. (docStatus[Paper] = "READY" => Searchable)'
  BY DEF InTime, Searchable
<1> QED  BY <1>2, <1>5, <1>6 DEF InTime

\* Only the last write of a runner makes a paper READY.
LEMMA NotMadeReady ==
  ASSUME TypeOK, \/ \E h \in Handlers : HandlerStep(h)
                 \/ \E j \in Jobs : RunnerStep(j) /\ ~MarkReady(j)
                 \/ BootStep \/ Crash
  PROVE  docStatus'[Paper] = "READY" => docStatus[Paper] = "READY"
<1>1. Paper \in Docs /\ docStatus \in [Docs -> DocStates]
  BY PaperAssumption DEF TypeOK
<1>2. ASSUME NEW d, NEW s \in DocStates \ {"READY"}, docStatus' = [docStatus EXCEPT ![d] = s]
      PROVE  docStatus'[Paper] = "READY" => docStatus[Paper] = "READY"
  BY <1>1, <1>2
<1>3. {"PENDING", "EXTRACTING", "EMBEDDING", "FAILED"} \subseteq DocStates \ {"READY"}
  BY DEF DocStates
<1>4. \/ UNCHANGED docStatus
      \/ \E d, s : s \in {"PENDING", "EXTRACTING", "EMBEDDING", "FAILED"}
                   /\ docStatus' = [docStatus EXCEPT ![d] = s]
  <2>1. ASSUME NEW h \in Handlers, HandlerStep(h)
        PROVE  UNCHANGED docStatus \/ \E d : docStatus' = [docStatus EXCEPT ![d] = "PENDING"]
    <3>1. (\E d \in Docs : Upload(h, d)) \/ ReprocessReset(h)
            => \E d : docStatus' = [docStatus EXCEPT ![d] = "PENDING"]
      BY Zenon DEF Upload, ReprocessReset, SetDoc
    <3>2. (\E d \in Docs : ReprocessCheck(h, d)) \/ Enqueue(h) \/ RequestFails(h)
            => UNCHANGED docStatus
      BY DEF ReprocessCheck, Enqueue, RequestFails, database
    <3> QED  BY <2>1, <3>1, <3>2, Zenon DEF HandlerStep
  <2>2. ASSUME NEW j \in Jobs, RunnerStep(j), ~MarkReady(j)
        PROVE  \/ UNCHANGED docStatus
               \/ \E d, s : s \in {"EXTRACTING", "EMBEDDING", "FAILED"}
                            /\ docStatus' = [docStatus EXCEPT ![d] = s]
    <3>1. MarkExtracting(j) => \E d : docStatus' = [docStatus EXCEPT ![d] = "EXTRACTING"]
      BY Zenon DEF MarkExtracting, SetDoc
    <3>2. MarkEmbedding(j) => \E d : docStatus' = [docStatus EXCEPT ![d] = "EMBEDDING"]
      BY Zenon DEF MarkEmbedding, SetDoc
    <3>3. FailDoc(j) => UNCHANGED docStatus \/ \E d : docStatus' = [docStatus EXCEPT ![d] = "FAILED"]
      BY Zenon DEF FailDoc, SetDoc
    <3>4. StartJob(j) \/ IngestDone(j) \/ MarkJobEmbedding(j) \/ EmbedDone(j) \/ CompleteJob(j)
            \/ Throw(j) \/ FailJob(j) => UNCHANGED docStatus
      BY DEF StartJob, IngestDone, MarkJobEmbedding, EmbedDone, CompleteJob, Throw, FailJob, database
    <3>5. \/ UNCHANGED docStatus
          \/ \E d : docStatus' = [docStatus EXCEPT ![d] = "EXTRACTING"]
          \/ \E d : docStatus' = [docStatus EXCEPT ![d] = "EMBEDDING"]
          \/ \E d : docStatus' = [docStatus EXCEPT ![d] = "FAILED"]
      BY <2>2, <3>1, <3>2, <3>3, <3>4, Zenon DEF RunnerStep
    <3> QED  BY <3>5
  <2>3. BootStep => UNCHANGED docStatus \/ \E d : docStatus' = [docStatus EXCEPT ![d] = "FAILED"]
    <3>1. \A j \in Jobs : BootFailDoc(j) =>
            UNCHANGED docStatus \/ \E d : docStatus' = [docStatus EXCEPT ![d] = "FAILED"]
      BY Zenon DEF BootFailDoc, SetDoc
    <3>2. \A j \in Jobs : BootClose(j) \/ BootFailJob(j) \/ BootResume(j) => UNCHANGED docStatus
      BY DEF BootClose, BootFailJob, BootResume, database
    <3>3. BootFetch \/ BootDone => UNCHANGED docStatus
      BY DEF BootFetch, BootDone, database
    <3> QED  BY <3>1, <3>2, <3>3, Zenon DEF BootStep
  <2>4. Crash => UNCHANGED docStatus
    BY DEF Crash, database
  <2> QED  BY <2>1, <2>2, <2>3, <2>4
<1> QED  BY <1>2, <1>3, <1>4

\* A runner at work works on the paper.
LEMMA WorksOnPaper ==
  ASSUME IInv, NEW j \in Jobs, pc[j] # "idle"
  PROVE  jobDoc[j] = Paper
BY PaperAssumption DEF IInv, RowsAgree

\* Steps of a runner outside its calls.
LEMMA InTimeLocal ==
  ASSUME IInv, Wire, CallsAgree, ~raced => InTime, NEW j \in Jobs, RunnerLocal(j), ~raced'
  PROVE  InTime'
<1>1. /\ TypeOK /\ Paper \in Docs /\ docStatus \in [Docs -> DocStates]
  BY PaperAssumption DEF IInv, TypeOK
<1>2. LocalStep(j) /\ UNCHANGED <<sent, req, serving, rows>>
  BY Zenon DEF RunnerLocal, LocalStep, store
<1>3. serving[j] = NoRequest /\ \A i \in Jobs \ {j} : pc'[i] = pc[i]
  BY <1>1, <1>2, LocalPlaces, NotWaiting
<1>4. CASE MarkExtracting(j)
  <2>1. pc[j] = "extracting" /\ SetDoc(jobDoc[j], "EXTRACTING") /\ pc'[j] = "ingest"
    BY <1>1, <1>4 DEF MarkExtracting, Run, TypeOK
  <2>2. docStatus'[Paper] = "EXTRACTING"
    BY <1>1, <2>1, WorksOnPaper DEF SetDoc
  <2>3. ~Company(j)
    <3>1. ~(StartJob(j) \/ MarkJobEmbedding(j) \/ MarkEmbedding(j) \/ CompleteJob(j) \/ MarkReady(j)
              \/ FailDoc(j) \/ FailJob(j))
      BY <2>1 DEF StartJob, MarkJobEmbedding, MarkEmbedding, CompleteJob, MarkReady, FailDoc,
                  FailJob, Run
    <3>2. raced' = Company(j)
      BY <3>1, Zenon DEF RunnerLocal
    <3> QED  BY <3>2, Zenon
  <2> QED  BY <1>2, <1>3, <2>1, <2>2, <2>3, InTimeAfterStart
<1>5. CASE ~MarkExtracting(j)
  <2>1. InTime
    <3>1. UNCHANGED raced
      BY <1>5, Zenon DEF RunnerLocal
    <3> QED  BY <3>1
  <2>2. CASE MarkReady(j)
    <3>1. /\ pc[j] = "ready" /\ SetDoc(jobDoc[j], "READY") /\ pc'[j] = "idle"
      BY <1>1, <2>2 DEF MarkReady, Run, TypeOK
    <3>2. docStatus'[Paper] = "READY" /\ docStatus[Paper] # "DELETED"
      BY <1>1, <3>1, WorksOnPaper DEF SetDoc, DocExists
    <3> QED  BY <1>2, <1>3, <2>1, <3>1, <3>2, InTimeAfterReady
  <2>3. CASE ~MarkReady(j)
    <3>1. pc[j] # "extracting"
      BY <1>2, <1>5 DEF LocalStep, StartJob, MarkJobEmbedding, MarkEmbedding, CompleteJob,
                        MarkReady, FailDoc, FailJob, Run
    <3>2. Leaves(j)
      BY <1>1, <1>2, <1>3, <3>1, LocalPlaces DEF Leaves, LatePoints
    <3>3. RunnerStep(j)
      BY <1>2, Zenon DEF LocalStep, RunnerStep
    <3>4. docStatus'[Paper] = "READY" => docStatus[Paper] = "READY"
      BY <1>1, <2>3, <3>3, NotMadeReady
    <3>5. docStatus'[Paper] = "DELETED" <=> docStatus[Paper] = "DELETED"
      BY <1>1, <3>3, PaperStays
    <3> QED  BY <1>2, <1>3, <2>1, <3>2, <3>4, <3>5, InTimeAfterMove
  <2> QED  BY <2>2, <2>3
<1> QED  BY <1>4, <1>5

\* Steps of a runner around its calls.
LEMMA InTimeCalls ==
  ASSUME IInv, Wire, CP!RequestsTyped, CallsAgree, ~raced => InTime, NEW j \in Jobs, ~raced',
         \/ \E r \in Requests : SendIngest(j, r) \/ SendEmbed(j, r)
         \/ Receive(j) \/ ReceiveFailure(j) \/ GiveUp(j)
  PROVE  InTime'
<1>1. TypeOK /\ pc \in [Jobs -> Points] /\ serving \in [Jobs -> Requests \cup {NoRequest}]
  BY DEF IInv, TypeOK, Wire
<1>2. ASSUME NEW r \in Requests, SendIngest(j, r) PROVE InTime'
  <2>1. ~raced /\ ~Company(j)
    BY <1>2, Zenon DEF SendIngest
  <2> QED  BY <1>2, <2>1, InTimeAfterSendIngest
<1>3. ASSUME NEW r \in Requests, SendEmbed(j, r) PROVE InTime'
  <2>1. UNCHANGED raced
    BY <1>3, Zenon DEF SendEmbed
  <2> QED  BY <1>3, <2>1, InTimeAfterSendEmbed
<1>4. ASSUME Receive(j) \/ ReceiveFailure(j) PROVE InTime'
  <2>1. /\ serving[j] \in Requests /\ C!Answered(serving[j]) /\ UNCHANGED <<sent, raced>>
        /\ serving' = [serving EXCEPT ![j] = NoRequest]
    BY <1>1, <1>4 DEF Receive, ReceiveFailure, Hangup
  <2>2. \/ req[serving[j]].stage = "completed" /\ (Run(j, "ingest", "embJob") \/ Run(j, "embed", "complete"))
        \/ Run(j, pc[j], "failDoc")
    BY <1>4, Zenon DEF Receive, ReceiveFailure, IngestDone, EmbedDone, Throw
  <2>3. UNCHANGED docStatus
    BY <1>4 DEF Receive, ReceiveFailure, IngestDone, EmbedDone, Throw, database
  <2>4. \A i \in Jobs \ {j} : pc'[i] = pc[i] /\ serving'[i] = serving[i]
    BY <1>1, <2>1, <2>2 DEF Run
  <2>5. \/ pc[j] = "ingest" /\ req[serving[j]].stage = "completed" /\ pc'[j] = "embJob"
        \/ pc[j] = "embed" /\ req[serving[j]].stage = "completed" /\ pc'[j] = "complete"
        \/ pc'[j] = "failDoc"
    BY <1>1, <2>2 DEF Run
  <2>6. Move(serving[j], {"completed", "failed"}, "idle") /\ UNCHANGED rows
    BY <2>1, FailsOrIsAnswered
  <2>7. serving'[j] = NoRequest /\ InTime
    BY <1>1, <2>1
  <2> QED  BY <2>1, <2>3, <2>4, <2>5, <2>6, <2>7, InTimeAfterAnswer
<1>5. ASSUME GiveUp(j) PROVE InTime'
  <2>1. /\ UNCHANGED <<sent, req, rows, raced>> /\ Throw(j)
        /\ serving' = [serving EXCEPT ![j] = NoRequest]
    BY <1>5 DEF GiveUp, Hangup, store
  <2>2. UNCHANGED docStatus /\ pc' = [pc EXCEPT ![j] = "failDoc"]
    BY <2>1 DEF Throw, Run, database
  <2>3. Leaves(j)
    BY <1>1, <2>1, <2>2 DEF Leaves, LatePoints
  <2>4. \A i \in Jobs \ {j} : pc'[i] = pc[i] /\ serving'[i] = serving[i]
    BY <1>1, <2>1, <2>2
  <2> QED  BY <2>1, <2>2, <2>3, <2>4, InTimeAfterMove
<1> QED  BY <1>2, <1>3, <1>4, <1>5

\* Steps of the AI service.
LEMMA InTimeService ==
  ASSUME Wire, CP!TypeOK, CP!RequestsTyped, CP!VectorsTrue', CallsAgree, ~raced => InTime, ~raced',
         (\E r \in Requests : Begin(r) \/ AiStep(r)) \/ AiRestart
  PROVE  InTime'
<1>1. sent \in [Requests -> {"none", "ingest", "embed"}]
  BY DEF Wire
<1>2. ASSUME NEW r \in Requests, Begin(r) PROVE InTime'
  <2>1. /\ UNCHANGED <<pc, serving, docStatus, raced>> /\ sent'[r] = "none"
        /\ \A s \in Requests \ {r} : sent'[s] = sent[s]
    BY <1>1, <1>2 DEF Begin, queue, vars, database
  <2>2. InTime
    BY <2>1
  <2>3. CASE sent[r] = "ingest" /\ C!IngestRefuse(r)
    BY <2>1, <2>2, <2>3, Refuses, InTimeAfterWork
  <2>4. CASE sent[r] = "ingest" /\ C!IngestBuild(r)
    BY <2>1, <2>2, <2>4, Builds, InTimeAfterWork DEF Ingesting
  <2>5. CASE sent[r] = "embed" /\ C!EmbedRead(r)
    BY <2>1, <2>2, <2>5, Reads, InTimeAfterWork
  <2> QED  BY <1>2, <2>3, <2>4, <2>5, Zenon DEF Begin
<1>3. ASSUME NEW r \in Requests, AiStep(r) PROVE InTime'
  <2>1. UNCHANGED <<pc, serving, docStatus, sent, raced>>
    BY <1>3 DEF AiStep, queue, vars, database
  <2>2. C!IngestSelect(r) \/ C!IngestCommit(r) \/ C!EmbedWrite(r) \/ C!Fail(r) \/ C!Answered(r)
    BY <1>3, Zenon DEF AiStep
  <2>3. req[r].stage # "idle"
    BY <2>2 DEF C!IngestSelect, C!IngestCommit, C!EmbedWrite, C!Fail, C!Answered, C!Busy, C!End
  <2>4. sent'[r] = "none" /\ InTime
    BY <2>1, <2>3 DEF CallsAgree, SentIsIdle
  <2>5. CASE C!IngestSelect(r)
    <3>1. /\ Move(r, {"built"}, "selected") /\ UNCHANGED rows /\ req'[r].existing = DOMAIN rows
      BY <2>5, Selects
    <3>2. Ingesting(r)
      BY <3>1 DEF Move, Ingesting
    <3> QED  BY <2>1, <2>4, <3>1, <3>2, InTimeAfterWork
  <2>6. CASE C!IngestCommit(r)
    BY <2>1, <2>4, <2>6, InTimeAfterCommit
  <2>7. CASE C!EmbedWrite(r)
    BY <2>1, <2>4, <2>7, InTimeAfterWrite
  <2>8. CASE C!Fail(r)
    BY <2>1, <2>4, <2>8, FailsOrIsAnswered, InTimeAfterWork
  <2>9. CASE C!Answered(r)
    BY <2>1, <2>4, <2>9, FailsOrIsAnswered, InTimeAfterWork
  <2> QED  BY <2>2, <2>5, <2>6, <2>7, <2>8, <2>9
<1>4. ASSUME AiRestart PROVE InTime'
  <2>1. /\ UNCHANGED <<pc, serving, docStatus, rows, raced>>
        /\ \A r \in Requests : sent'[r] = "none" /\ req'[r] = C!Idle
    BY <1>4 DEF AiRestart, C!Restart, queue, vars, database
  <2>2. C!Idle.stage = "idle"
    BY Zenon DEF C!Idle
  <2> QED  BY <2>1, <2>2, InTimeAfterRestart
<1> QED  BY <1>2, <1>3, <1>4

\* The rest: what the backend does outside its runners.
LEMMA InTimeBackend ==
  ASSUME IInv, Wire, CallsAgree, ~raced => InTime, ~raced', BackendLocal \/ BackendCrash \/ RemoveAll
  PROVE  InTime'
<1>1. TypeOK /\ Paper \in Docs /\ docStatus \in [Docs -> DocStates]
  BY PaperAssumption DEF IInv, TypeOK
<1>2. InTime
  <2>1. UNCHANGED raced
    BY Zenon DEF BackendLocal, BackendCrash, RemoveAll
  <2> QED  BY <2>1
<1>3. CASE BackendLocal
  <2>1. UNCHANGED <<sent, req, rows, serving>> /\ ((\E h \in Handlers : HandlerStep(h)) \/ BootStep)
    BY <1>3, Zenon DEF BackendLocal, store
  <2>2. \A i \in Jobs : pc'[i] = pc[i] \/ (pc[i] = "idle" /\ pc'[i] = "start")
    BY <2>1, BackendPlaces
  <2>3. \A i \in Jobs : pc[i] = "idle" => serving[i] = NoRequest
    BY NotWaiting
  <2>4. \A i \in Jobs : (pc'[i] = pc[i] /\ serving'[i] = serving[i]) \/ Leaves(i)
    BY <2>1, <2>2, <2>3 DEF Leaves, LatePoints
  <2> QED  BY <1>1, <1>2, <2>1, <2>4, NotMadeReady, PaperStays, InTimeAfterMove
<1>4. CASE BackendCrash
  <2>1. /\ UNCHANGED <<sent, req, rows, docStatus>>
        /\ \A i \in Jobs : serving'[i] = NoRequest /\ pc'[i] = "idle"
    BY <1>4 DEF BackendCrash, Crash, store, database
  <2>2. \A i \in Jobs : Leaves(i)
    BY <2>1 DEF Leaves, LatePoints
  <2> QED  BY <1>2, <2>1, <2>2, InTimeAfterMove
<1>5. CASE RemoveAll
  <2>1. UNCHANGED <<pc, sent, serving, req>> /\ docStatus' = [docStatus EXCEPT ![Paper] = "DELETED"]
    BY <1>5 DEF RemoveAll, Remove, SetDoc, C!RemovePaper
  <2> QED  BY <1>1, <1>2, <2>1, InTimeAfterRemove
<1> QED  BY <1>3, <1>4, <1>5

-----------------------------------------------------------------------------
(* A paper that is READY can be searched *)

\* The inductive invariant behind ReadyComplete.
PipelineInv == CallsAgree /\ (~raced => InTime)

\* It holds of every state of the composition.
THEOREM PipelineInvHolds == SpecAll => []PipelineInv
<1>1. InitAll => PipelineInv
  <2> SUFFICES ASSUME InitAll PROVE PipelineInv
    OBVIOUS
  <2>1. /\ \A j \in Jobs : pc[j] = "idle" /\ serving[j] = NoRequest
        /\ \A r \in Requests : sent[r] = "none" /\ req[r] = C!Idle
        /\ docStatus[Paper] = "ABSENT"
    BY PaperAssumption DEF InitAll, Init, C!Init
  <2>2. C!Idle.stage = "idle" /\ NoRequest \notin Requests
    BY PaperAssumption, Zenon DEF C!Idle
  <2>3. CallsAgree
    BY <2>1, <2>2 DEF CallsAgree, SentIsIdle, WaitsForItsKind, OwnRequest, NothingEmpty
  <2>4. \A r \in Requests : ~Ingesting(r)
    BY <2>1, <2>2 DEF Ingesting
  <2>5. OneLate /\ NotReadyYet /\ IngestInTime /\ SelectedStands
    BY <2>1, <2>2, <2>4 DEF OneLate, NotReadyYet, Late, LatePoints, IngestInTime, SelectedStands
  <2>6. Progress
    BY <2>1 DEF Progress, PastIngest, PastEmbed, LatePoints
  <2> QED  BY <2>1, <2>3, <2>5, <2>6 DEF PipelineInv, InTime
<1>2. ASSUME PipelineInv, IInv, Wire, CP!StoreInv, CP!StoreInv', [NextAll]_allVars
      PROVE  PipelineInv'
  <2>1. CP!TypeOK /\ CP!RequestsTyped /\ CP!VectorsTrue'
    BY <1>2 DEF CP!StoreInv
  <2>2. CASE UNCHANGED allVars
    <3>1. UNCHANGED <<pc, docStatus, sent, serving, raced, req, rows>>
      BY <2>2 DEF allVars, vars, database, store
    <3>2. CallsAgree'
      BY <1>2, <3>1, CallsAfterMove DEF PipelineInv
    <3>3. InTime => InTime'
      BY <3>1, InTimeAfterMove
    <3> QED  BY <1>2, <3>1, <3>2, <3>3 DEF PipelineInv
  <2>3. CASE NextAll
    <3>1. CallsAgree'
      BY <1>2, <2>1, <2>3, CallsStep DEF PipelineInv
    <3>2. ASSUME ~raced' PROVE InTime'
      <4>1. CallsAgree /\ (~raced => InTime)
        BY <1>2 DEF PipelineInv
      <4>2. ASSUME NEW j \in Jobs,
                   \/ \E r \in Requests : SendIngest(j, r) \/ SendEmbed(j, r)
                   \/ Receive(j) \/ ReceiveFailure(j) \/ GiveUp(j)
            PROVE  InTime'
        BY <1>2, <2>1, <3>2, <4>1, <4>2, InTimeCalls
      <4>3. ASSUME NEW j \in Jobs, RunnerLocal(j) PROVE InTime'
        BY <1>2, <3>2, <4>1, <4>3, InTimeLocal
      <4>4. ASSUME BackendLocal \/ BackendCrash \/ RemoveAll PROVE InTime'
        BY <1>2, <3>2, <4>1, <4>4, InTimeBackend
      <4>5. ASSUME (\E r \in Requests : Begin(r) \/ AiStep(r)) \/ AiRestart PROVE InTime'
        BY <1>2, <2>1, <3>2, <4>1, <4>5, InTimeService
      <4> QED  BY <2>3, <4>2, <4>3, <4>4, <4>5, Zenon DEF NextAll
    <3> QED  BY <3>1, <3>2 DEF PipelineInv
  <2> QED  BY <1>2, <2>2, <2>3
<1>3. SpecAll => []IInv /\ []CP!StoreInv
  BY ComponentsAreKept, IInvHolds, StoreInvKept, PTL DEF ComponentsKept
<1> QED  BY <1>1, <1>2, <1>3, WireHolds, PTL DEF SpecAll

\* A paper whose last run of the pipeline had no company is READY only when it has
\* chunks and all of them are embedded: for any number of jobs, requests, crashes of
\* either process, calls given up and requests left behind.
THEOREM ReadyIsComplete == SpecAll => []ReadyComplete
<1>1. PipelineInv => ReadyComplete
  BY DEF PipelineInv, InTime, ReadyComplete
<1> QED  BY <1>1, PipelineInvHolds, PTL
=============================================================================
