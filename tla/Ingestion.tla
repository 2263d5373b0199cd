----------------------------- MODULE Ingestion -----------------------------
(***************************************************************************)
(* The whole ingestion of one paper: the backend's runners (Processing)    *)
(* call the AI service, whose requests write the paper's chunks            *)
(* (ChunkStore).  The two are separate processes.  When the backend dies   *)
(* or gives up waiting (900 s), the AI service goes on with the request;   *)
(* when the AI service dies, the runner gets an error.                     *)
(***************************************************************************)
EXTENDS Processing, Sequences

CONSTANTS
  Paper,      \* the paper looked at: Docs = {Paper}
  NoRequest,
  Ids, Bodies, Cards, NoCard, Models, Requests, NoId, NoVec,
  MaxStarts, MaxCitations,
  MaxReruns   \* bound: jobs and crashes together, each a run of the pipeline

ASSUME PaperAssumption == Docs = {Paper} /\ NoRequest \notin Requests

VARIABLES
  rows, meta, citations, body, model, req, starts,  \* see ChunkStore
  sent,     \* what request was received and is not yet begun: a kind or "none"
  serving,  \* the request each job's runner is waiting for
  raced     \* history: the last run of the pipeline had company

C == INSTANCE ChunkStore WITH present <- docStatus[Paper] # "DELETED"

\* What ChunkStore assumes of its constants.
ASSUME StoreAssumption ==
  /\ IsFiniteSet(Ids) /\ MaxCitations \in Nat /\ MaxStarts \in Nat
  /\ \A b \in Bodies : b \in C!Seq(C!ToSet(b))
  /\ NoCard \notin Cards /\ NoId \notin Ids
  /\ NoVec \notin Models /\ NoVec \notin C!Vectors

queue == <<vars, serving>>
store == <<rows, meta, citations, body, model, req, starts>>
allVars == <<vars, store, sent, serving, raced>>

TypeOKAll ==
  /\ TypeOK
  /\ C!TypeOK
  /\ sent \in [Requests -> {"none", "ingest", "embed"}]
  /\ serving \in [Jobs -> Requests \cup {NoRequest}]
  /\ raced \in BOOLEAN

InitAll ==
  /\ Init
  /\ C!Init
  /\ sent = [r \in Requests |-> "none"]
  /\ serving = [j \in Jobs |-> NoRequest]
  /\ raced = FALSE

-----------------------------------------------------------------------------
(* The backend's side of a call *)

Free(r) ==
  /\ sent[r] = "none" /\ req[r].stage = "idle"
  /\ \A j \in Jobs : serving[j] # r

Send(j, r, kind) ==
  /\ pc[j] = kind /\ serving[j] = NoRequest
  /\ Free(r)
  /\ sent' = [sent EXCEPT ![r] = kind]
  /\ serving' = [serving EXCEPT ![j] = r]
  /\ UNCHANGED <<vars, store>>

Ingesting(r) == sent[r] = "ingest" \/ req[r].stage \in {"built", "selected"}

\* Another runner, or an ingest nobody waits for any more, is at work on the
\* paper next to job j.
Company(j) ==
  \/ \E i \in Jobs \ {j} : pc[i] # "idle"
  \/ \E r \in Requests : Ingesting(r)

SendIngest(j, r) ==
  /\ Send(j, r, "ingest")
  /\ raced' = (raced \/ Company(j))

\* Mutant: embeds before the document is marked.
SendEmbedEarly(j, r) == Send(j, r, "embDoc") /\ UNCHANGED raced

SendEmbed(j, r) == Send(j, r, "embed") /\ UNCHANGED raced

Hangup(j) == serving' = [serving EXCEPT ![j] = NoRequest]

\* Mutant: the status of the answer is not looked at.
ReceiveAny(j) ==
  /\ serving[j] # NoRequest /\ req[serving[j]].stage \in {"completed", "failed"}
  /\ IngestDone(j) \/ EmbedDone(j)
  /\ C!Answered(serving[j])
  /\ Hangup(j)
  /\ UNCHANGED <<starts, sent, raced>>

\* The answer is "completed": the runner goes on.
Receive(j) ==
  /\ serving[j] # NoRequest /\ req[serving[j]].stage = "completed"
  /\ IngestDone(j) \/ EmbedDone(j)
  /\ C!Answered(serving[j])
  /\ Hangup(j)
  /\ UNCHANGED <<starts, sent, raced>>

\* Any other answer makes it throw.
ReceiveFailure(j) ==
  /\ serving[j] # NoRequest /\ req[serving[j]].stage = "failed"
  /\ Throw(j)
  /\ C!Answered(serving[j])
  /\ Hangup(j)
  /\ UNCHANGED <<starts, sent, raced>>

\* No answer in time, a broken connection, or no connection at all: the runner
\* throws, and the AI service is not told.  Also every other throw.
GiveUp(j) ==
  /\ Throw(j)
  /\ Hangup(j)
  /\ UNCHANGED <<store, sent, raced>>

\* The other steps of runJobDirect; a run of the pipeline shows from its first
\* write of the document.
RunnerLocal(j) ==
  /\ \/ MarkExtracting(j) /\ raced' = Company(j)
     \/ /\ \/ StartJob(j) \/ MarkJobEmbedding(j) \/ MarkEmbedding(j)
           \/ CompleteJob(j) \/ MarkReady(j) \/ FailDoc(j) \/ FailJob(j)
        /\ UNCHANGED raced
  /\ UNCHANGED <<store, sent, serving>>

Reruns == crashes + Cardinality({j \in Jobs : jobStatus[j] # "NONE"})

BackendLocal ==
  /\ \/ (\E h \in Handlers : HandlerStep(h)) /\ Reruns' <= MaxReruns
     \/ BootStep
  /\ UNCHANGED <<store, sent, serving, raced>>

BackendCrash ==
  /\ Crash /\ Reruns < MaxReruns
  /\ serving' = [j \in Jobs |-> NoRequest]
  /\ UNCHANGED <<store, sent, raced>>

\* Mutant: the chunks do not go with the paper.
RemoveKeepsChunks ==
  /\ Remove(Paper)
  /\ UNCHANGED <<store, sent, serving, raced>>

RemoveAll ==
  /\ Remove(Paper)
  /\ C!RemovePaper
  /\ UNCHANGED <<sent, serving, raced>>

-----------------------------------------------------------------------------
(* The AI service's side *)

Begin(r) ==
  /\ UNCHANGED queue
  /\ \/ sent[r] = "ingest" /\ (C!IngestRefuse(r) \/ C!IngestBuild(r))
     \/ sent[r] = "embed" /\ C!EmbedRead(r)
  /\ sent' = [sent EXCEPT ![r] = "none"]
  /\ UNCHANGED raced

\* The write of the request, its failure, or an answer nobody waits for.
AiStep(r) ==
  /\ UNCHANGED queue
  /\ \/ C!IngestSelect(r) \/ C!IngestCommit(r) \/ C!EmbedWrite(r) \/ C!Fail(r)
     \/ (\A j \in Jobs : serving[j] # r) /\ C!Answered(r)
  /\ UNCHANGED <<sent, raced>>

AiRestart ==
  /\ UNCHANGED queue
  /\ C!Restart(body, model)
  /\ sent' = [r \in Requests |-> "none"]
  /\ UNCHANGED raced

NextAll ==
  \/ \E j \in Jobs :
       \/ \E r \in Requests : SendIngest(j, r) \/ SendEmbed(j, r)
       \/ Receive(j) \/ ReceiveFailure(j) \/ GiveUp(j) \/ RunnerLocal(j)
  \/ BackendLocal \/ BackendCrash \/ RemoveAll
  \/ \E r \in Requests : Begin(r) \/ AiStep(r)
  \/ AiRestart

SpecAll == InitAll /\ [][NextAll]_allVars

-----------------------------------------------------------------------------
(* Properties *)

Searchable == DOMAIN rows # {} /\ \A id \in DOMAIN rows : rows[id].vec # NoVec

\* A paper whose last run of the pipeline had no company is READY only when it has
\* chunks and all of them are embedded, through crashes of either process,
\* embed requests left behind, resumes and retries.
ReadyComplete ==
  docStatus[Paper] = "READY" /\ ~raced => Searchable

\* Both components keep their own specifications when they are put together.
ComponentsKept == Spec /\ C!Spec

\* The comment of onApplicationBootstrap: re-running interrupted jobs is safe.
\* When everything has come to rest a READY paper can be searched in full.
ReadyIsSearchable ==
  /\ phase = "up" /\ docStatus[Paper] = "READY"
  /\ \A j \in Jobs : pc[j] = "idle"
  /\ \A r \in Requests : sent[r] = "none" /\ req[r].stage = "idle"
  => Searchable
=============================================================================
