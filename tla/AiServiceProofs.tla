-------------------------- MODULE AiServiceProofs --------------------------
(***************************************************************************)
(* What the client of a question's stream is sent is a run of the pipeline *)
(* that ends with one result or error, however the worker, the generator   *)
(* and the client interleave (AskStream).  For any requests, papers, drafts*)
(* and evidence every question runs as AskStream says, so that its stream  *)
(* has that shape; no model is loaded twice; every reply opens what it     *)
(* cites and claims nothing its evidence does not have; and a task hears   *)
(* every paper that was found.                                             *)
(*                                                                         *)
(* The sections follow a request: what a search returns, the evidence made *)
(* of it, the texts, claims and citations made of the evidence, the cards  *)
(* of the papers, the turns the papers take, the drafts of each task; then *)
(* the invariant of a request, kept action by action.                      *)
(***************************************************************************)
EXTENDS AiService, CitationProofs

-----------------------------------------------------------------------------
(* The inductive invariant *)

\* The log is a run of the pipeline: stages in their order, then an outcome.
\* The event "end" is the last one.
RunSoFar ==
  \A i \in 1 .. Len(log) :
    \/ log[i] \in Stages /\ (i = 1 => log[i] \in Follows["start"])
                         /\ (i > 1 => log[i - 1] \in Stages /\ log[i] \in Follows[log[i - 1]])
    \/ log[i] \in Outcomes /\ i > 1 /\ log[i - 1] \in Stages
    \/ log[i] = "end" /\ i = Len(log) /\ worker = "done"

\* What has been put when the worker is where it is.
WorkerAt ==
  /\ worker = "idle" => log = <<>> /\ now = "start" /\ stream \in {"none", "idle"}
  /\ worker = "entering" => next \in Follows[now]
  /\ stream # "none" /\ worker \in {"working", "entering"} =>
       IF log = <<>> THEN now = "start" ELSE log[Len(log)] \in Stages /\ log[Len(log)] = now /\ now # "start"
  /\ worker \in {"working", "entering", "ending"} =>
       \A i \in 1 .. Len(log) : log[i] # "end"
  /\ stream # "none" /\ worker = "ending" /\ ~cancelled => log # <<>> /\ log[Len(log)] \in Outcomes
  /\ stream # "none" /\ worker = "ending" /\ log # <<>> => log[Len(log)] \in Stages \cup Outcomes
  /\ stream # "none" /\ worker = "done" =>
       /\ log # <<>> /\ log[Len(log)] = "end"
       /\ ~cancelled => Len(log) > 1 /\ log[Len(log) - 1] \in Outcomes

\* How far the generator is.
GeneratorAt ==
  /\ stream = "none" => log = <<>>
  /\ cancelled <=> stream = "closed"
  /\ taken <= Len(log) /\ sent <= taken
  /\ stream = "idle" => worker = "idle"
  /\ stream # "closed" => sent = taken
  /\ stream = "closed" /\ client = "there" => sent > 0 /\ log[sent] \in Outcomes
  /\ \A i \in 1 .. sent : log[i] # "end"

StreamIInv == StreamTypeOK /\ RunSoFar /\ WorkerAt /\ GeneratorAt

-----------------------------------------------------------------------------
(* Facts about the stages and the log *)

\* No stage is an outcome, and none leads back to the start.
LEMMA StagesAreNotOutcomes ==
  /\ Stages \cap Outcomes = {} /\ "end" \notin Stages \cup Outcomes
  /\ \A s \in Stages : Follows[s] \subseteq Stages /\ "start" \notin Follows[s]
  /\ "start" \in Stages
BY DEF Stages, Follows, Outcomes

\* What an append leaves of the log.
LEMMA Appended ==
  ASSUME StreamTypeOK, NEW e \in Events, log' = Append(log, e)
  PROVE  /\ log' \in Seq(Events) /\ Len(log') = Len(log) + 1
         /\ log'[Len(log) + 1] = e
         /\ \A i \in 1 .. Len(log) : log'[i] = log[i]
         /\ \A i \in 1 .. Len(log') : i \in 1 .. Len(log) \/ i = Len(log) + 1
         /\ log' # <<>>
BY DEF StreamTypeOK

-----------------------------------------------------------------------------
(* The invariant is kept, action by action *)

\* The stream begins with an empty log.
LEMMA InitKeeps == StreamInit => StreamIInv
<1> SUFFICES ASSUME StreamInit PROVE StreamIInv
  OBVIOUS
<1>1. StreamTypeOK
  <2>1. "start" \in Stages
    BY StagesAreNotOutcomes
  <2>2. <<>> \in Seq(Events)
    OBVIOUS
  <2> QED BY <2>1, <2>2 DEF StreamInit, StreamTypeOK
<1>2. RunSoFar /\ WorkerAt /\ GeneratorAt
  BY DEF StreamInit, RunSoFar, WorkerAt, GeneratorAt
<1> QED BY <1>1, <1>2 DEF StreamIInv

\* The worker begins.
LEMMA BeginKeeps == StreamIInv /\ Begin => StreamIInv'
BY DEF Begin, StreamIInv, StreamTypeOK, RunSoFar, WorkerAt, GeneratorAt, Stages

\* The worker is past the check of a stage.
LEMMA ReachKeeps == ASSUME NEW s \in Stages, StreamIInv, Reach(s) PROVE StreamIInv'
BY DEF Reach, StreamIInv, StreamTypeOK, RunSoFar, WorkerAt, GeneratorAt, Stages

\* The worker finds the flag set.
LEMMA GiveUpKeeps == StreamIInv /\ GiveUp => StreamIInv'
BY DEF GiveUp, StreamIInv, StreamTypeOK, RunSoFar, WorkerAt, GeneratorAt, Stages

\* An event goes to the client.
LEMMA DeliverKeeps == StreamIInv /\ Deliver => StreamIInv'
BY DEF Deliver, StreamIInv, StreamTypeOK, RunSoFar, WorkerAt, GeneratorAt

\* The generator takes the last event and closes.
LEMMA EndOfStreamKeeps == StreamIInv /\ EndOfStream => StreamIInv'
<1> SUFFICES ASSUME StreamIInv, EndOfStream PROVE StreamIInv'
  OBVIOUS
<1> USE DEF EndOfStream, Close, StreamIInv
<1>1. StreamTypeOK' /\ RunSoFar' /\ WorkerAt'
  BY DEF StreamTypeOK, RunSoFar, WorkerAt

\* "end" is the last event, and the worker put an outcome before it.
<1>2. taken + 1 = Len(log) /\ worker = "done" /\ ~cancelled /\ sent = taken
  BY StagesAreNotOutcomes DEF StreamTypeOK, RunSoFar, GeneratorAt, Outcomes
<1>3. sent > 0 /\ log[sent] \in Outcomes
  BY <1>2 DEF WorkerAt, StreamTypeOK
<1>4. GeneratorAt'
  BY <1>2, <1>3 DEF GeneratorAt, StreamTypeOK
<1> QED BY <1>1, <1>4

\* The generator is closed because the client left.
LEMMA NoticeKeeps == StreamIInv /\ Notice => StreamIInv'
BY DEF Notice, Close, StreamIInv, StreamTypeOK, RunSoFar, WorkerAt, GeneratorAt

\* The client leaves.
LEMMA LeaveKeeps == StreamIInv /\ Leave => StreamIInv'
BY DEF Leave, StreamIInv, StreamTypeOK, RunSoFar, WorkerAt, GeneratorAt, Stages

\* The stage is announced.
LEMMA EnterKeeps == StreamIInv /\ Enter => StreamIInv'
<1> SUFFICES ASSUME StreamIInv, Enter PROVE StreamIInv'
  OBVIOUS
<1> USE DEF StreamIInv, Enter
<1>0. next \in Stages /\ next \in Events /\ next \in Follows[now] /\ next # "start" /\ next # "end"
  BY StagesAreNotOutcomes DEF StreamTypeOK, WorkerAt, Events
<1>1. CASE stream = "none"
  BY <1>0, <1>1 DEF Put, StreamTypeOK, RunSoFar, WorkerAt, GeneratorAt
<1>2. CASE stream # "none"
  <2>1. log' = Append(log, next)
    BY <1>2 DEF Put
  <2>2. /\ log' \in Seq(Events) /\ Len(log') = Len(log) + 1
        /\ log'[Len(log) + 1] = next
        /\ \A i \in 1 .. Len(log) : log'[i] = log[i]
        /\ \A i \in 1 .. Len(log') : i \in 1 .. Len(log) \/ i = Len(log) + 1
        /\ log' # <<>>
    BY <1>0, <2>1, Appended
  <2>3. StreamTypeOK'
    BY <1>0, <2>2 DEF StreamTypeOK
  <2>4. RunSoFar'
    <3> SUFFICES ASSUME NEW i \in 1 .. Len(log')
                 PROVE  \/ log'[i] \in Stages /\ (i = 1 => log'[i] \in Follows["start"])
                                /\ (i > 1 => log'[i - 1] \in Stages /\ log'[i] \in Follows[log'[i - 1]])
                        \/ log'[i] \in Outcomes /\ i > 1 /\ log'[i - 1] \in Stages
      BY DEF RunSoFar
    <3>1. CASE i \in 1 .. Len(log)
      <4>1. i > 1 => i - 1 \in 1 .. Len(log)
        BY <3>1 DEF StreamTypeOK
      <4> QED BY <2>2, <3>1, <4>1 DEF RunSoFar, WorkerAt
    <3>2. CASE i = Len(log) + 1
      <4>1. log = <<>> => i = 1 /\ now = "start"
        BY <1>2, <3>2 DEF WorkerAt
      <4>2. log # <<>> => i > 1 /\ i - 1 = Len(log) /\ Len(log) \in 1 .. Len(log) /\ log[Len(log)] \in Stages /\ log[Len(log)] = now
        BY <1>2, <3>2 DEF WorkerAt, StreamTypeOK
      <4>3. i = 1 => log = <<>>
        BY <3>2 DEF StreamTypeOK
      <4> QED BY <1>0, <2>2, <3>2, <4>1, <4>2, <4>3
    <3> QED BY <2>2, <3>1, <3>2
  <2>5. WorkerAt'
    BY <1>0, <1>2, <2>2 DEF WorkerAt, StreamTypeOK
  <2>6. GeneratorAt'
    BY <1>2, <2>2 DEF GeneratorAt, StreamTypeOK
  <2> QED BY <2>3, <2>4, <2>5, <2>6
<1> QED BY <1>1, <1>2

\* Finish puts a result, Fail an error, both after a stage.
LEMMA OutcomeKeeps ==
  ASSUME StreamIInv, NEW e \in Outcomes, worker = "working", now # "start",
         worker' = "ending", Put(e), UNCHANGED <<now, next, taken, sent, cancelled, stream, client>>
  PROVE  StreamIInv'
<1> USE DEF StreamIInv
<1>0. e \in Events /\ e \notin Stages /\ e # "end" /\ e \in Stages \cup Outcomes
  BY StagesAreNotOutcomes DEF Events
<1>1. CASE stream = "none"
  BY <1>0, <1>1 DEF Put, StreamTypeOK, RunSoFar, WorkerAt, GeneratorAt
<1>2. CASE stream # "none"
  <2>1. log' = Append(log, e)
    BY <1>2 DEF Put
  <2>2. /\ log' \in Seq(Events) /\ Len(log') = Len(log) + 1
        /\ log'[Len(log) + 1] = e
        /\ \A i \in 1 .. Len(log) : log'[i] = log[i]
        /\ \A i \in 1 .. Len(log') : i \in 1 .. Len(log) \/ i = Len(log) + 1
        /\ log' # <<>>
    BY <1>0, <2>1, Appended
  <2>3. /\ log # <<>> /\ Len(log) > 0 /\ Len(log) \in 1 .. Len(log)
        /\ log[Len(log)] \in Stages
    BY <1>2 DEF WorkerAt, StreamTypeOK
  <2>4. StreamTypeOK'
    BY <1>0, <2>2 DEF StreamTypeOK
  <2>5. RunSoFar'
    <3> SUFFICES ASSUME NEW i \in 1 .. Len(log')
                 PROVE  \/ log'[i] \in Stages /\ (i = 1 => log'[i] \in Follows["start"])
                                /\ (i > 1 => log'[i - 1] \in Stages /\ log'[i] \in Follows[log'[i - 1]])
                        \/ log'[i] \in Outcomes /\ i > 1 /\ log'[i - 1] \in Stages
      BY DEF RunSoFar
    <3>1. CASE i \in 1 .. Len(log)
      <4>1. i > 1 => i - 1 \in 1 .. Len(log)
        BY <3>1 DEF StreamTypeOK
      <4> QED BY <2>2, <3>1, <4>1 DEF RunSoFar, WorkerAt
    <3>2. CASE i = Len(log) + 1
      <4>1. i > 1 /\ i - 1 = Len(log)
        BY <2>3, <3>2 DEF StreamTypeOK
      <4> QED BY <2>2, <2>3, <3>2, <4>1
    <3> QED BY <2>2, <3>1, <3>2
  <2>6. WorkerAt'
    BY <1>0, <1>2, <2>2 DEF WorkerAt, StreamTypeOK
  <2>7. GeneratorAt'
    BY <1>2, <2>2 DEF GeneratorAt, StreamTypeOK
  <2> QED BY <2>4, <2>5, <2>6, <2>7
<1> QED BY <1>1, <1>2

\* The pipeline has its result.
LEMMA FinishKeeps == StreamIInv /\ Finish => StreamIInv'
<1> SUFFICES ASSUME StreamIInv, Finish PROVE StreamIInv'
  OBVIOUS
<1>1. now # "start"
  BY DEF Finish, Follows
<1>2. "result" \in Outcomes
  BY DEF Outcomes
<1> QED BY <1>1, <1>2, OutcomeKeeps DEF Finish

\* A stage raised.
LEMMA FailKeeps == StreamIInv /\ Fail => StreamIInv'
<1>1. "error" \in Outcomes
  BY DEF Outcomes
<1> QED BY <1>1, OutcomeKeeps DEF Fail

\* The last event is put whatever came before it.
LEMMA PutEndKeeps == StreamIInv /\ PutEnd => StreamIInv'
<1> SUFFICES ASSUME StreamIInv, PutEnd PROVE StreamIInv'
  OBVIOUS
<1> USE DEF StreamIInv, PutEnd
<1>0. "end" \in Events
  BY DEF Events
<1>1. CASE stream = "none"
  BY <1>1 DEF Put, StreamTypeOK, RunSoFar, WorkerAt, GeneratorAt
<1>2. CASE stream # "none"
  <2>1. log' = Append(log, "end")
    BY <1>2 DEF Put
  <2>2. /\ log' \in Seq(Events) /\ Len(log') = Len(log) + 1
        /\ log'[Len(log) + 1] = "end"
        /\ \A i \in 1 .. Len(log) : log'[i] = log[i]
        /\ \A i \in 1 .. Len(log') : i \in 1 .. Len(log) \/ i = Len(log) + 1
        /\ log' # <<>>
    BY <1>0, <2>1, Appended
  <2>3. StreamTypeOK'
    BY <2>2 DEF StreamTypeOK
  <2>4. RunSoFar'
    <3> SUFFICES ASSUME NEW i \in 1 .. Len(log')
                 PROVE  \/ log'[i] \in Stages /\ (i = 1 => log'[i] \in Follows["start"])
                                /\ (i > 1 => log'[i - 1] \in Stages /\ log'[i] \in Follows[log'[i - 1]])
                        \/ log'[i] \in Outcomes /\ i > 1 /\ log'[i - 1] \in Stages
                        \/ log'[i] = "end" /\ i = Len(log')
      BY DEF RunSoFar
    <3>1. CASE i \in 1 .. Len(log)
      <4>1. i > 1 => i - 1 \in 1 .. Len(log)
        BY <3>1 DEF StreamTypeOK
      <4> QED BY <2>2, <3>1, <4>1 DEF RunSoFar, WorkerAt
    <3>2. CASE i = Len(log) + 1
      BY <2>2, <3>2
    <3> QED BY <2>2, <3>1, <3>2
  <2>5. WorkerAt'
    <3>1. ~cancelled => Len(log) > 0 /\ Len(log) \in 1 .. Len(log) /\ log[Len(log)] \in Outcomes
      BY <1>2 DEF WorkerAt, StreamTypeOK
    <3>2. ~cancelled => Len(log') > 1 /\ log'[Len(log') - 1] \in Outcomes
      BY <2>2, <3>1 DEF StreamTypeOK
    <3> QED BY <1>2, <2>2, <3>2 DEF WorkerAt
  <2>6. GeneratorAt'
    BY <1>2, <2>2 DEF GeneratorAt, StreamTypeOK
  <2> QED BY <2>3, <2>4, <2>5, <2>6
<1> QED BY <1>1, <1>2

\* Every step of the stream keeps the invariant.
LEMMA StepKeeps == StreamIInv /\ [StreamNext]_streamVars => StreamIInv'
<1> SUFFICES ASSUME StreamIInv, [StreamNext]_streamVars PROVE StreamIInv'
  OBVIOUS
<1>1. CASE Begin
  BY <1>1, BeginKeeps
<1>2. CASE Worker
  BY <1>2, ReachKeeps, EnterKeeps, GiveUpKeeps, FinishKeeps, FailKeeps, PutEndKeeps DEF Worker
<1>3. CASE Generator
  BY <1>3, DeliverKeeps, EndOfStreamKeeps, NoticeKeeps DEF Generator
<1>4. CASE Leave
  BY <1>4, LeaveKeeps
<1>5. CASE UNCHANGED streamVars
  BY <1>5 DEF streamVars, StreamIInv, StreamTypeOK, RunSoFar, WorkerAt, GeneratorAt
<1> QED BY <1>1, <1>2, <1>3, <1>4, <1>5 DEF StreamNext

-----------------------------------------------------------------------------
(* Theorems *)

\* However the worker, the generator and the client interleave, the log, what
\* was taken of it and what was sent fit together (main.py, ask_stream).
THEOREM StreamIInvHolds == StreamSpec => []StreamIInv
<1>1. StreamInit => StreamIInv
  BY InitKeeps
<1>2. StreamIInv /\ [StreamNext]_streamVars => StreamIInv'
  BY StepKeeps
<1> QED BY <1>1, <1>2, PTL DEF StreamSpec

\* What was sent is part of the log, so it has its shape.
LEMMA ShapeFollows == StreamIInv => StreamShape
<1> SUFFICES ASSUME StreamIInv PROVE StreamShape
  OBVIOUS
<1> USE DEF StreamIInv
<1>1. ASSUME NEW i \in 1 .. sent
      PROVE  IF i = 1 THEN log[1] \in Follows["start"]
             ELSE log[i - 1] \in Stages /\ log[i] \in Follows[log[i - 1]] \cup Outcomes
  <2>1. i \in 1 .. Len(log) /\ log[i] # "end" /\ i \in Nat
    BY DEF GeneratorAt, StreamTypeOK
  <2> QED BY <2>1 DEF RunSoFar
<1>2. stream = "closed" /\ client = "there" => sent > 0 /\ log[sent] \in Outcomes
  BY DEF GeneratorAt
<1> QED BY <1>1, <1>2 DEF StreamShape

\* What the client is sent is a run of the pipeline, and a client who stays to
\* the end is sent its result or its error.
THEOREM StreamShapeHolds == StreamSpec => []StreamShape
BY StreamIInvHolds, ShapeFollows, PTL

-----------------------------------------------------------------------------
(* Questions refine AskStream *)

\* Every step of a question is a step of its stream, or none.
LEMMA QuestionKeepsStream == QuestionStep => [StreamNext]_streamVars
<1> SUFFICES ASSUME QuestionStep PROVE [StreamNext]_streamVars
  OBVIOUS
<1> USE DEF StreamNext, Worker
<1>0. /\ {"loading_models", "rewriting", "retrieving", "background", "generating", "verifying"} \subseteq Stages
  BY DEF Stages, Follows
<1>1. CASE StartQuestion
  BY <1>1 DEF StartQuestion
<1>2. CASE Load
  BY <1>0, <1>2 DEF Load
<1>3. CASE Loaded
  BY <1>0, <1>3 DEF Loaded
<1>4. CASE Rewrite
  BY <1>0, <1>4 DEF Rewrite
<1>5. CASE Retrieve
  BY <1>0, <1>5 DEF Retrieve
<1>6. CASE Background
  BY <1>6 DEF Background
<1>7. CASE Generate
  BY <1>0, <1>7 DEF Generate
<1>8. CASE VerifyAnswer
  BY <1>8 DEF VerifyAnswer
<1>9. CASE FailQuestion
  BY <1>9 DEF FailQuestion
<1>10. CASE Answered
  BY <1>10 DEF Answered
<1>11. CASE Evaluate
  BY <1>11 DEF Evaluate
<1> QED BY <1>1, <1>2, <1>3, <1>4, <1>5, <1>6, <1>7, <1>8, <1>9, <1>10, <1>11 DEF QuestionStep

\* The other requests have no stream.
LEMMA RequestKeepsStream == RequestStep => UNCHANGED streamVars
BY DEF RequestStep, StartRequest, Search, ReadPapers, BuildCard, SaveCard, PapersReady, Summarise, SearchEach,
       Ground, Draft, RenderTask, ReviewText, FailRequest, Work

\* Every step of a request is a step of AskStream or leaves its stream alone.
THEOREM QuestionsImplementStream == Spec => StreamSpec
<1>1. Init => StreamInit
  BY DEF Init
<1>2. [Next]_vars => [StreamNext]_streamVars
  <2> SUFFICES ASSUME [Next]_vars PROVE [StreamNext]_streamVars
    OBVIOUS
  <2>1. CASE QuestionStep
    BY <2>1, QuestionKeepsStream
  <2>2. CASE Streaming
    BY <2>2 DEF Streaming, StreamNext, Worker
  <2>3. CASE RequestStep
    BY <2>3, RequestKeepsStream
  <2>4. CASE Reingest
    BY <2>4 DEF Reingest
  <2>5. CASE Over
    BY <2>5 DEF Over, vars
  <2>6. CASE \E t \in Threads : Loading(t)
    BY <2>6 DEF Loading
  <2>7. CASE UNCHANGED vars
    BY <2>7 DEF vars
  <2> QED BY <2>1, <2>2, <2>3, <2>4, <2>5, <2>6, <2>7 DEF Next
<1> QED BY <1>1, <1>2, PTL DEF Spec, StreamSpec

\* The client of /ask/stream is sent the stages of a run in their order and,
\* if it stays, the result or the error.
THEOREM StreamShapeAlways == Spec => []StreamShape
BY QuestionsImplementStream, StreamShapeHolds, PTL

-----------------------------------------------------------------------------
(* Models *)

\* A model is loaded as often as it is in memory, and who holds the lock came
\* for a model.
ModelsIInv ==
  /\ loaded \subseteq {"embedder", "reranker"}
  /\ lock \in Threads \cup {"free"}
  /\ wants \in [Threads -> {"nothing", "embedder", "reranker", "failed"}]
  /\ lock # "free" => wants[lock] \in {"embedder", "reranker"}
  /\ loads = [m \in {"embedder", "reranker"} |-> IF m \in loaded THEN 1 ELSE 0]

\* Looking for a model, locking, loading and failing keep the books of the models.
LEMMA LoadingKeeps == ASSUME NEW t \in Threads, ModelsIInv, Loading(t) PROVE ModelsIInv'
<1> USE DEF ModelsIInv
<1>1. CASE Want(t)
  BY <1>1 DEF Want, FirstMissing
<1>2. CASE TakeLock(t)
  BY <1>2 DEF TakeLock
<1>3. CASE LoadModel(t)
  <2>1. wants[t] \in {"embedder", "reranker"} /\ t # "free"
    BY <1>3 DEF LoadModel, Threads
  <2>2. loads' = [m \in {"embedder", "reranker"} |-> IF m \in loaded' THEN 1 ELSE 0]
    BY <1>3, <2>1 DEF LoadModel
  <2> QED BY <1>3, <2>1, <2>2 DEF LoadModel
<1>4. CASE LoadFails(t)
  BY <1>4 DEF LoadFails
<1> QED BY <1>1, <1>2, <1>3, <1>4 DEF Loading

\* No other step has to do with the models.
LEMMA OthersKeepModels ==
  QuestionStep \/ Streaming \/ RequestStep \/ Reingest \/ Over => UNCHANGED modelVars
BY DEF QuestionStep, StartQuestion, Load, Loaded, Rewrite, Retrieve, Background, Generate, VerifyAnswer, FailQuestion,
       Answered, Evaluate, Streaming, Rest, RequestStep, StartRequest, Search, ReadPapers, BuildCard, SaveCard, PapersReady,
       Summarise, SearchEach, Ground, Draft, RenderTask, ReviewText, FailRequest, Work, Reingest, Over, vars

\* What is loaded, who loads it and what is still missing fit together, however
\* the warm-up and the request interleave.
THEOREM ModelsIInvHolds == Spec => []ModelsIInv
<1>1. Init => ModelsIInv
  BY DEF Init, ModelsIInv, Threads
<1>2. ModelsIInv /\ [Next]_vars => ModelsIInv'
  <2> SUFFICES ASSUME ModelsIInv, [Next]_vars PROVE ModelsIInv'
    OBVIOUS
  <2>1. CASE \E t \in Threads : Loading(t)
    BY <2>1, LoadingKeeps
  <2>2. CASE UNCHANGED modelVars
    BY <2>2 DEF ModelsIInv, modelVars
  <2> QED BY <2>1, <2>2, OthersKeepModels DEF Next, vars
<1> QED BY <1>1, <1>2, PTL DEF Spec

\* The double check under the lock: whichever thread comes first, no model is
\* loaded twice (ingest.py, get_model and get_reranker).
THEOREM ModelsAreLoadedOnce == Spec => []LoadedOnce
<1>1. ModelsIInv => LoadedOnce
  BY DEF ModelsIInv, LoadedOnce
<1> QED BY <1>1, ModelsIInvHolds, PTL

-----------------------------------------------------------------------------
(* What a search returns                                                    *)

\* The values of a function on the numbers up to n are finitely many.
LEMMA ImageIsFinite ==
  ASSUME NEW n \in Nat, NEW f, DOMAIN f = 1 .. n
  PROVE  IsFiniteSet({f[i] : i \in 1 .. n})
<1> DEFINE T == {f[i] : i \in 1 .. n}
           g == [i \in 1 .. n |-> f[i]]
<1>1. g \in Surjection(1 .. n, T)
  BY DEF Surjection
<1>2. IsFiniteSet(1 .. n)
  BY FS_Interval
<1> HIDE DEF T, g
<1>3. IsFiniteSet(T)
  BY <1>1, <1>2, FS_Surjection
<1> QED  BY <1>3 DEF T

\* A text has finitely many words.
LEMMA WordsAreFinite ==
  ASSUME NEW text \in Seq(DOMAIN Says)
  PROVE  IsFiniteSet(Words(text))
<1> DEFINE n == Len(text)
           f == [i \in 1 .. n |-> Says[text[i]].words]
           all == {f[i] : i \in 1 .. n}
<1>1. n \in Nat /\ DOMAIN text = 1 .. n /\ \A i \in 1 .. n : text[i] \in DOMAIN Says
  OBVIOUS
<1>2. IsFiniteSet(all)
  BY <1>1, ImageIsFinite
<1>3. \A T \in all : IsFiniteSet(T)
  BY <1>1, VocabularyAssumption
<1>4. Words(text) = UNION all
  BY <1>1 DEF Words, ToSet
<1> HIDE DEF all
<1> QED  BY <1>2, <1>3, <1>4, FS_UNION

\* What a text shares with a set of words is counted.
LEMMA SharedIsCounted ==
  ASSUME NEW text \in Seq(DOMAIN Says), NEW W
  PROVE  Cardinality(Words(text) \cap W) \in Nat
BY WordsAreFinite, FS_Intersection, FS_CardinalityType

\* The chunks of a store that are in a scope.
Within(store, scope) == {c \in ToSet(store) : InScope(c.doc, scope)}

\* What the semantic search may find.
Findable(store, scope, exclude, model) ==
  {c \in Within(store, scope) : c.kind \notin exclude /\ c.model # NoModel /\ model \in {c.model, NoModel}}

Candidate(store, scope, topK) == [chunk : Within(store, scope), rank : 1 .. topK, similarity : Int]

\* A search finds chunks of the store, in the scope, and something if there is
\* something with a vector.
LEMMA HybridIs ==
  ASSUME NEW store \in Seq(StoredChunk), NEW question, NEW scope, NEW exclude, NEW model,
         NEW topK \in Nat \ {0}, NEW near, \A c \in ToSet(store) : near[c.id] \in Int
  PROVE  LET found == HybridSearch(store, question, scope, exclude, model, topK, near)
         IN  /\ found \in Seq(Candidate(store, scope, topK))
             /\ Findable(store, scope, exclude, model) # {} => found # <<>>
<1> DEFINE I == {i \in DOMAIN store : InScope(store[i].doc, scope) /\ store[i].kind \notin exclude}
           base == Kept(store, I)
           W == Within(store, scope)
           J == {i \in DOMAIN base : base[i].model # NoModel /\ model \in {base[i].model, NoModel}}
           vector == Kept(base, J)
           nears == [i \in DOMAIN vector |-> near[vector[i].id]]
           semantic == Top(Ordered(vector, nears), topK)
           K == {i \in DOMAIN base : Cardinality(Words(base[i].text) \cap Asks[question].words) > 0}
           sharing == Kept(base, K)
           shares == [i \in DOMAIN sharing |-> Cardinality(Words(sharing[i].text) \cap Asks[question].words)]
           keyword == Top(Ordered(sharing, shares), topK)
           byWords == [i \in DOMAIN keyword |-> [chunk |-> keyword[i], rank |-> i, similarity |-> -1]]
           byVector == [i \in DOMAIN semantic |-> [chunk |-> semantic[i], rank |-> i, similarity |-> near[semantic[i].id]]]
<1>1. HybridSearch(store, question, scope, exclude, model, topK, near) = byWords \o byVector
  BY DEF HybridSearch, Select, Best
<1>2. /\ base \in Seq(W)
      /\ \A c \in W : c.kind \notin exclude => c \in ToSet(base)
  <2>0. I \in SUBSET DOMAIN store
    OBVIOUS
  <2> HIDE DEF I
  <2>1. base \in Seq({store[i] : i \in I}) /\ DOMAIN base = 1 .. Len(base)
        /\ \A i \in I : Rank(I, i) \in DOMAIN base /\ base[Rank(I, i)] = store[i]
    BY <2>0, KeptIs
  <2>2. {store[i] : i \in I} \subseteq W
    BY DEF I, Within, ToSet
  <2>3. \A c \in W : c.kind \notin exclude => \E i \in I : store[i] = c
    BY DEF I, Within, ToSet
  <2> HIDE DEF base, W
  <2>4. base \in Seq(W)
    BY <2>1, <2>2
  <2>5. ASSUME NEW c \in W, c.kind \notin exclude PROVE c \in ToSet(base)
    <3>1. PICK i \in I : store[i] = c
      BY <2>3, <2>5
    <3> QED  BY <2>1, <3>1 DEF ToSet
  <2> QED  BY <2>4, <2>5
<1>3. \A c \in W : c \in StoredChunk /\ c.text \in Seq(DOMAIN Says) /\ near[c.id] \in Int
  <2>1. \A c \in ToSet(store) : c \in StoredChunk
    BY DEF ToSet
  <2>2. \A c \in StoredChunk : c.text \in Seq(DOMAIN Says)
    BY DEF StoredChunk
  <2>3. \A c \in W : c \in ToSet(store)
    BY DEF Within
  <2> HIDE DEF W
  <2> QED  BY <2>1, <2>2, <2>3
<1> HIDE DEF W, base
<1>4. /\ vector \in Seq(W) /\ nears \in [DOMAIN vector -> Int]
      /\ Findable(store, scope, exclude, model) # {} => vector # <<>>
  <2>0. J \in SUBSET DOMAIN base
    OBVIOUS
  <2> HIDE DEF J
  <2>1. vector \in Seq(W) /\ \A i \in J : Rank(J, i) \in DOMAIN vector
    BY <1>2, <2>0, KeptIs
  <2> HIDE DEF vector
  <2>2. nears \in [DOMAIN vector -> Int]
    BY <1>3, <2>1
  <2>3. ASSUME NEW c \in Findable(store, scope, exclude, model) PROVE vector # <<>>
    <3>1. c \in ToSet(base) /\ c.model # NoModel /\ model \in {c.model, NoModel}
      BY <1>2 DEF Findable, W
    <3>2. PICK i \in J : base[i] = c
      BY <3>1 DEF ToSet, J
    <3> QED  BY <2>1, <3>2
  <2> QED  BY <2>1, <2>2, <2>3
<1> HIDE DEF vector, nears
<1>5. /\ semantic \in Seq(W) /\ Len(semantic) <= topK
      /\ vector # <<>> => semantic # <<>>
  <2>1. Ordered(vector, nears) \in Seq(W) /\ Len(Ordered(vector, nears)) = Len(vector)
    BY <1>4, OrderedIs
  <2>2. /\ semantic \in Seq(W)
        /\ Len(semantic) = IF topK <= Len(vector) THEN topK ELSE Len(vector)
    BY <2>1, TopIs
  <2> HIDE DEF semantic
  <2> QED  BY <1>4, <2>2
<1>6. /\ sharing \in Seq(W) /\ shares \in [DOMAIN sharing -> Int]
  <2>0. K \in SUBSET DOMAIN base
    OBVIOUS
  <2> HIDE DEF K
  <2>1. sharing \in Seq(W)
    BY <1>2, <2>0, KeptIs
  <2> HIDE DEF sharing
  <2>2. ASSUME NEW i \in DOMAIN sharing
        PROVE  Cardinality(Words(sharing[i].text) \cap Asks[question].words) \in Nat
    <3>1. sharing[i] \in W
      BY <2>1
    <3>2. sharing[i].text \in Seq(DOMAIN Says)
      BY <1>3, <3>1
    <3> QED  BY <3>2, SharedIsCounted
  <2>3. shares \in [DOMAIN sharing -> Int]
    BY <2>2
  <2> QED  BY <2>1, <2>3
<1> HIDE DEF sharing, shares
<1>7. keyword \in Seq(W) /\ Len(keyword) <= topK
  <2>1. Ordered(sharing, shares) \in Seq(W)
    BY <1>6, OrderedIs
  <2>2. /\ keyword \in Seq(W)
        /\ Len(keyword) <= topK
    BY <2>1, TopIs
  <2> QED  BY <2>2
<1> HIDE DEF semantic, keyword
<1>8. byVector \in Seq(Candidate(store, scope, topK)) /\ Len(byVector) = Len(semantic)
  <2>1. DOMAIN semantic = 1 .. Len(semantic) /\ Len(semantic) \in Nat /\ \A i \in 1 .. Len(semantic) : i \in 1 .. topK
    BY <1>5
  <2>2. \A i \in 1 .. Len(semantic) : semantic[i] \in W /\ near[semantic[i].id] \in Int
    BY <1>3, <1>5
  <2>3. byVector \in [1 .. Len(semantic) -> Candidate(store, scope, topK)]
    BY <2>1, <2>2 DEF Candidate, W
  <2> HIDE DEF byVector
  <2> QED  BY <2>1, <2>3, FunctionIsSeq
<1>9. byWords \in Seq(Candidate(store, scope, topK)) /\ Len(byWords) = Len(keyword)
  <2>1. DOMAIN keyword = 1 .. Len(keyword) /\ Len(keyword) \in Nat /\ \A i \in 1 .. Len(keyword) : i \in 1 .. topK
    BY <1>7
  <2>2. \A i \in 1 .. Len(keyword) : keyword[i] \in W
    BY <1>7
  <2>3. byWords \in [1 .. Len(keyword) -> Candidate(store, scope, topK)]
    BY <2>1, <2>2 DEF Candidate, W
  <2> HIDE DEF byWords
  <2> QED  BY <2>1, <2>3, FunctionIsSeq
<1> HIDE DEF byVector, byWords
<1>10. byWords \o byVector \in Seq(Candidate(store, scope, topK))
  BY <1>8, <1>9
<1>11. Findable(store, scope, exclude, model) # {} => byWords \o byVector # <<>>
  BY <1>4, <1>5, <1>8, <1>9
<1> QED  BY <1>1, <1>10, <1>11

\* The weights of the intents are numbers.
LEMMA IntentsWeigh ==
  \A i \in DOMAIN Intents : \A section \in DOMAIN Intents[i] : Intents[i][section] \in Nat
BY DEF Intents

\* A route leaves out references and front matter at most, and boosts sections
\* by numbers.
LEMMA RouteIs ==
  ASSUME NEW question \in DOMAIN Asks
  PROVE  /\ RouteQuery(question).exclude \subseteq {"reference", "front_matter"}
         /\ \A section : SectionBoost(RouteQuery(question), section) \in Int
<1> DEFINE asked == Asks[question].intents
           cards == Asks[question].acrossPapers \/ "contribution" \in ToSet(asked)
           n == Len(asked)
           boosted == (UNION {DOMAIN Intents[i] : i \in ToSet(asked)}) \cup {"profile"}
           weights(section) == {Weight(asked, i, section) : i \in DOMAIN asked}
                               \cup {IF section = "profile" /\ cards THEN 12 ELSE 0}
           route == RouteQuery(question)
<1>1. asked \in Seq(DOMAIN Intents) /\ n \in Nat /\ DOMAIN asked = 1 .. n
  BY VocabularyAssumption
<1>2. route = [exclude |-> IF "related" \in ToSet(asked) THEN {"front_matter"} ELSE {"reference", "front_matter"},
               boost   |-> [section \in boosted |-> Max(weights(section))]]
  BY DEF RouteQuery
<1>3. ASSUME NEW section PROVE Max(weights(section)) \in Int
  <2> DEFINE f == [i \in 1 .. n |-> Weight(asked, i, section)]
             F == {f[i] : i \in 1 .. n}
             last == IF section = "profile" /\ cards THEN 12 ELSE 0
  <2>1. \A i \in 1 .. n : f[i] \in Int
    <3>1. ASSUME NEW i \in 1 .. n PROVE Weight(asked, i, section) \in Int
      <4>1. asked[i] \in DOMAIN Intents
        BY <1>1
      <4>2. section \in DOMAIN Intents[asked[i]] => Intents[asked[i]][section] \in Nat
        BY <4>1, IntentsWeigh
      <4>3. Weight(asked, i, section) = IF section \in DOMAIN Intents[asked[i]]
                                        THEN Intents[asked[i]][section] * (IF i = 1 THEN 2 ELSE 1) ELSE 0
        BY DEF Weight
      <4>4. CASE section \in DOMAIN Intents[asked[i]]
        <5> DEFINE w == Intents[asked[i]][section]
        <5>1. w \in Nat
          BY <4>2, <4>4
        <5>2. Weight(asked, i, section) = w * (IF i = 1 THEN 2 ELSE 1)
          BY <4>3, <4>4
        <5> HIDE DEF w
        <5> QED  BY <5>1, <5>2
      <4> QED  BY <4>3, <4>4
    <3> QED  BY <3>1
  <2>2. IsFiniteSet(F)
    BY <1>1, ImageIsFinite
  <2>3. weights(section) = F \cup {last} /\ last \in Int
    <3>1. {Weight(asked, i, section) : i \in 1 .. n} = F
      OBVIOUS
    <3>2. {Weight(asked, i, section) : i \in DOMAIN asked} = F
      BY <1>1, <3>1
    <3>3. weights(section) = {Weight(asked, i, section) : i \in DOMAIN asked} \cup {last}
      OBVIOUS
    <3> HIDE DEF F, weights
    <3> QED  BY <3>2, <3>3
  <2>4. F \in SUBSET Int
    BY <2>1
  <2> HIDE DEF F, last, weights
  <2>5. IsFiniteSet(F \cup {last})
    BY <2>2, FS_AddElement
  <2>6. Max(F \cup {last}) \in F \cup {last}
    <3>1. F \cup {last} \in SUBSET Int /\ F \cup {last} # {}
      BY <2>3, <2>4
    <3> QED  BY <2>5, <3>1, MaxIsThere
  <2> QED  BY <2>3, <2>4, <2>6
<1> HIDE DEF weights, boosted, asked
<1>4. route.boost = [section \in boosted |-> Max(weights(section))]
      /\ route.exclude = IF "related" \in ToSet(asked) THEN {"front_matter"} ELSE {"reference", "front_matter"}
  BY <1>2
<1> HIDE DEF route
<1>5. ASSUME NEW section PROVE SectionBoost(route, section) \in Int
  <2>1. SectionBoost(route, section) = IF section \in DOMAIN route.boost THEN SECTION_BOOST * route.boost[section] ELSE 0
    BY DEF SectionBoost
  <2>2. section \in DOMAIN route.boost => route.boost[section] = Max(weights(section))
    BY <1>4
  <2>3. SECTION_BOOST \in Nat /\ Max(weights(section)) \in Int
    BY <1>3, RetrievalAssumption
  <2> QED  BY <2>1, <2>2, <2>3
<1>6. route.exclude \subseteq {"reference", "front_matter"}
  BY <1>4
<1> QED  BY <1>5, <1>6 DEF route

\* A number goes at least once into one that is no less.
LEMMA GoesOnce ==
  ASSUME NEW a \in Nat \ {0}, NEW b \in Nat \ {0}, b <= a
  PROVE  a \div b \in Nat \ {0}
OBVIOUS

\* What a rank adds to a score is more than nothing.
LEMMA ShareIs ==
  ASSUME NEW rank \in 1 .. RERANK_CANDIDATES
  PROVE  Share(rank) \in Nat \ {0}
<1> DEFINE n == RERANK_CANDIDATES
           s == [i \in 1 .. n |-> RRF_K + i]
<1>1. RRF_K \in Nat /\ n \in Nat /\ rank \in Nat \ {0}
  BY RetrievalAssumption
<1>2. s \in [1 .. n -> Nat \ {0}]
  BY <1>1
<1>3. s \in Seq(Nat \ {0})
  BY <1>1, <1>2, FunctionIsSeq
<1>4. Product(s) \in Nat \ {0} /\ s[rank] <= Product(s)
  <2>1. rank \in DOMAIN s
    BY <1>2
  <2> HIDE DEF s
  <2> QED  BY <1>3, <2>1, ProductIs
<1>5. Denominator = Product(s) /\ s[rank] = RRF_K + rank
  BY DEF Denominator
<1> HIDE DEF s
<1> QED  BY <1>1, <1>4, <1>5, GoesOnce DEF Share

\* Fusion lists each chunk found once, with more than no score.
LEMMA FusionIs ==
  ASSUME NEW W, NEW raw \in Seq([chunk : W, rank : 1 .. RERANK_CANDIDATES, similarity : Int]), NEW topK \in Nat \ {0}
  PROVE  /\ ReciprocalRankFusion(raw, topK) \in Seq([chunk : W, rrf : Nat \ {0}, similarity : Int])
         /\ raw # <<>> => ReciprocalRankFusion(raw, topK) # <<>>
<1> DEFINE n == Len(raw)
           Entry == [chunk : W, rrf : Nat \ {0}, similarity : Int]
           of(i) == {j \in DOMAIN raw : raw[j].chunk.id = raw[i].chunk.id}
           shares(i) == [j \in DOMAIN raw |-> IF j \in of(i) THEN Share(raw[j].rank) ELSE 0]
           nears(i) == {raw[j].similarity : j \in of(i)}
           entry(i) == [chunk |-> raw[i].chunk, rrf |-> Total(shares(i)), similarity |-> Max(nears(i))]
           entries == [i \in DOMAIN raw |-> entry(i)]
           I == {i \in DOMAIN raw : i = Min(of(i))}
           firsts == Kept(entries, I)
           keys == [i \in DOMAIN firsts |-> firsts[i].rrf]
           sorted == Ordered(firsts, keys)
<1>1. /\ n \in Nat /\ DOMAIN raw = 1 .. n
      /\ \A i \in 1 .. n : raw[i].chunk \in W /\ raw[i].rank \in 1 .. RERANK_CANDIDATES /\ raw[i].similarity \in Int
  <2> DEFINE R == [chunk : W, rank : 1 .. RERANK_CANDIDATES, similarity : Int]
  <2>1. \A c \in R : c.chunk \in W /\ c.rank \in 1 .. RERANK_CANDIDATES /\ c.similarity \in Int
    OBVIOUS
  <2>2. raw \in Seq(R)
    OBVIOUS
  <2> HIDE DEF R
  <2> QED  BY <2>1, <2>2
<1>2. ReciprocalRankFusion(raw, topK) = Top(sorted, topK)
  BY DEF ReciprocalRankFusion, Best
<1>3. ASSUME NEW i \in 1 .. n PROVE entry(i) \in Entry
  <2>1. i \in of(i) /\ of(i) \in SUBSET (1 .. n)
    BY <1>1
  <2>2. Total(shares(i)) \in Nat \ {0}
    <3>1. \A j \in 1 .. n : Share(raw[j].rank) \in Nat \ {0}
      BY <1>1, ShareIs
    <3>2. shares(i) \in [1 .. n -> Nat] /\ shares(i)[i] = Share(raw[i].rank) /\ DOMAIN shares(i) = 1 .. n
      BY <1>1, <2>1, <3>1
    <3>3. shares(i) \in Seq(Nat)
      BY <1>1, <3>2, FunctionIsSeq
    <3> HIDE DEF shares
    <3>4. Total(shares(i)) \in Nat /\ shares(i)[i] <= Total(shares(i))
      BY <3>2, <3>3, TotalIs
    <3>5. shares(i)[i] \in Nat \ {0}
      BY <3>1, <3>2
    <3> QED  BY <3>4, <3>5
  <2>3. Max(nears(i)) \in Int
    <3> DEFINE f == [j \in 1 .. n |-> raw[j].similarity]
               F == {f[j] : j \in 1 .. n}
    <3>1. IsFiniteSet(F)
      BY <1>1, ImageIsFinite
    <3>2. nears(i) \in SUBSET F /\ nears(i) \in SUBSET Int /\ nears(i) # {}
      BY <1>1, <2>1
    <3> HIDE DEF F, nears
    <3>3. IsFiniteSet(nears(i))
      BY <3>1, <3>2, FS_Subset
    <3>4. Max(nears(i)) \in nears(i)
      BY <3>2, <3>3, MaxIsThere
    <3> QED  BY <3>2, <3>4
  <2> QED  BY <1>1, <2>2, <2>3
<1>4. entries \in Seq(Entry) /\ DOMAIN entries = 1 .. n
  <2>1. entries \in [1 .. n -> Entry]
    BY <1>1, <1>3
  <2> HIDE DEF entries
  <2> QED  BY <1>1, <2>1, FunctionIsSeq
<1>5. I \in SUBSET DOMAIN entries
  BY <1>1, <1>4
<1>6. raw # <<>> => 1 \in I
  <2>1. raw # <<>> => 1 \in of(1) /\ of(1) \in SUBSET (1 .. n) /\ of(1) \in SUBSET Nat /\ of(1) # {} /\ 1 \in 1 .. n
    BY <1>1
  <2>2. raw # <<>> => Min(of(1)) \in of(1) /\ Min(of(1)) <= 1
    <3> HIDE DEF of
    <3> QED  BY <2>1, MinIsThere
  <2> QED  BY <1>1, <2>1, <2>2
<1> HIDE DEF entries, I
<1>7. firsts \in Seq(Entry) /\ (I # {} => firsts # <<>>)
  <2>1. firsts \in Seq(Entry) /\ \A i \in I : Rank(I, i) \in DOMAIN firsts
    BY <1>4, <1>5, KeptIs
  <2> QED  BY <2>1
<1> HIDE DEF firsts
<1>8. keys \in [DOMAIN firsts -> Int]
  <2>1. \A e \in Entry : e.rrf \in Int
    OBVIOUS
  <2> HIDE DEF Entry
  <2>2. \A i \in DOMAIN firsts : firsts[i].rrf \in Int
    BY <1>7, <2>1
  <2> QED  BY <2>2
<1>9. sorted \in Seq(Entry) /\ Len(sorted) = Len(firsts)
  <2> HIDE DEF keys
  <2> QED  BY <1>7, <1>8, OrderedIs
<1>10. Top(sorted, topK) \in Seq(Entry) /\ (sorted # <<>> => Top(sorted, topK) # <<>>)
  <2>1. /\ Top(sorted, topK) \in Seq(Entry)
        /\ Len(Top(sorted, topK)) = IF topK <= Len(sorted) THEN topK ELSE Len(sorted)
    <3> HIDE DEF sorted
    <3> QED  BY <1>9, TopIs
  <2> HIDE DEF sorted
  <2> QED  BY <1>9, <2>1
<1> QED  BY <1>2, <1>6, <1>7, <1>9, <1>10

\* Hits are chunks of W.
Hits(W) == [chunk : W, similarity : Int, reranked : BOOLEAN, score : Int]

\* The cap keeps hits, among them the first.
LEMMA CapIs ==
  ASSUME NEW S, NEW ranked \in Seq(S), NEW topK \in Nat \ {0}, NEW most \in Nat
  PROVE  /\ CapPerDocument(ranked, topK, most) \in Seq(S)
         /\ ranked # <<>> => CapPerDocument(ranked, topK, most) # <<>>
<1> DEFINE before(i) == {j \in 1 .. i - 1 : ranked[j].chunk.doc = ranked[i].chunk.doc}
           I == {i \in DOMAIN ranked : most = 0 \/ Cardinality(before(i)) < most}
           kept == Kept(ranked, I)
<1>1. CapPerDocument(ranked, topK, most) = Top(kept, topK)
  BY DEF CapPerDocument
<1>2. I \in SUBSET DOMAIN ranked
  OBVIOUS
<1>3. ranked # <<>> => 1 \in I
  <2>1. before(1) = {}
    OBVIOUS
  <2>2. Cardinality(before(1)) = 0
    BY <2>1, FS_EmptySet
  <2>3. ranked # <<>> => 1 \in DOMAIN ranked
    OBVIOUS
  <2> HIDE DEF before
  <2> QED  BY <2>2, <2>3
<1> HIDE DEF I
<1>4. kept \in Seq(S) /\ \A i \in I : Rank(I, i) \in DOMAIN kept
  BY <1>2, KeptIs
<1> HIDE DEF kept
<1>5. Top(kept, topK) \in Seq(S) /\ Len(Top(kept, topK)) = IF topK <= Len(kept) THEN topK ELSE Len(kept)
  BY <1>4, TopIs
<1>6. kept # <<>> => Top(kept, topK) # <<>>
  BY <1>4, <1>5
<1> QED  BY <1>1, <1>3, <1>4, <1>5, <1>6

\* Reranking returns hits, and something if anything was found.
LEMMA RerankIs ==
  ASSUME NEW W, NEW raw \in Seq([chunk : W, rank : 1 .. RERANK_CANDIDATES, similarity : Int]),
         NEW route, \A section : SectionBoost(route, section) \in Int,
         NEW topK \in Nat \ {0}, NEW pool \in Nat \ {0}, NEW most \in Nat,
         NEW judge, \A c \in W : judge[c.id] \in Int
  PROVE  /\ Rerank(raw, route, topK, pool, most, judge) \in Seq(Hits(W))
         /\ raw # <<>> => Rerank(raw, route, topK, pool, most, judge) # <<>>
<1> DEFINE fused == ReciprocalRankFusion(raw, pool)
           skipped == ~RERANKER_ENABLED \/ (pool < RERANK_CANDIDATES /\ Len(fused) <= topK)
           own(e) == IF skipped THEN (2000 * e.rrf) \div fused[1].rrf ELSE 20 * judge[e.chunk.id]
           total(i) == own(fused[i]) + SectionBoost(route, fused[i].chunk.section)
           score(i) == Min({2000, total(i)})
           scored == [i \in DOMAIN fused |->
                        [chunk |-> fused[i].chunk, similarity |-> fused[i].similarity, reranked |-> ~skipped,
                         score |-> score(i)]]
           keys == [i \in DOMAIN scored |-> scored[i].score]
<1>1. Rerank(raw, route, topK, pool, most, judge) = CapPerDocument(Ordered(scored, keys), topK, most)
  BY DEF Rerank, Best
<1>2. /\ fused \in Seq([chunk : W, rrf : Nat \ {0}, similarity : Int])
      /\ raw # <<>> => fused # <<>>
  BY FusionIs
<1> HIDE DEF fused
<1>3. /\ DOMAIN fused = 1 .. Len(fused) /\ Len(fused) \in Nat
      /\ \A i \in DOMAIN fused : fused[i].chunk \in W /\ fused[i].rrf \in Nat \ {0} /\ fused[i].similarity \in Int
      /\ \A i \in DOMAIN fused : fused[1].rrf \in Nat \ {0}
  <2> DEFINE R == [chunk : W, rrf : Nat \ {0}, similarity : Int]
  <2>1. \A e \in R : e.chunk \in W /\ e.rrf \in Nat \ {0} /\ e.similarity \in Int
    OBVIOUS
  <2>2. fused \in Seq(R)
    BY <1>2
  <2> HIDE DEF R
  <2>3. DOMAIN fused = 1 .. Len(fused) /\ Len(fused) \in Nat /\ \A i \in DOMAIN fused : 1 \in DOMAIN fused
    BY <2>2
  <2> QED  BY <2>1, <2>2, <2>3
<1>4. ASSUME NEW i \in DOMAIN fused PROVE score(i) \in Int
  <2>1. SectionBoost(route, fused[i].chunk.section) \in Int
    OBVIOUS
  <2>2. own(fused[i]) \in Int
    <3>1. CASE skipped
      <4> DEFINE a == fused[i].rrf
                 b == fused[1].rrf
      <4>1. a \in Nat \ {0} /\ b \in Nat \ {0} /\ own(fused[i]) = (2000 * a) \div b
        BY <1>3, <3>1
      <4> HIDE DEF a, b, own
      <4> QED  BY <4>1
    <3>2. CASE ~skipped
      <4>1. judge[fused[i].chunk.id] \in Int
        BY <1>3
      <4>2. own(fused[i]) = 20 * judge[fused[i].chunk.id]
        BY <3>2
      <4> HIDE DEF own
      <4> QED  BY <4>1, <4>2
    <3> QED  BY <3>1, <3>2
  <2>3. total(i) \in Int
    BY <2>1, <2>2
  <2> HIDE DEF total
  <2>4. Min({2000, total(i)}) = IF 2000 <= total(i) THEN 2000 ELSE total(i)
    BY <2>3, MinOfTwo
  <2> QED  BY <2>3, <2>4
<1>5. scored \in Seq(Hits(W)) /\ Len(scored) = Len(fused)
  <2>1. skipped \in BOOLEAN
    OBVIOUS
  <2> HIDE DEF skipped, score
  <2>2. ASSUME NEW i \in 1 .. Len(fused) PROVE i \in DOMAIN scored /\ scored[i] \in Hits(W)
    <3>1. i \in DOMAIN fused /\ fused[i].chunk \in W /\ fused[i].similarity \in Int
      BY <1>3
    <3>2. score(i) \in Int
      BY <1>4, <3>1
    <3>3. scored[i] = [chunk |-> fused[i].chunk, similarity |-> fused[i].similarity, reranked |-> ~skipped, score |-> score(i)]
      BY <3>1
    <3>4. (~skipped) \in BOOLEAN
      BY <2>1
    <3> HIDE DEF scored
    <3>5. scored[i] \in Hits(W)
      BY <3>1, <3>2, <3>3, <3>4 DEF Hits
    <3> QED  BY <3>1, <3>5 DEF scored
  <2>3. scored \in [1 .. Len(fused) -> Hits(W)]
    <3>1. DOMAIN scored = 1 .. Len(fused) /\ scored = [i \in DOMAIN scored |-> scored[i]]
      BY <1>3
    <3> HIDE DEF scored
    <3> QED  BY <2>2, <3>1
  <2> HIDE DEF scored
  <2> QED  BY <1>3, <2>3, FunctionIsSeq
<1> HIDE DEF scored
<1>6. keys \in [DOMAIN scored -> Int]
  <2>1. \A h \in Hits(W) : h.score \in Int
    BY DEF Hits
  <2>2. \A i \in DOMAIN scored : scored[i].score \in Int
    BY <1>5, <2>1
  <2> QED  BY <2>2
<1> HIDE DEF keys
<1>7. Ordered(scored, keys) \in Seq(Hits(W)) /\ Len(Ordered(scored, keys)) = Len(scored)
  BY <1>5, <1>6, OrderedIs
<1>8. /\ CapPerDocument(Ordered(scored, keys), topK, most) \in Seq(Hits(W))
      /\ Ordered(scored, keys) # <<>> => CapPerDocument(Ordered(scored, keys), topK, most) # <<>>
  BY <1>7, CapIs
<1>9. raw # <<>> => Ordered(scored, keys) # <<>>
  BY <1>2, <1>5, <1>7
<1> QED  BY <1>1, <1>8, <1>9

\* A search for several questions returns chunks of the store that are in the
\* scope, and something when there is something with a vector.
LEMMA RetrieveMultiIs ==
  ASSUME NEW store \in Seq(StoredChunk), NEW Q, NEW questions \in Seq(Q), NEW scope,
         NEW route, \A section : SectionBoost(route, section) \in Int,
         NEW topK \in Nat \ {0}, NEW pool \in Nat \ {0}, NEW most \in Nat,
         NEW near, NEW judge, \A c \in ToSet(store) : near[c.id] \in Int /\ judge[c.id] \in Int
  PROVE  LET found == RetrieveMulti(store, questions, route, scope, topK, pool, most, near, judge)
         IN  /\ found \in Seq(Hits(Within(store, scope)))
             /\ questions # <<>> /\ Findable(store, scope, route.exclude, EMBEDDING_MODEL) # {} => found # <<>>
<1> DEFINE W == Within(store, scope)
           R == [chunk : W, rank : 1 .. RERANK_CANDIDATES, similarity : Int]
           n == Len(questions)
           found(q) == HybridSearch(store, q, scope, route.exclude, EMBEDDING_MODEL, RERANK_CANDIDATES, near)
           lists == [i \in DOMAIN questions |-> found(questions[i])]
           raw == FlattenSeq(lists)
<1>1. n \in Nat /\ DOMAIN questions = 1 .. n /\ RERANK_CANDIDATES \in Nat \ {0}
  BY RetrievalAssumption
<1>2. ASSUME NEW q PROVE /\ found(q) \in Seq(R)
                         /\ Findable(store, scope, route.exclude, EMBEDDING_MODEL) # {} => found(q) # <<>>
  BY <1>1, HybridIs DEF Candidate
<1>3. RetrieveMulti(store, questions, route, scope, topK, pool, most, near, judge)
        = Rerank(raw, route, topK, pool, most, judge)
  BY DEF RetrieveMulti
<1>4. \A c \in W : judge[c.id] \in Int
  BY DEF Within
<1> HIDE DEF found
<1>5. lists \in Seq(Seq(R)) /\ DOMAIN lists = 1 .. n /\ \A i \in 1 .. n : lists[i] = found(questions[i])
  <2>1. lists \in [1 .. n -> Seq(R)]
    <3> HIDE DEF R
    <3> QED  BY <1>1, <1>2
  <2> QED  BY <1>1, <2>1, FunctionIsSeq
<1> HIDE DEF lists
<1>6. raw \in Seq(R) /\ ToSet(raw) = UNION {ToSet(lists[i]) : i \in DOMAIN lists}
  <2> HIDE DEF R
  <2> QED  BY <1>5, FlattenIs
<1>7. questions # <<>> /\ Findable(store, scope, route.exclude, EMBEDDING_MODEL) # {} => raw # <<>>
  <2> SUFFICES ASSUME questions # <<>>, Findable(store, scope, route.exclude, EMBEDDING_MODEL) # {}
               PROVE  raw # <<>>
    OBVIOUS
  <2>1. 1 \in DOMAIN lists /\ lists[1] # <<>> /\ lists[1] \in Seq(R)
    <3>1. 1 \in 1 .. n
      BY <1>1
    <3> HIDE DEF R
    <3> QED  BY <1>2, <1>5, <3>1
  <2>2. 1 \in DOMAIN lists[1]
    BY <2>1
  <2>3. lists[1][1] \in ToSet(lists[1])
    BY <2>2 DEF ToSet
  <2>4. lists[1][1] \in ToSet(raw)
    BY <1>6, <2>1, <2>3
  <2> QED  BY <2>4 DEF ToSet
<1> HIDE DEF raw, W
<1>8. /\ Rerank(raw, route, topK, pool, most, judge) \in Seq(Hits(W))
      /\ raw # <<>> => Rerank(raw, route, topK, pool, most, judge) # <<>>
  BY <1>4, <1>6, RerankIs
<1> QED  BY <1>3, <1>7, <1>8 DEF W

\* The opinions there are of the chunks of a store.
Judges(store, near, judge) == \A c \in ToSet(store) : near[c.id] \in Int /\ judge[c.id] \in Int

\* /search returns chunks of its scope.
LEMMA RetrieveChunksIs ==
  ASSUME NEW store \in Seq(StoredChunk), NEW question \in DOMAIN Asks, NEW scope, NEW topK \in Nat \ {0},
         NEW near, NEW judge, Judges(store, near, judge)
  PROVE  RetrieveChunks(store, question, scope, topK, near, judge) \in Seq(Hits(Within(store, scope)))
<1>1. \A section : SectionBoost(RouteQuery(question), section) \in Int
  BY RouteIs
<1>2. <<question>> \in Seq(DOMAIN Asks) /\ RERANK_CANDIDATES \in Nat \ {0} /\ 0 \in Nat
  BY RetrievalAssumption
<1> DEFINE route == RouteQuery(question)
<1> HIDE DEF route
<1>3. \A section : SectionBoost(route, section) \in Int
  BY <1>1 DEF route
<1>4. RetrieveMulti(store, <<question>>, route, scope, topK, RERANK_CANDIDATES, 0, near, judge)
        \in Seq(Hits(Within(store, scope)))
  BY <1>2, <1>3, RetrieveMultiIs DEF Judges
<1> QED  BY <1>4 DEF RetrieveChunks, route

\* A question and its facets are questions.
LEMMA FacetsAreQuestions ==
  ASSUME NEW question \in DOMAIN Asks
  PROVE  SplitFacets(question) \in Seq(DOMAIN Asks)
<1> DEFINE parts == Asks[question].parts
           I == {i \in DOMAIN parts : Cardinality(Asks[parts[i]].words) >= 3}
<1>1. parts \in Seq(DOMAIN Asks) /\ I \in SUBSET DOMAIN parts
  BY VocabularyAssumption
<1>2. SplitFacets(question) = Once(<<question>> \o Top(Kept(parts, I), 3))
  BY DEF SplitFacets, Select
<1> HIDE DEF I, parts
<1>3. Kept(parts, I) \in Seq(DOMAIN Asks)
  BY <1>1, KeptIs
<1>4. Top(Kept(parts, I), 3) \in Seq(DOMAIN Asks)
  BY <1>3, TopIs
<1>5. <<question>> \o Top(Kept(parts, I), 3) \in Seq(DOMAIN Asks)
  BY <1>4
<1> QED  BY <1>2, <1>5, OnceIs

\* /ask finds chunks of its scope.
LEMMA RetrieveMergedIs ==
  ASSUME NEW store \in Seq(StoredChunk), NEW question \in DOMAIN Asks, NEW scope, NEW topK \in Nat \ {0},
         NEW near, NEW judge, Judges(store, near, judge)
  PROVE  RetrieveMerged(store, question, scope, topK, near, judge) \in Seq(Hits(Within(store, scope)))
<1> DEFINE route == RouteQuery(question)
           most == MaxPerDocument(scope, topK)
           many == Max({topK, 10})
           half == topK \div 2
<1>1. \A section : SectionBoost(route, section) \in Int
  BY RouteIs
<1>2. RERANK_CANDIDATES \in Nat \ {0}
  BY RetrievalAssumption
<1>3. many \in Nat \ {0}
  BY MaxOfTwo
<1>4. most \in Nat
  <2>1. half \in Int
    OBVIOUS
  <2>2. most = IF Len(scope.docs) = 1 THEN 0 ELSE Max({3, half})
    BY DEF MaxPerDocument
  <2> HIDE DEF half, most
  <2>3. Max({3, half}) \in Nat
    BY <2>1, MaxOfTwo
  <2> QED  BY <2>2, <2>3
<1>5. SplitFacets(question) \in Seq(DOMAIN Asks)
  BY FacetsAreQuestions
<1>6. RetrieveMerged(store, question, scope, topK, near, judge)
        = RetrieveMulti(store, SplitFacets(question), route, scope, many, RERANK_CANDIDATES, most, near, judge)
  BY DEF RetrieveMerged
<1> HIDE DEF route, most, many
<1> QED  BY <1>1, <1>2, <1>3, <1>4, <1>5, <1>6, RetrieveMultiIs DEF Judges

\* The chunks of some papers of a collection.
OfPapers(store, docs, collection) ==
  {c \in ToSet(store) : c.doc \in ToSet(docs) /\ (collection # NoCollection => CollectionOf[c.doc] = collection)}

Boosts(route) == \A section : SectionBoost(route, section) \in Int

\* Each paper that has something to find is among the hits.
FindsEach(found, store, docs, collection, exclude) ==
  \A d \in ToSet(docs) :
    Findable(store, [collection |-> collection, docs |-> <<d>>], exclude, EMBEDDING_MODEL) # {}
      => \E h \in ToSet(found) : h.chunk.doc = d

\* What a search of each paper by itself returns: chunks of these papers, and
\* at least one of each paper that has something to find.
LEMMA BalancedRetrieveIs ==
  ASSUME NEW store \in Seq(StoredChunk), NEW questions \in Seq(DOMAIN Asks) \ {<<>>}, NEW docs \in Seq(Documents),
         NEW collection, NEW perDocument \in Nat \ {0}, NEW route, Boosts(route),
         NEW near, NEW judge, Judges(store, near, judge)
  PROVE  LET hs == BalancedRetrieve(store, questions, docs, collection, perDocument, route, near, judge)
         IN  hs \in Seq(Hits(OfPapers(store, docs, collection))) /\ FindsEach(hs, store, docs, collection, route.exclude)
<1> USE DEF Boosts
<1> DEFINE P == OfPapers(store, docs, collection)
           scope(d) == [collection |-> collection, docs |-> <<d>>]
           keep == perDocument * Max({1, Len(questions)})
           share == SYNTHESIS_RERANK_BUDGET \div Max({1, Len(docs)})
           pool == Min({RERANK_CANDIDATES, Max({keep, share})})
           of(d) == RetrieveMulti(store, questions, route, scope(d), keep, pool, 0, near, judge)
           n == Len(docs)
           lists == [i \in DOMAIN docs |-> of(docs[i])]
<1>1. n \in Nat /\ DOMAIN docs = 1 .. n /\ \A i \in 1 .. n : docs[i] \in ToSet(docs)
  BY DEF ToSet
<1>2. keep \in Nat \ {0}
  <2> DEFINE m == Max({1, Len(questions)})
  <2>1. m \in Nat \ {0}
    BY MaxOfTwo
  <2>2. keep = perDocument * m
    OBVIOUS
  <2> HIDE DEF m, keep
  <2> QED  BY <2>1, <2>2, TimesGrows
<1>3. pool \in Nat \ {0}
  <2>1. share \in Int
    <3> DEFINE m == Max({1, Len(docs)})
    <3>1. m \in Nat \ {0}
      BY MaxOfTwo
    <3>2. share = SYNTHESIS_RERANK_BUDGET \div m
      OBVIOUS
    <3> HIDE DEF m, share
    <3> QED  BY <3>1, <3>2, RetrievalAssumption
  <2> HIDE DEF keep, share
  <2>2. Max({keep, share}) \in Nat \ {0}
    BY <1>2, <2>1, MaxOfTwo
  <2> DEFINE m == Max({keep, share})
  <2> HIDE DEF m
  <2>3. m \in Nat \ {0} /\ RERANK_CANDIDATES \in Nat \ {0}
    BY <2>2, RetrievalAssumption DEF m
  <2>4. Min({RERANK_CANDIDATES, m}) = IF RERANK_CANDIDATES <= m THEN RERANK_CANDIDATES ELSE m
    BY <2>3, MinOfTwo
  <2>5. Min({RERANK_CANDIDATES, m}) \in Nat \ {0}
    BY <2>3, <2>4
  <2> QED  BY <2>5 DEF m
<1>4. BalancedRetrieve(store, questions, docs, collection, perDocument, route, near, judge) = FlattenSeq(lists)
  BY DEF BalancedRetrieve
<1> HIDE DEF keep, pool
<1>5. ASSUME NEW d \in ToSet(docs)
      PROVE  /\ of(d) \in Seq(Hits(P))
             /\ \A h \in ToSet(of(d)) : h.chunk.doc = d
             /\ Findable(store, scope(d), route.exclude, EMBEDDING_MODEL) # {} => of(d) # <<>>
  <2>1. /\ of(d) \in Seq(Hits(Within(store, scope(d))))
        /\ Findable(store, scope(d), route.exclude, EMBEDDING_MODEL) # {} => of(d) # <<>>
    <3> HIDE DEF scope
    <3> QED  BY <1>2, <1>3, RetrieveMultiIs DEF Judges
  <2>2. \A c \in Within(store, scope(d)) : c \in P /\ c.doc = d
    BY DEF Within, InScope, OfPapers, ToSet
  <2> DEFINE V == Within(store, scope(d))
  <2> HIDE DEF V, of, P
  <2>3. of(d) \in Seq(Hits(V)) /\ \A c \in V : c \in P /\ c.doc = d
    BY <2>1, <2>2 DEF V
  <2>4. \A h \in Hits(V) : h \in Hits(P) /\ h.chunk.doc = d
    BY <2>3 DEF Hits
  <2>5. of(d) \in Seq(Hits(P))
    BY <2>3, <2>4
  <2>6. \A h \in ToSet(of(d)) : h \in Hits(V)
    BY <2>3 DEF ToSet
  <2> QED  BY <2>1, <2>4, <2>5, <2>6
<1> HIDE DEF of
<1>6. lists \in Seq(Seq(Hits(P))) /\ DOMAIN lists = 1 .. n /\ \A i \in 1 .. n : lists[i] = of(docs[i])
  <2>1. lists \in [1 .. n -> Seq(Hits(P))]
    BY <1>1, <1>5
  <2> QED  BY <1>1, <2>1, FunctionIsSeq
<1> HIDE DEF lists
<1>7. FlattenSeq(lists) \in Seq(Hits(P)) /\ ToSet(FlattenSeq(lists)) = UNION {ToSet(lists[i]) : i \in DOMAIN lists}
  BY <1>6, FlattenIs
<1>8. ASSUME NEW d \in ToSet(docs), Findable(store, scope(d), route.exclude, EMBEDDING_MODEL) # {}
      PROVE  \E h \in ToSet(FlattenSeq(lists)) : h.chunk.doc = d
  <2>1. PICK i \in 1 .. n : docs[i] = d
    BY <1>1 DEF ToSet
  <2>2. lists[i] = of(d) /\ lists[i] \in Seq(Hits(P)) /\ lists[i] # <<>>
    BY <1>5, <1>6, <1>8, <2>1
  <2>3. 1 \in DOMAIN lists[i]
    BY <2>2
  <2>4. lists[i][1] \in ToSet(lists[i])
    BY <2>3 DEF ToSet
  <2>5. lists[i][1] \in ToSet(FlattenSeq(lists)) /\ lists[i][1].chunk.doc = d
    BY <1>5, <1>6, <1>7, <2>2, <2>4
  <2> QED  BY <2>5
<1> QED  BY <1>4, <1>7, <1>8 DEF FindsEach
-----------------------------------------------------------------------------
(* Evidence                                                                 *)

Distinct(evidence) == \A i, j \in DOMAIN evidence : evidence[i].chunk.id = evidence[j].chunk.id => i = j

\* The evidence has each chunk found, once.
LEMMA EvidencePackIs ==
  ASSUME NEW S, NEW found \in Seq(S)
  PROVE  /\ EvidencePack(found) \in Seq(S) /\ Distinct(EvidencePack(found))
         /\ ToSet(EvidencePack(found)) \subseteq ToSet(found)
         /\ \A h \in ToSet(found) : \E b \in ToSet(EvidencePack(found)) : b.chunk.id = h.chunk.id
<1> DEFINE I == {i \in DOMAIN found : \A j \in 1 .. i - 1 : found[j].chunk.id # found[i].chunk.id}
           kept == Kept(found, I)
<1>1. EvidencePack(found) = kept
  BY DEF EvidencePack
<1>2. I \in SUBSET DOMAIN found /\ DOMAIN found = 1 .. Len(found) /\ Len(found) \in Nat
  OBVIOUS
<1>3. \A i, j \in I : i < j => found[i].chunk.id # found[j].chunk.id
  OBVIOUS
<1>4. ASSUME NEW h \in ToSet(found) PROVE \E i \in I : found[i].chunk.id = h.chunk.id
  <2> DEFINE P == {i \in DOMAIN found : found[i].chunk.id = h.chunk.id}
  <2>1. P \in SUBSET Nat /\ P # {}
    BY DEF ToSet
  <2>2. PICK m \in P : \A i \in P : m <= i
    BY <2>1, MinIsThere
  <2>3. m \in DOMAIN found /\ found[m].chunk.id = h.chunk.id /\ m \in Nat
    BY <2>1
  <2>4. ASSUME NEW j \in 1 .. m - 1 PROVE found[j].chunk.id # found[m].chunk.id
    <3>1. j \in DOMAIN found /\ ~(m <= j)
      BY <2>3
    <3> QED  BY <2>2, <2>3, <3>1
  <2> QED  BY <2>3, <2>4
<1> HIDE DEF I
<1>5. /\ kept \in Seq(S) /\ DOMAIN kept = 1 .. Cardinality(I) /\ Cardinality(I) \in Nat
      /\ \A p \in DOMAIN kept : Nth(I, p) \in I /\ kept[p] = found[Nth(I, p)]
      /\ \A i \in I : Rank(I, i) \in DOMAIN kept /\ kept[Rank(I, i)] = found[i]
      /\ \A p, q \in DOMAIN kept : p < q => Nth(I, p) < Nth(I, q)
  BY <1>2, KeptIs
<1> HIDE DEF kept
<1>6. Distinct(kept)
  <2>1. ASSUME NEW p \in DOMAIN kept, NEW q \in DOMAIN kept, p < q
        PROVE  kept[p].chunk.id # kept[q].chunk.id
    <3>1. PICK i \in I : i = Nth(I, p) /\ kept[p] = found[i]
      BY <1>5, Zenon
    <3>2. PICK j \in I : j = Nth(I, q) /\ kept[q] = found[j]
      BY <1>5, Zenon
    <3>3. i < j
      BY <1>5, <2>1, <3>1, <3>2, Zenon
    <3>4. found[i].chunk.id # found[j].chunk.id
      BY <1>3, <3>3, Zenon
    <3> QED  BY <3>1, <3>2, <3>4, Zenon
  <2>2. \A p, q \in DOMAIN kept : p \in Nat /\ q \in Nat
    BY <1>5
  <2>3. \A p, q \in DOMAIN kept : ~(p < q) /\ ~(q < p) => p = q
    BY <2>2
  <2> QED  BY <2>1, <2>3, Zenon DEF Distinct
<1>7. ToSet(kept) \subseteq ToSet(found)
  BY <1>2, <1>5 DEF ToSet
<1>8. \A i \in I : found[i] \in ToSet(kept)
  BY <1>5 DEF ToSet
<1> QED  BY <1>1, <1>4, <1>5, <1>6, <1>7, <1>8

\* Cutting the evidence leaves its chunks different.
LEMMA TopIsDistinct ==
  ASSUME NEW S, NEW evidence \in Seq(S), Distinct(evidence), NEW n \in Nat
  PROVE  Distinct(Top(evidence, n))
BY TopIs DEF Distinct

\* The number of a block is its place.
LEMMA NumberIs ==
  ASSUME NEW S, NEW evidence \in Seq(S), Distinct(evidence), NEW n \in DOMAIN evidence
  PROVE  NumberOf(evidence, evidence[n].chunk.id) = n
<1> DEFINE id == evidence[n].chunk.id
           I == {i \in 1 .. Len(evidence) : evidence[i].chunk.id = id}
<1>1. DOMAIN evidence = 1 .. Len(evidence) /\ n \in Nat
  OBVIOUS
<1>2. I = {n}
  BY <1>1 DEF Distinct
<1>3. NumberOf(evidence, id) = IF I # {} THEN Min(I) ELSE 0
  BY DEF NumberOf, SelectInSeq
<1>4. Min({n}) = n
  BY <1>1 DEF Min
<1> HIDE DEF I
<1> QED  BY <1>2, <1>3, <1>4

\* A number that is not zero is that of a block of the chunk.
LEMMA NumberOpens ==
  ASSUME NEW S, NEW evidence \in Seq(S), NEW id
  PROVE  /\ NumberOf(evidence, id) \in Nat
         /\ NumberOf(evidence, id) # 0 => /\ NumberOf(evidence, id) \in DOMAIN evidence
                                          /\ evidence[NumberOf(evidence, id)].chunk.id = id
<1> DEFINE I == {i \in 1 .. Len(evidence) : evidence[i].chunk.id = id}
<1>1. DOMAIN evidence = 1 .. Len(evidence) /\ Len(evidence) \in Nat
  OBVIOUS
<1>2. NumberOf(evidence, id) = IF I # {} THEN Min(I) ELSE 0
  BY DEF NumberOf, SelectInSeq
<1>3. I \in SUBSET Nat
  OBVIOUS
<1>4. I # {} => Min(I) \in I
  <2> HIDE DEF I
  <2> QED  BY <1>3, MinIsThere
<1> QED  BY <1>1, <1>2, <1>4

-----------------------------------------------------------------------------
(* Texts and their markers                                                  *)

Said == [of : DOMAIN Says, marks : Seq(Int)]

\* A drafted text is a list of sentences with their marks.
LEMMA TextIs == Text = Seq(Said)
BY DEF Text, Said

\* The numbers marked in some sentences.
MarkedIn(S) == UNION {ToSet(s.marks) : s \in S}

\* What is among the numbers that resolve.
LEMMA AmongHas ==
  ASSUME NEW S, NEW s \in Seq(S), NEW ok
  PROVE  Among(s, ok) \in Seq(S) /\ ToSet(Among(s, ok)) = ToSet(s) \cap ok
<1>1. /\ Among(s, ok) \in Seq(S)
      /\ \A p \in DOMAIN Among(s, ok) : Among(s, ok)[p] \in ok /\ Among(s, ok)[p] \in ToSet(s)
      /\ \A i \in Places(s, ok) : /\ Rank(Places(s, ok), i) \in DOMAIN Among(s, ok)
                                  /\ Among(s, ok)[Rank(Places(s, ok), i)] = s[i]
  BY AmongIsLeft
<1>2. ASSUME NEW x \in ToSet(s), x \in ok PROVE x \in ToSet(Among(s, ok))
  <2>1. PICK i \in Places(s, ok) : s[i] = x
    BY <1>2 DEF ToSet, Places
  <2> QED  BY <1>1, <2>1 DEF ToSet
<1>3. \A x \in ToSet(Among(s, ok)) : x \in ok /\ x \in ToSet(s)
  BY <1>1 DEF ToSet
<1> QED  BY <1>1, <1>2, <1>3

\* The markers of a text are those of its sentences.
LEMMA MarksOfIs ==
  ASSUME NEW text \in Seq(Said)
  PROVE  MarksOf(text) \in Seq(Int) /\ ToSet(MarksOf(text)) = MarkedIn(ToSet(text))
<1> DEFINE n == Len(text)
           lists == [i \in DOMAIN text |-> text[i].marks]
<1>1. n \in Nat /\ DOMAIN text = 1 .. n /\ \A i \in 1 .. n : text[i] \in Said
  OBVIOUS
<1>2. \A s \in Said : s.marks \in Seq(Int)
  BY DEF Said
<1>3. lists \in Seq(Seq(Int)) /\ DOMAIN lists = 1 .. n /\ \A i \in 1 .. n : lists[i] = text[i].marks
  <2>1. lists \in [1 .. n -> Seq(Int)]
    BY <1>1, <1>2
  <2> QED  BY <1>1, <2>1, FunctionIsSeq
<1>4. MarksOf(text) = FlattenSeq(lists)
  BY DEF MarksOf
<1> HIDE DEF lists
<1>5. FlattenSeq(lists) \in Seq(Int) /\ ToSet(FlattenSeq(lists)) = UNION {ToSet(lists[i]) : i \in DOMAIN lists}
  BY <1>3, FlattenIs
<1>6. UNION {ToSet(lists[i]) : i \in DOMAIN lists} = MarkedIn(ToSet(text))
  <2>1. ASSUME NEW x, NEW i \in DOMAIN lists, x \in ToSet(lists[i]) PROVE x \in MarkedIn(ToSet(text))
    <3>1. text[i] \in ToSet(text) /\ x \in ToSet(text[i].marks)
      BY <1>1, <1>3, <2>1 DEF ToSet
    <3> QED  BY <3>1 DEF MarkedIn
  <2>2. ASSUME NEW x \in MarkedIn(ToSet(text)) PROVE \E i \in DOMAIN lists : x \in ToSet(lists[i])
    <3>1. PICK s \in ToSet(text) : x \in ToSet(s.marks)
      BY DEF MarkedIn
    <3>2. PICK i \in 1 .. n : text[i] = s
      BY <1>1, <3>1 DEF ToSet
    <3> QED  BY <1>3, <3>1, <3>2
  <2> QED  BY <2>1, <2>2
<1> QED  BY <1>4, <1>5, <1>6

\* The numbers of a text are those it marks that are of a block.
LEMMA NumbersInIs ==
  ASSUME NEW evidence, NEW text \in Seq(Said)
  PROVE  /\ NumbersIn(evidence, text) \in Seq(Int)
         /\ ToSet(NumbersIn(evidence, text)) = MarkedIn(ToSet(text)) \cap Numbers(evidence)
<1>1. MarksOf(text) \in Seq(Int) /\ ToSet(MarksOf(text)) = MarkedIn(ToSet(text))
  BY MarksOfIs
<1>2. Once(MarksOf(text)) \in Seq(Int) /\ ToSet(Once(MarksOf(text))) = ToSet(MarksOf(text))
  BY <1>1, OnceIs
<1> QED  BY <1>1, <1>2, AmongHas DEF NumbersIn

\* Sentences with the numbers written in them and the markers made of those.
RenderedTexts == Seq([of : DOMAIN Says, written : Seq(Int), marks : Seq(Int)])

\* They are those of the draft, sentence by sentence.
SaysTheSame(r, text) == DOMAIN r = DOMAIN text /\ \A i \in DOMAIN r : r[i].of = text[i].of

\* Each marker of a rendered text is the position, in the list of what is used,
\* of the block it was written for.
LEMMA RenderIs ==
  ASSUME NEW evidence, NEW uses \in Seq(Int), NEW text \in Seq(Said),
         MarkedIn(ToSet(text)) \cap Numbers(evidence) \subseteq ToSet(uses)
  PROVE  /\ Render(evidence, uses, text) \in RenderedTexts
         /\ SaysTheSame(Render(evidence, uses, text), text)
         /\ \A i \in DOMAIN Render(evidence, uses, text) : \A k \in DOMAIN Render(evidence, uses, text)[i].marks :
              /\ Render(evidence, uses, text)[i].marks[k] \in DOMAIN Listing(uses, Numbers(evidence))
              /\ Listing(uses, Numbers(evidence))[Render(evidence, uses, text)[i].marks[k]]
                   = Render(evidence, uses, text)[i].written[k]
<1> DEFINE r == Render(evidence, uses, text)
           order == Listing(uses, Numbers(evidence))
           kept(i) == Among(text[i].marks, Numbers(evidence))
           place(x) == Position(uses, Numbers(evidence), x)
           n == Len(text)
<1>1. n \in Nat /\ DOMAIN text = 1 .. n /\ \A i \in 1 .. n : text[i] \in Said /\ text[i] \in ToSet(text)
  BY DEF ToSet
<1>2. \A s \in Said : s.of \in DOMAIN Says /\ s.marks \in Seq(Int)
  BY DEF Said
<1>3. r = [i \in 1 .. n |-> [of |-> text[i].of, written |-> kept(i), marks |-> [k \in DOMAIN kept(i) |-> place(kept(i)[k])]]]
  BY <1>1 DEF Render
<1>4. ASSUME NEW i \in 1 .. n, NEW k \in DOMAIN kept(i)
      PROVE  /\ place(kept(i)[k]) \in DOMAIN order /\ place(kept(i)[k]) \in Int
             /\ order[place(kept(i)[k])] = kept(i)[k]
  <2> DEFINE x == kept(i)[k]
  <2>1. text[i].marks \in Seq(Int)
    BY <1>1, <1>2
  <2>2. ToSet(kept(i)) = ToSet(text[i].marks) \cap Numbers(evidence)
    BY <2>1, AmongHas
  <2>3. x \in ToSet(text[i].marks) /\ x \in Numbers(evidence)
    BY <2>2 DEF ToSet
  <2>4. x \in MarkedIn(ToSet(text))
    BY <1>1, <2>3 DEF MarkedIn
  <2>5. x \in Seen(uses, Numbers(evidence))
    BY <2>3, <2>4 DEF Seen
  <2> HIDE DEF x
  <2>6. place(x) \in DOMAIN order /\ order[place(x)] = x
    BY <2>5, ListingFinds
  <2>7. place(x) \in 1 .. Cardinality(Seen(uses, Numbers(evidence))) /\ Cardinality(Seen(uses, Numbers(evidence))) \in Nat
    BY <2>5, PositionInRange, SeenIsFinite
  <2> QED  BY <2>6, <2>7 DEF x
<1>5. ASSUME NEW i \in 1 .. n
      PROVE  /\ kept(i) \in Seq(Int)
             /\ [k \in DOMAIN kept(i) |-> place(kept(i)[k])] \in Seq(Int)
             /\ text[i].of \in DOMAIN Says
  <2>1. text[i].marks \in Seq(Int) /\ text[i].of \in DOMAIN Says
    BY <1>1, <1>2
  <2>2. kept(i) \in Seq(Int)
    BY <2>1, AmongHas
  <2>3. DOMAIN kept(i) = 1 .. Len(kept(i)) /\ Len(kept(i)) \in Nat
    BY <2>2
  <2>4. [k \in DOMAIN kept(i) |-> place(kept(i)[k])] \in [1 .. Len(kept(i)) -> Int]
    BY <1>4, <2>3
  <2> HIDE DEF kept, place
  <2> QED  BY <2>1, <2>2, <2>3, <2>4, FunctionIsSeq
<1> DEFINE R == [of : DOMAIN Says, written : Seq(Int), marks : Seq(Int)]
           shown(i) == [k \in DOMAIN kept(i) |-> place(kept(i)[k])]
<1>6. \A i \in 1 .. n : shown(i) \in Seq(Int) /\ DOMAIN shown(i) = DOMAIN kept(i)
                        /\ \A k \in DOMAIN kept(i) : shown(i)[k] = place(kept(i)[k])
  BY <1>5
<1>7. r = [i \in 1 .. n |-> [of |-> text[i].of, written |-> kept(i), marks |-> shown(i)]]
  BY <1>3
<1> HIDE DEF r, shown, kept, place, order
<1>8. \A i \in 1 .. n : r[i] = [of |-> text[i].of, written |-> kept(i), marks |-> shown(i)]
  BY <1>7
<1>9. \A i \in 1 .. n : r[i].of = text[i].of /\ r[i].written = kept(i) /\ r[i].marks = shown(i) /\ r[i] \in R
  <2> SUFFICES ASSUME NEW i \in 1 .. n
               PROVE  r[i].of = text[i].of /\ r[i].written = kept(i) /\ r[i].marks = shown(i) /\ r[i] \in R
    OBVIOUS
  <2> DEFINE o == text[i].of
             w == kept(i)
             m == shown(i)
  <2>1. o \in DOMAIN Says /\ w \in Seq(Int) /\ m \in Seq(Int) /\ r[i] = [of |-> o, written |-> w, marks |-> m]
    BY <1>5, <1>6, <1>8
  <2> HIDE DEF o, w, m
  <2>2. r[i].of = o /\ r[i].written = w /\ r[i].marks = m /\ r[i] \in R
    BY <2>1
  <2> QED  BY <2>2 DEF o, w, m
<1> HIDE DEF R
<1>10. r \in Seq(R) /\ DOMAIN r = 1 .. n
  <2>1. r \in [1 .. n -> R]
    BY <1>7, <1>9
  <2> QED  BY <1>1, <2>1, FunctionIsSeq
<1>11. ASSUME NEW i \in DOMAIN r, NEW k \in DOMAIN r[i].marks
       PROVE  r[i].marks[k] \in DOMAIN order /\ order[r[i].marks[k]] = r[i].written[k]
  <2>1. i \in 1 .. n /\ r[i].marks = shown(i) /\ r[i].written = kept(i) /\ k \in DOMAIN kept(i)
    BY <1>6, <1>9, <1>10, <1>11
  <2> QED  BY <1>4, <1>6, <2>1
<1> QED  BY <1>1, <1>9, <1>10, <1>11 DEF r, order, R, RenderedTexts, SaysTheSame
-----------------------------------------------------------------------------
(* Claims and the passages shown for them                                   *)

\* A claim that a text supports has its numbers in the text, and a share of its
\* words.
LEMMA SupportIs ==
  ASSUME NEW claim \in DOMAIN Says, NEW evidence \in Seq(DOMAIN Says), IsSupported(<<claim>>, evidence)
  PROVE  /\ Says[claim].nums \subseteq UNION {Says[s].nums \cup Says[s].spelled : s \in ToSet(evidence)}
         /\ Cardinality(Says[claim].words) >= MIN_CLAIM_WORDS
              => 20 * Cardinality(Says[claim].words \cap Words(evidence)) >= 9 * Cardinality(Says[claim].words)
<1> DEFINE words == Says[claim].words
           common == Cardinality(words \cap Words(evidence))
           all == Cardinality(words)
<1>1. ToSet(<<claim>>) = {claim}
  BY DEF ToSet
<1>2. Words(<<claim>>) = words
  BY <1>1 DEF Words
<1>3. UNION {Says[s].nums : s \in ToSet(<<claim>>)} = Says[claim].nums
  BY <1>1
<1>4. MissingNumbers(<<claim>>, evidence) = {}
      /\ (Cardinality(Words(<<claim>>)) < MIN_CLAIM_WORDS \/ Covered(Words(<<claim>>), evidence, 45))
  BY DEF IsSupported, CheckClaim
<1>5. Says[claim].nums \subseteq UNION {Says[s].nums \cup Says[s].spelled : s \in ToSet(evidence)}
  <2> DEFINE A == UNION {Says[s].nums : s \in ToSet(<<claim>>)}
             B == UNION {Says[s].nums \cup Says[s].spelled : s \in ToSet(evidence)}
  <2>0. MissingNumbers(<<claim>>, evidence) = A \ B
    BY DEF MissingNumbers
  <2>1. A \ B = {}
    <3> HIDE DEF A, B
    <3> QED  BY <1>4, <2>0
  <2>2. A = Says[claim].nums
    BY <1>3
  <2> HIDE DEF A, B
  <2>3. Says[claim].nums \subseteq B
    BY <2>1, <2>2
  <2> QED  BY <2>3 DEF B
<1>6. IsFiniteSet(words) /\ all \in Nat
  BY VocabularyAssumption, FS_CardinalityType
<1>7. common \in Nat
  BY <1>6, FS_Intersection, FS_CardinalityType
<1>8. all < MIN_CLAIM_WORDS \/ 100 * common >= 45 * all
  BY <1>2, <1>4 DEF Covered
<1> HIDE DEF common, all
<1>9. MIN_CLAIM_WORDS \in Nat
  BY GroundingAssumption
<1>10. all >= MIN_CLAIM_WORDS => 20 * common >= 9 * all
  BY <1>6, <1>7, <1>8, <1>9
<1> QED  BY <1>5, <1>10 DEF all, common

\* A run of sentences is part of the text.
LEMMA RunIs ==
  ASSUME NEW text \in Seq(DOMAIN Says), NEW start \in DOMAIN text
  PROVE  Run(text, start) \in Seq(DOMAIN Says) /\ Run(text, start) # <<>> /\ ToSet(Run(text, start)) \subseteq ToSet(text)
<1> DEFINE fits(last) == last = start \/ Length(SubSeq(text, start, last)) <= WINDOW
           L == {last \in start .. Len(text) : fits(last)}
           m == Max(L)
<1>1. DOMAIN text = 1 .. Len(text) /\ Len(text) \in Nat /\ start \in 1 .. Len(text)
  OBVIOUS
<1>2. Run(text, start) = SubSeq(text, start, m)
  BY DEF Run
<1>3. L \in SUBSET (start .. Len(text)) /\ L \in SUBSET Int /\ start \in L
  BY <1>1
<1>4. IsFiniteSet(start .. Len(text))
  BY <1>1, FS_Interval
<1> HIDE DEF L
<1>5. IsFiniteSet(L)
  BY <1>3, <1>4, FS_Subset
<1>6. m \in L
  BY <1>3, <1>5, MaxIsThere
<1>7. m \in start .. Len(text)
  BY <1>3, <1>6
<1> HIDE DEF m
<1> DEFINE t == SubSeq(text, start, m)
<1>8. t = [i \in 1 .. (m - start + 1) |-> text[start + i - 1]]
  BY <1>1, <1>7
<1>9. m - start + 1 \in Nat \ {0} /\ \A i \in 1 .. (m - start + 1) : start + i - 1 \in 1 .. Len(text)
  BY <1>1, <1>7
<1>10. t \in Seq(DOMAIN Says) /\ t # <<>>
  <2> DEFINE k == m - start + 1
  <2>1. k \in Nat \ {0} /\ t = [i \in 1 .. k |-> text[start + i - 1]]
    BY <1>8, <1>9
  <2>2. \A i \in 1 .. k : text[start + i - 1] \in DOMAIN Says
    BY <1>1, <1>9
  <2> HIDE DEF k, t
  <2>3. t \in [1 .. k -> DOMAIN Says]
    BY <2>1, <2>2
  <2>4. t \in Seq(DOMAIN Says) /\ Len(t) = k
    BY <2>1, <2>3, FunctionIsSeq
  <2> QED  BY <2>1, <2>4
<1>11. DOMAIN t = 1 .. (m - start + 1) /\ \A i \in DOMAIN t : t[i] = text[start + i - 1]
  BY <1>8
<1> HIDE DEF t
<1>12. ToSet(t) \subseteq ToSet(text)
  BY <1>1, <1>9, <1>11 DEF ToSet
<1> QED  BY <1>2, <1>10, <1>12 DEF t

\* What is shown of a block is in it, and is something.
LEMMA WindowIs ==
  ASSUME NEW text \in Seq(DOMAIN Says) \ {<<>>}, NEW hint \in Seq(DOMAIN Says)
  PROVE  BestWindow(text, hint) # <<>> /\ ToSet(BestWindow(text, hint)) \subseteq ToSet(text)
<1> DEFINE n == Len(text)
           covers(i) == Cardinality(Words(Run(text, i)) \cap Words(hint))
           C == {covers(i) : i \in DOMAIN text}
           most == Max(C)
           I == {i \in DOMAIN text : covers(i) = most}
<1>1. n \in Nat /\ DOMAIN text = 1 .. n /\ 1 \in DOMAIN text
  OBVIOUS
<1>2. \A i \in 1 .. n : covers(i) \in Nat
  BY <1>1, RunIs, SharedIsCounted
<1>3. most \in C
  <2> DEFINE f == [i \in 1 .. n |-> covers(i)]
             F == {f[i] : i \in 1 .. n}
  <2>1. IsFiniteSet(F)
    BY <1>1, ImageIsFinite
  <2>2. F = C
    <3>1. {covers(i) : i \in 1 .. n} = F
      OBVIOUS
    <3> HIDE DEF F
    <3> QED  BY <1>1, <3>1
  <2>3. C \in SUBSET Int /\ C # {}
    <3> HIDE DEF covers
    <3>1. \A i \in DOMAIN text : covers(i) \in Int
      BY <1>1, <1>2
    <3> QED  BY <1>1, <3>1
  <2> HIDE DEF F, C
  <2>4. IsFiniteSet(C)
    BY <2>1, <2>2
  <2> QED  BY <2>3, <2>4, MaxIsThere
<1>4. I \in SUBSET DOMAIN text /\ I # {} /\ I \in SUBSET Nat
  <2> HIDE DEF most, covers
  <2>1. \E i \in DOMAIN text : covers(i) = most
    BY <1>3
  <2> QED  BY <1>1, <2>1
<1>5. Min(I) \in DOMAIN text
  <2> HIDE DEF I
  <2> QED  BY <1>4, MinIsThere
<1>6. BestWindow(text, hint) = IF Words(hint) = {} THEN Run(text, 1) ELSE Run(text, Min(I))
  BY DEF BestWindow
<1> HIDE DEF I
<1> QED  BY <1>1, <1>5, <1>6, RunIs

\* Chunks with something to say.
Tells(W) == \A c \in W : c.text \in Seq(DOMAIN Says) \ {<<>>}

\* Chunks that are stored say something.
LEMMA StoredTell == Tells(StoredChunk)
BY DEF Tells, StoredChunk

\* What a citation is made of.
LEMMA CiteIs ==
  ASSUME NEW W, Tells(W), NEW evidence \in Seq(Hits(W)), NEW n \in DOMAIN evidence, NEW hint \in Seq(DOMAIN Says)
  PROVE  LET c == Cite(evidence, n, hint)
         IN  /\ c.chunk = evidence[n].chunk.id /\ c.doc = evidence[n].chunk.doc
             /\ c.shown # <<>> /\ ToSet(c.shown) \subseteq ToSet(Evidence(evidence, n))
<1>1. evidence[n] \in Hits(W)
  OBVIOUS
<1>2. evidence[n].chunk \in W
  BY <1>1 DEF Hits
<1>3. Evidence(evidence, n) \in Seq(DOMAIN Says) \ {<<>>}
  BY <1>2 DEF Evidence, Tells
<1>4. BestWindow(Evidence(evidence, n), hint) # <<>>
      /\ ToSet(BestWindow(Evidence(evidence, n), hint)) \subseteq ToSet(Evidence(evidence, n))
  BY <1>3, WindowIs
<1> QED  BY <1>4 DEF Cite

Claim == [of : DOMAIN Says, numbers : Seq(Int)]

\* A claim is verified by blocks it cites that support it.
LEMMA VerifyIs ==
  ASSUME NEW W, Tells(W), NEW evidence \in Seq(Hits(W)), NEW claim \in Claim
  PROVE  LET v == Verify(evidence, claim)
         IN  /\ v.of = claim.of
             /\ v.verified <=> v.supportedBy # <<>>
             /\ \A k \in DOMAIN v.supportedBy :
                  \E n \in ToSet(claim.numbers) \cap DOMAIN evidence :
                    v.supportedBy[k].chunk = evidence[n].chunk.id /\ IsSupported(<<claim.of>>, Evidence(evidence, n))
<1> DEFINE v == Verify(evidence, claim)
           cited == Among(claim.numbers, Numbers(evidence))
           I == {i \in DOMAIN cited : IsSupported(<<claim.of>>, Evidence(evidence, cited[i]))}
           by == Kept(cited, I)
           shown == [i \in DOMAIN by |-> Cite(evidence, by[i], <<claim.of>>)]
<1>1. claim.of \in DOMAIN Says /\ claim.numbers \in Seq(Int)
  BY DEF Claim
<1>2. cited \in Seq(Int) /\ ToSet(cited) = ToSet(claim.numbers) \cap DOMAIN evidence
  BY <1>1, AmongHas DEF Numbers
<1> HIDE DEF cited
<1>3. I \in SUBSET DOMAIN cited /\ \A i \in I : IsSupported(<<claim.of>>, Evidence(evidence, cited[i]))
  OBVIOUS
<1>4. v.of = claim.of /\ v.supportedBy = shown /\ (v.verified <=> by # <<>>)
  BY DEF Verify, Select, cited
<1> HIDE DEF v, I
<1>5. /\ by \in Seq(Int) /\ DOMAIN by = 1 .. Cardinality(I) /\ Cardinality(I) \in Nat
      /\ \A p \in DOMAIN by : Nth(I, p) \in I /\ by[p] = cited[Nth(I, p)]
  <2>1. ASSUME NEW s \in Seq(Int), NEW J \in SUBSET DOMAIN s
        PROVE  /\ Kept(s, J) \in Seq(Int) /\ DOMAIN Kept(s, J) = 1 .. Cardinality(J) /\ Cardinality(J) \in Nat
               /\ \A p \in DOMAIN Kept(s, J) : Nth(J, p) \in J /\ Kept(s, J)[p] = s[Nth(J, p)]
    BY KeptIs
  <2> QED  BY <1>2, <1>3, <2>1, Zenon
<1> HIDE DEF by
<1>6. ASSUME NEW k \in DOMAIN by
      PROVE  by[k] \in ToSet(claim.numbers) \cap DOMAIN evidence /\ IsSupported(<<claim.of>>, Evidence(evidence, by[k]))
  <2>1. by[k] \in ToSet(cited)
    BY <1>3, <1>5 DEF ToSet
  <2> QED  BY <1>2, <1>3, <1>5, <2>1
<1>7. DOMAIN shown = DOMAIN by /\ \A k \in DOMAIN by : shown[k].chunk = evidence[by[k]].chunk.id
  BY DEF Cite
<1>8. shown # <<>> <=> by # <<>>
  BY <1>5, <1>7
<1> HIDE DEF shown
<1>9. ASSUME NEW k \in DOMAIN shown
      PROVE  \E n \in ToSet(claim.numbers) \cap DOMAIN evidence :
               shown[k].chunk = evidence[n].chunk.id /\ IsSupported(<<claim.of>>, Evidence(evidence, n))
  BY <1>6, <1>7
<1> QED  BY <1>4, <1>8, <1>9 DEF v
-----------------------------------------------------------------------------
(* Replies                                                                  *)

\* What Grounded says of a reply r from the evidence.
Opens(r, evidence) ==
  \A i \in DOMAIN r.text : \A k \in DOMAIN r.text[i].marks :
    /\ r.text[i].marks[k] \in DOMAIN r.citations
    /\ r.citations[r.text[i].marks[k]].chunk = evidence[r.text[i].written[k]].chunk.id

Reaches(r, evidence, scope) ==
  \A c \in ToSet(r.citations) :
    c.doc = evidence[NumberOf(evidence, c.chunk)].chunk.doc /\ InScope(c.doc, scope)

Block(evidence, chunk) == Evidence(evidence, NumberOf(evidence, chunk))

HeldBy(evidence, chunk, claim) ==
  /\ NumberOf(evidence, chunk) # 0
  /\ Says[claim].nums \subseteq UNION {Says[s].nums \cup Says[s].spelled : s \in ToSet(Block(evidence, chunk))}
  /\ Cardinality(Says[claim].words) >= MIN_CLAIM_WORDS
       => 20 * Cardinality(Says[claim].words \cap Words(Block(evidence, chunk))) >= 9 * Cardinality(Says[claim].words)

Proven(r, evidence) ==
  /\ \A i \in DOMAIN r.claims :
       /\ r.claims[i].verified <=> r.claims[i].supportedBy # <<>>
       /\ \A k \in DOMAIN r.claims[i].supportedBy :
            /\ HeldBy(evidence, r.claims[i].supportedBy[k].chunk, r.claims[i].of)
            /\ \E c \in ToSet(r.citations) : c.chunk = r.claims[i].supportedBy[k].chunk
  /\ \A c \in ToSet(r.citations) : ToSet(c.shown) \subseteq ToSet(Block(evidence, c.chunk)) /\ c.shown # <<>>
  /\ ~r.insufficient => r.citations # <<>> /\ ~OpensWithRefusal(r.text)

Scoped(W, scope) == \A c \in W : InScope(c.doc, scope)

\* The list of what is used opens every marker of a text, and reaches the
\* evidence, whatever else a citation says.
LEMMA ListOpens ==
  ASSUME NEW W, NEW scope, Scoped(W, scope), NEW evidence \in Seq(Hits(W)), Distinct(evidence),
         NEW uses \in Seq(Int), NEW text \in Seq(Said), MarkedIn(ToSet(text)) \cap Numbers(evidence) \subseteq ToSet(uses),
         NEW r, r.text = Render(evidence, uses, text),
         DOMAIN r.citations = DOMAIN Listing(uses, Numbers(evidence)),
         \A p \in DOMAIN r.citations : /\ r.citations[p].chunk = evidence[Listing(uses, Numbers(evidence))[p]].chunk.id
                                       /\ r.citations[p].doc = evidence[Listing(uses, Numbers(evidence))[p]].chunk.doc
  PROVE  Opens(r, evidence) /\ Reaches(r, evidence, scope)
<1> DEFINE order == Listing(uses, Numbers(evidence))
           t == Render(evidence, uses, text)
<1>1. \A i \in DOMAIN t : \A k \in DOMAIN t[i].marks : t[i].marks[k] \in DOMAIN order /\ order[t[i].marks[k]] = t[i].written[k]
  BY RenderIs
<1>2. \A p \in DOMAIN order : order[p] \in DOMAIN evidence
  BY ListingIsExact DEF Seen, Numbers
<1> HIDE DEF order, t
<1>3. Opens(r, evidence)
  BY <1>1 DEF Opens, order, t
<1>4. ASSUME NEW c \in ToSet(r.citations)
      PROVE  c.doc = evidence[NumberOf(evidence, c.chunk)].chunk.doc /\ InScope(c.doc, scope)
  <2>1. PICK p \in DOMAIN r.citations : r.citations[p] = c
    BY DEF ToSet
  <2>2. PICK n \in DOMAIN evidence : n = order[p]
    BY <1>2, <2>1 DEF order
  <2>3. c.chunk = evidence[n].chunk.id /\ c.doc = evidence[n].chunk.doc
    BY <2>1, <2>2 DEF order
  <2>4. NumberOf(evidence, c.chunk) = n
    BY <2>3, NumberIs
  <2>5. evidence[n].chunk \in W
    <3>1. evidence[n] \in Hits(W)
      OBVIOUS
    <3> QED  BY <3>1 DEF Hits
  <2> QED  BY <2>3, <2>4, <2>5 DEF Scoped
<1> QED  BY <1>3, <1>4 DEF Reaches

\* A sequence of lists of numbers, one after the other.
LEMMA NumbersOf ==
  ASSUME NEW S, NEW s \in Seq(S), NEW list, \A i \in DOMAIN s : list[i] \in Seq(Int), DOMAIN list = DOMAIN s
  PROVE  /\ FlattenSeq([i \in DOMAIN s |-> list[i]]) \in Seq(Int)
         /\ \A i \in DOMAIN s : ToSet(list[i]) \subseteq ToSet(FlattenSeq([j \in DOMAIN s |-> list[j]]))
<1> DEFINE lists == [i \in DOMAIN s |-> list[i]]
<1>1. DOMAIN s = 1 .. Len(s) /\ Len(s) \in Nat
  OBVIOUS
<1>2. lists \in Seq(Seq(Int)) /\ DOMAIN lists = DOMAIN s /\ \A i \in DOMAIN s : lists[i] = list[i]
  <2>1. lists \in [1 .. Len(s) -> Seq(Int)]
    BY <1>1
  <2> QED  BY <1>1, <2>1, FunctionIsSeq
<1> HIDE DEF lists
<1>3. FlattenSeq(lists) \in Seq(Int) /\ ToSet(FlattenSeq(lists)) = UNION {ToSet(lists[i]) : i \in DOMAIN lists}
  BY <1>2, FlattenIs
<1>4. ASSUME NEW i \in DOMAIN s PROVE ToSet(list[i]) \subseteq ToSet(FlattenSeq(lists))
  BY <1>2, <1>3
<1> QED  BY <1>3, <1>4 DEF lists

\* What a draft says of a block is sentences.
LEMMA SaidIs ==
  ASSUME NEW n, NEW answer \in Seq(Said), NEW claims \in Seq(Claim), NEW d, d.answer = answer, d.claims = claims
  PROVE  SaidOf(n, d) \in Seq(DOMAIN Says)
<1> DEFINE I == {i \in DOMAIN answer : n \in ToSet(answer[i].marks)}
           J == {i \in DOMAIN claims : n \in ToSet(claims[i].numbers)}
           a == Kept(answer, I)
           b == Kept(claims, J)
<1>1. SaidOf(n, d) = Sentences(a) \o Sentences(b)
  BY DEF SaidOf, Select
<1>2. I \in SUBSET DOMAIN answer /\ J \in SUBSET DOMAIN claims
  OBVIOUS
<1> HIDE DEF I, J
<1>3. a \in Seq(Said) /\ b \in Seq(Claim)
  BY <1>2, KeptIs
<1> HIDE DEF a, b
<1>4. \A s \in Said : s.of \in DOMAIN Says
  BY DEF Said
<1>5. \A c \in Claim : c.of \in DOMAIN Says
  BY DEF Claim
<1>6. Sentences(a) \in Seq(DOMAIN Says)
  <2>1. Len(a) \in Nat
    BY <1>3
  <2>2. Sentences(a) \in [1 .. Len(a) -> DOMAIN Says]
    BY <1>3, <1>4 DEF Sentences
  <2> QED  BY <2>1, <2>2, FunctionIsSeq
<1>7. Sentences(b) \in Seq(DOMAIN Says)
  <2>1. Len(b) \in Nat
    BY <1>3
  <2>2. Sentences(b) \in [1 .. Len(b) -> DOMAIN Says]
    BY <1>3, <1>5 DEF Sentences
  <2> QED  BY <2>1, <2>2, FunctionIsSeq
<1> QED  BY <1>1, <1>6, <1>7

\* Every answer is grounded: its markers open the blocks the draft named, its
\* verified claims are held by blocks it cites, and an answer without citations
\* says so (build_structured_answer).
LEMMA AnswerIs ==
  ASSUME NEW W, Tells(W), NEW scope, Scoped(W, scope), NEW evidence \in Seq(Hits(W)), Distinct(evidence),
         NEW d \in AnswerDraft
  PROVE  LET r == BuildStructuredAnswer(d, evidence)
         IN  r.kind = "answer" /\ Opens(r, evidence) /\ Reaches(r, evidence, scope) /\ Proven(r, evidence)
<1> DEFINE r == BuildStructuredAnswer(d, evidence)
           claims == d.claims
           named == NumbersIn(evidence, d.answer)
           claimed == FlattenSeq([i \in DOMAIN claims |-> claims[i].numbers])
           uses == named \o claimed
           order == Listing(uses, Numbers(evidence))
           verified == [i \in DOMAIN claims |-> Verify(evidence, claims[i])]
           cites == [p \in DOMAIN order |-> Cite(evidence, order[p], SaidOf(order[p], d))]
           text == Render(evidence, uses, d.answer)
<1>1. d.answer \in Seq(Said) /\ claims \in Seq(Claim)
  BY TextIs DEF AnswerDraft, Claim
<1>2. /\ r.kind = "answer" /\ r.text = text /\ r.citations = cites /\ r.claims = verified
      /\ ~r.insufficient => order # <<>> /\ ~OpensWithRefusal(d.answer)
  BY DEF BuildStructuredAnswer
<1> HIDE DEF r
<1>3. named \in Seq(Int) /\ ToSet(named) = MarkedIn(ToSet(d.answer)) \cap Numbers(evidence)
  BY <1>1, NumbersInIs
<1>4. claimed \in Seq(Int) /\ \A i \in DOMAIN claims : ToSet(claims[i].numbers) \subseteq ToSet(claimed)
  <2> DEFINE list == [i \in DOMAIN claims |-> claims[i].numbers]
  <2>1. \A c \in Claim : c.numbers \in Seq(Int)
    BY DEF Claim
  <2>2. DOMAIN list = DOMAIN claims /\ \A i \in DOMAIN claims : list[i] = claims[i].numbers
    OBVIOUS
  <2>3. \A i \in DOMAIN claims : list[i] \in Seq(Int)
    BY <1>1, <2>1, <2>2
  <2>4. list = [i \in DOMAIN claims |-> list[i]]
    OBVIOUS
  <2>5. claimed = FlattenSeq(list)
    OBVIOUS
  <2> HIDE DEF list, claimed
  <2>6. FlattenSeq(list) \in Seq(Int) /\ \A i \in DOMAIN claims : ToSet(list[i]) \subseteq ToSet(FlattenSeq(list))
    BY <1>1, <2>2, <2>3, <2>4, NumbersOf
  <2> QED  BY <2>2, <2>5, <2>6
<1> HIDE DEF named, claimed
<1>5. uses \in Seq(Int) /\ ToSet(uses) = ToSet(named) \cup ToSet(claimed)
  BY <1>3, <1>4, ConcatHas
<1> HIDE DEF uses
<1>6. \A p \in DOMAIN order : order[p] \in DOMAIN evidence
  BY <1>5, ListingIsExact DEF Seen, Numbers
<1>7. \A n \in ToSet(uses) \cap DOMAIN evidence : \E p \in DOMAIN order : order[p] = n
  <2> SUFFICES ASSUME NEW n \in ToSet(uses) \cap DOMAIN evidence PROVE \E p \in DOMAIN order : order[p] = n
    OBVIOUS
  <2>1. n \in Seen(uses, Numbers(evidence))
    BY DEF Seen, Numbers
  <2>2. Position(uses, Numbers(evidence), n) \in DOMAIN order /\ order[Position(uses, Numbers(evidence), n)] = n
    BY <1>5, <2>1, ListingFinds
  <2> QED  BY <2>2
<1> HIDE DEF order
<1>8. ASSUME NEW p \in DOMAIN order
      PROVE  /\ cites[p].chunk = evidence[order[p]].chunk.id /\ cites[p].doc = evidence[order[p]].chunk.doc
             /\ cites[p].shown # <<>> /\ ToSet(cites[p].shown) \subseteq ToSet(Evidence(evidence, order[p]))
  <2>1. SaidOf(order[p], d) \in Seq(DOMAIN Says)
    BY <1>1, SaidIs
  <2>2. order[p] \in DOMAIN evidence
    BY <1>6
  <2>3. cites[p] = Cite(evidence, order[p], SaidOf(order[p], d))
    OBVIOUS
  <2> HIDE DEF cites
  <2> QED  BY <2>1, <2>2, <2>3, CiteIs
<1>9. DOMAIN cites = DOMAIN order
  OBVIOUS
<1> HIDE DEF cites
<1>10. Opens(r, evidence) /\ Reaches(r, evidence, scope)
  <2>1. MarkedIn(ToSet(d.answer)) \cap Numbers(evidence) \subseteq ToSet(uses)
    BY <1>3, <1>5
  <2> HIDE DEF text
  <2>2. r.text = Render(evidence, uses, d.answer)
    BY <1>2 DEF text
  <2>3. /\ DOMAIN r.citations = DOMAIN Listing(uses, Numbers(evidence))
        /\ \A p \in DOMAIN r.citations : /\ r.citations[p].chunk = evidence[Listing(uses, Numbers(evidence))[p]].chunk.id
                                         /\ r.citations[p].doc = evidence[Listing(uses, Numbers(evidence))[p]].chunk.doc
    BY <1>2, <1>8, <1>9 DEF order
  <2> QED  BY <1>1, <1>5, <2>1, <2>2, <2>3, ListOpens
<1>11. ASSUME NEW i \in DOMAIN verified
       PROVE  /\ verified[i].verified <=> verified[i].supportedBy # <<>>
              /\ \A k \in DOMAIN verified[i].supportedBy :
                   /\ HeldBy(evidence, verified[i].supportedBy[k].chunk, verified[i].of)
                   /\ \E c \in ToSet(cites) : c.chunk = verified[i].supportedBy[k].chunk
  <2>1. i \in DOMAIN claims /\ claims[i] \in Claim /\ verified[i] = Verify(evidence, claims[i])
    BY <1>1
  <2> DEFINE v == verified[i]
  <2> HIDE DEF verified
  <2>2. /\ v.of = claims[i].of
        /\ v.verified <=> v.supportedBy # <<>>
        /\ \A k \in DOMAIN v.supportedBy :
             \E n \in ToSet(claims[i].numbers) \cap DOMAIN evidence :
               v.supportedBy[k].chunk = evidence[n].chunk.id /\ IsSupported(<<claims[i].of>>, Evidence(evidence, n))
    BY <2>1, VerifyIs
  <2>3. ASSUME NEW k \in DOMAIN v.supportedBy
        PROVE  /\ HeldBy(evidence, v.supportedBy[k].chunk, v.of)
               /\ \E c \in ToSet(cites) : c.chunk = v.supportedBy[k].chunk
    <3>1. PICK n \in ToSet(claims[i].numbers) \cap DOMAIN evidence :
            v.supportedBy[k].chunk = evidence[n].chunk.id /\ IsSupported(<<claims[i].of>>, Evidence(evidence, n))
      BY <2>2
    <3>2. NumberOf(evidence, evidence[n].chunk.id) = n /\ n # 0
      BY NumberIs
    <3>3. Evidence(evidence, n) \in Seq(DOMAIN Says) /\ claims[i].of \in DOMAIN Says
      <4>1. evidence[n] \in Hits(W)
        OBVIOUS
      <4>2. evidence[n].chunk \in W
        BY <4>1 DEF Hits
      <4> QED  BY <2>1, <4>2 DEF Evidence, Tells, Claim
    <3>4. HeldBy(evidence, evidence[n].chunk.id, claims[i].of)
      BY <3>1, <3>2, <3>3, SupportIs DEF HeldBy, Block
    <3>5. n \in ToSet(uses)
      BY <1>4, <1>5, <2>1
    <3>6. PICK p \in DOMAIN order : order[p] = n
      BY <1>7, <3>5
    <3>7. cites[p] \in ToSet(cites) /\ cites[p].chunk = evidence[n].chunk.id
      BY <1>8, <1>9, <3>6 DEF ToSet
    <3> QED  BY <2>2, <3>1, <3>4, <3>7
  <2> QED  BY <2>2, <2>3
<1>12. ASSUME NEW c \in ToSet(cites) PROVE ToSet(c.shown) \subseteq ToSet(Block(evidence, c.chunk)) /\ c.shown # <<>>
  <2>1. PICK p \in DOMAIN order : cites[p] = c
    BY <1>9 DEF ToSet
  <2>2. NumberOf(evidence, c.chunk) = order[p]
    BY <1>6, <1>8, <2>1, NumberIs
  <2> QED  BY <1>8, <2>1, <2>2 DEF Block
<1>13. ~r.insufficient => cites # <<>> /\ ~OpensWithRefusal(text)
  <2>1. order # <<>> => cites # <<>>
    <3>1. DOMAIN order = 1 .. Cardinality(Seen(uses, Numbers(evidence)))
      BY DEF order, Listing
    <3>2. Cardinality(Seen(uses, Numbers(evidence))) \in Nat
      BY <1>5, SeenIsFinite
    <3>3. DOMAIN order = {} => order = <<>>
      BY <3>1, <3>2 DEF order, Listing
    <3> QED  BY <1>9, <3>3
  <2>2. DOMAIN text = DOMAIN d.answer /\ \A i \in DOMAIN text : text[i].of = d.answer[i].of
        /\ text \in RenderedTexts
    <3>1. MarkedIn(ToSet(d.answer)) \cap Numbers(evidence) \subseteq ToSet(uses)
      BY <1>3, <1>5
    <3>2. d.answer \in Seq(Said) /\ uses \in Seq(Int)
      BY <1>1, <1>5
    <3> DEFINE said == d.answer
    <3> HIDE DEF said
    <3>3. said \in Seq(Said) /\ uses \in Seq(Int) /\ MarkedIn(ToSet(said)) \cap Numbers(evidence) \subseteq ToSet(uses)
      BY <3>1, <3>2 DEF said
    <3>4. Render(evidence, uses, said) \in RenderedTexts /\ SaysTheSame(Render(evidence, uses, said), said)
      BY <3>3, RenderIs, Zenon
    <3> QED  BY <3>4 DEF said, SaysTheSame
  <2> HIDE DEF text
  <2>3. OpensWithRefusal(text) => OpensWithRefusal(d.answer)
    <3>1. text # <<>> => 1 \in DOMAIN text /\ d.answer # <<>>
      BY <1>1, <2>2 DEF RenderedTexts
    <3> QED  BY <2>2, <3>1 DEF OpensWithRefusal
  <2> QED  BY <1>2, <2>1, <2>3
<1> HIDE DEF verified, text
<1>14. Proven(r, evidence)
  BY <1>2, <1>11, <1>12, <1>13 DEF Proven
<1> QED  BY <1>2, <1>10, <1>14 DEF r
-----------------------------------------------------------------------------
(* Cards and the evidence they name                                         *)

Different(s) == \A i, j \in DOMAIN s : s[i] = s[j] => i = j

\* A part of a list of different members has different members.
LEMMA KeptIsDifferent ==
  ASSUME NEW S, NEW s \in Seq(S), Different(s), NEW I \in SUBSET DOMAIN s
  PROVE  Different(Kept(s, I))
<1>1. /\ DOMAIN Kept(s, I) = 1 .. Cardinality(I) /\ Cardinality(I) \in Nat
      /\ \A p \in DOMAIN Kept(s, I) : Nth(I, p) \in I /\ Kept(s, I)[p] = s[Nth(I, p)]
      /\ \A p, q \in DOMAIN Kept(s, I) : p < q => Nth(I, p) < Nth(I, q)
      /\ I \in SUBSET Nat
  BY KeptIs
<1> SUFFICES ASSUME NEW p \in DOMAIN Kept(s, I), NEW q \in DOMAIN Kept(s, I), Kept(s, I)[p] = Kept(s, I)[q]
             PROVE  p = q
  BY DEF Different
<1>2. Nth(I, p) \in I /\ Nth(I, q) \in I /\ Nth(I, p) = Nth(I, q)
  BY <1>1 DEF Different
<1>3. p \in Nat /\ q \in Nat /\ Nth(I, p) \in Nat
  BY <1>1, <1>2
<1>4. ~(p < q) /\ ~(q < p)
  BY <1>1, <1>2, <1>3
<1> QED  BY <1>3, <1>4

\* A list of values each once has different members.
LEMMA OnceIsDifferent ==
  ASSUME NEW S, NEW s \in Seq(S)
  PROVE  Different(Once(s))
<1> DEFINE I == {i \in DOMAIN s : \A j \in 1 .. i - 1 : s[j] # s[i]}
<1>1. Once(s) = Kept(s, I) /\ I \in SUBSET DOMAIN s
  BY DEF Once
<1>2. \A i, j \in I : i < j => s[i] # s[j]
  OBVIOUS
<1> HIDE DEF I
<1>3. /\ DOMAIN Kept(s, I) = 1 .. Cardinality(I) /\ Cardinality(I) \in Nat
      /\ \A p \in DOMAIN Kept(s, I) : Nth(I, p) \in I /\ Kept(s, I)[p] = s[Nth(I, p)]
      /\ \A p, q \in DOMAIN Kept(s, I) : p < q => Nth(I, p) < Nth(I, q)
  BY <1>1, KeptIs
<1> SUFFICES ASSUME NEW p \in DOMAIN Kept(s, I), NEW q \in DOMAIN Kept(s, I), Kept(s, I)[p] = Kept(s, I)[q]
             PROVE  p = q
  BY <1>1 DEF Different
<1>4. p \in Nat /\ q \in Nat
  BY <1>3
<1>5. ~(p < q) /\ ~(q < p)
  BY <1>2, <1>3
<1> QED  BY <1>4, <1>5

\* The grounded points of a card are points of it.
LEMMA GroundedOfIs ==
  ASSUME NEW profile \in Seq(Point), NEW field
  PROVE  GroundedOf(profile, field) \in Seq(Point) /\ ToSet(GroundedOf(profile, field)) \subseteq ToSet(profile)
<1> DEFINE I == {i \in DOMAIN profile : profile[i].grounded /\ profile[i].field = field}
<1>1. I \in SUBSET DOMAIN profile /\ GroundedOf(profile, field) = Kept(profile, I)
  BY DEF GroundedOf, Select
<1> HIDE DEF I
<1> QED  BY <1>1, KeptHas

\* The grounded points of several fields are points of the card.
LEMMA GroundedInIs ==
  ASSUME NEW profile \in Seq(Point), NEW F, NEW fields \in Seq(F)
  PROVE  GroundedIn(profile, fields) \in Seq(Point) /\ ToSet(GroundedIn(profile, fields)) \subseteq ToSet(profile)
<1> DEFINE f == [k \in DOMAIN fields |-> GroundedOf(profile, fields[k])]
<1>1. \A k \in DOMAIN fields : f[k] \in Seq(Point) /\ ToSet(f[k]) \subseteq ToSet(profile)
  BY GroundedOfIs
<1>2. f \in [DOMAIN fields -> Seq(Point)]
  BY <1>1
<1>3. GroundedIn(profile, fields) = FlattenSeq(f)
  BY DEF GroundedIn
<1> HIDE DEF f
<1>4. FlattenSeq(f) \in Seq(Point) /\ ToSet(FlattenSeq(f)) = UNION {ToSet(f[k]) : k \in DOMAIN fields}
  BY <1>2, FlattenEach
<1> QED  BY <1>1, <1>3, <1>4

\* The chunks of the points of a card.
ChunksOf(profile) == {q.chunk : q \in ToSet(profile)}

\* The chunks of some points, listed.
LEMMA PointChunks ==
  ASSUME NEW points \in Seq(Point)
  PROVE  LET ids == Each(points, LAMBDA q : q.chunk)
         IN  ids \in Seq(STRING) /\ ToSet(ids) = ChunksOf(points)
<1> DEFINE ids == [i \in DOMAIN points |-> points[i].chunk]
<1>1. Each(points, LAMBDA q : q.chunk) = ids
  BY DEF Each
<1>2. \A q \in Point : q.chunk \in STRING
  BY DEF Point
<1>3. ids \in [DOMAIN points -> STRING] /\ \A i \in DOMAIN points : ids[i] = points[i].chunk
  BY <1>2
<1> HIDE DEF ids
<1>4. ids \in Seq(STRING) /\ DOMAIN ids = DOMAIN points
  BY <1>3, EachIs
<1>5. ToSet(ids) = ChunksOf(points)
  BY <1>3, <1>4 DEF ToSet, ChunksOf
<1> QED  BY <1>1, <1>4, <1>5

Paper == [doc : Documents, profile : Seq(Point)]

\* The ids the cards of the papers name are of points of these cards.
LEMMA ProfileEvidenceIs ==
  ASSUME NEW ps \in Seq(Paper), NEW F, NEW fields \in Seq(F)
  PROVE  ProfileEvidenceIds(ps, fields) \in Seq(UNION {ChunksOf(ps[i].profile) : i \in DOMAIN ps})
<1> DEFINE n == Len(ps)
           X == UNION {ChunksOf(ps[i].profile) : i \in DOMAIN ps}
           D == Seq(X)
           named(i) == Once(Each(GroundedIn(ps[i].profile, fields), LAMBDA q : q.chunk))
           fresh(i, a) == Top(Kept(named(i), {k \in DOMAIN named(i) : named(i)[k] \notin ToSet(a)}), PROFILE_EVIDENCE_PER_PAPER)
           Ids(f) == f = [i \in 0 .. n |-> IF i = 0 THEN <<>> ELSE f[i - 1] \o fresh(i, f[i - 1])]
           ids == CHOOSE f : Ids(f)
           step == [i \in 1 .. n |-> [a \in D |-> a \o fresh(i, a)]]
<1>1. n \in Nat /\ DOMAIN ps = 1 .. n /\ \A i \in 1 .. n : ps[i] \in Paper
  OBVIOUS
<1>2. PROFILE_EVIDENCE_PER_PAPER \in Nat
  BY SynthesisAssumption
<1>3. ASSUME NEW i \in 1 .. n PROVE named(i) \in D
  <2>1. ps[i].profile \in Seq(Point)
    BY <1>1 DEF Paper
  <2> DEFINE g == GroundedIn(ps[i].profile, fields)
             e == Each(g, LAMBDA q : q.chunk)
  <2>2. g \in Seq(Point) /\ ToSet(g) \subseteq ToSet(ps[i].profile)
    BY <2>1, GroundedInIs
  <2> HIDE DEF g
  <2>3. e \in Seq(STRING) /\ ToSet(e) = ChunksOf(g)
    BY <2>2, PointChunks
  <2>4. ToSet(e) \subseteq X
    <3> SUFFICES ASSUME NEW x \in ToSet(e) PROVE x \in X
      OBVIOUS
    <3>1. PICK q \in ToSet(g) : x = q.chunk
      BY <2>3 DEF ChunksOf
    <3>2. x \in ChunksOf(ps[i].profile)
      BY <2>2, <3>1 DEF ChunksOf
    <3> QED  BY <1>1, <3>2
  <2> HIDE DEF e, X
  <2>5. e \in Seq(X)
    <3>1. \A k \in DOMAIN e : e[k] \in X
      BY <2>4 DEF ToSet
    <3> QED  BY <2>3, <3>1
  <2>6. Once(e) \in Seq(X)
    BY <2>5, OnceIs
  <2> QED  BY <2>6 DEF e, g
<1> HIDE DEF named, X
<1>4. ASSUME NEW i \in 1 .. n, NEW a \in D PROVE a \o fresh(i, a) \in D
  <2> DEFINE I == {k \in DOMAIN named(i) : named(i)[k] \notin ToSet(a)}
  <2>1. I \in SUBSET DOMAIN named(i)
    OBVIOUS
  <2> HIDE DEF I
  <2>2. Kept(named(i), I) \in Seq(X)
    BY <1>3, <2>1, KeptIs
  <2>3. Top(Kept(named(i), I), PROFILE_EVIDENCE_PER_PAPER) \in Seq(X)
    BY <1>2, <2>2, TopIs
  <2> QED  BY <2>3 DEF I
<1> HIDE DEF fresh
<1>5. \E f : Ids(f)
  <2>1. step \in [1 .. n -> [D -> D]]
    BY <1>4
  <2>2. \A k \in 1 .. n : \A a \in D : step[k][a] = a \o fresh(k, a)
    OBVIOUS
  <2>3. <<>> \in D
    OBVIOUS
  <2> HIDE DEF step, n, D
  <2>4. PICK g : Runs(g, D, n, <<>>, step)
    BY <1>1, <2>1, <2>3, RecursionExists
  <2>5. g \in [0 .. n -> D] /\ g[0] = <<>> /\ \A i \in 1 .. n : g[i] = step[i][g[i - 1]]
    BY <2>4 DEF Runs
  <2>6. ASSUME NEW k \in 0 .. n PROVE g[k] = IF k = 0 THEN <<>> ELSE g[k - 1] \o fresh(k, g[k - 1])
    <3>1. k # 0 => k \in 1 .. n /\ k - 1 \in 0 .. n
      BY <1>1
    <3> QED  BY <2>2, <2>5, <3>1
  <2>7. g = [k \in 0 .. n |-> g[k]]
    BY <2>5
  <2>8. Ids(g)
    BY <2>6, <2>7
  <2> QED  BY <2>8
<1>6. Ids(ids)
  BY <1>5
<1>7. ProfileEvidenceIds(ps, fields) = ids[n]
  BY DEF ProfileEvidenceIds, Select, ids, fresh, named
<1> HIDE DEF ids
<1>8. \A k \in 0 .. n : ids[k] = IF k = 0 THEN <<>> ELSE ids[k - 1] \o fresh(k, ids[k - 1])
  BY <1>6
<1> DEFINE A == {k \in Nat : k <= n => ids[k] \in D}
<1>9. 0 \in A
  <2>1. 0 \in 0 .. n /\ <<>> \in D
    BY <1>1
  <2>2. ids[0] = <<>>
    BY <1>8, <2>1
  <2> QED  BY <2>1, <2>2
<1>10. ASSUME NEW k \in Nat, k \in A PROVE k + 1 \in A
  <2> SUFFICES ASSUME k + 1 <= n PROVE ids[k + 1] \in D
    OBVIOUS
  <2>1. PICK m \in 1 .. n : m = k + 1
    BY <1>1
  <2>2. m \in 0 .. n /\ m # 0 /\ m - 1 = k
    BY <2>1
  <2>3. ids[m] = ids[m - 1] \o fresh(m, ids[m - 1])
    BY <1>8, <2>2
  <2>4. ids[m - 1] \in D
    BY <1>1, <1>10, <2>2
  <2>5. ids[m] \in D
    BY <1>4, <2>3, <2>4
  <2> QED  BY <2>1, <2>5
<1> HIDE DEF A
<1>11. n \in A
  BY <1>1, <1>9, <1>10, SetInduction
<1> QED  BY <1>1, <1>7, <1>11 DEF A, X

\* The chunks of some ids that are still stored, as hits.
LEMMA ChunksByIdsIs ==
  ASSUME NEW store, NEW I, NEW ids \in Seq(I)
  PROVE  LET found == ChunksByIds(store, ids)
         IN  /\ found \in Seq(Hits({c \in ToSet(store) : c.id \in ToSet(ids)}))
             /\ Different(ids) => Distinct(found)
<1> DEFINE W == {c \in ToSet(store) : c.id \in ToSet(ids)}
           J == {i \in DOMAIN ids : \E c \in ToSet(store) : c.id = ids[i]}
           here == Kept(ids, J)
           one(id) == CHOOSE c \in ToSet(store) : c.id = id
           found == [i \in DOMAIN here |-> [chunk |-> one(here[i]), similarity |-> -1, reranked |-> FALSE, score |-> 0]]
<1>1. ChunksByIds(store, ids) = found
  BY DEF ChunksByIds, Each, Select
<1>2. J \in SUBSET DOMAIN ids /\ \A i \in J : ids[i] \in ToSet(ids) /\ \E c \in ToSet(store) : c.id = ids[i]
  BY DEF ToSet
<1> HIDE DEF J
<1>3. here \in Seq(I) /\ \A p \in DOMAIN here : Nth(J, p) \in J /\ here[p] = ids[Nth(J, p)]
  BY <1>2, KeptIs
<1>4. Different(ids) => Different(here)
  BY <1>2, KeptIsDifferent
<1> HIDE DEF here
<1>5. ASSUME NEW p \in DOMAIN here PROVE one(here[p]) \in W /\ one(here[p]).id = here[p]
  <2>1. here[p] \in ToSet(ids) /\ \E c \in ToSet(store) : c.id = here[p]
    BY <1>2, <1>3
  <2> QED  BY <2>1
<1> HIDE DEF one, W
<1>6. ASSUME NEW p \in DOMAIN here PROVE found[p] \in Hits(W) /\ found[p].chunk.id = here[p]
  BY <1>5 DEF Hits
<1>7. found \in [DOMAIN here -> Hits(W)]
  <2>1. found = [i \in DOMAIN here |-> found[i]]
    OBVIOUS
  <2> HIDE DEF found
  <2> QED  BY <1>6, <2>1
<1> HIDE DEF found
<1>8. found \in Seq(Hits(W)) /\ DOMAIN found = DOMAIN here
  BY <1>3, <1>7, EachIs
<1>9. Different(ids) => Distinct(found)
  BY <1>4, <1>6, <1>8 DEF Different, Distinct
<1> QED  BY <1>1, <1>8, <1>9 DEF W

\* The evidence of a summary: the stored chunks the card names, each once.
LEMMA SummaryPackIs ==
  ASSUME NEW store, NEW profile \in Seq(Point)
  PROVE  /\ SummaryPack(store, profile) \in Seq(Hits({c \in ToSet(store) : c.id \in ChunksOf(profile)}))
         /\ Distinct(SummaryPack(store, profile))
<1> DEFINE g == GroundedIn(profile, PROFILE_FIELDS)
           e == Each(g, LAMBDA q : q.chunk)
           ids == Once(e)
           W == {c \in ToSet(store) : c.id \in ToSet(ids)}
           V == {c \in ToSet(store) : c.id \in ChunksOf(profile)}
<1>1. g \in Seq(Point) /\ ToSet(g) \subseteq ToSet(profile)
  <2>1. PICK F : /\ "contributions" \in F /\ "methods" \in F /\ "datasets" \in F /\ "metrics" \in F /\ "key_results" \in F
                 /\ "baselines" \in F /\ "limitations" \in F /\ "assumptions" \in F /\ "future_work" \in F
    <3> DEFINE F == {"contributions", "methods", "datasets", "metrics", "key_results", "baselines", "limitations",
                     "assumptions", "future_work"}
    <3> WITNESS F
    <3> QED  OBVIOUS
  <2>2. PROFILE_FIELDS \in Seq(F)
    BY <2>1 DEF PROFILE_FIELDS
  <2> QED  BY <2>2, GroundedInIs
<1>2. SummaryPack(store, profile) = ChunksByIds(store, ids)
  BY DEF SummaryPack
<1> HIDE DEF g
<1>3. e \in Seq(STRING) /\ ToSet(e) = ChunksOf(g)
  BY <1>1, PointChunks
<1> HIDE DEF e
<1>4. ids \in Seq(STRING) /\ ToSet(ids) = ToSet(e) /\ Different(ids)
  BY <1>3, OnceIs, OnceIsDifferent
<1> HIDE DEF ids
<1>5. ChunksByIds(store, ids) \in Seq(Hits(W)) /\ Distinct(ChunksByIds(store, ids))
  BY <1>4, ChunksByIdsIs
<1>6. W \subseteq V
  BY <1>1, <1>3, <1>4 DEF ChunksOf
<1> HIDE DEF W, V
<1>7. Hits(W) \subseteq Hits(V)
  BY <1>6 DEF Hits
<1>8. ChunksByIds(store, ids) \in Seq(Hits(V))
  BY <1>5, <1>7
<1> QED  BY <1>2, <1>5, <1>8 DEF V
-----------------------------------------------------------------------------
(* The papers take turns                                                    *)

\* More whole times some length, less than once more.
LEMMA TimesLess ==
  ASSUME NEW a \in Nat, NEW b \in Nat, a < b, NEW m \in Nat
  PROVE  a * m \in Nat /\ b * m \in Nat /\ a * m + m <= b * m
<1>1. PICK c \in Nat : b = a + 1 + c
  <2>1. b - (a + 1) \in Nat /\ b = a + 1 + (b - (a + 1))
    OBVIOUS
  <2> QED  BY <2>1
<1>2. (a + 1 + c) * m = a * m + m + c * m
  OBVIOUS
<1>3. a * m \in Nat /\ c * m \in Nat
  OBVIOUS
<1> QED  BY <1>1, <1>2, <1>3

DocsOf(found) == {h.chunk.doc : h \in ToSet(found)}

\* The parts of Gather.
Turn(all, i) == Cardinality({j \in 1 .. i : all[j].chunk.doc = all[i].chunk.doc})
Papers(all)  == Once(Each(all, LAMBDA h : h.chunk.doc))
Seat(all, i) == CHOOSE k \in DOMAIN Papers(all) : Papers(all)[k] = all[i].chunk.doc
Line(all) ==
  Each(Best([i \in DOMAIN all |-> i], LAMBDA i : -(Turn(all, i) * Len(Papers(all)) + Seat(all, i))), LAMBDA i : all[i])

\* The turn of a hit is that of the hits of its paper up to it.
LEMMA TurnIs ==
  ASSUME NEW all, NEW n \in Nat, NEW i \in 1 .. n
  PROVE  /\ Turn(all, i) \in Nat \ {0}
         /\ (\A j \in 1 .. i - 1 : all[j].chunk.doc # all[i].chunk.doc) => Turn(all, i) = 1
         /\ \A k \in 1 .. i - 1 : all[k].chunk.doc = all[i].chunk.doc => Turn(all, k) < Turn(all, i)
<1> DEFINE T(k) == {j \in 1 .. k : all[j].chunk.doc = all[k].chunk.doc}
<1>1. \A k \in 1 .. n : IsFiniteSet(T(k)) /\ Cardinality(T(k)) \in Nat /\ k \in T(k) /\ Turn(all, k) = Cardinality(T(k))
  <2> SUFFICES ASSUME NEW k \in 1 .. n
               PROVE IsFiniteSet(T(k)) /\ Cardinality(T(k)) \in Nat /\ k \in T(k) /\ Turn(all, k) = Cardinality(T(k))
    OBVIOUS
  <2>1. IsFiniteSet(1 .. k)
    BY FS_Interval
  <2>2. T(k) \subseteq 1 .. k /\ k \in T(k)
    OBVIOUS
  <2>3. IsFiniteSet(T(k))
    BY <2>1, <2>2, FS_Subset
  <2> QED  BY <2>2, <2>3, FS_CardinalityType DEF Turn
<1>2. Turn(all, i) # 0
  <2>1. T(i) # {}
    OBVIOUS
  <2> QED  BY <1>1, <2>1, FS_EmptySet
<1>3. ASSUME \A j \in 1 .. i - 1 : all[j].chunk.doc # all[i].chunk.doc PROVE Turn(all, i) = 1
  <2>1. \A j \in 1 .. i : j = i \/ j \in 1 .. i - 1
    OBVIOUS
  <2>2. T(i) = {i}
    BY <1>3, <2>1
  <2> QED  BY <1>1, <2>2, FS_Singleton
<1>4. ASSUME NEW k \in 1 .. i - 1, all[k].chunk.doc = all[i].chunk.doc PROVE Turn(all, k) < Turn(all, i)
  <2>1. T(k) \subseteq T(i) /\ i \notin T(k) /\ i \in T(i) /\ k \in 1 .. n
    BY <1>4
  <2>2. T(k) # T(i)
    BY <2>1
  <2> HIDE DEF T
  <2>3. IsFiniteSet(T(i)) /\ T(k) \subseteq T(i) /\ T(k) # T(i)
    BY <1>1, <2>1, <2>2
  <2>4. Cardinality(T(k)) <= Cardinality(T(i)) /\ (Cardinality(T(k)) = Cardinality(T(i)) => T(k) = T(i))
    BY <2>3, FS_Subset
  <2>5. Cardinality(T(k)) < Cardinality(T(i))
    BY <1>1, <2>1, <2>3, <2>4
  <2> QED  BY <1>1, <2>1, <2>5
<1> QED  BY <1>1, <1>2, <1>3, <1>4

\* The seat of a hit is that of its paper.
LEMMA SeatIs ==
  ASSUME NEW W, NEW all \in Seq(Hits(W))
  PROVE  /\ Len(Papers(all)) \in Nat
         /\ \A i \in DOMAIN all : Seat(all, i) \in 1 .. Len(Papers(all))
         /\ \A i, k \in DOMAIN all : all[i].chunk.doc = all[k].chunk.doc => Seat(all, i) = Seat(all, k)
<1> DEFINE ds == [i \in DOMAIN all |-> all[i].chunk.doc]
           D == {all[i].chunk.doc : i \in DOMAIN all}
<1>1. Papers(all) = Once(ds)
  BY DEF Papers, Each
<1>2. ds \in [DOMAIN all -> D] /\ \A i \in DOMAIN all : ds[i] = all[i].chunk.doc
  OBVIOUS
<1> HIDE DEF ds, D
<1>3. ds \in Seq(D) /\ DOMAIN ds = DOMAIN all
  BY <1>2, EachIs
<1>4. Once(ds) \in Seq(D) /\ ToSet(Once(ds)) = ToSet(ds)
  BY <1>3, OnceIs
<1>5. ASSUME NEW i \in DOMAIN all PROVE Seat(all, i) \in 1 .. Len(Papers(all))
  <2>1. ds[i] \in ToSet(Once(ds))
    BY <1>3, <1>4 DEF ToSet
  <2>2. \E k \in DOMAIN Papers(all) : Papers(all)[k] = all[i].chunk.doc
    BY <1>1, <1>2, <2>1 DEF ToSet
  <2>3. Seat(all, i) \in DOMAIN Papers(all)
    BY <2>2 DEF Seat
  <2> QED  BY <1>1, <1>4, <2>3
<1>6. \A i, k \in DOMAIN all : all[i].chunk.doc = all[k].chunk.doc => Seat(all, i) = Seat(all, k)
  BY DEF Seat
<1> QED  BY <1>1, <1>4, <1>5, <1>6

\* When a paper has a second turn every other has had its first.
LEMMA LineIs ==
  ASSUME NEW W, NEW all \in Seq(Hits(W))
  PROVE  /\ Line(all) \in Seq(Hits(W)) /\ ToSet(Line(all)) = ToSet(all)
         /\ \A a \in DOMAIN Line(all) : \A b \in 1 .. a - 1 : Line(all)[a].chunk.doc = Line(all)[b].chunk.doc =>
              \A d \in DocsOf(all) : \E c \in 1 .. a - 1 : Line(all)[c].chunk.doc = d
<1> DEFINE n == Len(all)
           s == [i \in DOMAIN all |-> i]
           m == Len(Papers(all))
           cost(i) == Turn(all, i) * m + Seat(all, i)
           keys == [i \in DOMAIN s |-> -cost(s[i])]
           order == Ordered(s, keys)
           at(p) == InOrder(keys, p)
<1>1. n \in Nat /\ DOMAIN all = 1 .. n /\ m \in Nat
  BY SeatIs
<1>2. s \in Seq(1 .. n) /\ DOMAIN s = 1 .. n /\ \A i \in 1 .. n : s[i] = i
  <2>1. s \in [DOMAIN all -> 1 .. n] /\ \A i \in 1 .. n : s[i] = i
    BY <1>1
  <2> QED  BY <1>1, <2>1, EachIs
<1>3. \A i \in 1 .. n : Turn(all, i) \in Nat \ {0} /\ Seat(all, i) \in 1 .. m
  BY <1>1, TurnIs, SeatIs
<1> HIDE DEF n, m
<1>4. ASSUME NEW i \in 1 .. n PROVE cost(i) \in Nat
  <2>1. 0 * m + m <= Turn(all, i) * m /\ Turn(all, i) * m \in Nat
    <3>1. Turn(all, i) \in Nat /\ 0 < Turn(all, i)
      BY <1>3
    <3> QED  BY <1>1, <3>1, TimesLess
  <2> QED  BY <1>1, <1>3, <2>1
<1>5. ASSUME NEW i \in 1 .. n, NEW k \in 1 .. n, Turn(all, k) < Turn(all, i) PROVE cost(k) <= cost(i)
                /\ (Seat(all, k) = Seat(all, i) => cost(k) < cost(i)) /\ (Turn(all, k) = 1 => cost(k) < cost(i))
  <2>1. Turn(all, k) * m + m <= Turn(all, i) * m /\ Turn(all, k) * m \in Nat /\ Turn(all, i) * m \in Nat
    <3>1. Turn(all, i) \in Nat /\ Turn(all, k) \in Nat
      BY <1>3
    <3> QED  BY <1>1, <1>5, <3>1, TimesLess
  <2>2. Seat(all, i) \in 1 .. m /\ Seat(all, k) \in 1 .. m
    BY <1>3
  <2> QED  BY <1>1, <2>1, <2>2
<1> HIDE DEF cost
<1>6. keys \in [DOMAIN s -> Int] /\ \A i \in 1 .. n : keys[i] = -cost(i)
  BY <1>2, <1>4
<1> HIDE DEF s, keys
<1>7. /\ order \in Seq(1 .. n) /\ Len(order) = Len(s)
      /\ \A p \in DOMAIN s : InOrder(keys, p) \in DOMAIN s /\ order[p] = s[InOrder(keys, p)]
      /\ \A i \in DOMAIN s : \E p \in DOMAIN s : InOrder(keys, p) = i
      /\ \A p, q \in DOMAIN s : p < q =>
              LET i == InOrder(keys, p)
                  k == InOrder(keys, q)
              IN  keys[i] > keys[k] \/ (keys[i] = keys[k] /\ i < k)
  BY <1>2, <1>6, OrderedIs
<1>8. DOMAIN order = 1 .. n
  BY <1>1, <1>2, <1>7
<1>9. \A p \in 1 .. n : at(p) \in 1 .. n /\ order[p] = at(p)
  BY <1>2, <1>7
<1>10. ASSUME NEW p \in 1 .. n, NEW q \in 1 .. n, p < q
       PROVE  at(p) # at(q) /\ cost(at(p)) <= cost(at(q))
  <2>1. keys[at(p)] > keys[at(q)] \/ (keys[at(p)] = keys[at(q)] /\ at(p) < at(q))
    BY <1>2, <1>7, <1>10
  <2>2. at(p) \in 1 .. n /\ at(q) \in 1 .. n
    BY <1>9
  <2>3. keys[at(p)] = -cost(at(p)) /\ keys[at(q)] = -cost(at(q)) /\ cost(at(p)) \in Nat /\ cost(at(q)) \in Nat
    BY <1>4, <1>6, <2>2
  <2>4. at(p) \in Int /\ at(q) \in Int
    BY <2>2
  <2> QED  BY <2>1, <2>3, <2>4
<1>11. \A i \in 1 .. n : \E p \in 1 .. n : at(p) = i
  BY <1>2, <1>7
<1>12. Line(all) = [p \in DOMAIN order |-> all[order[p]]]
  BY DEF Line, Each, Best, order, keys, cost, m, s
<1> HIDE DEF order, at
<1> DEFINE line == Line(all)
<1>13. line \in Seq(Hits(W)) /\ DOMAIN line = 1 .. n /\ \A p \in 1 .. n : line[p] = all[at(p)]
  <2>1. \A p \in 1 .. n : all[order[p]] \in Hits(W) /\ order[p] = at(p)
    BY <1>1, <1>9
  <2>2. line \in [1 .. n -> Hits(W)]
    BY <1>8, <1>12, <2>1
  <2>3. line \in Seq(Hits(W))
    BY <1>1, <2>2, FunctionIsSeq
  <2> QED  BY <1>8, <1>12, <2>1, <2>3
<1> HIDE DEF line
<1>14. ToSet(line) = ToSet(all)
  BY <1>1, <1>9, <1>11, <1>13 DEF ToSet
<1>15. ASSUME NEW a \in DOMAIN line, NEW b \in 1 .. a - 1, line[a].chunk.doc = line[b].chunk.doc, NEW d \in DocsOf(all)
       PROVE  \E c \in 1 .. a - 1 : line[c].chunk.doc = d
  <2>1. a \in 1 .. n /\ b \in 1 .. n /\ b < a
    BY <1>1, <1>13
  <2>2. at(a) \in 1 .. n /\ at(b) \in 1 .. n /\ at(b) # at(a) /\ cost(at(b)) <= cost(at(a))
    BY <1>9, <1>10, <2>1
  <2>3. all[at(a)].chunk.doc = all[at(b)].chunk.doc
    BY <1>13, <1>15, <2>1
  <2>4. Seat(all, at(a)) = Seat(all, at(b))
    BY <1>1, <2>2, <2>3, SeatIs
  <2>5. ~(at(a) < at(b))
    <3> SUFFICES ASSUME at(a) < at(b) PROVE FALSE
      OBVIOUS
    <3>1. at(a) \in 1 .. at(b) - 1
      BY <2>2
    <3>2. Turn(all, at(a)) < Turn(all, at(b))
      BY <1>1, <2>2, <2>3, <3>1, TurnIs
    <3>3. cost(at(a)) < cost(at(b))
      BY <1>5, <2>2, <2>4, <3>2
    <3> QED  BY <1>4, <2>2, <3>3
  <2>6. Turn(all, at(b)) < Turn(all, at(a))
    <3>1. at(b) \in 1 .. at(a) - 1
      BY <2>2, <2>5
    <3> QED  BY <1>1, <2>2, <2>3, <3>1, TurnIs
  <2>7. PICK h \in ToSet(all) : h.chunk.doc = d
    BY DEF DocsOf
  <2> DEFINE P == {i \in 1 .. n : all[i].chunk.doc = d}
  <2>8. P \in SUBSET Nat /\ P # {}
    BY <1>1, <2>7 DEF ToSet
  <2>9. PICK f \in P : \A i \in P : f <= i
    BY <2>8, MinIsThere
  <2>10. f \in 1 .. n /\ all[f].chunk.doc = d /\ \A j \in 1 .. f - 1 : all[j].chunk.doc # all[f].chunk.doc
    <3>1. f \in 1 .. n /\ all[f].chunk.doc = d
      OBVIOUS
    <3>2. ASSUME NEW j \in 1 .. f - 1 PROVE all[j].chunk.doc # all[f].chunk.doc
      <4>1. j \in 1 .. n /\ ~(f <= j)
        BY <1>1, <3>1
      <4> QED  BY <2>9, <3>1, <4>1
    <3> QED  BY <3>1, <3>2
  <2>11. Turn(all, f) = 1
    BY <1>1, <2>10, TurnIs
  <2>12. Turn(all, f) < Turn(all, at(a))
    BY <1>3, <2>2, <2>6, <2>11
  <2>13. cost(f) < cost(at(a))
    BY <1>5, <2>2, <2>10, <2>11, <2>12
  <2>14. PICK c \in 1 .. n : at(c) = f
    BY <1>11, <2>10
  <2>15. ~(a < c) /\ a # c
    <3>1. a < c => cost(at(a)) <= cost(at(c))
      BY <1>10, <2>1
    <3>2. cost(f) \in Nat /\ cost(at(a)) \in Nat
      BY <1>4, <2>2, <2>10
    <3> QED  BY <2>13, <2>14, <3>1, <3>2
  <2>16. c \in 1 .. a - 1
    BY <2>1, <2>15
  <2> QED  BY <1>13, <2>10, <2>14, <2>16
<1> QED  BY <1>13, <1>14, <1>15 DEF line

\* A chunk belongs to one paper.
OneDoc(W) == \A c, e \in W : c.id = e.id => c.doc = e.doc

TakesTurns(evidence, docs) ==
  \A i \in DOMAIN evidence : \A j \in 1 .. i - 1 : evidence[i].chunk.doc = evidence[j].chunk.doc =>
    \A d \in docs : \E k \in 1 .. i - 1 : evidence[k].chunk.doc = d

\* A chunk met again costs its paper the turn, and no other paper anything.
LEMMA PackTakesTurns ==
  ASSUME NEW W, OneDoc(W), NEW line \in Seq(Hits(W)), TakesTurns(line, DocsOf(line))
  PROVE  TakesTurns(EvidencePack(line), DocsOf(line))
<1> DEFINE I == {i \in DOMAIN line : \A j \in 1 .. i - 1 : line[j].chunk.id # line[i].chunk.id}
           kept == Kept(line, I)
<1>1. EvidencePack(line) = kept /\ I \in SUBSET DOMAIN line /\ DOMAIN line = 1 .. Len(line) /\ Len(line) \in Nat
  BY DEF EvidencePack
<1>2. ASSUME NEW c \in DOMAIN line PROVE \E i \in I : i <= c /\ line[i].chunk.doc = line[c].chunk.doc
  <2> DEFINE P == {i \in DOMAIN line : line[i].chunk.id = line[c].chunk.id}
  <2>1. P \in SUBSET Nat /\ c \in P
    BY <1>1
  <2>2. PICK m \in P : \A i \in P : m <= i
    BY <2>1, MinIsThere
  <2>3. m \in DOMAIN line /\ line[m].chunk.id = line[c].chunk.id /\ m <= c
    BY <2>1, <2>2
  <2>4. ASSUME NEW j \in 1 .. m - 1 PROVE line[j].chunk.id # line[m].chunk.id
    <3>1. j \in DOMAIN line /\ ~(m <= j)
      BY <1>1, <2>3
    <3> QED  BY <2>2, <2>3, <3>1
  <2>5. line[m].chunk \in W /\ line[c].chunk \in W
    <3>1. line[m] \in Hits(W) /\ line[c] \in Hits(W)
      BY <2>3
    <3> QED  BY <3>1 DEF Hits
  <2>6. line[m].chunk.doc = line[c].chunk.doc
    BY <2>3, <2>5 DEF OneDoc
  <2> QED  BY <2>3, <2>4, <2>6
<1> HIDE DEF I
<1>3. /\ DOMAIN kept = 1 .. Cardinality(I) /\ Cardinality(I) \in Nat
      /\ \A p \in DOMAIN kept : Nth(I, p) \in I /\ kept[p] = line[Nth(I, p)]
      /\ \A i \in I : Rank(I, i) \in DOMAIN kept /\ Nth(I, Rank(I, i)) = i /\ kept[Rank(I, i)] = line[i]
      /\ \A p, q \in DOMAIN kept : p < q => Nth(I, p) < Nth(I, q)
  BY <1>1, KeptIs
<1> HIDE DEF kept
<1> SUFFICES ASSUME NEW p \in DOMAIN kept, NEW q \in 1 .. p - 1, kept[p].chunk.doc = kept[q].chunk.doc, NEW d \in DocsOf(line)
             PROVE  \E k \in 1 .. p - 1 : kept[k].chunk.doc = d
  BY <1>1 DEF TakesTurns
<1>4. q \in DOMAIN kept /\ q < p /\ p \in Nat
  BY <1>3
<1> DEFINE a == Nth(I, p)
           b == Nth(I, q)
<1>5. a \in DOMAIN line /\ b \in DOMAIN line /\ b < a /\ line[a] = kept[p] /\ line[b] = kept[q] /\ a \in I
  BY <1>1, <1>3, <1>4
<1> HIDE DEF a, b
<1>6. b \in 1 .. a - 1 /\ a \in Nat
  BY <1>1, <1>5
<1>7. PICK c \in 1 .. a - 1 : line[c].chunk.doc = d
  BY <1>5, <1>6 DEF TakesTurns
<1>8. c \in DOMAIN line /\ c < a /\ c \in Nat
  BY <1>1, <1>5, <1>6
<1>9. PICK i \in I : i <= c /\ line[i].chunk.doc = d
  BY <1>2, <1>7, <1>8
<1> DEFINE k == Rank(I, i)
<1>10. k \in DOMAIN kept /\ kept[k].chunk.doc = d /\ Nth(I, k) = i
  BY <1>3, <1>9
<1> HIDE DEF k
<1>11. ~(p < k) /\ p # k
  <2>1. i \in Nat /\ i < a
    BY <1>1, <1>6, <1>8, <1>9
  <2>2. p < k => a < i
    BY <1>3, <1>10 DEF a
  <2>3. p = k => a = i
    BY <1>10 DEF a
  <2> QED  BY <1>6, <2>1, <2>2, <2>3
<1>12. k \in 1 .. p - 1
  BY <1>3, <1>10, <1>11
<1> QED  BY <1>10, <1>12

\* The papers of some hits are finitely many.
LEMMA DocsAreFinite ==
  ASSUME NEW S, NEW found \in Seq(S)
  PROVE  IsFiniteSet(DocsOf(found))
<1> DEFINE f == [i \in DOMAIN found |-> found[i].chunk.doc]
<1>1. f \in [1 .. Len(found) -> DocsOf(found)]
  BY DEF DocsOf, ToSet
<1>2. \A d \in DocsOf(found) : \E i \in 1 .. Len(found) : f[i] = d
  BY DEF DocsOf, ToSet
<1> HIDE DEF f
<1>3. f \in Surjection(1 .. Len(found), DocsOf(found))
  BY <1>1, <1>2 DEF Surjection
<1>4. Len(found) \in Nat /\ IsFiniteSet(1 .. Len(found))
  BY FS_Interval
<1> QED  BY <1>3, <1>4, FS_Surjection

\* The blocks cut off are of papers that were heard, when there are no more
\* papers than blocks.
LEMMA TopHears ==
  ASSUME NEW S, NEW evidence \in Seq(S), NEW docs, docs = DocsOf(evidence), TakesTurns(evidence, docs),
         NEW n \in Nat \ {0}
  PROVE  /\ TakesTurns(Top(evidence, n), docs)
         /\ DocsOf(Top(evidence, n)) \subseteq docs
         /\ Cardinality(docs) <= n => DocsOf(Top(evidence, n)) = docs
<1> DEFINE top == Top(evidence, n)
<1>1. /\ top \in Seq(S) /\ Len(top) = IF n <= Len(evidence) THEN n ELSE Len(evidence)
      /\ DOMAIN top \subseteq DOMAIN evidence /\ \A i \in DOMAIN top : top[i] = evidence[i]
  BY TopIs
<1> HIDE DEF top
<1>2. DOMAIN top = 1 .. Len(top) /\ Len(top) \in Nat /\ Len(evidence) \in Nat /\ DOMAIN evidence = 1 .. Len(evidence)
  BY <1>1
<1>3. TakesTurns(top, docs)
  <2> SUFFICES ASSUME NEW i \in DOMAIN top, NEW j \in 1 .. i - 1, top[i].chunk.doc = top[j].chunk.doc, NEW d \in docs
               PROVE  \E k \in 1 .. i - 1 : top[k].chunk.doc = d
    BY DEF TakesTurns
  <2>1. i \in DOMAIN evidence /\ \A k \in 1 .. i - 1 : k \in DOMAIN top
    BY <1>1, <1>2
  <2>2. evidence[i].chunk.doc = evidence[j].chunk.doc
    BY <1>1, <2>1
  <2>3. PICK k \in 1 .. i - 1 : evidence[k].chunk.doc = d
    BY <2>1, <2>2 DEF TakesTurns
  <2> QED  BY <1>1, <2>1, <2>3
<1>4. DocsOf(top) \subseteq docs
  BY <1>1 DEF DocsOf, ToSet
<1>5. ASSUME Cardinality(docs) <= n, NEW d \in docs, d \notin DocsOf(top) PROVE FALSE
  <2>1. PICK p \in DOMAIN evidence : evidence[p].chunk.doc = d
    BY DEF DocsOf, ToSet
  <2>2. p \notin DOMAIN top
    BY <1>1, <1>5, <2>1 DEF DocsOf, ToSet
  <2>3. Len(top) = n
    BY <1>1, <1>2, <2>1, <2>2
  <2>4. IsFiniteSet(docs) /\ IsFiniteSet(DocsOf(top)) /\ Cardinality(docs) \in Nat /\ Cardinality(DocsOf(top)) \in Nat
    BY <1>1, DocsAreFinite, FS_CardinalityType
  <2>5. Cardinality(DocsOf(top)) <= Cardinality(docs) /\ (Cardinality(DocsOf(top)) = Cardinality(docs) => DocsOf(top) = docs)
    BY <1>4, <2>4, FS_Subset
  <2>6. Cardinality(DocsOf(top)) < n
    BY <1>5, <2>4, <2>5
  <2> DEFINE f == [i \in 1 .. n |-> top[i].chunk.doc]
  <2>7. f \in [1 .. n -> DocsOf(top)]
    BY <1>2, <2>3 DEF DocsOf, ToSet
  <2>8. IsFiniteSet(1 .. n) /\ Cardinality(1 .. n) = n
    BY FS_Interval
  <2>9. \E x, y \in 1 .. n : x # y /\ f[x] = f[y]
    <3> HIDE DEF f
    <3>1. Cardinality(DocsOf(top)) < Cardinality(1 .. n)
      BY <2>6, <2>8
    <3> QED  BY <2>4, <2>7, <2>8, <3>1, FS_PigeonHole
  <2>10. PICK x \in 1 .. n, y \in 1 .. n : x < y /\ top[x].chunk.doc = top[y].chunk.doc
    <3>1. PICK x \in 1 .. n, y \in 1 .. n : x # y /\ f[x] = f[y]
      BY <2>9
    <3>2. x < y \/ y < x
      BY <3>1
    <3> QED  BY <3>1, <3>2
  <2>11. y \in DOMAIN top /\ x \in 1 .. y - 1
    BY <1>2, <2>3, <2>10
  <2>12. PICK k \in 1 .. y - 1 : top[k].chunk.doc = d
    BY <1>3, <1>5, <2>10, <2>11 DEF TakesTurns
  <2>13. k \in DOMAIN top
    BY <1>2, <2>11
  <2> QED  BY <1>5, <2>12, <2>13 DEF DocsOf, ToSet
<1> QED  BY <1>3, <1>4, <1>5 DEF top

\* The evidence of a task: each chunk once, every paper before one is heard
\* twice, and no paper left out for lack of blocks while they are no more than
\* the blocks.
LEMMA GatherIs ==
  ASSUME NEW W, OneDoc(W), NEW grounding \in Seq(Hits(W)), NEW retrieved \in Seq(Hits(W))
  PROVE  LET evidence == Gather(grounding, retrieved)
             docs     == DocsOf(grounding \o retrieved)
         IN  /\ evidence \in Seq(Hits(W)) /\ Distinct(evidence)
             /\ TakesTurns(evidence, docs) /\ DocsOf(evidence) \subseteq docs
             /\ Cardinality(docs) <= MAX_EVIDENCE_BLOCKS => DocsOf(evidence) = docs
<1> DEFINE evidence == Gather(grounding, retrieved)
           docs == DocsOf(grounding \o retrieved)
           keys == [i \in DOMAIN retrieved |-> retrieved[i].score]
           best == Ordered(retrieved, keys)
           all == grounding \o best
<1>1. MAX_EVIDENCE_BLOCKS \in Nat \ {0}
  BY SynthesisAssumption
<1>2. keys \in [DOMAIN retrieved -> Int]
  <2>1. \A i \in DOMAIN retrieved : retrieved[i] \in Hits(W)
    OBVIOUS
  <2> QED  BY <2>1 DEF Hits
<1>3. evidence = Top(EvidencePack(Line(all)), MAX_EVIDENCE_BLOCKS)
  BY DEF Gather, Line, Turn, Papers, Seat, Best
<1> HIDE DEF keys
<1>4. best \in Seq(Hits(W)) /\ ToSet(best) = ToSet(retrieved)
  BY <1>2, OrderedIs, OrderedHas
<1> HIDE DEF best, evidence
<1>5. all \in Seq(Hits(W)) /\ ToSet(all) = ToSet(grounding \o retrieved)
  <2>1. all \in Seq(Hits(W)) /\ ToSet(all) = ToSet(grounding) \cup ToSet(best)
    BY <1>4, ConcatHas
  <2>2. ToSet(grounding \o retrieved) = ToSet(grounding) \cup ToSet(retrieved)
    BY ConcatHas
  <2> QED  BY <1>4, <2>1, <2>2
<1> HIDE DEF all
<1>6. DocsOf(all) = docs
  BY <1>5 DEF DocsOf
<1> DEFINE line == Line(all)
           whole == EvidencePack(line)
<1>7. line \in Seq(Hits(W)) /\ ToSet(line) = ToSet(all) /\ TakesTurns(line, DocsOf(line))
  <2>1. DocsOf(line) = DocsOf(all)
    BY <1>5, LineIs DEF DocsOf
  <2>2. TakesTurns(line, DocsOf(all))
    BY <1>5, LineIs DEF TakesTurns
  <2> QED  BY <1>5, <2>1, <2>2, LineIs
<1> HIDE DEF line
<1>8. /\ whole \in Seq(Hits(W)) /\ Distinct(whole) /\ ToSet(whole) \subseteq ToSet(line)
      /\ \A h \in ToSet(line) : \E b \in ToSet(whole) : b.chunk.id = h.chunk.id
      /\ TakesTurns(whole, DocsOf(line))
  BY <1>7, EvidencePackIs, PackTakesTurns
<1> HIDE DEF whole
<1>9. DocsOf(line) = docs
  BY <1>6, <1>7 DEF DocsOf
<1>10. DocsOf(whole) = docs
  <2>1. DocsOf(whole) \subseteq docs
    BY <1>8, <1>9 DEF DocsOf
  <2>2. ASSUME NEW h \in ToSet(line) PROVE h.chunk.doc \in DocsOf(whole)
    <3>1. PICK b \in ToSet(whole) : b.chunk.id = h.chunk.id
      BY <1>8
    <3>2. h \in Hits(W) /\ b \in Hits(W)
      BY <1>7, <1>8 DEF ToSet
    <3>3. h.chunk \in W /\ b.chunk \in W
      BY <3>2 DEF Hits
    <3>4. b.chunk.doc = h.chunk.doc
      BY <3>1, <3>3 DEF OneDoc
    <3> QED  BY <3>4 DEF DocsOf
  <2>3. docs \subseteq DocsOf(whole)
    BY <1>9, <2>2 DEF DocsOf
  <2> QED  BY <2>1, <2>3
<1> HIDE DEF docs
<1>11. /\ TakesTurns(Top(whole, MAX_EVIDENCE_BLOCKS), docs)
       /\ DocsOf(Top(whole, MAX_EVIDENCE_BLOCKS)) \subseteq docs
       /\ Cardinality(docs) <= MAX_EVIDENCE_BLOCKS => DocsOf(Top(whole, MAX_EVIDENCE_BLOCKS)) = docs
  <2>1. TakesTurns(whole, docs) /\ docs = DocsOf(whole)
    BY <1>8, <1>9, <1>10
  <2> QED  BY <1>1, <1>8, <2>1, TopHears
<1>12. Top(whole, MAX_EVIDENCE_BLOCKS) \in Seq(Hits(W)) /\ Distinct(Top(whole, MAX_EVIDENCE_BLOCKS))
  BY <1>1, <1>8, TopIs, TopIsDistinct
<1> QED  BY <1>3, <1>11, <1>12 DEF whole, line, evidence, docs
-----------------------------------------------------------------------------
(* What a task writes                                                       *)

\* The markers of several texts are those of each.
LEMMA TextsMark ==
  ASSUME NEW S, NEW s \in Seq(S), NEW f \in [DOMAIN s -> Seq(Said)]
  PROVE  /\ FlattenSeq(f) \in Seq(Said)
         /\ \A x \in MarkedIn(ToSet(FlattenSeq(f))) : \E i \in DOMAIN s : x \in MarkedIn(ToSet(f[i]))
<1>1. FlattenSeq(f) \in Seq(Said) /\ ToSet(FlattenSeq(f)) = UNION {ToSet(f[i]) : i \in DOMAIN s}
  BY FlattenEach
<1>2. ASSUME NEW x \in MarkedIn(ToSet(FlattenSeq(f))) PROVE \E i \in DOMAIN s : x \in MarkedIn(ToSet(f[i]))
  <2>1. PICK t \in ToSet(FlattenSeq(f)) : x \in ToSet(t.marks)
    BY DEF MarkedIn
  <2>2. PICK i \in DOMAIN s : t \in ToSet(f[i])
    BY <1>1, <2>1
  <2> QED  BY <2>1, <2>2 DEF MarkedIn
<1> QED  BY <1>1, <1>2

\* What is used is a list of numbers, and has those of the text.
Covers(uses, text, evidence) ==
  uses \in Seq(Int) /\ text \in Seq(Said) /\ MarkedIn(ToSet(text)) \cap Numbers(evidence) \subseteq ToSet(uses)

\* The reply of a task opens what it marks, within reach.
LEMMA RenderedIs ==
  ASSUME NEW W, NEW scope, Scoped(W, scope), NEW evidence \in Seq(Hits(W)), Distinct(evidence),
         NEW result, Covers(result.uses, result.text, evidence)
  PROVE  LET r == Rendered(evidence, result)
         IN  r.kind = "task" /\ r.result = result /\ Opens(r, evidence) /\ Reaches(r, evidence, scope)
<1> DEFINE r == Rendered(evidence, result)
           uses == result.uses
           text == result.text
           order == Listing(uses, Numbers(evidence))
           listed == [p \in DOMAIN order |-> [chunk |-> evidence[order[p]].chunk.id, doc |-> evidence[order[p]].chunk.doc]]
<1>1. Listed(evidence, uses) = listed
  BY DEF Listed, Each
<1>2. r.kind = "task" /\ r.result = result /\ r.text = Render(evidence, uses, text) /\ r.citations = listed
  BY <1>1 DEF Rendered
<1>3. uses \in Seq(Int) /\ text \in Seq(Said) /\ MarkedIn(ToSet(text)) \cap Numbers(evidence) \subseteq ToSet(uses)
  BY DEF Covers
<1>4. DOMAIN listed = DOMAIN order
      /\ \A p \in DOMAIN listed : /\ listed[p].chunk = evidence[order[p]].chunk.id
                                  /\ listed[p].doc = evidence[order[p]].chunk.doc
  OBVIOUS
<1> HIDE DEF r, uses, text, listed
<1>5. Opens(r, evidence) /\ Reaches(r, evidence, scope)
  BY <1>2, <1>3, <1>4, ListOpens
<1> QED  BY <1>2, <1>5 DEF r

\* The first grounded points of a field are points.
LEMMA SomePoints ==
  ASSUME NEW profile \in Seq(Point), NEW field, NEW n \in Nat
  PROVE  Top(GroundedOf(profile, field), n) \in Seq(Point)
BY GroundedOfIs, TopIs

\* What the papers say of a field.
LEMMA PapersPoints ==
  ASSUME NEW ps \in Seq(Paper), NEW field, NEW n \in Nat
  PROVE  FlattenSeq([i \in DOMAIN ps |-> Top(GroundedOf(ps[i].profile, field), n)]) \in Seq(Point)
<1> DEFINE f == [i \in DOMAIN ps |-> Top(GroundedOf(ps[i].profile, field), n)]
<1>1. \A i \in DOMAIN ps : ps[i].profile \in Seq(Point)
  <2>1. \A i \in DOMAIN ps : ps[i] \in Paper
    OBVIOUS
  <2> QED  BY <2>1 DEF Paper
<1>2. f \in [DOMAIN ps -> Seq(Point)]
  BY <1>1, SomePoints
<1> HIDE DEF f
<1>3. FlattenSeq(f) \in Seq(Point)
  BY <1>2, FlattenEach
<1> QED  BY <1>3 DEF f

\* A point is shown as a sentence with the number of its block, or none.
LEMMA MarkedIs ==
  ASSUME NEW S, NEW evidence \in Seq(S), NEW q \in Point
  PROVE  Marked(evidence, q) \in Said /\ Unmarked(q) \in Said /\ Marked(evidence, q).marks \in Seq(Int)
<1> DEFINE n == NumberOf(evidence, q.chunk)
           marks == IF n = 0 THEN <<>> ELSE <<n>>
           of == q.of
<1>1. n \in Nat
  BY NumberOpens
<1>2. of \in DOMAIN Says
  BY DEF Point
<1>3. Marked(evidence, q) = [of |-> of, marks |-> marks] /\ Unmarked(q) = [of |-> of, marks |-> <<>>]
  BY DEF Marked, Unmarked
<1> HIDE DEF n, of
<1>4. marks \in Seq(Int) /\ <<>> \in Seq(Int)
  BY <1>1
<1> HIDE DEF marks
<1> QED  BY <1>2, <1>3, <1>4 DEF Said

\* Points shown one after the other are a text.
LEMMA MarkedText ==
  ASSUME NEW S, NEW evidence \in Seq(S), NEW points \in Seq(Point)
  PROVE  [i \in DOMAIN points |-> Marked(evidence, points[i])] \in Seq(Said)
<1> DEFINE f == [i \in DOMAIN points |-> Marked(evidence, points[i])]
<1>1. f \in [DOMAIN points -> Said]
  BY MarkedIs
<1> HIDE DEF f
<1>2. f \in Seq(Said)
  BY <1>1, EachIs
<1> QED  BY <1>2 DEF f

\* A text with the numbers it marks and some others covers itself.
LEMMA NumbersCover ==
  ASSUME NEW evidence, NEW text \in Seq(Said), NEW more \in Seq(Int)
  PROVE  Covers(NumbersIn(evidence, text) \o more, text, evidence) /\ Covers(NumbersIn(evidence, text), text, evidence)
<1>1. /\ NumbersIn(evidence, text) \in Seq(Int)
      /\ ToSet(NumbersIn(evidence, text)) = MarkedIn(ToSet(text)) \cap Numbers(evidence)
  BY NumbersInIs
<1>2. NumbersIn(evidence, text) \o more \in Seq(Int)
      /\ ToSet(NumbersIn(evidence, text) \o more) = ToSet(NumbersIn(evidence, text)) \cup ToSet(more)
  BY <1>1, ConcatHas
<1> QED  BY <1>1, <1>2 DEF Covers

\* The summary of one paper.
LEMMA PaperSummaryIs ==
  ASSUME NEW S, NEW evidence \in Seq(S), NEW profile \in Seq(Point)
  PROVE  LET result == PaperSummary(evidence, profile)
         IN  Covers(result.uses, result.text, evidence)
<1> DEFINE fields == <<"contributions", "methods", "datasets", "key_results", "limitations", "future_work">>
           f == [k \in DOMAIN fields |-> Top(GroundedOf(profile, fields[k]), 3)]
           said == FlattenSeq(f)
           text == [i \in DOMAIN said |-> Marked(evidence, said[i])]
<1>1. PaperSummary(evidence, profile) = [uses |-> NumbersIn(evidence, text), text |-> text]
  BY DEF PaperSummary, Each
<1>2. PICK F : fields \in Seq(F)
  <2>1. PICK F : /\ "contributions" \in F /\ "methods" \in F /\ "datasets" \in F /\ "key_results" \in F
                 /\ "limitations" \in F /\ "future_work" \in F
    <3> DEFINE F == {"contributions", "methods", "datasets", "key_results", "limitations", "future_work"}
    <3> WITNESS F
    <3> QED  OBVIOUS
  <2>2. fields \in Seq(F)
    BY <2>1
  <2> QED  BY <2>2
<1> HIDE DEF fields
<1>3. f \in [DOMAIN fields -> Seq(Point)]
  BY SomePoints
<1> HIDE DEF f
<1>4. said \in Seq(Point)
  BY <1>2, <1>3, FlattenEach
<1> HIDE DEF said
<1>5. text \in Seq(Said)
  BY <1>4, MarkedText
<1> HIDE DEF text
<1>6. Covers(NumbersIn(evidence, text), text, evidence)
  <2>1. <<>> \in Seq(Int)
    OBVIOUS
  <2> QED  BY <1>5, <2>1, NumbersCover
<1> QED  BY <1>1, <1>6 DEF text, said, f

-----------------------------------------------------------------------------
(* What the cards say when the model does not                               *)

Gap       == [description : Text, rationale : Text, numbers : Seq(Int), confidence : 0 .. 100]
Contrary  == [number : Int, stance : Text, doc : DOMAIN CollectionOf]
ReviewKey == STRING \cup ToSet(REVIEW_SECTIONS)
Section   == [key : ReviewKey, content : Text, numbers : Seq(Int)]

\* The cards' gaps.
LEMMA HeuristicGapsIs ==
  ASSUME NEW S, NEW evidence \in Seq(S), NEW ps \in Seq(Paper)
  PROVE  HeuristicGaps(ps, evidence) \in ResearchGapResult
<1> DEFINE gaps(field) == FlattenSeq([i \in DOMAIN ps |-> Top(GroundedOf(ps[i].profile, field), 2)])
           points == gaps("future_work") \o gaps("limitations")
           gap(q) == [description |-> <<Unmarked(q)>>, rationale |-> <<>>, numbers |-> Marked(evidence, q).marks,
                      confidence |-> 50]
           all == [i \in DOMAIN points |-> gap(points[i])]
<1>1. gaps("future_work") \in Seq(Point) /\ gaps("limitations") \in Seq(Point)
  BY PapersPoints
<1>2. HeuristicGaps(ps, evidence) = [summary |-> <<>>, consensus |-> <<>>, contradictions |-> <<>>, gaps |-> all,
                                     insufficient |-> all = <<>>]
  BY DEF HeuristicGaps, Each
<1> HIDE DEF gaps
<1>3. points \in Seq(Point)
  BY <1>1
<1> HIDE DEF points
<1>4. ASSUME NEW q \in Point PROVE gap(q) \in Gap
  <2> DEFINE d == <<Unmarked(q)>>
             m == Marked(evidence, q).marks
  <2>1. d \in Seq(Said) /\ m \in Seq(Int) /\ <<>> \in Seq(Said)
    BY MarkedIs
  <2>2. gap(q) = [description |-> d, rationale |-> <<>>, numbers |-> m, confidence |-> 50]
    OBVIOUS
  <2> HIDE DEF d, m, gap
  <2> QED  BY <2>1, <2>2, TextIs DEF Gap
<1> HIDE DEF gap
<1>5. all \in [DOMAIN points -> Gap]
  BY <1>3, <1>4
<1> HIDE DEF all
<1>6. all \in Seq(Gap)
  BY <1>3, <1>5, EachIs
<1>7. <<>> \in Text /\ <<>> \in Seq(Contrary) /\ (all = <<>>) \in BOOLEAN
  BY DEF Text
<1> DEFINE none == (all = <<>>)
<1>8. HeuristicGaps(ps, evidence) = [summary |-> <<>>, consensus |-> <<>>, contradictions |-> <<>>, gaps |-> all,
                                     insufficient |-> none] /\ none \in BOOLEAN
  BY <1>2
<1> HIDE DEF none
<1> QED  BY <1>6, <1>7, <1>8 DEF ResearchGapResult, Gap, Contrary

\* The drafts of a review whose keys may also be those of the list of sections.
ReviewDraft == [sections : Seq(Section), insufficient : BOOLEAN]

\* The sections of a review are a list of seven.
LEMMA SectionsListed ==
  REVIEW_SECTIONS \in Seq(ToSet(REVIEW_SECTIONS))
<1>1. PICK F : REVIEW_SECTIONS \in Seq(F)
  <2>1. PICK F : /\ "introduction" \in F /\ "existingApproaches" \in F /\ "commonMethodologies" \in F
                 /\ "keyFindings" \in F /\ "limitations" \in F /\ "researchGaps" \in F /\ "futureDirections" \in F
    <3> DEFINE F == {"introduction", "existingApproaches", "commonMethodologies", "keyFindings", "limitations",
                     "researchGaps", "futureDirections"}
    <3> WITNESS F
    <3> QED  OBVIOUS
  <2>2. REVIEW_SECTIONS \in Seq(F)
    BY <2>1 DEF REVIEW_SECTIONS
  <2> QED  BY <2>2
<1>2. \A i \in DOMAIN REVIEW_SECTIONS : REVIEW_SECTIONS[i] \in ToSet(REVIEW_SECTIONS)
  BY DEF ToSet
<1> QED  BY <1>1, <1>2

\* The cards' review.
LEMMA HeuristicReviewIs ==
  ASSUME NEW S, NEW evidence \in Seq(S), NEW ps \in Seq(Paper)
  PROVE  HeuristicReview(ps, evidence) \in ReviewDraft
<1> DEFINE said(key) == FlattenSeq([i \in DOMAIN ps |-> Top(GroundedOf(ps[i].profile, FieldFor[key]), 2)])
           content(key) == [i \in DOMAIN said(key) |-> Marked(evidence, said(key)[i])]
           section(key) == [key |-> key, content |-> content(key), numbers |-> <<>>]
           sections == [i \in DOMAIN REVIEW_SECTIONS |-> section(REVIEW_SECTIONS[i])]
           I == {i \in DOMAIN sections : sections[i].content # <<>>}
           there == Kept(sections, I)
           none == (there = <<>>)
<1>1. HeuristicReview(ps, evidence) = [sections |-> there, insufficient |-> none]
  BY DEF HeuristicReview, Each, Select
<1>2. ASSUME NEW key \in ToSet(REVIEW_SECTIONS) PROVE section(key) \in Section
  <2>1. said(key) \in Seq(Point)
    BY PapersPoints
  <2>2. content(key) \in Seq(Said)
    <3> HIDE DEF said
    <3> QED  BY <2>1, MarkedText
  <2> DEFINE c == content(key)
  <2>3. section(key) = [key |-> key, content |-> c, numbers |-> <<>>] /\ c \in Text /\ <<>> \in Seq(Int) /\ key \in ReviewKey
    BY <2>2, TextIs DEF ReviewKey
  <2> HIDE DEF c, section
  <2> QED  BY <2>3 DEF Section
<1> HIDE DEF section
<1>3. sections \in [DOMAIN REVIEW_SECTIONS -> Section]
  BY <1>2, SectionsListed
<1> HIDE DEF sections
<1>4. sections \in Seq(Section)
  BY <1>3, SectionsListed, EachIs
<1>5. I \in SUBSET DOMAIN sections
  OBVIOUS
<1> HIDE DEF I
<1>6. there \in Seq(Section)
  BY <1>4, <1>5, KeptIs
<1> HIDE DEF there
<1>7. none \in BOOLEAN
  OBVIOUS
<1> HIDE DEF none
<1> QED  BY <1>1, <1>6, <1>7 DEF ReviewDraft

\* The cells of a row are lists of sentences.
LEMMA CellIs ==
  ASSUME NEW p \in Paper, NEW field, NEW n \in Nat
  PROVE  Cell(p, field, n) \in Seq(DOMAIN Says)
<1> DEFINE points == Top(GroundedOf(p.profile, field), n)
           f == [i \in DOMAIN points |-> points[i].of]
<1>1. Cell(p, field, n) = f
  BY DEF Cell, Each
<1>2. points \in Seq(Point)
  BY SomePoints DEF Paper
<1> HIDE DEF points
<1>3. \A q \in Point : q.of \in DOMAIN Says
  BY DEF Point
<1>4. f \in [DOMAIN points -> DOMAIN Says]
  BY <1>2, <1>3
<1> HIDE DEF f
<1> QED  BY <1>1, <1>2, <1>4, EachIs

\* Sentences of all papers, without marks.
Bare(row) == [i \in DOMAIN row |-> [of |-> row[i], marks |-> <<>>]]

\* A row of the matrix is a text without marks.
LEMMA BareIs ==
  ASSUME NEW ps \in Seq(Paper), NEW cell, \A i \in DOMAIN ps : cell[i] \in Seq(DOMAIN Says)
  PROVE  Bare(FlattenSeq([i \in DOMAIN ps |-> cell[i]])) \in Text
<1> DEFINE f == [i \in DOMAIN ps |-> cell[i]]
           row == FlattenSeq(f)
           b == [i \in DOMAIN row |-> [of |-> row[i], marks |-> <<>>]]
<1>1. f \in [DOMAIN ps -> Seq(DOMAIN Says)]
  OBVIOUS
<1> HIDE DEF f
<1>2. row \in Seq(DOMAIN Says)
  BY <1>1, FlattenEach
<1> HIDE DEF row
<1>3. ASSUME NEW s \in DOMAIN Says PROVE [of |-> s, marks |-> <<>>] \in Said
  <2>1. <<>> \in Seq(Int)
    OBVIOUS
  <2> QED  BY <2>1 DEF Said
<1>4. b \in [DOMAIN row -> Said]
  BY <1>2, <1>3
<1> HIDE DEF b
<1>5. b \in Seq(Said)
  BY <1>2, <1>4, EachIs
<1>6. b = Bare(row)
  BY DEF b, Bare
<1> QED  BY <1>5, <1>6, TextIs DEF row, f

\* The cards' comparison.
LEMMA HeuristicComparisonIs ==
  ASSUME NEW ps \in Seq(Paper)
  PROVE  HeuristicComparison(ps) \in ComparisonDraft
<1> DEFINE a == Bare(FlattenSeq([i \in DOMAIN ps |-> Cell(ps[i], "methods", 2)]))
           b == Bare(FlattenSeq([i \in DOMAIN ps |-> Cell(ps[i], "datasets", 3)]))
           c == Bare(FlattenSeq([i \in DOMAIN ps |-> Cell(ps[i], "key_results", 2)]))
           d == Bare(FlattenSeq([i \in DOMAIN ps |-> Cell(ps[i], "limitations", 2)]))
           e == Bare(FlattenSeq([i \in DOMAIN ps |-> Cell(ps[i], "future_work", 2)]))
           rows == [i \in DOMAIN ps |-> MatrixRow(ps[i])]
           r1 == FlattenSeq([i \in DOMAIN rows |-> rows[i]["methods"]])
           r2 == FlattenSeq([i \in DOMAIN rows |-> rows[i]["datasets"]])
           r3 == FlattenSeq([i \in DOMAIN rows |-> rows[i]["findings"]])
           r4 == FlattenSeq([i \in DOMAIN rows |-> rows[i]["weaknesses"]])
           r5 == FlattenSeq([i \in DOMAIN ps |-> Cell(ps[i], "future_work", 2)])
           texts == <<r1, r2, r3, r4, r5>>
<1>1. HeuristicComparison(ps) = [texts |-> [k \in DOMAIN texts |-> Bare(texts[k])], numbers |-> <<>>, insufficient |-> FALSE]
  BY DEF HeuristicComparison, Each, PaperMatrix, Bare
<1>2. /\ r1 = FlattenSeq([i \in DOMAIN ps |-> Cell(ps[i], "methods", 2)])
      /\ r2 = FlattenSeq([i \in DOMAIN ps |-> Cell(ps[i], "datasets", 3)])
      /\ r3 = FlattenSeq([i \in DOMAIN ps |-> Cell(ps[i], "key_results", 2)])
      /\ r4 = FlattenSeq([i \in DOMAIN ps |-> Cell(ps[i], "limitations", 2)])
  BY DEF MatrixRow
<1> HIDE DEF r1, r2, r3, r4, r5
<1>3. [k \in DOMAIN texts |-> Bare(texts[k])] = <<Bare(r1), Bare(r2), Bare(r3), Bare(r4), Bare(r5)>>
  OBVIOUS
<1>4. Bare(r1) = a /\ Bare(r2) = b /\ Bare(r3) = c /\ Bare(r4) = d /\ Bare(r5) = e
  BY <1>2 DEF r5
<1>5. a \in Text /\ b \in Text /\ c \in Text /\ d \in Text /\ e \in Text
  <2>1. ASSUME NEW field, NEW n \in Nat
        PROVE  Bare(FlattenSeq([i \in DOMAIN ps |-> Cell(ps[i], field, n)])) \in Text
    <3> DEFINE cell == [i \in DOMAIN ps |-> Cell(ps[i], field, n)]
    <3>1. \A i \in DOMAIN ps : cell[i] \in Seq(DOMAIN Says)
      BY CellIs
    <3>2. cell = [i \in DOMAIN ps |-> cell[i]]
      OBVIOUS
    <3> HIDE DEF cell
    <3>3. Bare(FlattenSeq(cell)) \in Text
      BY <3>1, <3>2, BareIs
    <3> QED  BY <3>3 DEF cell
  <2> QED  BY <2>1
<1> HIDE DEF a, b, c, d, e, texts
<1>6. HeuristicComparison(ps) = [texts |-> <<a, b, c, d, e>>, numbers |-> <<>>, insufficient |-> FALSE]
  BY <1>1, <1>3, <1>4
<1>7. <<a, b, c, d, e>> \in Seq(Text) /\ <<>> \in Seq(Int)
  BY <1>5
<1> DEFINE all == <<a, b, c, d, e>>
<1> HIDE DEF all
<1>8. HeuristicComparison(ps) = [texts |-> all, numbers |-> <<>>, insufficient |-> FALSE] /\ all \in Seq(Text) /\ <<>> \in Seq(Int)
  BY <1>6, <1>7 DEF all
<1> QED  BY <1>8 DEF ComparisonDraft

\* A comparison covers its text.
LEMMA ComparePapersIs ==
  ASSUME NEW evidence, NEW ps, NEW draft0 \in ComparisonDraft
  PROVE  LET result == ComparePapers(ps, evidence, draft0)
         IN  Covers(result.uses, result.text, evidence)
<1> DEFINE texts == draft0.texts
           numbers == draft0.numbers
           text == FlattenSeq(texts)
           more == Among(numbers, Numbers(evidence))
<1>1. texts \in Seq(Seq(Said)) /\ numbers \in Seq(Int)
  BY TextIs DEF ComparisonDraft
<1>2. LET result == ComparePapers(ps, evidence, draft0)
      IN  result.uses = NumbersIn(evidence, text) \o more /\ result.text = text
  BY DEF ComparePapers
<1> HIDE DEF texts, numbers
<1>3. text \in Seq(Said) /\ more \in Seq(Int)
  BY <1>1, FlattenIs, AmongHas
<1> HIDE DEF text, more
<1>4. Covers(NumbersIn(evidence, text) \o more, text, evidence)
  BY <1>3, NumbersCover
<1> QED  BY <1>2, <1>4

\* A review covers the text of its sections.
LEMMA LiteratureReviewIs ==
  ASSUME NEW evidence, NEW ps, NEW draft0 \in ReviewDraft
  PROVE  LET result == LiteratureReview(ps, evidence, draft0)
         IN  Covers(result.uses, result.text, evidence)
<1> DEFINE sections == draft0.sections
           of(key) == SelectLastInSeq(sections, LAMBDA s : s.key = key)
           I == {i \in DOMAIN REVIEW_SECTIONS : of(REVIEW_SECTIONS[i]) # 0}
           keys == Kept(REVIEW_SECTIONS, I)
           there == [i \in DOMAIN keys |-> sections[of(keys[i])]]
           uses(s) == NumbersIn(evidence, s.content) \o Among(s.numbers, Numbers(evidence))
           all == [i \in DOMAIN there |-> uses(there[i])]
           texts == [i \in DOMAIN there |-> there[i].content]
<1>1. sections \in Seq(Section)
  BY DEF ReviewDraft
<1>2. LET result == LiteratureReview(ps, evidence, draft0)
      IN  result.uses = FlattenSeq(all) /\ result.text = FlattenSeq(texts)
  BY DEF LiteratureReview, Each, Select
<1> HIDE DEF sections
<1>3. ASSUME NEW key, of(key) # 0 PROVE of(key) \in DOMAIN sections
  <2> DEFINE P == {i \in 1 .. Len(sections) : sections[i].key = key}
  <2>1. of(key) = IF P # {} THEN Max(P) ELSE 0
    BY DEF SelectLastInSeq
  <2>2. Len(sections) \in Nat /\ DOMAIN sections = 1 .. Len(sections)
    BY <1>1
  <2>3. IsFiniteSet(P) /\ P \in SUBSET Int
    <3>1. IsFiniteSet(1 .. Len(sections)) /\ P \subseteq 1 .. Len(sections)
      BY <2>2, FS_Interval
    <3> QED  BY <2>2, <3>1, FS_Subset
  <2>4. P # {} => Max(P) \in P
    <3> HIDE DEF P
    <3> QED  BY <2>3, MaxIsThere
  <2> QED  BY <1>3, <2>1, <2>2, <2>4
<1> HIDE DEF of
<1>4. I \in SUBSET DOMAIN REVIEW_SECTIONS /\ \A i \in I : of(REVIEW_SECTIONS[i]) # 0
  OBVIOUS
<1> HIDE DEF I
<1>5. keys \in Seq(ToSet(REVIEW_SECTIONS)) /\ \A p \in DOMAIN keys : Nth(I, p) \in I /\ keys[p] = REVIEW_SECTIONS[Nth(I, p)]
  BY <1>4, SectionsListed, KeptIs
<1> HIDE DEF keys
<1>6. \A p \in DOMAIN keys : sections[of(keys[p])] \in Section
  BY <1>1, <1>3, <1>4, <1>5
<1>7. there \in [DOMAIN keys -> Section]
  BY <1>6
<1> HIDE DEF there
<1>8. there \in Seq(Section)
  BY <1>5, <1>7, EachIs
<1>9. ASSUME NEW s \in Section PROVE s.content \in Seq(Said) /\ s.numbers \in Seq(Int)
  BY TextIs DEF Section
<1>10. ASSUME NEW i \in DOMAIN there PROVE Covers(uses(there[i]), there[i].content, evidence)
  <2> DEFINE content == there[i].content
             numbers == there[i].numbers
  <2>1. content \in Seq(Said) /\ numbers \in Seq(Int)
    BY <1>8, <1>9
  <2> HIDE DEF content, numbers
  <2>2. Among(numbers, Numbers(evidence)) \in Seq(Int)
    BY <2>1, AmongHas
  <2>3. Covers(NumbersIn(evidence, content) \o Among(numbers, Numbers(evidence)), content, evidence)
    BY <2>1, <2>2, NumbersCover
  <2> QED  BY <2>3 DEF content, numbers
<1> HIDE DEF uses
<1>11. all \in [DOMAIN there -> Seq(Int)] /\ texts \in [DOMAIN there -> Seq(Said)]
  BY <1>10 DEF Covers
<1>12. \A i \in DOMAIN there : all[i] = uses(there[i]) /\ texts[i] = there[i].content
  OBVIOUS
<1> HIDE DEF all, texts
<1>13. FlattenSeq(all) \in Seq(Int) /\ ToSet(FlattenSeq(all)) = UNION {ToSet(all[i]) : i \in DOMAIN there}
  BY <1>8, <1>11, FlattenEach
<1>14. /\ FlattenSeq(texts) \in Seq(Said)
       /\ \A x \in MarkedIn(ToSet(FlattenSeq(texts))) : \E i \in DOMAIN there : x \in MarkedIn(ToSet(texts[i]))
  BY <1>8, <1>11, TextsMark
<1>15. ASSUME NEW x \in MarkedIn(ToSet(FlattenSeq(texts))), x \in Numbers(evidence) PROVE x \in ToSet(FlattenSeq(all))
  <2>1. PICK i \in DOMAIN there : x \in MarkedIn(ToSet(texts[i]))
    BY <1>14
  <2>2. x \in ToSet(all[i])
    BY <1>10, <1>12, <1>15, <2>1 DEF Covers
  <2> QED  BY <1>13, <2>2
<1>16. Covers(FlattenSeq(all), FlattenSeq(texts), evidence)
  BY <1>13, <1>14, <1>15 DEF Covers
<1> QED  BY <1>2, <1>16 DEF all, texts, uses, there, keys, I, of, sections

\* What Grounded says of the gaps of a reply.
Told(gaps, evidence) ==
  \A i \in DOMAIN gaps :
    LET g     == gaps[i]
        named == IF g.gap.numbers # <<>> THEN g.gap.numbers ELSE MarksOf(g.gap.rationale)
    IN  IF ToSet(named) \cap Numbers(evidence) # {} THEN g.support # "ungrounded"
        ELSE g.confidence <= 30 /\ \A j \in i .. Len(gaps) : gaps[j].support = "ungrounded"

\* A gap counts as ungrounded when no number it names is of a block.
LEMMA GapIs ==
  ASSUME NEW evidence, NEW g \in Gap
  PROVE  LET named == IF g.numbers # <<>> THEN g.numbers ELSE MarksOf(g.rationale)
             support == GapSupport(evidence, g)
         IN  /\ GapNumbers(evidence, g) \in Seq(Int)
             /\ support = "ungrounded" <=> ToSet(named) \cap Numbers(evidence) = {}
             /\ GapConfidence(support, g.confidence) \in 0 .. 100
             /\ support = "ungrounded" => GapConfidence(support, g.confidence) <= 30
<1> DEFINE named == IF g.numbers # <<>> THEN g.numbers ELSE MarksOf(g.rationale)
           support == GapSupport(evidence, g)
           c == g.confidence
           all == GapNumbers(evidence, g)
           blocks == GapBlocks(evidence, g)
<1>1. g.numbers \in Seq(Int) /\ g.rationale \in Seq(Said) /\ c \in 0 .. 100
  BY TextIs DEF Gap
<1> HIDE DEF c
<1>2. all \in Seq(Int) /\ ToSet(all) \cap Numbers(evidence) = ToSet(named) \cap Numbers(evidence)
  <2>1. MarksOf(g.rationale) \in Seq(Int) /\ ToSet(MarksOf(g.rationale)) = MarkedIn(ToSet(g.rationale))
    BY <1>1, MarksOfIs
  <2>2. /\ NumbersIn(evidence, g.rationale) \in Seq(Int)
        /\ ToSet(NumbersIn(evidence, g.rationale)) = MarkedIn(ToSet(g.rationale)) \cap Numbers(evidence)
    BY <1>1, NumbersInIs
  <2>3. all = IF g.numbers # <<>> THEN g.numbers ELSE NumbersIn(evidence, g.rationale)
    BY DEF GapNumbers
  <2> QED  BY <1>1, <2>1, <2>2, <2>3
<1>3. blocks = Among(all, Numbers(evidence))
  BY DEF GapBlocks
<1> HIDE DEF all, named, blocks
<1>4. blocks \in Seq(Int) /\ ToSet(blocks) = ToSet(named) \cap Numbers(evidence)
  BY <1>2, <1>3, AmongHas
<1>5. blocks = <<>> <=> ToSet(blocks) = {}
  <2>1. blocks = <<>> => ToSet(blocks) = {}
    BY DEF ToSet
  <2>2. blocks # <<>> => 1 \in DOMAIN blocks
    BY <1>4
  <2> QED  BY <2>1, <2>2 DEF ToSet
<1>6. support \in {"ungrounded", "stated", "inferred"} /\ (support = "ungrounded" <=> blocks = <<>>)
  BY DEF GapSupport, blocks
<1> HIDE DEF support
<1>7. GapConfidence(support, c) \in 0 .. 100 /\ (support = "ungrounded" => GapConfidence(support, c) <= 30)
  <2>1. Min({c, 30}) \in 0 .. 100 /\ Min({c, 30}) <= 30 /\ Min({c, 70}) \in 0 .. 100
    <3>1. c \in Int /\ 30 \in Int /\ 70 \in Int
      BY <1>1
    <3>2. (c <= 30 => Min({c, 30}) = c) /\ (~(c <= 30) => Min({c, 30}) = 30)
      BY <3>1, MinOfTwo
    <3>3. (c <= 70 => Min({c, 70}) = c) /\ (~(c <= 70) => Min({c, 70}) = 70)
      BY <3>1, MinOfTwo
    <3>4. CASE c <= 30
      <4>1. Min({c, 30}) = c /\ Min({c, 70}) = c
        BY <1>1, <3>2, <3>3, <3>4
      <4> QED  BY <1>1, <3>4, <4>1
    <3>5. CASE ~(c <= 30)
      <4>1. Min({c, 30}) = 30
        BY <3>2, <3>5
      <4>2. Min({c, 70}) \in 0 .. 100
        <5>1. CASE c <= 70
          <6>1. Min({c, 70}) = c
            BY <3>3, <5>1
          <6> QED  BY <1>1, <6>1
        <5>2. CASE ~(c <= 70)
          <6>1. Min({c, 70}) = 70
            BY <3>3, <5>2
          <6> QED  BY <6>1
        <5> QED  BY <5>1, <5>2
      <4> QED  BY <4>1, <4>2
    <3> QED  BY <3>4, <3>5
  <2>2. CASE support = "ungrounded"
    <3>1. GapConfidence(support, c) = Min({c, 30})
      BY <2>2 DEF GapConfidence
    <3> QED  BY <1>1, <2>1, <3>1
  <2>3. CASE support = "inferred"
    <3>1. GapConfidence(support, c) = Min({c, 70}) /\ support # "ungrounded"
      BY <2>3 DEF GapConfidence
    <3> QED  BY <1>1, <2>1, <3>1
  <2>4. CASE support = "stated"
    <3>1. GapConfidence(support, c) = c /\ support # "ungrounded"
      BY <2>4 DEF GapConfidence
    <3> QED  BY <1>1, <3>1
  <2> QED  BY <1>6, <2>2, <2>3, <2>4
<1> QED  BY <1>2, <1>4, <1>5, <1>6, <1>7 DEF named, support, all, c

Judged == [gap : Gap, support : {"ungrounded", "stated", "inferred"}, confidence : 0 .. 100]

\* The gaps that are told: those drafted, the ungrounded doubtful and last.
LEMMA JudgedGapsIs ==
  ASSUME NEW evidence, NEW gaps \in Seq(Gap)
  PROVE  LET judged == JudgedGaps(evidence, gaps)
         IN  /\ judged \in Seq(Judged) /\ Told(judged, evidence)
             /\ \A i \in DOMAIN judged : \E k \in DOMAIN gaps : judged[i].gap = gaps[k]
<1> DEFINE support(g) == GapSupport(evidence, g)
           judge(g) == [gap |-> g, support |-> support(g), confidence |-> GapConfidence(support(g), g.confidence)]
           all == [i \in DOMAIN gaps |-> judge(gaps[i])]
           key(g) == g.confidence + (IF g.support = "ungrounded" THEN 0 ELSE 1000)
           keys == [i \in DOMAIN all |-> key(all[i])]
           judged == Ordered(all, keys)
<1>1. JudgedGaps(evidence, gaps) = judged
  BY DEF JudgedGaps, Best, Each
<1>2. ASSUME NEW g \in Gap
      PROVE  /\ judge(g) \in Judged /\ judge(g).gap = g
             /\ judge(g).support = "ungrounded" => judge(g).confidence <= 30
             /\ judge(g).support = "ungrounded" <=>
                  ToSet(IF g.numbers # <<>> THEN g.numbers ELSE MarksOf(g.rationale)) \cap Numbers(evidence) = {}
  <2> DEFINE s == support(g)
             c == GapConfidence(s, g.confidence)
  <2>1. s \in {"ungrounded", "stated", "inferred"}
    BY DEF GapSupport
  <2>2. /\ c \in 0 .. 100 /\ (s = "ungrounded" => c <= 30)
        /\ s = "ungrounded" <=> ToSet(IF g.numbers # <<>> THEN g.numbers ELSE MarksOf(g.rationale)) \cap Numbers(evidence) = {}
    BY GapIs
  <2>3. judge(g) = [gap |-> g, support |-> s, confidence |-> c]
    OBVIOUS
  <2> HIDE DEF s, c, judge
  <2>4. judge(g) \in Judged /\ judge(g).gap = g /\ judge(g).support = s /\ judge(g).confidence = c
    BY <2>1, <2>2, <2>3 DEF Judged
  <2> QED  BY <2>2, <2>4
<1> HIDE DEF judge
<1>3. all \in [DOMAIN gaps -> Judged] /\ \A i \in DOMAIN gaps : all[i] = judge(gaps[i])
  BY <1>2
<1> HIDE DEF all
<1>4. all \in Seq(Judged) /\ DOMAIN all = DOMAIN gaps
  BY <1>3, EachIs
<1>5. \A g \in Judged : /\ key(g) \in Int /\ g.confidence \in 0 .. 100
                        /\ g.support = "ungrounded" => key(g) = g.confidence
                        /\ g.support # "ungrounded" => key(g) = g.confidence + 1000
  <2> SUFFICES ASSUME NEW g \in Judged
               PROVE  /\ key(g) \in Int /\ g.confidence \in 0 .. 100
                      /\ g.support = "ungrounded" => key(g) = g.confidence
                      /\ g.support # "ungrounded" => key(g) = g.confidence + 1000
    OBVIOUS
  <2> DEFINE c == g.confidence
  <2>1. c \in 0 .. 100
    BY DEF Judged
  <2>2. (g.support = "ungrounded" => key(g) = c + 0) /\ (g.support # "ungrounded" => key(g) = c + 1000)
    OBVIOUS
  <2> HIDE DEF c, key
  <2>3. CASE g.support = "ungrounded"
    <3>1. key(g) = c + 0 /\ c + 0 = c /\ c \in Int
      BY <2>1, <2>2, <2>3
    <3> QED  BY <2>1, <2>3, <3>1 DEF c
  <2>4. CASE g.support # "ungrounded"
    <3>1. key(g) = c + 1000 /\ c + 1000 \in Int
      BY <2>1, <2>2, <2>4
    <3> QED  BY <2>1, <2>4, <3>1 DEF c
  <2> QED  BY <2>3, <2>4
<1> HIDE DEF key
<1>6. keys \in [DOMAIN all -> Int] /\ \A i \in DOMAIN all : keys[i] = key(all[i])
  BY <1>4, <1>5
<1> HIDE DEF keys
<1>7. /\ judged \in Seq(Judged) /\ Len(judged) = Len(all)
      /\ \A p \in DOMAIN all : InOrder(keys, p) \in DOMAIN all /\ judged[p] = all[InOrder(keys, p)]
      /\ \A p, q \in DOMAIN all : p < q =>
           LET i == InOrder(keys, p)
               k == InOrder(keys, q)
           IN  keys[i] > keys[k] \/ (keys[i] = keys[k] /\ i < k)
  <2>1. all \in Seq(Judged) /\ keys \in [DOMAIN all -> Int]
    BY <1>4, <1>6
  <2>2. /\ Ordered(all, keys) \in Seq(Judged) /\ Len(Ordered(all, keys)) = Len(all)
        /\ \A p \in DOMAIN all : InOrder(keys, p) \in DOMAIN all /\ Ordered(all, keys)[p] = all[InOrder(keys, p)]
    BY <2>1, OrderedIs
  <2>3. \A p, q \in DOMAIN all : p < q =>
           LET i == InOrder(keys, p)
               k == InOrder(keys, q)
           IN  keys[i] > keys[k] \/ (keys[i] = keys[k] /\ i < k)
    BY <2>1, OrderedIs
  <2> QED  BY <2>2, <2>3
<1>8. DOMAIN judged = DOMAIN all /\ DOMAIN all = 1 .. Len(judged) /\ Len(judged) \in Nat
  BY <1>4, <1>7
<1> HIDE DEF judged
<1>9. ASSUME NEW i \in DOMAIN judged
      PROVE  /\ judged[i] \in Judged /\ \E k \in DOMAIN gaps : judged[i].gap = gaps[k]
             /\ judged[i].support = "ungrounded" => judged[i].confidence <= 30
             /\ judged[i].support = "ungrounded" <=>
                  ToSet(IF judged[i].gap.numbers # <<>> THEN judged[i].gap.numbers
                        ELSE MarksOf(judged[i].gap.rationale)) \cap Numbers(evidence) = {}
  <2>1. PICK k \in DOMAIN gaps : judged[i] = judge(gaps[k])
    BY <1>3, <1>4, <1>7, <1>8
  <2>2. gaps[k] \in Gap
    OBVIOUS
  <2> QED  BY <1>2, <2>1, <2>2
<1>10. ASSUME NEW i \in DOMAIN judged, judged[i].support = "ungrounded", NEW j \in i .. Len(judged)
       PROVE  judged[j].support = "ungrounded"
  <2> SUFFICES ASSUME judged[j].support # "ungrounded" PROVE FALSE
    OBVIOUS
  <2>1. i \in Nat /\ j \in DOMAIN judged /\ i < j
    <3>1. i \in Nat /\ j \in DOMAIN judged /\ i <= j
      BY <1>8
    <3> QED  BY <1>10, <3>1
  <2>2. judged[i] \in Judged /\ judged[j] \in Judged /\ judged[i].confidence <= 30
    BY <1>9, <1>10, <2>1
  <2>3. key(judged[i]) <= 30 /\ key(judged[j]) >= 1000 /\ key(judged[i]) \in Int /\ key(judged[j]) \in Int
    <3>1. key(judged[i]) = judged[i].confidence /\ key(judged[i]) \in Int
      BY <1>5, <1>10, <2>2
    <3>2. key(judged[j]) = judged[j].confidence + 1000 /\ key(judged[j]) \in Int /\ judged[j].confidence \in 0 .. 100
      BY <1>5, <2>2
    <3> DEFINE a == key(judged[i])
               b == key(judged[j])
               cj == judged[j].confidence
    <3>3. a \in Int /\ b \in Int /\ a <= 30 /\ b = cj + 1000 /\ cj \in 0 .. 100
      BY <2>2, <3>1, <3>2
    <3> HIDE DEF a, b, cj
    <3>4. b >= 1000
      BY <3>3
    <3> QED  BY <3>3, <3>4 DEF a, b
  <2>4. InOrder(keys, i) \in DOMAIN all /\ InOrder(keys, j) \in DOMAIN all /\ judged[i] = all[InOrder(keys, i)] /\ judged[j] = all[InOrder(keys, j)]
    BY <1>7, <1>8, <2>1
  <2>5. keys[InOrder(keys, i)] >= keys[InOrder(keys, j)]
    <3>1. keys[InOrder(keys, i)] \in Int /\ keys[InOrder(keys, j)] \in Int
      BY <1>6, <2>4
    <3>2. i \in DOMAIN all /\ j \in DOMAIN all
      BY <1>8, <2>1
    <3>3. keys[InOrder(keys, i)] > keys[InOrder(keys, j)] \/ keys[InOrder(keys, i)] = keys[InOrder(keys, j)]
      BY <1>7, <2>1, <3>2, Zenon
    <3> QED  BY <3>1, <3>3
  <2> QED  BY <1>6, <2>3, <2>4, <2>5
<1>11. Told(judged, evidence)
  BY <1>9, <1>10 DEF Told
<1> QED  BY <1>1, <1>7, <1>9, <1>11

\* The positions of a contradiction use what they mark.
LEMMA PositionUsesIs ==
  ASSUME NEW evidence, NEW positions \in Seq(Contrary)
  PROVE  LET stances == FlattenSeq([i \in DOMAIN positions |-> positions[i].stance])
         IN  Covers(PositionUses(evidence, positions), stances, evidence)
<1> DEFINE f == [i \in DOMAIN positions |-> positions[i].stance]
           own(i) == IF positions[i].number \in Numbers(evidence) THEN <<positions[i].number>> ELSE <<>>
           g == [i \in DOMAIN positions |-> own(i) \o NumbersIn(evidence, positions[i].stance)]
<1>1. PositionUses(evidence, positions) = FlattenSeq(g)
  BY DEF PositionUses, Each
<1>2. \A i \in DOMAIN positions : positions[i].stance \in Seq(Said) /\ positions[i].number \in Int
  <2>1. \A p \in Contrary : p.stance \in Seq(Said) /\ p.number \in Int
    BY TextIs DEF Contrary
  <2> QED  BY <2>1
<1>3. ASSUME NEW i \in DOMAIN positions
      PROVE  g[i] \in Seq(Int) /\ MarkedIn(ToSet(f[i])) \cap Numbers(evidence) \subseteq ToSet(g[i])
  <2> DEFINE stance == positions[i].stance
             mine == own(i)
  <2>1. stance \in Seq(Said) /\ mine \in Seq(Int) /\ g[i] = mine \o NumbersIn(evidence, stance) /\ f[i] = stance
    BY <1>2
  <2> HIDE DEF stance, mine, f, g
  <2>2. /\ NumbersIn(evidence, stance) \in Seq(Int)
        /\ ToSet(NumbersIn(evidence, stance)) = MarkedIn(ToSet(stance)) \cap Numbers(evidence)
    BY <2>1, NumbersInIs
  <2>3. g[i] \in Seq(Int) /\ ToSet(g[i]) = ToSet(mine) \cup ToSet(NumbersIn(evidence, stance))
    BY <2>1, <2>2, ConcatHas
  <2> QED  BY <2>1, <2>2, <2>3
<1>4. f \in [DOMAIN positions -> Seq(Said)] /\ g \in [DOMAIN positions -> Seq(Int)]
  BY <1>2, <1>3
<1> HIDE DEF f, g
<1>5. FlattenSeq(g) \in Seq(Int) /\ ToSet(FlattenSeq(g)) = UNION {ToSet(g[i]) : i \in DOMAIN positions}
  BY <1>4, FlattenEach
<1>6. /\ FlattenSeq(f) \in Seq(Said)
      /\ \A x \in MarkedIn(ToSet(FlattenSeq(f))) : \E i \in DOMAIN positions : x \in MarkedIn(ToSet(f[i]))
  BY <1>4, TextsMark
<1>7. Covers(FlattenSeq(g), FlattenSeq(f), evidence)
  BY <1>3, <1>5, <1>6 DEF Covers
<1> QED  BY <1>1, <1>7 DEF f

\* Lists one after the other.
LEMMA ConcatOfThree ==
  ASSUME NEW S, NEW a \in Seq(S), NEW b \in Seq(S), NEW c \in Seq(S)
  PROVE  a \o b \o c \in Seq(S) /\ ToSet(a \o b \o c) = ToSet(a) \cup ToSet(b) \cup ToSet(c)
<1> DEFINE d == a \o b
<1>1. d \in Seq(S) /\ ToSet(d) = ToSet(a) \cup ToSet(b)
  BY ConcatHas
<1> HIDE DEF d
<1>2. d \o c \in Seq(S) /\ ToSet(d \o c) = ToSet(d) \cup ToSet(c)
  BY <1>1, ConcatHas
<1> QED  BY <1>1, <1>2 DEF d

\* The same of four.
LEMMA ConcatOfFour ==
  ASSUME NEW S, NEW a \in Seq(S), NEW b \in Seq(S), NEW c \in Seq(S), NEW e \in Seq(S)
  PROVE  /\ a \o b \o c \o e \in Seq(S)
         /\ ToSet(a \o b \o c \o e) = ToSet(a) \cup ToSet(b) \cup ToSet(c) \cup ToSet(e)
<1> DEFINE d == a \o b \o c
<1>1. d \in Seq(S) /\ ToSet(d) = ToSet(a) \cup ToSet(b) \cup ToSet(c)
  BY ConcatOfThree
<1> HIDE DEF d
<1>2. d \o e \in Seq(S) /\ ToSet(d \o e) = ToSet(d) \cup ToSet(e)
  BY <1>1, ConcatHas
<1> QED  BY <1>1, <1>2 DEF d

\* A gap analysis covers its text, and its gaps are told as they should be.
LEMMA ResearchGapsIs ==
  ASSUME NEW evidence, NEW ps, NEW draft0 \in ResearchGapResult, NEW most \in Nat
  PROVE  LET result == ResearchGaps(ps, evidence, draft0, most)
         IN  Covers(result.uses, result.text, evidence) /\ Told(result.gaps, evidence)
<1> DEFINE gaps == Top(draft0.gaps, most)
           judged == JudgedGaps(evidence, gaps)
           pieces == [i \in DOMAIN judged |-> judged[i].gap.description \o judged[i].gap.rationale]
           shown == FlattenSeq(pieces)
           positions == draft0.contradictions
           stances == FlattenSeq([i \in DOMAIN positions |-> positions[i].stance])
           first == draft0.summary
           second == draft0.consensus
           text == first \o second \o stances \o shown
           named == FlattenSeq([i \in DOMAIN gaps |-> GapNumbers(evidence, gaps[i])])
           rest == first \o second \o shown
           uses == named \o PositionUses(evidence, positions) \o NumbersIn(evidence, rest)
<1>1. first \in Seq(Said) /\ second \in Seq(Said) /\ draft0.gaps \in Seq(Gap) /\ positions \in Seq(Contrary)
  BY TextIs DEF ResearchGapResult, Gap, Contrary
<1>2. LET result == ResearchGaps(ps, evidence, draft0, most)
      IN  result.uses = uses /\ result.text = text /\ result.gaps = judged
  BY DEF ResearchGaps, Each
<1>3. gaps \in Seq(Gap)
  <2> DEFINE drafted == draft0.gaps
  <2> HIDE DEF drafted
  <2>1. drafted \in Seq(Gap)
    BY <1>1 DEF drafted
  <2>2. Top(drafted, most) \in Seq(Gap)
    BY <2>1, TopIs
  <2> QED  BY <2>2 DEF drafted
<1> HIDE DEF gaps
<1>4. judged \in Seq(Judged) /\ Told(judged, evidence)
  BY <1>3, JudgedGapsIs
<1> HIDE DEF judged
<1>5. pieces \in [DOMAIN judged -> Seq(Said)]
  <2>1. \A g \in Gap : g.description \in Seq(Said) /\ g.rationale \in Seq(Said)
    BY TextIs DEF Gap
  <2>2. \A i \in DOMAIN judged : judged[i].gap \in Gap
    <3>1. \A j \in Judged : j.gap \in Gap
      BY DEF Judged
    <3> QED  BY <1>4, <3>1
  <2> QED  BY <2>1, <2>2
<1> HIDE DEF pieces
<1>6. shown \in Seq(Said)
  BY <1>4, <1>5, FlattenEach
<1> HIDE DEF shown, first, second, positions
<1>7. Covers(PositionUses(evidence, positions), stances, evidence)
  BY <1>1, PositionUsesIs
<1> HIDE DEF stances
<1>8. rest \in Seq(Said) /\ ToSet(rest) = ToSet(first) \cup ToSet(second) \cup ToSet(shown)
  BY <1>1, <1>6, ConcatOfThree
<1>9. text \in Seq(Said) /\ ToSet(text) = ToSet(first) \cup ToSet(second) \cup ToSet(stances) \cup ToSet(shown)
  <2>1. stances \in Seq(Said)
    BY <1>7 DEF Covers
  <2> QED  BY <1>1, <1>6, <2>1, ConcatOfFour
<1> HIDE DEF rest, text
<1>10. /\ NumbersIn(evidence, rest) \in Seq(Int)
       /\ ToSet(NumbersIn(evidence, rest)) = MarkedIn(ToSet(rest)) \cap Numbers(evidence)
  BY <1>8, NumbersInIs
<1>11. named \in Seq(Int)
  <2> DEFINE f == [i \in DOMAIN gaps |-> GapNumbers(evidence, gaps[i])]
  <2>1. f \in [DOMAIN gaps -> Seq(Int)]
    BY <1>3, GapIs
  <2> HIDE DEF f
  <2>2. FlattenSeq(f) \in Seq(Int)
    BY <1>3, <2>1, FlattenEach
  <2> QED  BY <2>2 DEF f
<1> HIDE DEF named
<1> DEFINE others == PositionUses(evidence, positions)
           these == NumbersIn(evidence, rest)
<1>12. others \in Seq(Int) /\ these \in Seq(Int)
  BY <1>7, <1>10 DEF Covers
<1> HIDE DEF others, these
<1>13. named \o others \o these \in Seq(Int)
       /\ ToSet(named \o others \o these) = ToSet(named) \cup ToSet(others) \cup ToSet(these)
  BY <1>11, <1>12, ConcatOfThree
<1>14. ASSUME NEW x \in MarkedIn(ToSet(text)), x \in Numbers(evidence) PROVE x \in ToSet(others) \cup ToSet(these)
  <2>1. PICK s \in ToSet(text) : x \in ToSet(s.marks)
    BY DEF MarkedIn
  <2>2. CASE s \in ToSet(stances)
    <3>1. x \in MarkedIn(ToSet(stances))
      BY <2>1, <2>2 DEF MarkedIn
    <3> QED  BY <1>7, <1>14, <3>1 DEF Covers, others
  <2>3. CASE s \in ToSet(rest)
    <3>1. x \in MarkedIn(ToSet(rest))
      BY <2>1, <2>3 DEF MarkedIn
    <3> QED  BY <1>10, <1>14, <3>1 DEF these
  <2> QED  BY <1>8, <1>9, <2>1, <2>2, <2>3
<1>15. Covers(uses, text, evidence)
  BY <1>9, <1>13, <1>14 DEF Covers, others, these
<1> QED  BY <1>2, <1>4, <1>15
-----------------------------------------------------------------------------
(* The store                                                                *)

\* What is stored are chunks, each of one paper, that say something.
LEMMA StoredIs ==
  Stored \subseteq StoredChunk /\ OneDoc(Stored) /\ Tells(Stored)
<1>1. ASSUME NEW c \in Stored PROVE c \in StoredChunk
  <2>1. CASE c \in ToSet(Again.chunks)
    <3>1. Again.chunks \in Seq(StoredChunk)
      BY StoreAssumption
    <3> QED  BY <2>1, <3>1 DEF ToSet
  <2>2. CASE \E b \in Corpora : \E d \in Documents : c \in ToSet(b[d].chunks)
    <3>1. PICK b \in Corpora, d \in Documents : c \in ToSet(b[d].chunks)
      BY <2>2
    <3>2. b[d].chunks \in Seq(StoredChunk)
      BY StoreAssumption
    <3> QED  BY <3>1, <3>2 DEF ToSet
  <2> QED  BY <2>1, <2>2 DEF Stored
<1>2. OneDoc(Stored)
  BY StoreAssumption DEF OneDoc
<1> QED  BY <1>1, <1>2, StoredTell DEF Tells

\* Hits of some chunks are hits of more.
LEMMA HitsGrow ==
  ASSUME NEW W, NEW V, W \subseteq V
  PROVE  Seq(Hits(W)) \subseteq Seq(Hits(V))
<1>1. Hits(W) \subseteq Hits(V)
  BY DEF Hits
<1> QED  BY <1>1

AnyCard == Seq(Point) \cup {NoProfile}

\* A card made of the chunks of a paper is its own.
LEMMA CardOfIs ==
  ASSUME NEW d \in Documents, NEW chunks \in Seq(StoredChunk),
         \A c \in ToSet(chunks) : c \in Stored /\ c.doc = d, NEW grounded \in BOOLEAN
  PROVE  CardOf(chunks, grounded) \in Seq(Point) /\ OwnCard(CardOf(chunks, grounded), d)
<1> DEFINE I(c) == {i \in DOMAIN c.text : CueOf(c.text[i]) # NoCue}
           cues(c) == Kept(c.text, I(c))
           point(c, s) == [of |-> s, chunk |-> c.id, grounded |-> grounded, field |-> CueOf(s).field,
                           entity |-> CueOf(s).entity]
           points(c) == [k \in DOMAIN cues(c) |-> point(c, cues(c)[k])]
           f == [i \in DOMAIN chunks |-> points(chunks[i])]
           P == {q \in Point : \E c \in ToSet(chunks) : q.chunk = c.id}
<1>1. CardOf(chunks, grounded) = FlattenSeq(f)
  BY DEF CardOf, Each, Select
<1>2. ASSUME NEW c \in ToSet(chunks) PROVE points(c) \in Seq(P)
  <2>1. c \in StoredChunk
    BY DEF ToSet
  <2>2. c.id \in STRING /\ c.text \in Seq(DOMAIN Says)
    BY <2>1 DEF StoredChunk
  <2>3. I(c) \in SUBSET DOMAIN c.text
    OBVIOUS
  <2>4. \A i \in I(c) : CueOf(c.text[i]) # NoCue
    OBVIOUS
  <2> DEFINE J == I(c)
             text == c.text
             id == c.id
             k == Kept(text, J)
  <2> HIDE DEF I
  <2>5. text \in Seq(DOMAIN Says) /\ J \in SUBSET DOMAIN text /\ id \in STRING /\ \A i \in J : CueOf(text[i]) # NoCue
    BY <2>2, <2>3, <2>4
  <2>6. cues(c) = k /\ \A s : point(c, s) = [of |-> s, chunk |-> id, grounded |-> grounded, field |-> CueOf(s).field,
                           entity |-> CueOf(s).entity]
    OBVIOUS
  <2>7. points(c) = [p \in DOMAIN k |-> point(c, k[p])]
    OBVIOUS
  <2> HIDE DEF J, text, points
  <2>8. k \in Seq(DOMAIN Says) /\ ToSet(k) \subseteq ToSet(text) /\ \A x \in ToSet(k) : \E i \in J : text[i] = x
    BY <2>5, KeptHas
  <2> HIDE DEF k, cues, point
  <2>9. ASSUME NEW p \in DOMAIN k PROVE point(c, k[p]) \in P
    <3> DEFINE s == k[p]
               fi == CueOf(s).field
               en == CueOf(s).entity
    <3>1. s \in DOMAIN Says /\ CueOf(s) # NoCue
      <4>1. k[p] \in DOMAIN Says /\ k[p] \in ToSet(k)
        BY <2>8 DEF ToSet
      <4>2. PICK i \in J : text[i] = k[p]
        BY <2>8, <4>1
      <4> QED  BY <2>5, <4>1, <4>2
    <3>2. CueOf(s) \in [field : STRING, entity : STRING]
      BY <3>1, StoreAssumption
    <3>3. fi \in STRING /\ en \in STRING
      BY <3>2
    <3>4. point(c, s) = [of |-> s, chunk |-> id, grounded |-> grounded, field |-> fi, entity |-> en]
      BY <2>6
    <3> HIDE DEF s, fi, en
    <3>5. point(c, s) \in Point /\ point(c, s).chunk = id
      BY <2>5, <3>1, <3>3, <3>4 DEF Point
    <3> QED  BY <3>5 DEF s, id
  <2>10. points(c) \in [DOMAIN k -> P]
    BY <2>7, <2>9
  <2> HIDE DEF P
  <2> QED  BY <2>8, <2>10, EachIs
<1> HIDE DEF points, P
<1>3. f \in [DOMAIN chunks -> Seq(P)]
  <2>1. \A i \in DOMAIN chunks : chunks[i] \in ToSet(chunks)
    BY DEF ToSet
  <2> QED  BY <1>2, <2>1
<1> HIDE DEF f
<1>4. FlattenSeq(f) \in Seq(P)
  BY <1>3, FlattenEach
<1>5. P \subseteq Point /\ \A q \in P : \E c \in ToSet(chunks) : q.chunk = c.id
  BY DEF P
<1>6. FlattenSeq(f) \in Seq(Point)
  BY <1>4, <1>5
<1> DEFINE card == FlattenSeq(f)
<1> HIDE DEF card
<1>7. ASSUME NEW i \in DOMAIN card, NEW c \in Stored, c.id = card[i].chunk PROVE c.doc = d
  <2>1. card[i] \in P
    BY <1>4 DEF card
  <2>2. PICK e \in ToSet(chunks) : card[i].chunk = e.id
    BY <1>5, <2>1
  <2>3. e \in Stored /\ e.doc = d
    OBVIOUS
  <2> QED  BY <1>7, <2>2, <2>3, StoredIs DEF OneDoc
<1> QED  BY <1>1, <1>6, <1>7 DEF OwnCard, card

CorpusIs ==
  /\ corpus \in [Documents -> [chunks : Seq(StoredChunk), profile : AnyCard]]
  /\ \A d \in Documents : /\ \A c \in ToSet(corpus[d].chunks) : c \in Stored /\ c.doc = d
                          /\ OwnCard(corpus[d].profile, d)

\* The store has the chunks of all papers.
LEMMA StoreIs ==
  ASSUME CorpusIs
  PROVE  /\ Store \in Seq(StoredChunk) /\ \A c \in ToSet(Store) : c \in Stored
         /\ \A d \in Documents : \A c \in ToSet(corpus[d].chunks) : c \in ToSet(Store)
<1> DEFINE f == [i \in DOMAIN DocOrder |-> corpus[DocOrder[i]].chunks]
<1>1. DocOrder \in Seq(Documents) /\ ToSet(DocOrder) = Documents
  BY StoreAssumption
<1>2. \A d \in Documents : corpus[d].chunks \in Seq(StoredChunk)
  BY DEF CorpusIs
<1>3. f \in [DOMAIN DocOrder -> Seq(StoredChunk)] /\ \A i \in DOMAIN DocOrder : f[i] = corpus[DocOrder[i]].chunks
  BY <1>1, <1>2
<1>4. Store = FlattenSeq(f)
  BY DEF Store, Each
<1> HIDE DEF f
<1>5. FlattenSeq(f) \in Seq(StoredChunk) /\ ToSet(FlattenSeq(f)) = UNION {ToSet(f[i]) : i \in DOMAIN DocOrder}
  BY <1>1, <1>3, FlattenEach
<1>6. ASSUME NEW c \in ToSet(Store) PROVE c \in Stored
  <2>1. PICK i \in DOMAIN DocOrder : c \in ToSet(corpus[DocOrder[i]].chunks)
    BY <1>3, <1>4, <1>5
  <2>2. DocOrder[i] \in Documents
    BY <1>1
  <2> QED  BY <2>1, <2>2 DEF CorpusIs
<1>7. ASSUME NEW d \in Documents, NEW c \in ToSet(corpus[d].chunks) PROVE c \in ToSet(Store)
  <2>1. PICK i \in DOMAIN DocOrder : DocOrder[i] = d
    BY <1>1 DEF ToSet
  <2> QED  BY <1>3, <1>4, <1>5, <2>1
<1> QED  BY <1>4, <1>5, <1>6, <1>7

\* Every chunk a request can see.
Reachable == {c \in Stored : InScope(c.doc, Scope)}

Asked == request \in Requests /\ effective \in DOMAIN Asks /\ attempt \in 1 .. 2

\* What can be seen is in scope, of one paper each, and says something.
LEMMA ReachableIs ==
  Scoped(Reachable, Scope) /\ OneDoc(Reachable) /\ Tells(Reachable)
BY StoredIs DEF Reachable, Scoped, OneDoc, Tells

\* A search of the store stays within what can be seen.
LEMMA SearchReaches ==
  ASSUME Asked, CorpusIs
  PROVE  /\ Judges(Store, request.near, request.judge)
         /\ Within(Store, Scope) \subseteq Reachable
<1>1. \A c \in ToSet(Store) : c \in Stored
  BY StoreIs
<1>2. \A c \in Stored : request.near[c.id] \in Int /\ request.judge[c.id] \in Int
  BY RequestAssumption DEF Asked
<1> QED  BY <1>1, <1>2 DEF Judges, Within, Reachable
-----------------------------------------------------------------------------
(* The inductive invariant of a request                                     *)

AnyPaper == [doc : Documents, profile : AnyCard]

\* The papers of a request are in its scope, with cards of their own.
PapersAre ==
  /\ papers \in Seq(AnyPaper)
  /\ \A i \in DOMAIN papers : InScope(papers[i].doc, Scope) /\ OwnCard(papers[i].profile, papers[i].doc)

\* What was found can be seen, and the evidence has no chunk twice.
FoundIs == hits \in Seq(Hits(Reachable)) /\ pack \in Seq(Hits(Reachable)) /\ Distinct(pack)

\* Where a request can be.
TaskPhases == {"models", "papers", "cards", "saving", "ground", "draft", "render"}

Going ==
  /\ phase \in Phases
  /\ phase \in {"question", "evaluate"} => request.op \in QuestionOps
  /\ phase \in TaskPhases => request.op \notin QuestionOps
  /\ phase \in {"ground", "render"} => request.op \in TaskOps
  /\ phase \notin {"question", "evaluate", "done"} => worker = "idle" /\ now = "start" /\ next = "start"
  /\ worker = "working" => now = next
  /\ phase \in TaskPhases \cup {"received"} => reply = NoReply
  /\ phase = "question" /\ worker \in {"working", "entering"} => reply = NoReply

\* Which cards there are.
Carded ==
  /\ phase \in {"models", "ground", "draft", "render"} /\ request.op \in TaskOps => Unprofiled = {}
  /\ phase \in {"cards", "saving"} /\ request.op = "summarise" => papers # <<>>
  /\ phase = "saving" => built \in DOMAIN papers /\ papers[built].profile \in Seq(Point)

\* Drafts are what the model may draft, or what the cards say.
Drafted ==
  /\ next = "verifying" => draft \in AnswerDraft
  /\ phase = "render" => /\ request.op = "gaps" => draft \in ResearchGapResult
                         /\ request.op = "literature" => draft \in ReviewDraft
                         /\ request.op = "compare" => draft \in ComparisonDraft

\* What a reply says, of the evidence it was written from.
Replied ==
  /\ reply.kind \in Replies
  /\ reply.kind \in {"answer", "task"} => Opens(reply, pack) /\ Reaches(reply, pack, Scope)
  /\ reply.kind = "answer" => Proven(reply, pack)
  /\ reply.kind = "task" /\ request.op = "gaps" => Told(reply.result.gaps, pack)

\* Which papers were found, and heard.
Heard ==
  request.op \in TaskOps =>
    /\ phase \notin {"draft", "render", "done"} => pack = <<>>
    /\ pack # <<>> => TakesTurns(pack, DocsOf(hits))
                      /\ (Cardinality(DocsOf(hits)) <= MAX_EVIDENCE_BLOCKS => DocsOf(pack) = DocsOf(hits))
    /\ (phase = "ground" \/ pack # <<>>) /\ ingest = "none" =>
         \A i \in DOMAIN papers : Searchable(papers[i].doc) => papers[i].doc \in DocsOf(hits)

RequestIInv ==
  Asked /\ CorpusIs /\ PapersAre /\ FoundIs /\ Going /\ Carded /\ Drafted /\ Replied /\ Heard

\* No step changes the request, and a part of the invariant is kept by a step
\* that leaves alone what it is about.
LEMMA PartsStay ==
  ASSUME RequestIInv, request' = request
  PROVE  /\ Scope' = Scope /\ Reachable' = Reachable
         /\ UNCHANGED <<effective, attempt>> => Asked'
         /\ UNCHANGED corpus => CorpusIs'
         /\ UNCHANGED papers => PapersAre' /\ Unprofiled' = Unprofiled
         /\ UNCHANGED <<hits, pack>> => FoundIs'
         /\ UNCHANGED <<phase, papers, built>> => Carded'
         /\ UNCHANGED <<phase, draft, next>> => Drafted'
         /\ UNCHANGED <<reply, pack>> => Replied'
         /\ UNCHANGED <<phase, pack, hits, ingest, papers, corpus>> => Heard'
<1>1. Scope' = Scope
  BY DEF Scope
<1>2. Reachable' = Reachable
  BY <1>1 DEF Reachable
<1>3. UNCHANGED <<effective, attempt>> => Asked'
  BY DEF RequestIInv, Asked
<1>4. UNCHANGED corpus => CorpusIs'
  BY DEF RequestIInv, CorpusIs
<1>5. UNCHANGED papers => PapersAre' /\ Unprofiled' = Unprofiled
  BY <1>1 DEF RequestIInv, PapersAre, Unprofiled
<1>6. UNCHANGED <<hits, pack>> => FoundIs'
  BY <1>2 DEF RequestIInv, FoundIs
<1>7. UNCHANGED <<phase, papers, built>> => Carded'
  BY DEF RequestIInv, Carded, Unprofiled
<1>8. UNCHANGED <<phase, draft, next>> => Drafted'
  BY DEF RequestIInv, Drafted
<1>9. UNCHANGED <<reply, pack>> => Replied'
  BY <1>1 DEF RequestIInv, Replied
<1>10. UNCHANGED <<phase, pack, hits, ingest, papers, corpus>> => Heard'
  BY DEF RequestIInv, Heard, Searchable
<1> QED  BY <1>1, <1>2, <1>3, <1>4, <1>5, <1>6, <1>7, <1>8, <1>9, <1>10

\* A request begins without papers, hits or reply.
LEMMA InitRequest == Init => RequestIInv
<1> SUFFICES ASSUME Init PROVE RequestIInv
  OBVIOUS
<1>1. Asked
  BY RequestAssumption DEF Init, Asked
<1>2. CorpusIs
  <2>1. corpus \in Corpora
    BY DEF Init
  <2>2. corpus \in [Documents -> [chunks : Seq(StoredChunk), profile : AnyCard]]
    BY <2>1, StoreAssumption DEF AnyCard
  <2>3. ASSUME NEW d \in Documents
        PROVE  /\ \A c \in ToSet(corpus[d].chunks) : c \in Stored /\ c.doc = d
               /\ OwnCard(corpus[d].profile, d)
    BY <2>1, <2>3, StoreAssumption DEF Stored
  <2> QED  BY <2>2, <2>3 DEF CorpusIs
<1>3. PapersAre /\ FoundIs
  BY DEF Init, PapersAre, FoundIs, Distinct
<1>4. Going
  BY DEF Init, Going, Phases, TaskPhases, StreamInit
<1>5. Carded /\ Drafted
  BY DEF Init, Carded, Drafted, StreamInit
<1>6. Replied
  BY DEF Init, Replied, Replies, NoReply
<1>7. Heard
  BY DEF Init, Heard
<1> QED  BY <1>1, <1>2, <1>3, <1>4, <1>5, <1>6, <1>7 DEF RequestIInv
-----------------------------------------------------------------------------
(* The steps of a question keep it                                          *)

\* What the invariant says of cards and of papers heard is not about questions.
LEMMA QuestionsAside ==
  ASSUME request' = request, request.op \in QuestionOps, phase' \in {"question", "evaluate", "done"}
  PROVE  Carded' /\ Heard'
<1>1. Carded'
  BY DEF Carded
<1>2. request'.op \notin TaskOps
  BY DEF QuestionOps, TaskOps
<1> QED  BY <1>1, <1>2 DEF Heard

\* The stages of a question that leave its evidence, its draft and its reply
\* alone.
LEMMA StagesKeep ==
  RequestIInv /\ (StartQuestion \/ Load \/ Loaded \/ Rewrite \/ Answered \/ Streaming) => RequestIInv'
<1> SUFFICES ASSUME RequestIInv, StartQuestion \/ Load \/ Loaded \/ Rewrite \/ Answered \/ Streaming
             PROVE  RequestIInv'
  OBVIOUS
<1>1. /\ request' = request /\ UNCHANGED corpus /\ UNCHANGED papers /\ UNCHANGED <<hits, pack>> /\ UNCHANGED <<reply, pack>>
      /\ UNCHANGED draft
  BY DEF StartQuestion, Load, Loaded, Rewrite, Answered, Streaming, Rest, workVars
<1>2. CorpusIs' /\ PapersAre' /\ FoundIs' /\ Replied'
  BY <1>1, PartsStay
<1>3. Asked'
  <2>1. attempt' = attempt /\ (effective' = effective \/ effective' \in {request.question} \cup Rewrites)
    BY DEF StartQuestion, Load, Loaded, Rewrite, Answered, Streaming, Rest, workVars
  <2>2. {request.question} \cup Rewrites \subseteq DOMAIN Asks
    BY RequestAssumption DEF RequestIInv, Asked
  <2> QED  BY <1>1, <2>1, <2>2 DEF RequestIInv, Asked
<1>4. request.op \in QuestionOps /\ phase' \in {"question", "evaluate", "done"}
  BY DEF StartQuestion, Load, Loaded, Rewrite, Answered, Streaming, At, ThisQuestion, Rest, RequestIInv, Going
<1>5. Carded' /\ Heard'
  BY <1>1, <1>4, QuestionsAside
<1>6. Going'
  <2>1. CASE StartQuestion
    BY <1>1, <1>4, <2>1 DEF StartQuestion, Begin, RequestIInv, Going, TaskPhases, Phases
  <2>2. CASE Load \/ Loaded \/ Rewrite
    BY <1>1, <1>4, <2>2 DEF Load, Loaded, Rewrite, At, ThisQuestion, Reach, Rest, RequestIInv, Going, TaskPhases, Phases
  <2>3. CASE Answered
    BY <1>1, <1>4, <2>3 DEF Answered, streamVars, RequestIInv, Going, TaskPhases, Phases
  <2>4. CASE Streaming
    BY <1>1, <1>4, <2>4 DEF Streaming, ThisQuestion, Enter, GiveUp, PutEnd, Generator, Deliver, EndOfStream, Notice, Close,
       Leave, Rest, RequestIInv, Going, TaskPhases, Phases
  <2> QED  BY <2>1, <2>2, <2>3, <2>4
<1>7. Drafted'
  <2>1. next' = "verifying" => next = "verifying"
    BY DEF StartQuestion, Begin, Load, Loaded, Rewrite, Reach, Answered, streamVars, Streaming, Enter, GiveUp, PutEnd,
       Generator, Deliver, EndOfStream, Notice, Close, Leave
  <2> QED  BY <1>1, <1>4, <2>1 DEF RequestIInv, Drafted
<1> QED  BY <1>2, <1>3, <1>5, <1>6, <1>7 DEF RequestIInv

\* What is found can be seen; the evidence is made of it.
LEMMA RetrieveKeeps == RequestIInv /\ Retrieve => RequestIInv'
<1> SUFFICES ASSUME RequestIInv, Retrieve PROVE RequestIInv'
  OBVIOUS
<1>1. /\ request' = request /\ phase' = phase /\ phase = "question" /\ worker = "working"
      /\ UNCHANGED corpus /\ UNCHANGED papers /\ UNCHANGED <<effective, attempt>> /\ UNCHANGED draft /\ UNCHANGED reply
  BY DEF Retrieve, At, ThisQuestion, Rest
<1>2. request.op \in QuestionOps /\ reply = NoReply
  BY <1>1 DEF RequestIInv, Going
<1>3. Asked' /\ CorpusIs' /\ PapersAre' /\ Carded' /\ Heard' /\ Reachable' = Reachable
  BY <1>1, <1>2, PartsStay, QuestionsAside
<1> DEFINE found == RetrieveMerged(Store, effective, Scope, request.topK, request.near, request.judge)
<1>4. found \in Seq(Hits(Reachable))
  <2> DEFINE near == request.near
             judge == request.judge
             topK == request.topK
  <2>1. Store \in Seq(StoredChunk)
    BY StoreIs DEF RequestIInv
  <2>2. effective \in DOMAIN Asks /\ topK \in Nat \ {0}
    BY RequestAssumption DEF RequestIInv, Asked
  <2>3. Judges(Store, near, judge) /\ Within(Store, Scope) \subseteq Reachable
    BY SearchReaches DEF RequestIInv
  <2> HIDE DEF near, judge, topK
  <2>4. RetrieveMerged(Store, effective, Scope, topK, near, judge) \in Seq(Hits(Within(Store, Scope)))
    BY <2>1, <2>2, <2>3, RetrieveMergedIs
  <2>5. Seq(Hits(Within(Store, Scope))) \subseteq Seq(Hits(Reachable))
    BY <2>3, HitsGrow
  <2> QED  BY <2>4, <2>5 DEF near, judge, topK
<1>5. hits' = found /\ pack' \in {<<>>, EvidencePack(found)} /\ next' # "verifying" /\ worker' = "entering"
  BY DEF Retrieve, Reach
<1> HIDE DEF found
<1>6. FoundIs'
  <2>1. EvidencePack(found) \in Seq(Hits(Reachable)) /\ Distinct(EvidencePack(found))
    BY <1>4, EvidencePackIs
  <2>2. <<>> \in Seq(Hits(Reachable)) /\ Distinct(<<>>)
    BY DEF Distinct
  <2> QED  BY <1>3, <1>4, <1>5, <2>1, <2>2 DEF FoundIs
<1>7. Going'
  BY <1>1, <1>2, <1>5 DEF RequestIInv, Going, TaskPhases, Phases
<1>8. Drafted' /\ Replied'
  BY <1>1, <1>2, <1>5 DEF Drafted, Replied, NoReply, Replies
<1> QED  BY <1>3, <1>6, <1>7, <1>8 DEF RequestIInv

\* An answer from general knowledge cites nothing and claims nothing.
LEMMA BackgroundKeeps == RequestIInv /\ Background => RequestIInv'
<1> SUFFICES ASSUME RequestIInv, Background PROVE RequestIInv'
  OBVIOUS
<1>1. /\ request' = request /\ phase' = phase /\ phase = "question" /\ worker = "working" /\ now = "background"
      /\ UNCHANGED corpus /\ UNCHANGED papers /\ UNCHANGED <<hits, pack>> /\ UNCHANGED effective /\ UNCHANGED draft
      /\ attempt' \in {attempt, 2}
  BY DEF Background, AskAgain, At, ThisQuestion, Rest
<1>2. request.op \in QuestionOps /\ reply = NoReply
  BY <1>1 DEF RequestIInv, Going
<1>3. CorpusIs' /\ PapersAre' /\ FoundIs' /\ Carded' /\ Heard'
  BY <1>1, <1>2, PartsStay, QuestionsAside
<1>4. Asked'
  BY <1>1 DEF RequestIInv, Asked
<1>5. next' = next /\ now' = now /\ ((worker' = worker /\ reply' = reply) \/ worker' = "ending")
  BY DEF Background, Finish, streamVars
<1>6. Going' /\ Drafted'
  BY <1>1, <1>2, <1>5 DEF RequestIInv, Going, Drafted, TaskPhases, Phases
<1>7. Replied'
  <2>1. CASE reply' = reply
    BY <1>2, <2>1 DEF Replied, NoReply, Replies
  <2>2. CASE reply' # reply
    <3>1. /\ reply'.kind = "answer" /\ reply'.text = <<[of |-> Abstention, written |-> <<>>, marks |-> <<>>]>>
          /\ reply'.citations = <<>> /\ reply'.claims = <<>> /\ reply'.insufficient = TRUE
      BY <2>2 DEF Background
    <3> DEFINE r == reply'
               evidence == pack'
               scope == Scope'
    <3>2. \A i \in DOMAIN r.text : r.text[i].marks = <<>>
      BY <3>1
    <3>3. ToSet(r.citations) = {}
      BY <3>1 DEF ToSet
    <3> HIDE DEF r, evidence, scope
    <3>4. Opens(r, evidence)
      BY <3>2 DEF Opens
    <3>5. Reaches(r, evidence, scope)
      BY <3>3 DEF Reaches
    <3>6. Proven(r, evidence)
      BY <3>1, <3>3 DEF Proven, r
    <3> QED  BY <3>1, <3>4, <3>5, <3>6 DEF Replied, Replies, r, evidence, scope
  <2> QED  BY <2>1, <2>2
<1> QED  BY <1>3, <1>4, <1>6, <1>7 DEF RequestIInv

\* What the model drafts is a draft.
LEMMA GenerateKeeps == RequestIInv /\ Generate => RequestIInv'
<1> SUFFICES ASSUME RequestIInv, Generate PROVE RequestIInv'
  OBVIOUS
<1>1. /\ request' = request /\ phase' = phase /\ phase = "question" /\ worker = "working" /\ now = "generating"
      /\ UNCHANGED corpus /\ UNCHANGED papers /\ UNCHANGED <<hits, pack>> /\ UNCHANGED <<reply, pack>> /\ UNCHANGED effective
      /\ attempt' \in {attempt, 2}
  BY DEF Generate, AskAgain, At, ThisQuestion, Rest
<1>2. request.op \in QuestionOps /\ reply = NoReply
  BY <1>1 DEF RequestIInv, Going
<1>3. CorpusIs' /\ PapersAre' /\ FoundIs' /\ Replied' /\ Carded' /\ Heard'
  BY <1>1, <1>2, PartsStay, QuestionsAside
<1>4. Asked'
  BY <1>1 DEF RequestIInv, Asked
<1>5. \/ worker' = worker /\ now' = now /\ next' = next /\ draft' = draft
      \/ worker' = "entering" /\ draft' \in AnswerDraft
  BY DEF Generate, Reach, streamVars
<1>6. Going'
  BY <1>1, <1>2, <1>5 DEF RequestIInv, Going, TaskPhases, Phases
<1>7. Drafted'
  BY <1>1, <1>5 DEF RequestIInv, Drafted
<1> QED  BY <1>3, <1>4, <1>6, <1>7 DEF RequestIInv

\* NO EVIDENCE = NO CLAIM: the answer is built from its draft and the evidence
\* (build_structured_answer).
LEMMA VerifyAnswerKeeps == RequestIInv /\ VerifyAnswer => RequestIInv'
<1> SUFFICES ASSUME RequestIInv, VerifyAnswer PROVE RequestIInv'
  OBVIOUS
<1>1. /\ request' = request /\ phase' = phase /\ phase = "question" /\ worker = "working" /\ now = "verifying"
      /\ UNCHANGED corpus /\ UNCHANGED papers /\ UNCHANGED <<hits, pack>> /\ UNCHANGED <<effective, attempt>>
      /\ UNCHANGED draft /\ UNCHANGED pack
      /\ worker' = "ending" /\ now' = now /\ next' = next
  BY DEF VerifyAnswer, Finish, At, ThisQuestion, Rest
<1>2. request.op \in QuestionOps /\ next = "verifying"
  BY <1>1 DEF RequestIInv, Going
<1>3. Asked' /\ CorpusIs' /\ PapersAre' /\ FoundIs' /\ Carded' /\ Heard' /\ Scope' = Scope
  BY <1>1, <1>2, PartsStay, QuestionsAside
<1>4. Going' /\ Drafted'
  BY <1>1, <1>2 DEF RequestIInv, Going, Drafted, TaskPhases, Phases
<1>5. Replied'
  <2> DEFINE r == BuildStructuredAnswer(draft, pack)
  <2>1. draft \in AnswerDraft
    BY <1>2 DEF RequestIInv, Drafted
  <2>2. pack \in Seq(Hits(Reachable)) /\ Distinct(pack)
    BY DEF RequestIInv, FoundIs
  <2>3. r.kind = "answer" /\ Opens(r, pack) /\ Reaches(r, pack, Scope) /\ Proven(r, pack)
    BY <2>1, <2>2, ReachableIs, AnswerIs
  <2>4. reply' = r
    BY DEF VerifyAnswer
  <2> HIDE DEF r
  <2> QED  BY <1>1, <1>3, <2>3, <2>4 DEF Replied, Replies
<1> QED  BY <1>3, <1>4, <1>5 DEF RequestIInv

\* A question that fails is answered with an error.
LEMMA FailQuestionKeeps == RequestIInv /\ FailQuestion => RequestIInv'
<1> SUFFICES ASSUME RequestIInv, FailQuestion PROVE RequestIInv'
  OBVIOUS
<1>1. /\ request' = request /\ phase' = phase /\ phase = "question"
      /\ UNCHANGED corpus /\ UNCHANGED papers /\ UNCHANGED <<hits, pack>> /\ UNCHANGED <<effective, attempt>> /\ UNCHANGED draft
      /\ worker' = "ending" /\ now' = now /\ next' = next /\ reply' = [kind |-> "error"]
  BY DEF FailQuestion, Fail, ThisQuestion, Rest
<1>2. request.op \in QuestionOps
  BY <1>1 DEF RequestIInv, Going
<1>3. Asked' /\ CorpusIs' /\ PapersAre' /\ FoundIs' /\ Carded' /\ Heard'
  BY <1>1, <1>2, PartsStay, QuestionsAside
<1>4. Going' /\ Drafted' /\ Replied'
  BY <1>1, <1>2 DEF RequestIInv, Going, Drafted, Replied, Replies, TaskPhases, Phases
<1> QED  BY <1>3, <1>4 DEF RequestIInv

\* A report has no citations of its own.
LEMMA EvaluateKeeps == RequestIInv /\ Evaluate => RequestIInv'
<1> SUFFICES ASSUME RequestIInv, Evaluate PROVE RequestIInv'
  OBVIOUS
<1>1. /\ request' = request /\ phase' = "done" /\ phase = "evaluate"
      /\ UNCHANGED corpus /\ UNCHANGED papers /\ UNCHANGED <<hits, pack>> /\ UNCHANGED <<effective, attempt>> /\ UNCHANGED draft
      /\ worker' = worker /\ now' = now /\ next' = next /\ reply'.kind \in {"error", "report"}
  BY DEF Evaluate, streamVars
<1>2. request.op \in QuestionOps
  BY <1>1 DEF RequestIInv, Going
<1>3. Asked' /\ CorpusIs' /\ PapersAre' /\ FoundIs' /\ Carded' /\ Heard'
  BY <1>1, <1>2, PartsStay, QuestionsAside
<1>4. Going' /\ Drafted' /\ Replied'
  BY <1>1, <1>2 DEF RequestIInv, Going, Drafted, Replied, Replies, TaskPhases, Phases
<1> QED  BY <1>3, <1>4 DEF RequestIInv

\* Every step of a question keeps the invariant.
LEMMA QuestionKeeps == RequestIInv /\ (QuestionStep \/ Streaming) => RequestIInv'
BY StagesKeep, RetrieveKeeps, BackgroundKeeps, GenerateKeeps, VerifyAnswerKeeps, FailQuestionKeeps, EvaluateKeeps DEF QuestionStep
-----------------------------------------------------------------------------
(* The steps of the other requests keep it                                  *)

\* The papers of a request have cards once none is missing.
LEMMA ProfiledPapers ==
  ASSUME PapersAre, Unprofiled = {}
  PROVE  papers \in Seq(Paper)
<1>1. \A i \in DOMAIN papers : papers[i] \in AnyPaper /\ papers[i].profile # NoProfile
  BY DEF PapersAre, Unprofiled
<1>2. \A i \in DOMAIN papers : papers[i] \in Paper
  BY <1>1 DEF AnyPaper, AnyCard, Paper
<1> QED  BY <1>2 DEF PapersAre

\* The chunks the card of a paper names can be seen by a request of the paper.
LEMMA CardReaches ==
  ASSUME RequestIInv, NEW i \in DOMAIN papers, papers[i].profile \in Seq(Point), papers[i].profile # NoProfile
  PROVE  {c \in ToSet(Store) : c.id \in ChunksOf(papers[i].profile)} \subseteq Reachable
<1>1. OwnCard(papers[i].profile, papers[i].doc) /\ InScope(papers[i].doc, Scope)
  BY DEF RequestIInv, PapersAre
<1>2. ASSUME NEW c \in ToSet(Store), c.id \in ChunksOf(papers[i].profile) PROVE c \in Reachable
  <2>1. c \in Stored
    BY StoreIs DEF RequestIInv
  <2> DEFINE profile == papers[i].profile
             d == papers[i].doc
  <2>2. profile \in Seq(Point) /\ OwnCard(profile, d) /\ c.id \in ChunksOf(profile) /\ InScope(d, Scope) /\ profile # NoProfile
    BY <1>1, <1>2
  <2> HIDE DEF profile, d
  <2>3. PICK k \in DOMAIN profile : c.id = profile[k].chunk
    BY <2>2 DEF ChunksOf, ToSet
  <2>4. c.doc = d
    BY <2>1, <2>2, <2>3 DEF OwnCard
  <2> QED  BY <2>1, <2>2, <2>4 DEF Reachable
<1> QED  BY <1>2

\* What a step of such a request has to leave alone.
LEMMA RequestGoes ==
  ASSUME RequestIInv, request' = request, UNCHANGED streamVars, phase \in TaskPhases \cup {"received"},
         request.op \notin QuestionOps, phase' \in TaskPhases \cup {"done"},
         phase' \in {"ground", "render"} => request.op \in TaskOps, phase' # "done" => reply' = reply
  PROVE  Going' /\ next' = "start" /\ reply = NoReply
<1>1. worker = "idle" /\ now = "start" /\ next = "start" /\ reply = NoReply
  BY DEF RequestIInv, Going, TaskPhases
<1>2. worker' = "idle" /\ now' = "start" /\ next' = "start"
  BY <1>1 DEF streamVars
<1>3. phase' \in Phases /\ phase' \notin {"question", "evaluate", "received"}
  BY DEF TaskPhases, Phases
<1>4. phase' # "done" => reply' = NoReply
  BY <1>1
<1> QED  BY <1>1, <1>2, <1>3, <1>4 DEF Going, TaskPhases

\* No paper is to be heard before there is evidence.
LEMMA NoneHeardYet ==
  ASSUME request' = request, request.op \in TaskOps => pack' = <<>>, phase' # "ground"
  PROVE  Heard'
BY DEF Heard

\* Without a reply nothing is said, and an error, a list or nothing says nothing.
LEMMA SaysNothing ==
  ASSUME reply'.kind \in {"none", "error", "list", "nothing"}
  PROVE  Replied'
BY DEF Replied, Replies

\* A request is refused or goes on to its models or its papers.
LEMMA StartRequestKeeps == RequestIInv /\ StartRequest => RequestIInv'
<1> SUFFICES ASSUME RequestIInv, StartRequest PROVE RequestIInv'
  OBVIOUS
<1>1. /\ request' = request /\ UNCHANGED corpus /\ UNCHANGED papers /\ UNCHANGED <<hits, pack>> /\ UNCHANGED <<effective, attempt>>
      /\ UNCHANGED streamVars /\ phase = "received" /\ request.op \notin QuestionOps /\ UNCHANGED pack
      /\ papers' = papers /\ built' = built
  BY DEF StartRequest, Work
<1>2. phase' \in {"done", "models", "papers"} /\ (phase' # "done" => reply' = reply) /\ (phase' = "done" => reply'.kind = "error")
      /\ (phase' = "models" => request.op \in {"search", "review"})
  BY DEF StartRequest, Done
<1>3. Asked' /\ CorpusIs' /\ PapersAre' /\ FoundIs'
  BY <1>1, PartsStay
<1>4. Going' /\ next' = "start" /\ reply = NoReply
  BY <1>1, <1>2, RequestGoes DEF TaskPhases
<1>5. Carded' /\ Drafted'
  BY <1>1, <1>2, <1>4 DEF Carded, Drafted, TaskOps
<1>6. Replied'
  BY <1>2, <1>4, SaysNothing DEF NoReply
<1>7. Heard'
  <2>1. request.op \in TaskOps => pack = <<>>
    BY <1>1 DEF RequestIInv, Heard
  <2> QED  BY <1>1, <1>2, <2>1, NoneHeardYet
<1> QED  BY <1>3, <1>4, <1>5, <1>6, <1>7 DEF RequestIInv

\* A search finds what can be seen.
LEMMA SearchKeeps == RequestIInv /\ Search => RequestIInv'
<1> SUFFICES ASSUME RequestIInv, Search PROVE RequestIInv'
  OBVIOUS
<1>1. /\ request' = request /\ UNCHANGED corpus /\ UNCHANGED papers /\ UNCHANGED <<effective, attempt>>
      /\ UNCHANGED streamVars /\ phase = "models" /\ request.op \in {"search", "review"} /\ UNCHANGED pack
  BY DEF Search, Work
<1>2. phase' \in {"papers", "done"} /\ (phase' # "done" => reply' = reply)
      /\ (phase' = "done" => reply'.kind \in {"nothing", "list"})
  BY DEF Search, Done, NothingFound
<1>3. Asked' /\ CorpusIs' /\ PapersAre' /\ Reachable' = Reachable
  BY <1>1, PartsStay
<1>4. Going' /\ next' = "start" /\ reply = NoReply
  BY <1>1, <1>2, RequestGoes DEF TaskPhases, QuestionOps
<1>5. Carded' /\ Drafted'
  BY <1>1, <1>2, <1>4 DEF Carded, Drafted, TaskOps
<1>6. Replied'
  BY <1>2, <1>4, SaysNothing DEF NoReply
<1>7. Heard'
  BY <1>1 DEF Heard, TaskOps
<1>8. FoundIs'
  <2> DEFINE near == request.near
             judge == request.judge
             topK == request.topK
  <2>1. Store \in Seq(StoredChunk)
    BY StoreIs DEF RequestIInv
  <2>2. effective \in DOMAIN Asks /\ topK \in Nat \ {0}
    BY RequestAssumption DEF RequestIInv, Asked
  <2>3. Judges(Store, near, judge) /\ Within(Store, Scope) \subseteq Reachable
    BY SearchReaches DEF RequestIInv
  <2>4. hits' = RetrieveChunks(Store, effective, Scope, topK, near, judge)
    BY DEF Search
  <2> HIDE DEF near, judge, topK
  <2>5. hits' \in Seq(Hits(Within(Store, Scope)))
    BY <2>1, <2>2, <2>3, <2>4, RetrieveChunksIs
  <2>6. Seq(Hits(Within(Store, Scope))) \subseteq Seq(Hits(Reachable))
    BY <2>3, HitsGrow
  <2> QED  BY <1>1, <1>3, <2>5, <2>6 DEF RequestIInv, FoundIs
<1> QED  BY <1>3, <1>4, <1>5, <1>6, <1>7, <1>8 DEF RequestIInv

\* The papers of a request are those it names, or those of its collection.
LEMMA ReadPapersKeeps == RequestIInv /\ ReadPapers => RequestIInv'
<1> SUFFICES ASSUME RequestIInv, ReadPapers PROVE RequestIInv'
  OBVIOUS
<1>1. /\ request' = request /\ UNCHANGED corpus /\ UNCHANGED <<hits, pack>> /\ UNCHANGED <<effective, attempt>>
      /\ UNCHANGED streamVars /\ phase = "papers" /\ UNCHANGED pack /\ phase' = "cards" /\ reply' = reply
  BY DEF ReadPapers, Work
<1>2. request.op \notin QuestionOps
  BY <1>1 DEF RequestIInv, Going, TaskPhases
<1>3. Asked' /\ CorpusIs' /\ FoundIs' /\ Scope' = Scope
  BY <1>1, PartsStay
<1>4. Going' /\ next' = "start" /\ reply = NoReply
  BY <1>1, <1>2, RequestGoes DEF TaskPhases
<1>5. Drafted' /\ Replied'
  BY <1>1, <1>4, SaysNothing DEF Drafted, NoReply
<1>6. Heard'
  <2>1. request.op \in TaskOps => pack = <<>>
    BY <1>1 DEF RequestIInv, Heard
  <2> QED  BY <1>1, <2>1, NoneHeardYet
<1> DEFINE I == {i \in DOMAIN DocOrder : CollectionOf[DocOrder[i]] = request.collection /\ corpus[DocOrder[i]].chunks # <<>>}
           ofCollection == Kept(DocOrder, I)
           docs == IF request.docs # <<>> THEN request.docs ELSE Top(ofCollection, DOCUMENT_LIMIT)
           f == [i \in DOMAIN docs |-> [doc |-> docs[i], profile |-> corpus[docs[i]].profile]]
<1>7. papers' = f
  BY DEF ReadPapers, Each, Select
<1>8. docs \in Seq(Documents) /\ \A i \in DOMAIN docs : InScope(docs[i], Scope)
  <2>0. request \in Requests
    BY DEF RequestIInv, Asked
  <2>1. CASE request.docs # <<>>
    <3>1. docs = request.docs /\ request.docs \in Seq(Documents)
      BY <2>0, <2>1, RequestAssumption
    <3>2. \A i \in DOMAIN request.docs : request.docs[i] \in ToSet(request.docs)
      BY DEF ToSet
    <3> HIDE DEF docs
    <3>3. request.collection # NoCollection => \A d \in ToSet(request.docs) : CollectionOf[d] = request.collection
      BY <2>0, RequestAssumption
    <3> QED  BY <3>1, <3>2, <3>3 DEF InScope, Scope
  <2>2. CASE request.docs = <<>>
    <3>1. DocOrder \in Seq(Documents) /\ I \in SUBSET DOMAIN DocOrder /\ DOCUMENT_LIMIT \in Nat
      BY StoreAssumption, RequestAssumption
    <3>2. \A i \in I : CollectionOf[DocOrder[i]] = request.collection
      OBVIOUS
    <3>3. docs = Top(ofCollection, DOCUMENT_LIMIT)
      BY <2>2
    <3> HIDE DEF I, docs
    <3>4. ofCollection \in Seq(Documents) /\ \A x \in ToSet(ofCollection) : \E i \in I : DocOrder[i] = x
      BY <3>1, KeptHas
    <3> HIDE DEF ofCollection
    <3>5. docs \in Seq(Documents) /\ ToSet(docs) \subseteq ToSet(ofCollection)
      BY <3>1, <3>3, <3>4, TopHas
    <3>6. ASSUME NEW i \in DOMAIN docs PROVE InScope(docs[i], Scope)
      <4>1. docs[i] \in ToSet(ofCollection)
        BY <3>5 DEF ToSet
      <4>2. CollectionOf[docs[i]] = request.collection
        BY <3>2, <3>4, <4>1
      <4> QED  BY <2>2, <4>2 DEF InScope, Scope
    <3> QED  BY <3>5, <3>6
  <2> QED  BY <2>1, <2>2
<1>9. request.op = "summarise" => docs # <<>>
  <2>1. request.op = "summarise" => request.docs # <<>>
    BY RequestAssumption DEF RequestIInv, Asked
  <2> QED  BY <2>1
<1> HIDE DEF docs
<1>10. PapersAre'
  <2>1. ASSUME NEW i \in DOMAIN docs
        PROVE  f[i] \in AnyPaper /\ InScope(f[i].doc, Scope) /\ OwnCard(f[i].profile, f[i].doc)
    <3> DEFINE d == docs[i]
               profile == corpus[d].profile
    <3>1. d \in Documents /\ InScope(d, Scope)
      BY <1>8
    <3>2. profile \in AnyCard /\ OwnCard(profile, d)
      BY <3>1 DEF RequestIInv, CorpusIs
    <3>3. f[i] = [doc |-> d, profile |-> profile]
      OBVIOUS
    <3> HIDE DEF d, profile, f
    <3> QED  BY <3>1, <3>2, <3>3 DEF AnyPaper
  <2>2. f \in [DOMAIN docs -> AnyPaper]
    BY <2>1
  <2>3. DOMAIN f = DOMAIN docs
    OBVIOUS
  <2> HIDE DEF f
  <2>4. f \in Seq(AnyPaper)
    BY <1>8, <2>2, EachIs
  <2> QED  BY <1>3, <1>7, <2>1, <2>3, <2>4 DEF PapersAre
<1>11. Carded'
  <2>1. request.op = "summarise" => f # <<>>
    <3>1. request.op = "summarise" => DOMAIN docs # {}
      BY <1>8, <1>9
    <3>2. DOMAIN f = DOMAIN docs
      OBVIOUS
    <3> HIDE DEF f
    <3> QED  BY <3>1, <3>2
  <2> HIDE DEF f
  <2> QED  BY <1>1, <1>7, <2>1 DEF Carded
<1> QED  BY <1>3, <1>4, <1>5, <1>6, <1>10, <1>11 DEF RequestIInv

\* A card is built of the chunks of its paper.
LEMMA BuildCardKeeps == RequestIInv /\ BuildCard => RequestIInv'
<1> SUFFICES ASSUME RequestIInv, BuildCard PROVE RequestIInv'
  OBVIOUS
<1>1. /\ request' = request /\ UNCHANGED corpus /\ UNCHANGED <<hits, pack>> /\ UNCHANGED <<effective, attempt>>
      /\ UNCHANGED streamVars /\ phase = "cards" /\ UNCHANGED pack /\ phase' = "saving" /\ reply' = reply
  BY DEF BuildCard, Work
<1>2. request.op \notin QuestionOps
  BY <1>1 DEF RequestIInv, Going, TaskPhases
<1>3. Asked' /\ CorpusIs' /\ FoundIs' /\ Scope' = Scope
  BY <1>1, PartsStay
<1>4. Going' /\ next' = "start" /\ reply = NoReply
  BY <1>1, <1>2, RequestGoes DEF TaskPhases
<1>5. Drafted' /\ Replied'
  BY <1>1, <1>4, SaysNothing DEF Drafted, NoReply
<1>6. Heard'
  <2>1. request.op \in TaskOps => pack = <<>>
    BY <1>1 DEF RequestIInv, Heard
  <2> QED  BY <1>1, <2>1, NoneHeardYet
<1>7. papers \in Seq(AnyPaper) /\ \A i \in DOMAIN papers : InScope(papers[i].doc, Scope) /\ OwnCard(papers[i].profile, papers[i].doc)
  BY DEF RequestIInv, PapersAre
<1>8. built' \in DOMAIN papers
  <2>1. Unprofiled \in SUBSET DOMAIN papers /\ Unprofiled \in SUBSET Nat /\ Unprofiled # {}
    BY <1>7 DEF BuildCard, Unprofiled
  <2> QED  BY <2>1, MinIsThere DEF BuildCard
<1> DEFINE i == built'
           d == papers[i].doc
<1>9. PICK grounded \in BOOLEAN : papers' = [papers EXCEPT ![i].profile = CardOf(corpus[d].chunks, grounded)]
  BY DEF BuildCard
<1> DEFINE chunks == corpus[d].chunks
           card == CardOf(chunks, grounded)
<1>10. d \in Documents /\ chunks \in Seq(StoredChunk) /\ \A c \in ToSet(chunks) : c \in Stored /\ c.doc = d
  <2>0. papers[i] \in AnyPaper
    BY <1>7, <1>8
  <2>1. d \in Documents
    BY <2>0 DEF AnyPaper
  <2> HIDE DEF d
  <2> QED  BY <2>1 DEF RequestIInv, CorpusIs
<1>11. i \in DOMAIN papers /\ papers' = [papers EXCEPT ![i].profile = card] /\ papers[i].doc = d
  BY <1>8, <1>9
<1> HIDE DEF i, d, chunks
<1>12. card \in Seq(Point) /\ OwnCard(card, d)
  BY <1>10, CardOfIs
<1> HIDE DEF card
<1>13. DOMAIN papers' = DOMAIN papers /\ Len(papers') = Len(papers)
       /\ papers'[i] = [papers[i] EXCEPT !.profile = card]
       /\ \A j \in DOMAIN papers : j # i => papers'[j] = papers[j]
  BY <1>7, <1>11
<1>14. papers'[i] = [doc |-> d, profile |-> card]
  <2> DEFINE p == papers[i]
  <2>1. p \in AnyPaper /\ p.doc = d /\ papers'[i] = [p EXCEPT !.profile = card]
    BY <1>7, <1>11, <1>13
  <2> HIDE DEF p
  <2>2. p = [doc |-> p.doc, profile |-> p.profile]
    BY <2>1 DEF AnyPaper
  <2> QED  BY <2>1, <2>2
<1>15. PapersAre'
  <2>1. [doc |-> d, profile |-> card] \in AnyPaper
    BY <1>10, <1>12 DEF AnyPaper, AnyCard
  <2>2. papers' \in Seq(AnyPaper)
    BY <1>7, <1>11, <1>13, <1>14, <2>1
  <2>3. \A j \in DOMAIN papers' : InScope(papers'[j].doc, Scope) /\ OwnCard(papers'[j].profile, papers'[j].doc)
    BY <1>7, <1>11, <1>12, <1>13, <1>14
  <2> QED  BY <1>3, <2>2, <2>3 DEF PapersAre
<1>16. Carded'
  <2>1. built' \in DOMAIN papers' /\ papers'[built'].profile \in Seq(Point)
    BY <1>11, <1>12, <1>13, <1>14 DEF i
  <2>2. request.op = "summarise" => papers' # <<>>
    BY <2>1
  <2> QED  BY <1>1, <2>1, <2>2 DEF Carded
<1> QED  BY <1>3, <1>4, <1>5, <1>6, <1>15, <1>16 DEF RequestIInv

\* The card is saved, or not.
LEMMA SaveCardKeeps == RequestIInv /\ SaveCard => RequestIInv'
<1> SUFFICES ASSUME RequestIInv, SaveCard PROVE RequestIInv'
  OBVIOUS
<1>1. /\ request' = request /\ UNCHANGED papers /\ UNCHANGED <<hits, pack>> /\ UNCHANGED <<effective, attempt>>
      /\ UNCHANGED streamVars /\ phase = "saving" /\ UNCHANGED pack /\ phase' = "cards" /\ reply' = reply
  BY DEF SaveCard, Work, workVars
<1>2. request.op \notin QuestionOps
  BY <1>1 DEF RequestIInv, Going, TaskPhases
<1>3. Asked' /\ PapersAre' /\ FoundIs'
  BY <1>1, PartsStay
<1>4. Going' /\ next' = "start" /\ reply = NoReply
  BY <1>1, <1>2, RequestGoes DEF TaskPhases
<1>5. Drafted' /\ Replied'
  BY <1>1, <1>4, SaysNothing DEF Drafted, NoReply
<1>6. Heard'
  <2>1. request.op \in TaskOps => pack = <<>>
    BY <1>1 DEF RequestIInv, Heard
  <2> QED  BY <1>1, <2>1, NoneHeardYet
<1>7. Carded'
  BY <1>1 DEF RequestIInv, Carded
<1>8. CorpusIs'
  <2> DEFINE d == papers[built].doc
             card == papers[built].profile
  <2>1. built \in DOMAIN papers /\ card \in Seq(Point)
    BY <1>1 DEF RequestIInv, Carded
  <2>2. papers[built] \in AnyPaper /\ OwnCard(card, d)
    BY <2>1 DEF RequestIInv, PapersAre
  <2>3. d \in Documents /\ card \in AnyCard
    BY <2>2 DEF AnyPaper
  <2>4. corpus' = corpus \/ corpus' = [corpus EXCEPT ![d].profile = card]
    BY DEF SaveCard
  <2> HIDE DEF d, card
  <2>5. corpus \in [Documents -> [chunks : Seq(StoredChunk), profile : AnyCard]]
        /\ \A e \in Documents : /\ \A c \in ToSet(corpus[e].chunks) : c \in Stored /\ c.doc = e
                                /\ OwnCard(corpus[e].profile, e)
    BY DEF RequestIInv, CorpusIs
  <2>6. CASE corpus' = corpus
    BY <2>5, <2>6 DEF CorpusIs
  <2>7. CASE corpus' = [corpus EXCEPT ![d].profile = card]
    <3>1. \A e \in Documents : corpus'[e].chunks = corpus[e].chunks
                               /\ corpus'[e].profile = (IF e = d THEN card ELSE corpus[e].profile)
      BY <2>3, <2>5, <2>7
    <3>2. corpus' \in [Documents -> [chunks : Seq(StoredChunk), profile : AnyCard]]
      BY <2>3, <2>5, <2>7
    <3> QED  BY <2>2, <2>5, <3>1, <3>2 DEF CorpusIs
  <2> QED  BY <2>4, <2>6, <2>7
<1> QED  BY <1>3, <1>4, <1>5, <1>6, <1>7, <1>8 DEF RequestIInv

\* With all cards there a request goes on, or has too few papers.
LEMMA PapersReadyKeeps == RequestIInv /\ PapersReady => RequestIInv'
<1> SUFFICES ASSUME RequestIInv, PapersReady PROVE RequestIInv'
  OBVIOUS
<1>1. /\ request' = request /\ UNCHANGED corpus /\ UNCHANGED papers /\ UNCHANGED <<hits, pack>> /\ UNCHANGED <<effective, attempt>>
      /\ UNCHANGED streamVars /\ phase = "cards" /\ UNCHANGED pack /\ Unprofiled = {}
  BY DEF PapersReady, Work
<1>2. /\ phase' \in {"draft", "models", "done"} /\ (phase' = "draft" => request.op = "review")
      /\ (phase' # "done" => reply' = reply) /\ (phase' = "done" => reply'.kind = "nothing")
  BY DEF PapersReady, Done, NothingFound
<1>3. Asked' /\ CorpusIs' /\ PapersAre' /\ FoundIs' /\ Unprofiled' = {}
  BY <1>1, PartsStay
<1>4. request.op \notin QuestionOps
  BY <1>1 DEF RequestIInv, Going, TaskPhases
<1>5. Going' /\ next' = "start" /\ reply = NoReply
  BY <1>1, <1>2, <1>4, RequestGoes DEF TaskPhases
<1>6. Carded' /\ Drafted'
  BY <1>2, <1>3, <1>5 DEF Carded, Drafted
<1>7. Replied'
  BY <1>2, <1>5, SaysNothing DEF NoReply
<1>8. Heard'
  <2>1. request.op \in TaskOps => pack = <<>>
    BY <1>1 DEF RequestIInv, Heard
  <2> QED  BY <1>1, <1>2, <2>1, NoneHeardYet
<1> QED  BY <1>3, <1>5, <1>6, <1>7, <1>8 DEF RequestIInv

\* A summary opens the chunks its card names.
LEMMA SummariseKeeps == RequestIInv /\ Summarise => RequestIInv'
<1> SUFFICES ASSUME RequestIInv, Summarise PROVE RequestIInv'
  OBVIOUS
<1>1. /\ request' = request /\ UNCHANGED corpus /\ UNCHANGED papers /\ UNCHANGED <<effective, attempt>> /\ UNCHANGED hits
      /\ UNCHANGED streamVars /\ phase = "cards" /\ phase' = "done" /\ Unprofiled = {} /\ request.op = "summarise"
  BY DEF Summarise, Work, Done
<1>2. Asked' /\ CorpusIs' /\ PapersAre' /\ Scope' = Scope /\ Reachable' = Reachable
  BY <1>1, PartsStay
<1>3. Going' /\ next' = "start"
  BY <1>1, RequestGoes DEF TaskPhases, QuestionOps
<1>4. Carded' /\ Drafted'
  BY <1>1, <1>3 DEF Carded, Drafted
<1>5. Heard'
  BY <1>1 DEF Heard, TaskOps
<1> DEFINE profile == papers[1].profile
<1>6. papers \in Seq(Paper) /\ papers # <<>>
  <2>1. papers # <<>>
    BY <1>1 DEF RequestIInv, Carded
  <2>2. papers \in Seq(Paper)
    BY <1>1, ProfiledPapers DEF RequestIInv
  <2> QED  BY <2>1, <2>2
<1>7. 1 \in DOMAIN papers /\ profile \in Seq(Point) /\ profile # NoProfile
  <2>1. 1 \in DOMAIN papers
    BY <1>6
  <2>2. papers[1] \in Paper
    BY <1>6, <2>1
  <2> QED  BY <1>1, <2>1, <2>2 DEF Paper, Unprofiled
<1>8. {c \in ToSet(Store) : c.id \in ChunksOf(profile)} \subseteq Reachable
  BY <1>7, CardReaches
<1>9. pack' = SummaryPack(Store, profile) /\ reply' = Rendered(pack', PaperSummary(pack', profile))
  BY DEF Summarise, Done
<1> HIDE DEF profile
<1>10. pack' \in Seq(Hits(Reachable)) /\ Distinct(pack')
  <2>1. /\ pack' \in Seq(Hits({c \in ToSet(Store) : c.id \in ChunksOf(profile)}))
        /\ Distinct(pack')
    BY <1>7, <1>9, SummaryPackIs
  <2>2. Seq(Hits({c \in ToSet(Store) : c.id \in ChunksOf(profile)})) \subseteq Seq(Hits(Reachable))
    BY <1>8, HitsGrow
  <2> QED  BY <2>1, <2>2
<1>11. FoundIs'
  BY <1>1, <1>2, <1>10 DEF RequestIInv, FoundIs
<1>12. Replied'
  <2> DEFINE evidence == pack'
             result == PaperSummary(evidence, profile)
             r == Rendered(evidence, result)
  <2>1. evidence \in Seq(Hits(Reachable)) /\ Distinct(evidence) /\ reply' = r
    BY <1>9, <1>10
  <2> HIDE DEF evidence
  <2>2. Covers(result.uses, result.text, evidence)
    BY <1>7, <2>1, PaperSummaryIs
  <2> HIDE DEF result
  <2>3. r.kind = "task" /\ Opens(r, evidence) /\ Reaches(r, evidence, Scope)
    BY <2>1, <2>2, ReachableIs, RenderedIs
  <2> HIDE DEF r
  <2>4. request'.op # "gaps" /\ evidence = pack'
    BY <1>1 DEF evidence
  <2> QED  BY <1>2, <2>1, <2>3, <2>4 DEF Replied, Replies
<1> QED  BY <1>2, <1>3, <1>4, <1>5, <1>11, <1>12 DEF RequestIInv

\* Each paper is searched by itself: what can be found of one is found.
LEMMA SearchEachKeeps == RequestIInv /\ SearchEach => RequestIInv'
<1> SUFFICES ASSUME RequestIInv, SearchEach PROVE RequestIInv'
  OBVIOUS
<1>1. /\ request' = request /\ UNCHANGED corpus /\ UNCHANGED papers /\ UNCHANGED <<effective, attempt>> /\ UNCHANGED pack
      /\ UNCHANGED streamVars /\ phase = "models" /\ phase' = "ground" /\ request.op \in TaskOps /\ reply' = reply
      /\ ingest' = ingest
  BY DEF SearchEach, Work
<1>2. Asked' /\ CorpusIs' /\ PapersAre' /\ Reachable' = Reachable /\ Unprofiled' = Unprofiled
  BY <1>1, PartsStay
<1>3. Going' /\ next' = "start" /\ reply = NoReply
  BY <1>1, RequestGoes DEF TaskPhases, QuestionOps, TaskOps
<1>4. Carded' /\ Drafted' /\ Replied'
  <2>1. Unprofiled = {}
    BY <1>1 DEF RequestIInv, Carded
  <2> QED  BY <1>1, <1>2, <1>3, <2>1, SaysNothing DEF Carded, Drafted, NoReply
<1> DEFINE op == request.op
           questions == Tasks[op].queries
           route == RouteQuery(Tasks[op].route)
           docs == [i \in DOMAIN papers |-> papers[i].doc]
           perDocument == IF op = "literature" /\ Len(papers) > 4 THEN 1 ELSE 2
           near == request.near
           judge == request.judge
           collection == request.collection
<1>5. hits' = BalancedRetrieve(Store, questions, docs, collection, perDocument, route, near, judge)
  BY DEF SearchEach, Each
<1>6. /\ questions \in Seq(DOMAIN Asks) \ {<<>>} /\ perDocument \in Nat \ {0}
      /\ route.exclude \subseteq {"reference", "front_matter"} /\ \A section : SectionBoost(route, section) \in Int
  <2>1. Tasks[op] \in [queries : Seq(DOMAIN Asks) \ {<<>>}, route : DOMAIN Asks, fields : Seq(STRING)]
    BY <1>1, RequestAssumption
  <2> DEFINE t == Tasks[op]
             asked == t.route
  <2> HIDE DEF t
  <2>2. asked \in DOMAIN Asks /\ t.queries \in Seq(DOMAIN Asks) \ {<<>>}
    BY <2>1 DEF t
  <2> HIDE DEF asked
  <2>3. RouteQuery(asked).exclude \subseteq {"reference", "front_matter"}
        /\ \A section : SectionBoost(RouteQuery(asked), section) \in Int
    BY <2>2, RouteIs
  <2> QED  BY <2>2, <2>3 DEF t, asked
<1>7. /\ docs \in Seq(Documents) /\ DOMAIN docs = DOMAIN papers
      /\ \A i \in DOMAIN papers : docs[i] = papers[i].doc /\ docs[i] \in Documents /\ InScope(docs[i], Scope)
  <2>1. papers \in Seq(AnyPaper) /\ \A i \in DOMAIN papers : InScope(papers[i].doc, Scope)
    BY DEF RequestIInv, PapersAre
  <2>2. \A i \in DOMAIN papers : papers[i].doc \in Documents
    <3>1. \A i \in DOMAIN papers : papers[i] \in AnyPaper
      BY <2>1
    <3> QED  BY <3>1 DEF AnyPaper
  <2>3. docs \in [DOMAIN papers -> Documents]
    BY <2>2
  <2>4. docs \in Seq(Documents)
    BY <2>1, <2>3, EachIs
  <2> QED  BY <2>1, <2>2, <2>4
<1>8. Store \in Seq(StoredChunk) /\ Judges(Store, near, judge)
  BY StoreIs, SearchReaches DEF RequestIInv
<1> HIDE DEF op, questions, route, docs, perDocument, near, judge
<1>9. hits' \in Seq(Hits(OfPapers(Store, docs, collection))) /\ FindsEach(hits', Store, docs, collection, route.exclude)
  <2> HIDE DEF collection
  <2> QED  BY <1>5, <1>6, <1>7, <1>8, BalancedRetrieveIs DEF Boosts
<1>10. FoundIs'
  <2>1. OfPapers(Store, docs, collection) \subseteq Reachable
    <3>1. ASSUME NEW c \in ToSet(Store), c.doc \in ToSet(docs) PROVE c \in Reachable
      <4>1. c \in Stored
        BY StoreIs DEF RequestIInv
      <4>2. InScope(c.doc, Scope)
        BY <1>7, <3>1 DEF ToSet
      <4> QED  BY <4>1, <4>2 DEF Reachable
    <3> QED  BY <3>1 DEF OfPapers
  <2>2. Seq(Hits(OfPapers(Store, docs, collection))) \subseteq Seq(Hits(Reachable))
    BY <2>1, HitsGrow
  <2> QED  BY <1>1, <1>2, <1>9, <2>2 DEF RequestIInv, FoundIs
<1>11. Heard'
  <2>1. ASSUME NEW i \in DOMAIN papers, Searchable(papers[i].doc) PROVE papers[i].doc \in DocsOf(hits')
    <3> DEFINE d == papers[i].doc
    <3>1. d \in Documents /\ d \in ToSet(docs) /\ InScope(d, Scope)
      BY <1>7 DEF ToSet
    <3>2. PICK c \in ToSet(corpus[d].chunks) : c.kind \notin {"reference", "front_matter"} /\ c.model = EMBEDDING_MODEL
      BY <2>1 DEF Searchable
    <3> HIDE DEF d
    <3>3. c \in ToSet(Store) /\ c.doc = d
      BY <3>1, <3>2, StoreIs DEF RequestIInv, CorpusIs
    <3>4. InScope(d, [collection |-> collection, docs |-> <<d>>])
      <4>1. d \in ToSet(<<d>>)
        BY DEF ToSet
      <4> QED  BY <3>1, <4>1 DEF InScope, Scope
    <3>5. c \in Findable(Store, [collection |-> collection, docs |-> <<d>>], route.exclude, EMBEDDING_MODEL)
      BY <1>6, <3>2, <3>3, <3>4, VocabularyAssumption DEF Findable, Within
    <3>6. \E h \in ToSet(hits') : h.chunk.doc = d
      BY <1>9, <3>1, <3>5 DEF FindsEach
    <3> QED  BY <3>6 DEF DocsOf, d
  <2>2. pack' = <<>>
    BY <1>1 DEF RequestIInv, Heard
  <2> QED  BY <1>1, <2>1, <2>2 DEF Heard, Searchable
<1> QED  BY <1>2, <1>3, <1>4, <1>10, <1>11 DEF RequestIInv

\* Cards and hits together hear every paper that was found.
LEMMA GroundKeeps == RequestIInv /\ Ground => RequestIInv'
<1> SUFFICES ASSUME RequestIInv, Ground PROVE RequestIInv'
  OBVIOUS
<1>1. /\ request' = request /\ UNCHANGED corpus /\ UNCHANGED papers /\ UNCHANGED <<effective, attempt>>
      /\ UNCHANGED streamVars /\ phase = "ground" /\ phase' = "draft" /\ reply' = reply /\ ingest' = ingest
  BY DEF Ground, Work
<1>2. request.op \in TaskOps
  BY <1>1 DEF RequestIInv, Going
<1>3. Asked' /\ CorpusIs' /\ PapersAre' /\ Reachable' = Reachable /\ Unprofiled' = Unprofiled
  BY <1>1, PartsStay
<1>4. Going' /\ next' = "start" /\ reply = NoReply
  BY <1>1, <1>2, RequestGoes DEF TaskPhases, QuestionOps, TaskOps
<1>5. Unprofiled = {}
  BY <1>1, <1>2 DEF RequestIInv, Carded
<1>6. Carded' /\ Drafted' /\ Replied'
  BY <1>1, <1>3, <1>4, <1>5, SaysNothing DEF Carded, Drafted, NoReply
<1> DEFINE op == request.op
           fields == Tasks[op].fields
           ids == ProfileEvidenceIds(papers, fields)
           grounding == ChunksByIds(Store, ids)
<1>7. pack' = Gather(grounding, hits) /\ hits' = grounding \o hits
  BY DEF Ground
<1>8. papers \in Seq(Paper) /\ fields \in Seq(STRING)
  <2>1. papers \in Seq(Paper)
    BY <1>5, ProfiledPapers DEF RequestIInv
  <2>2. Tasks[op] \in [queries : Seq(DOMAIN Asks) \ {<<>>}, route : DOMAIN Asks, fields : Seq(STRING)]
    BY <1>2, RequestAssumption
  <2> DEFINE t == Tasks[op]
  <2> HIDE DEF t
  <2>3. t.fields \in Seq(STRING)
    BY <2>2 DEF t
  <2> QED  BY <2>1, <2>3 DEF t
<1> HIDE DEF op, fields
<1> DEFINE N == UNION {ChunksOf(papers[i].profile) : i \in DOMAIN papers}
<1>9. ids \in Seq(N)
  BY <1>8, ProfileEvidenceIs
<1> HIDE DEF ids
<1>10. grounding \in Seq(Hits(Reachable))
  <2> DEFINE W == {c \in ToSet(Store) : c.id \in ToSet(ids)}
  <2>1. grounding \in Seq(Hits(W))
    <3> HIDE DEF N
    <3> QED  BY <1>9, ChunksByIdsIs
  <2>2. W \subseteq Reachable
    <3>1. ASSUME NEW c \in ToSet(Store), c.id \in ToSet(ids) PROVE c \in Reachable
      <4>1. c.id \in N
        BY <1>9, <3>1 DEF ToSet
      <4>2. PICK i \in DOMAIN papers : c.id \in ChunksOf(papers[i].profile)
        BY <4>1
      <4>3. papers[i] \in Paper /\ papers[i].profile # NoProfile
        BY <1>5, <1>8 DEF Unprofiled
      <4>4. papers[i].profile \in Seq(Point) /\ papers[i].profile # NoProfile
        BY <4>3 DEF Paper
      <4>5. {e \in ToSet(Store) : e.id \in ChunksOf(papers[i].profile)} \subseteq Reachable
        BY <4>4, CardReaches
      <4> QED  BY <4>2, <4>5
    <3> QED  BY <3>1
  <2> HIDE DEF W, grounding
  <2> QED  BY <2>1, <2>2, HitsGrow
<1> HIDE DEF grounding
<1>11. hits \in Seq(Hits(Reachable))
  BY DEF RequestIInv, FoundIs
<1>12. /\ pack' \in Seq(Hits(Reachable)) /\ Distinct(pack')
       /\ TakesTurns(pack', DocsOf(hits')) /\ DocsOf(pack') \subseteq DocsOf(hits')
       /\ Cardinality(DocsOf(hits')) <= MAX_EVIDENCE_BLOCKS => DocsOf(pack') = DocsOf(hits')
  BY <1>7, <1>10, <1>11, ReachableIs, GatherIs
<1>13. hits' \in Seq(Hits(Reachable)) /\ DocsOf(hits) \subseteq DocsOf(hits')
  BY <1>7, <1>10, <1>11, ConcatHas DEF DocsOf
<1>14. FoundIs'
  BY <1>3, <1>12, <1>13 DEF FoundIs
<1>15. Heard'
  <2>1. ingest = "none" => \A i \in DOMAIN papers : Searchable(papers[i].doc) => papers[i].doc \in DocsOf(hits)
    BY <1>1, <1>2 DEF RequestIInv, Heard
  <2>2. ingest = "none" => \A i \in DOMAIN papers : Searchable(papers[i].doc) => papers[i].doc \in DocsOf(hits')
    BY <1>13, <2>1
  <2> QED  BY <1>1, <1>12, <2>2 DEF Heard, Searchable
<1> QED  BY <1>3, <1>4, <1>6, <1>14, <1>15 DEF RequestIInv

\* The cards draft as the model would.
LEMMA HeuristicIs ==
  ASSUME RequestIInv, request.op \in TaskOps, Unprofiled = {}
  PROVE  /\ request.op = "gaps" => Heuristic(request.op) \in ResearchGapResult
         /\ request.op = "literature" => Heuristic(request.op) \in ReviewDraft
         /\ request.op = "compare" => Heuristic(request.op) \in ComparisonDraft
<1>1. papers \in Seq(Paper) /\ pack \in Seq(Hits(Reachable))
  BY ProfiledPapers DEF RequestIInv, FoundIs
<1>2. HeuristicGaps(papers, pack) \in ResearchGapResult
  BY <1>1, HeuristicGapsIs
<1>3. HeuristicReview(papers, pack) \in ReviewDraft
  BY <1>1, HeuristicReviewIs
<1>4. HeuristicComparison(papers) \in ComparisonDraft
  BY <1>1, HeuristicComparisonIs
<1> QED  BY <1>2, <1>3, <1>4 DEF Heuristic

\* What the model drafts of a review has sections as the cards draft them.
LEMMA ReviewsDraft == LiteratureReviewDraft \subseteq ReviewDraft
<1> DEFINE Plain == [key : STRING, content : Text, numbers : Seq(Int)]
<1>1. Plain \subseteq Section
  BY DEF Section, ReviewKey
<1> HIDE DEF Plain
<1>2. Seq(Plain) \subseteq Seq(Section)
  BY <1>1
<1>3. [sections : Seq(Plain), insufficient : BOOLEAN] \subseteq [sections : Seq(Section), insufficient : BOOLEAN]
  BY <1>2
<1> QED  BY <1>3 DEF LiteratureReviewDraft, ReviewDraft, Plain

\* The model drafts, or the cards.
LEMMA DraftKeeps == RequestIInv /\ Draft => RequestIInv'
<1> SUFFICES ASSUME RequestIInv, Draft PROVE RequestIInv'
  OBVIOUS
<1>1. /\ request' = request /\ UNCHANGED corpus /\ UNCHANGED papers /\ UNCHANGED <<hits, pack>> /\ UNCHANGED effective
      /\ UNCHANGED streamVars /\ phase = "draft" /\ phase' \in {"draft", "render"} /\ reply' = reply /\ ingest' = ingest
      /\ attempt' \in {attempt, 2} /\ request.op \in TaskOps /\ UNCHANGED pack
  BY DEF Draft, Work, AskAgain
<1>2. CorpusIs' /\ PapersAre' /\ FoundIs' /\ Unprofiled' = Unprofiled
  BY <1>1, PartsStay
<1>3. Asked'
  BY <1>1 DEF RequestIInv, Asked
<1>4. Going' /\ next' = "start" /\ reply = NoReply
  BY <1>1, RequestGoes DEF TaskPhases, QuestionOps, TaskOps
<1>5. Unprofiled = {}
  BY <1>1 DEF RequestIInv, Carded
<1>6. Carded' /\ Replied'
  BY <1>1, <1>2, <1>4, <1>5, SaysNothing DEF Carded, NoReply
<1>7. Drafted'
  <2>1. phase' = "render" => draft' \in TaskDraft(request.op) \/ draft' = Heuristic(request.op)
    BY <1>1 DEF Draft
  <2>2. /\ request.op = "gaps" => TaskDraft(request.op) = ResearchGapResult
        /\ request.op = "literature" => TaskDraft(request.op) \subseteq ReviewDraft
        /\ request.op = "compare" => TaskDraft(request.op) = ComparisonDraft
    BY ReviewsDraft DEF TaskDraft
  <2> QED  BY <1>1, <1>4, <1>5, <2>1, <2>2, HeuristicIs DEF Drafted
<1>8. Heard'
  BY <1>1 DEF RequestIInv, Heard, Searchable
<1> QED  BY <1>2, <1>3, <1>4, <1>6, <1>7, <1>8 DEF RequestIInv

\* A task opens what it marks, and its gaps are grounded or doubtful.
LEMMA RenderTaskKeeps == RequestIInv /\ RenderTask => RequestIInv'
<1> SUFFICES ASSUME RequestIInv, RenderTask PROVE RequestIInv'
  OBVIOUS
<1>1. /\ request' = request /\ UNCHANGED corpus /\ UNCHANGED papers /\ UNCHANGED <<hits, pack>> /\ UNCHANGED <<effective, attempt>>
      /\ UNCHANGED streamVars /\ phase = "render" /\ phase' = "done" /\ ingest' = ingest /\ UNCHANGED pack
  BY DEF RenderTask, Work, Done
<1>2. request.op \in TaskOps
  BY <1>1 DEF RequestIInv, Going
<1>3. Asked' /\ CorpusIs' /\ PapersAre' /\ FoundIs' /\ Scope' = Scope
  BY <1>1, PartsStay
<1>4. Going' /\ next' = "start"
  BY <1>1, <1>2, RequestGoes DEF TaskPhases, QuestionOps, TaskOps
<1>5. Carded' /\ Drafted'
  BY <1>1, <1>4 DEF Carded, Drafted
<1>6. Heard'
  BY <1>1 DEF RequestIInv, Heard, Searchable
<1> DEFINE result == Finished(request.op)
           r == Rendered(pack, result)
<1>7. reply' = r /\ pack \in Seq(Hits(Reachable)) /\ Distinct(pack)
  BY DEF RenderTask, Done, RequestIInv, FoundIs
<1>8. Covers(result.uses, result.text, pack) /\ (request.op = "gaps" => Told(result.gaps, pack))
  <2>1. CASE request.op = "gaps"
    <3>1. draft \in ResearchGapResult /\ MAX_GAPS \in Nat
      BY <1>1, <2>1, RequestAssumption DEF RequestIInv, Drafted
    <3>2. result = ResearchGaps(papers, pack, draft, MAX_GAPS)
      BY <2>1 DEF Finished
    <3> HIDE DEF result
    <3> QED  BY <3>1, <3>2, ResearchGapsIs
  <2>2. CASE request.op = "literature"
    <3>1. draft \in ReviewDraft
      BY <1>1, <2>2 DEF RequestIInv, Drafted
    <3>2. result = LiteratureReview(papers, pack, draft)
      BY <2>2 DEF Finished
    <3> HIDE DEF result
    <3> QED  BY <2>2, <3>1, <3>2, LiteratureReviewIs
  <2>3. CASE request.op = "compare"
    <3>1. draft \in ComparisonDraft
      BY <1>1, <2>3 DEF RequestIInv, Drafted
    <3>2. result = ComparePapers(papers, pack, draft)
      BY <2>3 DEF Finished
    <3> HIDE DEF result
    <3> QED  BY <2>3, <3>1, <3>2, ComparePapersIs
  <2> QED  BY <1>2, <2>1, <2>2, <2>3 DEF TaskOps
<1> HIDE DEF result
<1>9. r.kind = "task" /\ r.result = result /\ Opens(r, pack) /\ Reaches(r, pack, Scope)
  BY <1>7, <1>8, ReachableIs, RenderedIs
<1> HIDE DEF r
<1>10. Replied'
  BY <1>1, <1>3, <1>7, <1>8, <1>9 DEF Replied, Replies
<1> QED  BY <1>3, <1>4, <1>5, <1>6, <1>10 DEF RequestIInv

\* A review ends with its list; a request that fails, with an error.
LEMMA EndKeeps == RequestIInv /\ (ReviewText \/ FailRequest) => RequestIInv'
<1> SUFFICES ASSUME RequestIInv, ReviewText \/ FailRequest PROVE RequestIInv'
  OBVIOUS
<1>1. /\ request' = request /\ UNCHANGED corpus /\ UNCHANGED papers /\ UNCHANGED <<hits, pack>> /\ UNCHANGED <<effective, attempt>>
      /\ UNCHANGED streamVars /\ phase \in TaskPhases \ {"render", "saving"} /\ UNCHANGED pack /\ ingest' = ingest
      /\ phase' \in {"draft", "done"} /\ (phase' = "draft" => request.op = "review" /\ reply' = reply)
      /\ (phase' = "done" => reply'.kind \in {"list", "error"})
      /\ (phase = "draft" => request.op = "review")
  BY DEF ReviewText, FailRequest, Work, Done, TaskPhases
<1>2. Asked' /\ CorpusIs' /\ PapersAre' /\ FoundIs'
  BY <1>1, PartsStay
<1>3. request.op \notin QuestionOps
  BY <1>1 DEF RequestIInv, Going
<1>4. Going' /\ next' = "start" /\ reply = NoReply
  BY <1>1, <1>3, RequestGoes DEF TaskPhases
<1>5. Carded' /\ Drafted'
  BY <1>1, <1>4 DEF Carded, Drafted, TaskOps
<1>6. Replied'
  BY <1>1, <1>4, SaysNothing DEF NoReply
<1>7. Heard'
  <2>1. request.op \in TaskOps => pack = <<>>
    BY <1>1 DEF RequestIInv, Heard, TaskPhases, TaskOps
  <2> QED  BY <1>1, <2>1, NoneHeardYet
<1> QED  BY <1>2, <1>4, <1>5, <1>6, <1>7 DEF RequestIInv

\* Every step of another request keeps the invariant.
LEMMA RequestKeeps == RequestIInv /\ RequestStep => RequestIInv'
BY StartRequestKeeps, SearchKeeps, ReadPapersKeeps, BuildCardKeeps, SaveCardKeeps, PapersReadyKeeps, SummariseKeeps,
   SearchEachKeeps, GroundKeeps, DraftKeeps, RenderTaskKeeps, EndKeeps DEF RequestStep

\* An ingest that comes between leaves chunks and cards each of their own paper.
LEMMA ReingestKeeps == RequestIInv /\ Reingest => RequestIInv'
<1> SUFFICES ASSUME RequestIInv, Reingest PROVE RequestIInv'
  OBVIOUS
<1>1. /\ request' = request /\ UNCHANGED workVars /\ UNCHANGED streamVars /\ phase' = phase /\ ingest' # "none"
  BY DEF Reingest
<1>2. Asked' /\ PapersAre' /\ FoundIs' /\ Carded' /\ Drafted' /\ Replied' /\ Going'
  BY <1>1, PartsStay DEF workVars, streamVars, RequestIInv, Going
<1>3. Heard'
  BY <1>1 DEF workVars, RequestIInv, Heard
<1>4. CorpusIs'
  <2> DEFINE d == Again.doc
             chunks == Again.chunks
             card == CardOf(chunks, TRUE)
  <2>1. d \in Documents /\ chunks \in Seq(StoredChunk) /\ \A c \in ToSet(chunks) : c \in Stored /\ c.doc = d
    BY StoreAssumption DEF Stored
  <2>2. corpus' \in {[corpus EXCEPT ![d].chunks = chunks], [corpus EXCEPT ![d].profile = card]}
    BY DEF Reingest
  <2> HIDE DEF d, chunks
  <2>3. card \in AnyCard /\ OwnCard(card, d)
    BY <2>1, CardOfIs DEF AnyCard
  <2> HIDE DEF card
  <2>4. corpus \in [Documents -> [chunks : Seq(StoredChunk), profile : AnyCard]]
        /\ \A e \in Documents : /\ \A c \in ToSet(corpus[e].chunks) : c \in Stored /\ c.doc = e
                                /\ OwnCard(corpus[e].profile, e)
    BY DEF RequestIInv, CorpusIs
  <2>5. CASE corpus' = [corpus EXCEPT ![d].chunks = chunks]
    <3>1. \A e \in Documents : corpus'[e].profile = corpus[e].profile
                               /\ corpus'[e].chunks = (IF e = d THEN chunks ELSE corpus[e].chunks)
      BY <2>1, <2>4, <2>5
    <3>2. corpus' \in [Documents -> [chunks : Seq(StoredChunk), profile : AnyCard]]
      BY <2>1, <2>4, <2>5
    <3> QED  BY <2>1, <2>4, <3>1, <3>2 DEF CorpusIs
  <2>6. CASE corpus' = [corpus EXCEPT ![d].profile = card]
    <3>1. \A e \in Documents : corpus'[e].chunks = corpus[e].chunks
                               /\ corpus'[e].profile = (IF e = d THEN card ELSE corpus[e].profile)
      BY <2>1, <2>4, <2>6
    <3>2. corpus' \in [Documents -> [chunks : Seq(StoredChunk), profile : AnyCard]]
      BY <2>1, <2>3, <2>4, <2>6
    <3> QED  BY <2>3, <2>4, <3>1, <3>2 DEF CorpusIs
  <2> QED  BY <2>2, <2>5, <2>6
<1> QED  BY <1>2, <1>3, <1>4 DEF RequestIInv

\* Loading a model is no step of a request.
LEMMA OthersKeep ==
  ASSUME RequestIInv, UNCHANGED <<request, phase, corpus, ingest, workVars, streamVars>>
  PROVE  RequestIInv'
BY PartsStay DEF workVars, streamVars, RequestIInv, Going
-----------------------------------------------------------------------------
(* Theorems                                                                 *)

\* Whatever the models draft and the searches find, and whatever is ingested
\* meanwhile: the evidence is in reach, the reply is made of it.
THEOREM RequestIInvHolds == Spec => []RequestIInv
<1>1. RequestIInv /\ [Next]_vars => RequestIInv'
  <2> SUFFICES ASSUME RequestIInv, [Next]_vars PROVE RequestIInv'
    OBVIOUS
  <2>1. CASE QuestionStep \/ Streaming
    BY <2>1, QuestionKeeps
  <2>2. CASE RequestStep
    BY <2>2, RequestKeeps
  <2>3. CASE Reingest
    BY <2>3, ReingestKeeps
  <2>4. CASE \E t \in Threads : Loading(t)
    BY <2>4, OthersKeep DEF Loading
  <2>5. CASE UNCHANGED vars
    BY <2>5, OthersKeep DEF vars
  <2> QED  BY <2>1, <2>2, <2>3, <2>4, <2>5 DEF Next, Over
<1> QED  BY <1>1, InitRequest, PTL DEF Spec

\* The state of a request: the model is asked for an output at most twice, each
\* block of evidence is another chunk.
THEOREM RequestTypes == Spec => []TypeOK
<1>1. StreamIInv => StreamTypeOK
  BY DEF StreamIInv
<1>2. StreamTypeOK /\ ModelsIInv /\ RequestIInv => TypeOK
  BY DEF TypeOK, ModelsIInv, RequestIInv, Asked, Going, Replied, FoundIs, Distinct
<1>3. Spec => []StreamIInv
  BY QuestionsImplementStream, StreamIInvHolds, PTL
<1> QED  BY <1>1, <1>2, <1>3, ModelsIInvHolds, RequestIInvHolds, PTL

\* NO EVIDENCE = NO CLAIM (rag/verification.py): a marker opens the block it was
\* written for, what counts as verified has the numbers and words of a block that
\* is cited, and a gap without evidence is doubtful and last.
THEOREM RepliesAreGrounded == Spec => []Grounded
<1>1. ASSUME RequestIInv PROVE Grounded
  <2>1. reply.kind \in {"answer", "task"} => MarkersOpen /\ \A c \in ToSet(reply.citations) : InReach(c)
    BY <1>1 DEF RequestIInv, Replied, Opens, Reaches, MarkersOpen, InReach
  <2>2. reply.kind = "answer" => AnswerGrounded
    BY <1>1 DEF RequestIInv, Replied, Proven, HeldBy, Block, AnswerGrounded, Holds, BlockOf
  <2>3. reply.kind = "task" /\ request.op = "gaps" => GapsGrounded
    BY <1>1 DEF RequestIInv, Replied, Told, GapsGrounded
  <2> QED  BY <2>1, <2>2, <2>3 DEF Grounded
<1> QED  BY <1>1, RequestIInvHolds, PTL

\* No paper is heard twice before all that were found are heard once
\* (synthesis.py, gather_evidence).
THEOREM PapersAreHeard == Spec => []EveryPaperHeard
<1>1. ASSUME RequestIInv PROVE EveryPaperHeard
  <2> SUFFICES ASSUME request.op \in TaskOps, pack # <<>> PROVE EveryPaperHeard
    BY DEF EveryPaperHeard
  <2>1. /\ TakesTurns(pack, DocsOf(hits))
        /\ Cardinality(DocsOf(hits)) <= MAX_EVIDENCE_BLOCKS => DocsOf(pack) = DocsOf(hits)
        /\ ingest = "none" => \A i \in DOMAIN papers : Searchable(papers[i].doc) => papers[i].doc \in DocsOf(hits)
    BY <1>1 DEF RequestIInv, Heard
  <2>2. ingest = "none" => \A p \in ToSet(papers) : Searchable(p.doc) => p.doc \in DocsOf(hits)
    BY <2>1 DEF ToSet
  <2>3. ASSUME NEW i \in DOMAIN pack, pack[i].chunk.doc \in {pack[j].chunk.doc : j \in 1 .. i - 1}
        PROVE  DocsOf(hits) \subseteq {pack[j].chunk.doc : j \in 1 .. i - 1}
    <3>1. PICK j \in 1 .. i - 1 : pack[i].chunk.doc = pack[j].chunk.doc
      BY <2>3
    <3>2. \A d \in DocsOf(hits) : \E k \in 1 .. i - 1 : pack[k].chunk.doc = d
      BY <2>1, <3>1 DEF TakesTurns
    <3> QED  BY <3>2
  <2> QED  BY <2>1, <2>2, <2>3 DEF EveryPaperHeard, DocsOf
<1> QED  BY <1>1, RequestIInvHolds, PTL
=============================================================================
