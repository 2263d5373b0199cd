----------------------------- MODULE AiService -----------------------------
(***************************************************************************)
(* One request to the AI service (main.py, query.py) from its arrival to   *)
(* its reply, while the models are warmed up by another thread, a paper of *)
(* the request is ingested again, and the client of a stream may leave.    *)
(*                                                                         *)
(* The stages of a question are those of AskStream; the other endpoints go *)
(* through phases of their own.  corpus is what the database holds of each *)
(* document: its chunks and the research card in its metadata.             *)
(***************************************************************************)
EXTENDS AskStream, Synthesis
LOCAL E == INSTANCE Evaluation

CONSTANTS
  Requests,      \* [op, stream, question, history, collection, docs, topK, near, judge, key, relevant]
  Corpora,       \* what may be stored to begin with
  Again,         \* [doc, chunks]: the ingest that runs meanwhile
  DocOrder,      \* documents, newest first
  DOCUMENT_LIMIT,
  MIN_SIMILARITY, MIN_RERANK,  \* the relevance floor, 0 for none
  Tasks,         \* [task -> [queries, route, fields]]
  Rewrites,      \* bound: what a question may be rewritten to
  AnswerDrafts(_), TaskDrafts(_, _),   \* bound: what the model may draft of so many blocks
  CueOf(_),      \* what a sentence says of its paper: [field, entity], or NoCue
  NoCue, Abstention,
  MAX_GAPS

QuestionOps == {"ask", "evaluate"}
TaskOps     == {"gaps", "literature", "compare"}

Documents == DOMAIN CollectionOf

\* Every chunk there may be.
Stored == (UNION {ToSet(b[d].chunks) : b \in Corpora, d \in Documents}) \cup ToSet(Again.chunks)

\* The points of a card are of chunks of its own paper.
OwnCard(profile, d) ==
  profile = NoProfile \/ \A i \in DOMAIN profile : \A c \in Stored : c.id = profile[i].chunk => c.doc = d

\* Ids are UUIDs: no two papers share one.
ASSUME StoreAssumption ==
  /\ Corpora \subseteq [Documents -> [chunks : Seq(StoredChunk), profile : Seq(Point) \cup {NoProfile}]]
  /\ Again.doc \in Documents /\ Again.chunks \in Seq(StoredChunk)
  /\ DocOrder \in Seq(Documents) /\ ToSet(DocOrder) = Documents
  /\ \A b \in Corpora : \A d \in Documents :
       (\A c \in ToSet(b[d].chunks) : c.doc = d) /\ OwnCard(b[d].profile, d)
  /\ \A c \in ToSet(Again.chunks) : c.doc = Again.doc
  /\ \A c, e \in Stored : c.id = e.id => c.doc = e.doc
  /\ \A s \in DOMAIN Says : CueOf(s) \in [field : STRING, entity : STRING] \cup {NoCue}

\* The papers a request names are of its collection (assertDocumentsInCollection,
\* sharedCollectionId of the backend).
ASSUME RequestAssumption ==
  /\ \A r \in Requests :
       /\ r.op \in QuestionOps \cup TaskOps \cup {"search", "review", "summarise"}
       /\ r.question \in DOMAIN Asks /\ r.topK \in Nat \ {0}
       /\ r.docs \in Seq(Documents) /\ (r.op = "summarise" => r.docs # <<>>)
       /\ r.collection # NoCollection => \A d \in ToSet(r.docs) : CollectionOf[d] = r.collection
       /\ \A c \in Stored : r.near[c.id] \in Int /\ r.judge[c.id] \in Int
  /\ Rewrites \subseteq DOMAIN Asks
  /\ Tasks \in [TaskOps -> [queries : Seq(DOMAIN Asks) \ {<<>>}, route : DOMAIN Asks, fields : Seq(STRING)]]
  /\ {DOCUMENT_LIMIT, MAX_GAPS} \subseteq Nat

VARIABLES
  request,
  phase,         \* of the request
  effective,     \* the question searched for
  attempt,       \* calls of the model for one structured output
  corpus,
  ingest,        \* "none", "chunks", "done"
  loaded, loads, \* models in memory, and how often each was loaded
  lock,          \* who loads a model: "free", "warmup", "request"
  wants,         \* what each thread found missing
  papers,        \* of a task
  built,         \* the paper whose card was just built
  hits, pack, draft,
  reply

modelVars == <<loaded, loads, lock, wants>>
workVars  == <<effective, attempt, papers, built, hits, pack, draft, reply>>
vars == <<request, phase, corpus, ingest, modelVars, workVars, streamVars>>

Threads     == {"warmup", "request"}

NoReply == [kind |-> "none"]
NoDraft == [kind |-> "none"]

Init ==
  /\ request \in Requests
  /\ corpus \in Corpora /\ ingest = "none"
  /\ phase = "received"
  /\ effective = request.question /\ attempt = 1
  /\ loaded = {} /\ loads = [m \in {"embedder", "reranker"} |-> 0] /\ lock = "free"
  /\ wants = [t \in Threads |-> "nothing"]
  /\ papers = <<>> /\ built = 1 /\ hits = <<>> /\ pack = <<>> /\ draft = NoDraft /\ reply = NoReply
  /\ StreamInit /\ (stream = "none" <=> ~request.stream)

Scope == [collection |-> request.collection, docs |-> request.docs]
Store == FlattenSeq(Each(DocOrder, LAMBDA d : corpus[d].chunks))

-----------------------------------------------------------------------------
(* get_model, get_reranker: loaded once, under a lock, whoever comes first *)

Missing == ({"embedder"} \cup (IF RERANKER_ENABLED THEN {"reranker"} ELSE {})) \ loaded
FirstMissing == IF "embedder" \in Missing THEN "embedder" ELSE "reranker"
HaveModels == Missing = {} /\ wants["request"] = "nothing"

NeedsModels == phase = "models" \/ (phase = "question" /\ worker = "working" /\ now = "loading_models")

\* The look without the lock.
Want(t) ==
  /\ wants[t] = "nothing" /\ Missing # {}
  /\ t = "request" => NeedsModels
  /\ wants' = [wants EXCEPT ![t] = FirstMissing]
  /\ UNCHANGED <<loaded, loads, lock>>

TakeLock(t) ==
  /\ wants[t] \in {"embedder", "reranker"} /\ lock = "free"
  /\ lock' = t
  /\ UNCHANGED <<loaded, loads, wants>>

\* The look with the lock.
LoadModelUnchecked(t) ==
  /\ lock = t /\ wants[t] # "failed"
  /\ lock' = "free" /\ wants' = [wants EXCEPT ![t] = "nothing"]
  /\ loaded' = loaded \cup {wants[t]}
  /\ loads' = [loads EXCEPT ![wants[t]] = @ + 1]
LoadModel(t) ==
  /\ lock = t /\ wants[t] # "failed"
  /\ lock' = "free" /\ wants' = [wants EXCEPT ![t] = "nothing"]
  /\ loaded' = loaded \cup {wants[t]}
  /\ loads' = IF wants[t] \in loaded THEN loads ELSE [loads EXCEPT ![wants[t]] = @ + 1]

\* A model that cannot be had, or has the wrong dimension: the warm-up is over,
\* the request fails.
LoadFailsLocked(t) ==
  /\ lock = t /\ wants[t] \notin loaded
  /\ wants' = [wants EXCEPT ![t] = "failed"]
  /\ UNCHANGED <<loaded, loads, lock>>
LoadFails(t) ==
  /\ lock = t /\ wants[t] \notin loaded
  /\ lock' = "free" /\ wants' = [wants EXCEPT ![t] = "failed"]
  /\ UNCHANGED <<loaded, loads>>

Loading(t) ==
  /\ Want(t) \/ TakeLock(t) \/ LoadModel(t) \/ LoadFails(t)
  /\ UNCHANGED <<request, phase, corpus, ingest, workVars, streamVars>>

-----------------------------------------------------------------------------
(* Structured output of the model (rag/llm.py): a reply that cannot be read *)
(* is asked for once more in plain JSON; a timeout or a refusal of service  *)
(* is not.                                                                  *)

AskAgainUncounted ==
  /\ request.key
  /\ attempt' = attempt + 1
AskAgain ==
  /\ request.key /\ attempt = 1
  /\ attempt' = 2

-----------------------------------------------------------------------------
(* A question: DocLensRAGChain.invoke *)

ThisQuestion == phase = "question"
At(s) == ThisQuestion /\ worker = "working" /\ now = s
Rest  == UNCHANGED <<request, phase, corpus, ingest, modelVars>>

StartQuestion ==
  /\ phase = "received" /\ request.op \in QuestionOps
  /\ Begin
  /\ phase' = "question"
  /\ UNCHANGED <<request, corpus, ingest, modelVars, workVars>>

Load ==
  /\ At("start")
  /\ Reach("loading_models")
  /\ Rest /\ UNCHANGED workVars

\* get_llm needs a key; only a follow-up question is rewritten.
Loaded ==
  /\ At("loading_models") /\ HaveModels /\ request.key
  /\ Reach(IF request.history THEN "rewriting" ELSE "retrieving")
  /\ Rest /\ UNCHANGED workVars

\* A rewrite that fails leaves the question as it is.
Rewrite ==
  /\ At("rewriting")
  /\ Reach("retrieving")
  /\ effective' \in {request.question} \cup Rewrites
  /\ Rest /\ UNCHANGED <<attempt, papers, built, hits, pack, draft, reply>>

BelowRelevanceFloor(scores) ==
  \/ MIN_SIMILARITY > 0 /\ scores.similarity >= 0 /\ scores.similarity < MIN_SIMILARITY
  \/ MIN_RERANK > 0 /\ scores.rerank >= 0 /\ scores.rerank < MIN_RERANK

Retrieve ==
  /\ At("retrieving")
  /\ \E found \in {RetrieveMerged(Store, effective, Scope, request.topK, request.near, request.judge)} :
       LET abstains == found = <<>> \/ BelowRelevanceFloor(TopScores(found))
       IN  /\ hits' = found
           /\ pack' = IF abstains THEN <<>> ELSE EvidencePack(found)
           /\ Reach(IF abstains THEN "background" ELSE "generating")
  /\ Rest /\ UNCHANGED <<effective, attempt, papers, built, draft, reply>>

\* General knowledge, never cited, and never an error.
Background ==
  /\ At("background")
  /\ \/ /\ AskAgain
        /\ UNCHANGED <<reply, streamVars>>
     \/ /\ reply' = [kind |-> "answer", text |-> <<[of |-> Abstention, written |-> <<>>, marks |-> <<>>]>>,
                     citations |-> <<>>, claims |-> <<>>, uncited |-> 0, notes |-> {}, confidence |-> 0,
                     insufficient |-> TRUE]
        /\ Finish
        /\ UNCHANGED attempt
  /\ Rest /\ UNCHANGED <<effective, papers, built, hits, pack, draft>>

Generate ==
  /\ At("generating")
  /\ \/ /\ AskAgain
        /\ UNCHANGED <<draft, streamVars>>
     \/ /\ draft' \in AnswerDrafts(Len(pack)) /\ draft' \in AnswerDraft
        /\ Reach("verifying")
        /\ UNCHANGED attempt
  /\ Rest /\ UNCHANGED <<effective, papers, built, hits, pack, reply>>

VerifyAnswer ==
  /\ At("verifying")
  /\ reply' = BuildStructuredAnswer(draft, pack)
  /\ Finish
  /\ Rest /\ UNCHANGED <<effective, attempt, papers, built, hits, pack, draft>>

\* No key, no model, no database, or the model's call raised.
FailQuestion ==
  /\ ThisQuestion /\ worker = "working" /\ now \in {"loading_models", "retrieving", "generating"}
  /\ now = "loading_models" => wants["request"] = "failed" \/ (HaveModels /\ ~request.key)
  /\ Fail
  /\ reply' = [kind |-> "error"]
  /\ Rest /\ UNCHANGED <<effective, attempt, papers, built, hits, pack, draft>>

Streaming ==
  /\ ThisQuestion
  /\ Enter \/ GiveUp \/ PutEnd \/ Generator \/ Leave
  /\ Rest /\ UNCHANGED workVars

\* The reply of a stream is what its client was sent.
Answered ==
  /\ ThisQuestion /\ worker = "done" /\ stream \in {"none", "closed"}
  /\ phase' = IF request.op = "evaluate" /\ reply.kind = "answer" THEN "evaluate" ELSE "done"
  /\ UNCHANGED <<request, corpus, ingest, modelVars, workVars, streamVars>>

\* /evaluate searches again and measures the answer against what it finds now.
Evaluate ==
  /\ phase = "evaluate"
  /\ \E found \in {RetrieveMerged(Store, request.question, Scope, request.topK, request.near, request.judge)} :
       reply' \in {[kind |-> "error"],
                   [kind |-> "report", report |-> E!EvaluationReport(reply, found, request.relevant, request.topK)]}
  /\ phase' = "done"
  /\ UNCHANGED <<request, corpus, ingest, modelVars, effective, attempt, papers, built, hits, pack, draft, streamVars>>

-----------------------------------------------------------------------------
(* The other endpoints *)

Work(p) == phase = p /\ UNCHANGED <<request, ingest, modelVars, streamVars>>

Done(answer) == reply' = answer /\ phase' = "done"

NothingFound == [kind |-> "nothing"]

\* A gap analysis of neither a collection nor documents is refused.
StartRequest ==
  /\ Work("received") /\ request.op \notin QuestionOps
  /\ IF request.op = "gaps" /\ request.collection = NoCollection /\ request.docs = <<>>
     THEN Done([kind |-> "error"])
     ELSE phase' = (IF request.op \in {"search", "review"} THEN "models" ELSE "papers") /\ UNCHANGED reply
  /\ UNCHANGED <<corpus, effective, attempt, papers, built, hits, pack, draft>>

Search ==
  /\ Work("models") /\ HaveModels
  /\ request.op \in {"search", "review"}
  /\ hits' = RetrieveChunks(Store, effective, Scope, request.topK, request.near, request.judge)
  /\ IF request.op = "review" /\ hits' # <<>> THEN phase' = "papers" /\ UNCHANGED reply
     ELSE Done(IF hits' = <<>> THEN NothingFound ELSE [kind |-> "list"])
  /\ UNCHANGED <<corpus, effective, attempt, papers, built, pack, draft>>

\* get_documents: those named, or those of the collection that have chunks.
ReadPapers ==
  /\ Work("papers")
  /\ LET ofCollection == Select(DocOrder, LAMBDA d : CollectionOf[d] = request.collection /\ corpus[d].chunks # <<>>)
         docs == IF request.docs # <<>> THEN request.docs ELSE Top(ofCollection, DOCUMENT_LIMIT)
     IN  papers' = Each(docs, LAMBDA d : [doc |-> d, profile |-> corpus[d].profile])
  /\ phase' = "cards"
  /\ UNCHANGED <<corpus, effective, attempt, built, hits, pack, draft, reply>>

\* build_profile, of which Profile has the detail: what sentences say, tied to
\* the chunk they are in.
CardOf(chunks, grounded) ==
  LET point(c, s) == [of |-> s, chunk |-> c.id, grounded |-> grounded, field |-> CueOf(s).field, entity |-> CueOf(s).entity]
      points(c)   == Each(Select(c.text, LAMBDA s : CueOf(s) # NoCue), LAMBDA s : point(c, s))
  IN  FlattenSeq(Each(chunks, points))

Unprofiled == {i \in DOMAIN papers : papers[i].profile = NoProfile}

\* A paper without a card gets one, from the chunks there are now; the words of
\* a model may be of no chunk.
BuildCard ==
  /\ Work("cards") /\ Unprofiled # {}
  /\ built' = Min(Unprofiled)
  /\ \E grounded \in (IF request.key THEN BOOLEAN ELSE {TRUE}) :
       papers' = [papers EXCEPT ![built'].profile = CardOf(corpus[papers[built'].doc].chunks, grounded)]
  /\ phase' = "saving"
  /\ UNCHANGED <<corpus, effective, attempt, hits, pack, draft, reply>>

\* It is written to the row whatever has been written since, or not at all.
SaveCard ==
  /\ Work("saving")
  /\ corpus' \in {corpus, [corpus EXCEPT ![papers[built].doc].profile = papers[built].profile]}
  /\ phase' = "cards"
  /\ UNCHANGED workVars

PapersReady ==
  /\ Work("cards") /\ Unprofiled = {}
  /\ request.op # "summarise"
  /\ IF request.op = "review" THEN phase' = "draft" /\ UNCHANGED reply
     ELSE IF Len(papers) < (IF request.op = "compare" THEN 2 ELSE 1) THEN Done(NothingFound)
     ELSE phase' = "models" /\ UNCHANGED reply
  /\ UNCHANGED <<corpus, effective, attempt, papers, built, hits, pack, draft>>

Listed(evidence, uses) == Each(Listing(uses, Numbers(evidence)), LAMBDA n : [chunk |-> evidence[n].chunk.id, doc |-> evidence[n].chunk.doc])

\* The reply of a task: its texts rendered and its citations in order of first use.
Rendered(evidence, result) ==
  [kind |-> "task", text |-> Render(evidence, result.uses, result.text), citations |-> Listed(evidence, result.uses),
   result |-> result]

Summarise ==
  /\ Work("cards") /\ Unprofiled = {}
  /\ request.op = "summarise"
  /\ pack' = SummaryPack(Store, papers[1].profile)
  /\ Done(Rendered(pack', PaperSummary(pack', papers[1].profile)))
  /\ UNCHANGED <<corpus, effective, attempt, papers, built, hits, draft>>

SearchEach ==
  /\ Work("models") /\ HaveModels
  /\ request.op \in TaskOps
  /\ LET task == Tasks[request.op]
         perDocument == IF request.op = "literature" /\ Len(papers) > 4 THEN 1 ELSE 2
     IN  hits' = BalancedRetrieve(Store, task.queries, Each(papers, LAMBDA p : p.doc), request.collection,
                                  perDocument, RouteQuery(task.route), request.near, request.judge)
  /\ phase' = "ground"
  /\ UNCHANGED <<corpus, effective, attempt, papers, built, pack, draft, reply>>

\* The chunks the cards name are read after the search.
Ground ==
  /\ Work("ground")
  /\ \E grounding \in {ChunksByIds(Store, ProfileEvidenceIds(papers, Tasks[request.op].fields))} :
       /\ pack' = Gather(grounding, hits)
       /\ hits' = grounding \o hits
  /\ phase' = "draft"
  /\ UNCHANGED <<corpus, effective, attempt, papers, built, draft, reply>>

Heuristic(op) ==
  CASE op = "gaps"       -> HeuristicGaps(papers, pack)
    [] op = "literature" -> HeuristicReview(papers, pack)
    [] op = "compare"    -> HeuristicComparison(papers)

TaskDraft(op) ==
  CASE op = "gaps"       -> ResearchGapResult
    [] op = "literature" -> LiteratureReviewDraft
    [] op = "compare"    -> ComparisonDraft

\* Without a key, without evidence, or when the model's call fails, the cards speak.
Draft ==
  /\ Work("draft") /\ request.op \in TaskOps
  /\ \/ /\ AskAgain /\ pack # <<>>
        /\ UNCHANGED <<draft, phase>>
     \/ /\ request.key /\ pack # <<>>
        /\ draft' \in TaskDrafts(request.op, Len(pack)) /\ draft' \in TaskDraft(request.op)
        /\ phase' = "render" /\ UNCHANGED attempt
     \/ /\ draft' = Heuristic(request.op)
        /\ phase' = "render" /\ UNCHANGED attempt
  /\ UNCHANGED <<corpus, effective, papers, built, hits, pack, reply>>

Finished(op) ==
  CASE op = "gaps"       -> ResearchGaps(papers, pack, draft, MAX_GAPS)
    [] op = "literature" -> LiteratureReview(papers, pack, draft)
    [] op = "compare"    -> ComparePapers(papers, pack, draft)

RenderTask ==
  /\ Work("render")
  /\ Done(Rendered(pack, Finished(request.op)))
  /\ UNCHANGED <<corpus, effective, attempt, papers, built, hits, pack, draft>>

\* A review is free text; its citations are what was found.
ReviewText ==
  /\ Work("draft") /\ request.op = "review"
  /\ request.key
  /\ Done([kind |-> "list"])
  /\ UNCHANGED <<corpus, effective, attempt, papers, built, hits, pack, draft>>

\* Any error is the reply; a review does without the card.
FailRequest ==
  /\ \/ Work("models") /\ (wants["request"] = "failed" \/ HaveModels)
     \/ Work("papers") \/ Work("cards") \/ Work("ground")
     \/ Work("draft") /\ request.op = "review"
  /\ IF phase \in {"papers", "cards"} /\ request.op = "review" THEN phase' = "draft" /\ UNCHANGED reply
     ELSE Done([kind |-> "error"])
  /\ UNCHANGED <<corpus, effective, attempt, papers, built, hits, pack, draft>>

-----------------------------------------------------------------------------
(* The paper is ingested again: its chunks first, its card after.  *)

Reingest ==
  /\ phase # "done"
  /\ \/ /\ ingest = "none" /\ ingest' = "chunks"
        /\ corpus' = [corpus EXCEPT ![Again.doc].chunks = Again.chunks]
     \/ /\ ingest = "chunks" /\ ingest' = "done"
        /\ corpus' = [corpus EXCEPT ![Again.doc].profile = CardOf(Again.chunks, TRUE)]
  /\ UNCHANGED <<request, phase, modelVars, workVars, streamVars>>

Over == phase = "done" /\ UNCHANGED vars

QuestionStep == \/ StartQuestion \/ Load \/ Loaded \/ Rewrite \/ Retrieve \/ Background \/ Generate
                \/ VerifyAnswer \/ FailQuestion \/ Answered \/ Evaluate
RequestStep  == \/ StartRequest \/ Search \/ ReadPapers \/ BuildCard \/ SaveCard \/ PapersReady \/ Summarise
                \/ SearchEach \/ Ground \/ Draft \/ RenderTask \/ ReviewText \/ FailRequest
Next == \/ QuestionStep \/ Streaming \/ RequestStep \/ Reingest \/ Over
        \/ \E t \in Threads : Loading(t)

-----------------------------------------------------------------------------
(* Fairness is of the control of a request: the phases that may come after *)
(* a phase, and the stages of a question.                                  *)

After ==
  [received |-> {"question", "models", "papers", "done"},
   question |-> {"evaluate", "done"},
   evaluate |-> {"done"},
   models   |-> {"papers", "ground", "done"},
   papers   |-> {"cards", "draft", "done"},
   cards    |-> {"saving", "models", "draft", "done"},
   saving   |-> {"cards"},
   ground   |-> {"draft", "done"},
   draft    |-> {"render", "done"},
   render   |-> {"done"},
   done     |-> {}]

\* Only the models and the stream are waited for.
LoadedOrFailed == HaveModels \/ wants["request"] = "failed"

Move ==
  /\ phase = "models" => LoadedOrFailed
  /\ phase = "question" => worker = "done" /\ stream \in {"none", "closed"}
  /\ \E p \in After[phase] : phase' = p
Think ==
  /\ ThisQuestion /\ (worker = "working" /\ now = "loading_models" => LoadedOrFailed \/ cancelled)
  /\ Worker
Send == ThisQuestion /\ Generator

Spec == /\ Init /\ [][Next]_vars
        /\ WF_phase(Move) /\ WF_streamVars(Think) /\ WF_streamVars(Send)
        /\ \A t \in Threads : WF_modelVars(Loading(t))

-----------------------------------------------------------------------------
(* Properties *)

Replies == {"none", "answer", "report", "task", "list", "nothing", "error"}
Phases  == {"received", "question", "evaluate", "models", "papers", "cards", "saving", "ground", "draft", "render", "done"}

\* State and bounds: the model is asked for an output at most twice, each block
\* of evidence is another chunk.
TypeOK ==
  /\ StreamTypeOK
  /\ phase \in Phases /\ reply.kind \in Replies
  /\ attempt \in 1 .. 2
  /\ loaded \subseteq {"embedder", "reranker"}
  /\ lock \in Threads \cup {"free"}
  /\ wants \in [Threads -> {"nothing", "embedder", "reranker", "failed"}]
  /\ \A i, j \in DOMAIN pack : pack[i].chunk.id = pack[j].chunk.id => i = j

\* A model of two gigabytes is loaded once, whoever needs it first
\* (ingest.py: "Concurrent first requests must not each load a 2 GB model").
LoadedOnce == \A m \in DOMAIN loads : loads[m] <= 1

\* Every request is answered, with an error if need be: also when a model
\* cannot be loaded, another thread holds the lock, the model's reply is
\* malformed, or the client of the stream leaves.
RequestsEnd == <>(phase = "done")

BlockOf(chunk) == Evidence(pack, NumberOf(pack, chunk))

\* A block has at least the numbers of a claim and a share of its words.
Holds(chunk, claim) ==
  LET words == Says[claim].words
  IN  /\ NumberOf(pack, chunk) # 0
      /\ Says[claim].nums \subseteq UNION {Says[s].nums \cup Says[s].spelled : s \in ToSet(BlockOf(chunk))}
      /\ Cardinality(words) >= MIN_CLAIM_WORDS
           => 20 * Cardinality(words \cap Words(BlockOf(chunk))) >= 9 * Cardinality(words)

MarkersOpen ==
  \A i \in DOMAIN reply.text : \A k \in DOMAIN reply.text[i].marks :
    LET n == reply.text[i].marks[k]
    IN  /\ n \in DOMAIN reply.citations
        /\ reply.citations[n].chunk = pack[reply.text[i].written[k]].chunk.id

InReach(c) ==
  /\ c.doc = pack[NumberOf(pack, c.chunk)].chunk.doc
  /\ InScope(c.doc, Scope)

AnswerGrounded ==
  /\ \A i \in DOMAIN reply.claims :
       LET by == reply.claims[i].supportedBy
       IN  /\ reply.claims[i].verified <=> by # <<>>
           /\ \A k \in DOMAIN by : Holds(by[k].chunk, reply.claims[i].of)
                                    /\ \E c \in ToSet(reply.citations) : c.chunk = by[k].chunk
  /\ \A c \in ToSet(reply.citations) : ToSet(c.shown) \subseteq ToSet(BlockOf(c.chunk)) /\ c.shown # <<>>
  /\ ~reply.insufficient => reply.citations # <<>> /\ ~OpensWithRefusal(reply.text)

\* A gap without evidence is doubtful and comes last.
GapsGrounded ==
  \A i \in DOMAIN reply.result.gaps :
    LET g     == reply.result.gaps[i]
        named == IF g.gap.numbers # <<>> THEN g.gap.numbers ELSE MarksOf(g.gap.rationale)
    IN  IF ToSet(named) \cap Numbers(pack) # {} THEN g.support # "ungrounded"
        ELSE g.confidence <= 30 /\ \A j \in i .. Len(reply.result.gaps) : reply.result.gaps[j].support = "ungrounded"

\* NO EVIDENCE = NO CLAIM (rag/verification.py): a marker of the reply opens the
\* block the draft named; a claim counts as verified only by a cited block that
\* has its numbers and its words; what is shown of a block is in it; an answer
\* that cites nothing or refuses is marked insufficient; a gap with no evidence
\* is doubtful and comes after those with evidence.
Grounded ==
  /\ reply.kind \in {"answer", "task"} =>
       MarkersOpen /\ \A c \in ToSet(reply.citations) : InReach(c)
  /\ reply.kind = "answer" => AnswerGrounded
  /\ reply.kind = "task" /\ request.op = "gaps" => GapsGrounded

Searchable(d) ==
  \E c \in ToSet(corpus[d].chunks) : c.kind \notin {"reference", "front_matter"} /\ c.model = EMBEDDING_MODEL

\* A task hears every paper that can be found before it hears one of them
\* twice (synthesis.py: "so no single paper crowds out the others",
\* "Interleave so every paper is represented before the cap applies").
EveryPaperHeard ==
  request.op \in TaskOps /\ pack # <<>> =>
    LET before(i) == {pack[j].chunk.doc : j \in 1 .. i - 1}
        found     == {h.chunk.doc : h \in ToSet(hits)}
        heard     == {b.chunk.doc : b \in ToSet(pack)}
    IN  /\ \A i \in DOMAIN pack : pack[i].chunk.doc \in before(i) => found \subseteq before(i)
        /\ Cardinality(found) <= MAX_EVIDENCE_BLOCKS => heard = found
        /\ ingest = "none" => \A p \in ToSet(papers) : Searchable(p.doc) => p.doc \in found
=============================================================================
