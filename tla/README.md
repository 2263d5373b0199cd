# DocLens AI: specifications, model checking, proofs

DocLens AI is a research assistant over uploaded papers: a browser frontend
(React, `src/frontend`), a backend (NestJS with Prisma, `src/backend`) and an
AI service (FastAPI, `src/ai-service`) share one PostgreSQL database with
pgvector. A paper that is uploaded is parsed, cut into evidence chunks and
embedded; questions are answered from those chunks, and every answer carries
numbered citations that open the chunk they came from.

This directory models that path from end to end: what happens to a paper between
its pages and READY, to its chunks and the citations of them, to a question
between the browser, the stages of the AI service and the stored answer, and to
the list of papers on the screen.

    tlc -workers 2 -config Processing.cfg MCProcessing     # any run
    tlapm IngestionProofs.tla                              # any proof module

## 1. Inventory

| component | state | operations | what is hard | what makes it correct |
|---|---|---|---|---|
| processing queue (`document-processing-queue.service.ts`) | rows `ProcessingJob`, `Document.status`; runners in memory | enqueue, `runJobDirect` (8 database writes, 2 AI calls, a catch block with 2 writes), `onApplicationBootstrap` | the runner lives in memory, its record in the database; death between any two writes; deletes and retries meanwhile; a restart that dies itself | no paper hangs, READY is earned, no job is lost or run for ever |
| documents (`documents.service.ts`) | `Document` | upload, reprocess, remove, reading progress, listing | check and write in separate awaits | a paper is not run twice at once, deletes stop work |
| parsing and chunking (`pdf_parser.py`, `chunking.py`, `paper_profile.py`, `ingest.py`) | a parse under way | one pass over the lines, packing, carry, overlap, research card, batches of vectors | text moved between paragraphs, chunks, sections and pages; numbers that name blocks of a prompt | no text is lost, a chunk is of one section and of its pages, a point of the card opens the chunk that says it |
| chunk store (`ingest.py`, `pg_store.py`, `chunking.py`) | `DocumentChunk`, `EmbeddingMetadata`, `Citation` | ingest (read, LLM call, transaction), embed (read, encode, transaction), reindex, cascade | long gaps between read and write, several requests at once, new parser or model | a vector and a citation belong to the text they were made for |
| retrieval and synthesis (`query_router.py`, `retriever.py`, `evidence.py`, `verification.py`, `chain.py`, `synthesis.py`) | none | routing, hybrid search, fusion, rerank, caps, evidence packs, claims, gaps, review, comparison, summary | caps that bite while papers still wait; numbers resolved after lists were merged and cut; what the model drafts is arbitrary | what is cited was shown and says so; every paper is heard |
| AI question stream, LLM client, model loading (`main.py`, `query.py`, `llm.py`, `ingest.py`) | event queue, cancel flag, two lazily loaded models and their lock | `/ask`, `/ask/stream`, `/evaluate`, `/search`, summaries, reviews, gaps, comparison, warm-up | worker thread against a reader that goes away; failing loads; a second call of the model | one result or error, stages in order, every request ends, a model is loaded once |
| AI proxy (`ai-proxy.service.ts`) | none | HTTP calls with timeout, retry, stream reading | a caller that gives up does not stop the callee | each call has one outcome |
| question answering (`query.service.ts`) | `ChatSession`, `Query`, `Citation`; `inflightAsks` | ask, ask/stream, sessions | duplicates, retries, disconnects, partial writes, chunks that vanish | a question is answered and stored once, markers open what they name, labels stay |
| citation numbering (`chain.py`, `evidence.py`, `query.service.ts`) | none | two renumberings | dropped and repeated citations shift positions | a marker survives both |
| chat page (`ChatPage.jsx`, `api.ts`) | React state and two refs | send, cancel, clear, load session, leave | answers of superseded questions, sessions that arrive late | what is shown belongs together, the input opens again |
| events and live corpus (`events.gateway.ts`, `SocketContext.jsx`, `useResearchCorpus.js`) | rooms, a debounce timer, overlapping loads | join, leave, emit, reload | events without replay, joins that await a check, loads that overtake each other | the list on the screen becomes current |
| authentication (`auth/`, `google-oauth.service.ts`) | `User`, handoff codes in memory | login, Google sign-in, handoff | single use, expiry, two first sign-ins | a code is redeemed once |
| workspaces, collections | rows | CRUD with an ownership check | check-then-write | cascade reaches everything below |
| comparison, reviews, gaps, notes, analytics in the backend | a row each | one AI call, alignment, one row | as in ask | as in ask |
| other pages, evaluation scripts, knowledge graph, deployment | - | - | no protocol of their own | - |

How they meet: the browser calls the backend over HTTP and an event stream and
gets events over a socket; the backend calls the AI service over HTTP; backend
and AI service write different tables of the same database, whose foreign keys
cascade from a paper to jobs, chunks, metadata and citations. Backend and AI
service are single processes that die and restart independently; each keeps
work under way in memory only.

## 2. Modules

`X` is checked through `MCX`, which names the model values, the inputs and the
symmetry.

| module | models | state and actions |
|---|---|---|
| `Processing` | the queue, upload, reprocess, remove, crash, bootstrap | `docStatus`, `jobStatus`, `jobDoc`, `attempts` are columns and survive `Crash`; `pc`, `phase`, `todo`, `snap`, `hpc` are memory. Each database write is one action, named after what it marks; `pc[j]` names the await a runner is at. `todo` and `snap` are the result of the bootstrap's `findMany` |
| `JobLifecycle` | the abstract promise about a job | none, open, closed, gone; at most `MaxTries` tries. `Processing` refines it (`JobsFollowLifecycle`) |
| `PaperText` | texts | a text is a sequence of passages, each a run of characters of one printed line, with the blanks before it; joining, cutting and sentence splitting as the code does them |
| `Parsing` | `pdf_parser.py` | operators: body font, running heads, headings, section types, paragraphs, references, captions, tables. `Look` says what a line reads like to each pattern and measure of the parser |
| `Chunking` | `chunking.py`, the page fallback of `ingest.py` | operators: oversized paragraphs, packing with overlap, the carry, references, tables and figures, adoption of stored ids |
| `Profile` | `paper_profile.py` | operators: the chunks a card is made from, points tied to blocks, the extractive card, the card's own chunk |
| `PaperPipeline` | `ingest_document` and `embed_document` for one paper | the parser's loop is one action per line (`Heading`, `InlineAbstract`, text); then sections, chunks or the fallback, ids, card, and three writes: the chunks (`Persist`), the card in a transaction of its own (`SaveCard`), the vectors batch by batch. `IngestFails` may end it at any step, with what is committed left; ingesting again finds that. `torn` is history: chunks were committed and their card not yet |
| `ChunkStore` | chunks of one paper under concurrent requests | `rows`, `meta`, `citations`; a request is a record in `req` with what it holds in memory. `IngestBuild` is everything up to the transaction, `IngestSelect` its first statement, `IngestCommit` the rest; `EmbedRead` / `EmbedWrite` likewise; `Restart` deploys another parser or model |
| `Ingestion` | backend and AI service together | extends `Processing`, instantiates `ChunkStore`; `sent` are requests on the wire, `serving` who waits for which. `BackendCrash` leaves requests running, `AiRestart` leaves runners waiting |
| `AskStream` | the protocol of a question's stream | worker thread, the check and the put of `on_stage`, event queue, generator, a client who stays or leaves; an abstraction of the stages' work |
| `Lists` | what Python does with lists in the AI service | operators: comprehensions with a condition, `dict.fromkeys`, `sorted`, slices, sums, and `Folded`, a loop over a list. A list is given by the positions its members are taken from, a loop by a recursive function, so that both can be reasoned about for lists of any length |
| `Retrieval` | `query_router.py`, `hybrid_search`, `retriever.py` | operators: intents, both candidate lists, fusion, rerank, caps, balanced retrieval |
| `Grounding` | `evidence.py`, `verification.py`, `build_structured_answer` | operators: evidence packs, resolving of numbers, check of claims and sentences, rendering, passage windows |
| `Synthesis` | `synthesis.py` | operators: cards, gathering of evidence, coverage, matrix, gaps, review, comparison, summary, the extractive stand-ins |
| `Evaluation` | `evaluation.py`, `/evaluate` | operators: recall, rank, faithfulness, correctness, precision, coverage, abstention |
| `AiService` | a request from arrival to reply | extends `AskStream` and `Synthesis`: the stages of a question do their work, the other endpoints go through phases of their own; two threads load models under a lock; another ingest changes the corpus meanwhile. Refines `AskStream` |
| `Citations` | the two renumberings | operators: `DraftCitations`, `DraftText` (AI service), `AlignedCitations`, `AlignedText` (backend). A text is everything it has in brackets, in its order: references to evidence, numbers that look like a marker already, and groups of numbers. What is left of a list (`Among`) is taken by positions as in `Lists`; TLC compares it with `SelectSeq` on every run of `AskService` |
| `AskService` | `QueryService.ask` | `call[c].stage` names the await of a call; `inflight` is `inflightAsks`, `gone` the aborted signals, `queries` the `Query` rows with their `Citation` rows, `chunks` the chunks left. Of an answer's text its markers are kept, each with the chunk that was meant there, if any: `Strays` are the numbers a draft or a copied sentence has in brackets besides |
| `ChatClient` | the chat page | `seq`, `live`, `sending`, `sessionId`, `messages` are the page's refs and state; `asks`, `loads` the requests on the wire, `stored` what the backend has |
| `LiveCorpus` | gateway, socket and the list on the screen | `stored` and `written` are changes and their announcements; `room`, `checking` the gateway; `up`, `down` the wire; `loads`, `shown`, `timer` the page; `lost` is history: what the page will not notice |
| `IngestionProofs` (of `Processing` too), `PaperProofs`, `ChunkStoreProofs`, `CitationProofs`, `AskServiceProofs`, `AiServiceProofs`, `ChatClientProofs`, `LiveCorpusProofs` | - | theorems |

Data is reduced to what the properties tell apart. A vector is the text and
model it was computed from; a hash is its text; a passage is a run of characters
of a line; a sentence is the content words, numbers and names it has; lengths in
`Grounding` are counted in content words; an answer is its sentences with their
markers. Scores of the embedder and the cross-encoder are inputs, and the judge
does not look at the question; drafts of the model are inputs too, and include
markers of nothing, wrong numbers, invented sentences and refusals. Two patterns
that detect a refusal are one flag, and the joined cells of a matrix are separate
sentences. Wording, progress, stages' messages and times are left out: nothing in
the modelled code reads them back. Title and header of a chunk are a length. The
text the server composes itself (notes, abstentions) is left out of the counts of
uncited sentences. `_page_lines`, the way lines come out of PyMuPDF, is where the
papers begin. A point of a card is grounded when the block has the line it quotes
or says (`Profile!Ground`): the code asks for 0.6 of the words of a quote and 0.4 of
those of a text (`paper_profile.py:117`), and here a block has all of a line's words
or none, so what lies between the thresholds is left out.

## 3. Runs

| run | result | what it shows |
|---|---|---|
| `processing` | pass | 977 thousand states. A paper in processing is owned by a job, or its closing write was lost; READY is earned and, for a paper submitted once, kept; after a restart no open job is forgotten; jobs refine `JobLifecycle`. `IInv`, which includes the type invariant, is the invariant of the proofs |
| `processing_live` | pass | every job ends and no paper stays in processing (but for a lost closing write) |
| `processing_stranded` | **violated** | finding 1 |
| `paper` | pass | 294 thousand states. No text is lost between a page and the chunks, chunks keep to one section and to the pages they name, points of the card open a chunk unless the card's own write is outstanding, and the chunk a point opens always holds its words; after an ingest every stored chunk has a vector of its content |
| `chunkstore` | pass | 613 thousand states. Vectors and citations belong to their text whatever overlaps; an ingest without company is exact |
| `ingestion` | pass | READY means searchable as long as the last run had no company; the composition keeps both components' specifications |
| `unembedded_ready` | **violated** | finding 2 |
| `requests` | pass | 283 thousand states. Every kind of request ends; a stream is one run of the stages with one outcome; models are loaded once; answers, gaps, reviews and comparisons cite what was shown, and a claim called verified is in what it cites; every paper with evidence is in the pack; the model is asked for an output at most twice |
| `ask` | pass | 246 thousand states. One stored answer per clientRequestId, no second run, what was answered is stored, labels stay, a marker put there for a chunk opens it whatever other numbers the text has, calls end |
| `ask_cancelled` | **violated** | finding 3 |
| `chat` | pass | the input is closed exactly while the latest question is under way; every question that runs can be cancelled; answers stand under their questions; the chat is one session; the input opens again |
| `corpus` | pass | 1.27 million states. Once all is at rest the list is current, unless an event was emitted while the page was out of its room, a due refresh was cleared, or an older load came last; and the page is in all its rooms |

Bounds, and why they are enough:

- `processing`: two papers, two requests served at once, two jobs, two crashes,
  one failing database call, two attempts. Two jobs are what a second
  submission of the same paper, or work on another one, takes; the second crash
  falls into the recovery of the first. `processing_live` has one paper and
  three crashes, so that a job is resumed, interrupted in the resume, and given
  up.
- `paper`: 27 papers, made of four openings (none, title and inline abstract,
  title and a paragraph that may be the abstract, an abstract heading) and seven
  bodies (subsections, short sections, a sentence longer than a chunk, a last line
  longer than a chunk, sections of no known type, no headings, one line), with and
  without limitations, acknowledgements and references in two styles, and five special
  ones (running heads, page numbers, figures, a file name for a title, nothing). Sizes
  are scaled: a chunk has 12 characters, overlaps by 5 and has at least 4, as the
  code has 2000, 300 and 120. Each is ingested twice, so that ids are adopted, each
  ingest may fail at any step, so that the second finds chunks without their card or
  without vectors, and table detection may fail on any page.
- `chunkstore`: two requests at once and five in all, texts with a repetition,
  two versions of the parser that disagree on a position and one that finds no
  text, two models, one citation; enough for ingest against ingest, ingest against embed, and a third
  request that sees what they left. Ids are reused only when nothing refers to
  them, so nine are never exhausted.
- `ingestion`: one paper with one body chunk and a card, or without text, two AI requests at
  once, two runs of the pipeline in all (jobs and crashes together), four
  requests.
- `requests`: one request at a time (requests share only models and corpus, and
  those have actors of their own), of 29 kinds: each endpoint with and without a
  key, a stream, a history, a question of one facet, of two, of none. Two papers
  in the collection, one with a card and one without, a third elsewhere, a chunk
  of an old model, one ingest meanwhile, packs of three blocks so that the cap
  bites. The section boost is 8 here and 0 by default in the code: the larger case.
  Requests name stored papers of their collection, as the backend checks.
- `ask`: three calls with one key, two chunks, answers of up to two citations
  and two markers out of a draft that may name a number that does not exist and have a
  `[2]` of its own, passages whose sentences may have a `[2]` too, one failing
  database call, one crash, any number of disconnects. Three calls are a call, one that joins it,
  and one that comes after. `[2]` is the stray number that can be taken for a citation
  and can be dropped, as there are answers with one citation and with two. Groups, and
  drafts that have everything, are in the assumption `StraysInText`, which TLC
  evaluates; the theorem of section 5 is about any text.
- `chat`: three questions and one loaded session. Two questions can supersede
  each other and a third is asked in what is left; the session may arrive before,
  between and after them.
- `corpus`: two collections with one change each, two loads the user asks for
  besides the first and those of the timer, one lost connection, one failing list
  call. One change per collection is enough for an older load to come last and for
  two announcements to overlap; the loads of two collections are what overlap.

Deadlock is not checked where the bounds let the system come to rest: all
papers are done, all calls answered, nothing changes any more.

Fairness:

- `Processing!FairSpec`: runners and the bootstrap go on. Their awaits are
  database calls and AI calls, and the AI calls end after 900 s
  (`ai-proxy.service.ts:206-215`). The process is started again after a crash:
  by an operator, since `docker-compose.yml` gives the backend no restart policy.
  Liveness is stated without failing database calls: an exception inside the
  catch block leaves a job open until the next restart, which is then not fair
  to assume. HTTP is served only after the bootstrap (`main.ts:127`).
- `AiService!Spec`: threads go on, and a call of the model ends after its timeout
  (`llm.py`, 45 s, for syntheses 90 s) with a reply or an error. A model's load ends, well or badly; the
  client of a stream reads or leaves. It is stated on the control variables
  (`Move`, `Think`, `Send`, `Loading`): each is enabled whenever an action that
  moves the control is, which spares TLC the data.
- `AskService!FairSpec`: each await of a call ends, the AI call after
  `AI_REQUEST_TIMEOUT_MS`. No call has to be made, no client to stay.
- `ChatClient!FairSpec`: a stream ends, with a result, an error or after
  `ASK_TIMEOUT_MS`. Users owe nothing.

`LiveCorpus` has no liveness property: its safety properties speak of the states
in which nothing is left to do, and a refresh that was lost is never made up for.

## 4. Findings

1. **A crash between two closing writes strands a paper** (`NoStrandedDocument`).
   The job is closed first, the paper second; the bootstrap looks at open jobs
   only, and `reprocess` refuses a paper that is neither FAILED nor PENDING.
2. **A leftover ingest request undoes a resumed run** (`ReadyIsSearchable`). The
   paper is READY and has chunks without vectors, for good.
3. **A cancelled question is stored** (`CancelledStoresNothing`). The signal is
   looked at in the catch block of the AI call only.

Each is a run of its own; what else is claimed of the same code is checked with
the finding taken into account and no further: `InProgressOwned` excepts exactly
the papers in `torn`, `ReadyComplete` exactly the runs in `raced`.

Met while modelling, without a run of their own:

- `query.service.ts:208` sends the first twenty turns of a session along, not the
  last twenty (`README.md:68`, `docs/ARCHITECTURE.md:163`).
- `query.service.ts:334`: citations cascade with their chunk and markers in the
  stored text do not; a replayed answer numbers what is left, so its markers may
  open another chunk. `MarkersTrue` is stated for answers and excepts replays.
- Numbers in brackets that nobody put there for a citation become markers. A sentence
  the fallback copies keeps the `[2]` of the paper's bibliography
  (`query.service.ts:1197`, `:1334`); a `[2]` the model wrote itself passes
  `renumber_markers` (`evidence.py:18`, `:148`) and is mapped as a position by
  `remapMarkers` (`query.service.ts:1281`), or removed; a group `[2, 5]` passes both.
  The page renders all of them as buttons (`MarkdownAnswer.jsx:7`, `:42`), which open
  the citation of that number, although "each line cites exactly the passage it was
  taken from" (`query.service.ts:1316`). `AskService` has them, as markers that mean
  no chunk (`NoChunk`); `MarkersTrue` says that they disturb none of the others, and
  nothing is claimed of what they open themselves. `Grounded` (run `requests`) speaks of
  references to evidence only.
- `ingest.py:381` writes the card after `ingest.py:355` has committed the chunks. An
  ingest that fails in between leaves the card of an earlier one, whose points name
  chunks that are gone, until the paper is ingested again. `PointsOpenTheirChunk`
  excepts exactly that (`torn`) from opening a chunk, and still asks that a chunk that
  is opened has the words.
- `ingest.py:350`: ids are adopted before the card is appended, so a re-ingest
  gives the card a new id and drops the citations of it (`README.md:96` says
  citations survive `reindex.py`).
- `useResearchCorpus.js:84`: the list on the screen can stay stale (a due refresh
  is cleared by a load that read before the change, an older load comes last,
  events are emitted between a leave and its join or while the socket is down, and
  a reconnect loads nothing), although `README.md:140` promises live status. These
  are exactly the causes `lost` records.
- `chunking.py:126` says carried text is never dropped; when no section with
  ordinary text follows, it is. `NothingDropped` excepts a carry at the end of the
  paper. Short pieces of front matter are dropped too. The page of a carry comes
  first in the next section, so a chunk may be of the carry's page.
- `pdf_parser.py:447` removes headings without paragraphs before `chunking.py:130`
  looks for parents, so a subsection of such a heading is filed under the section
  before it (`chunking.py:11` calls it context).
- `chunking.py:6` says chunks never cross a section; a carry does, by design.
  `OneSection` allows the carry and nothing else.
- `main.py:384`: the answer is rebuilt without the claims' citations, so
  `citation_coverage` (`evaluation.py:181`) is 0 for every answer with claims.
- `synthesis.py:17` calls the extractive results fully cited; the comparison's
  cells (`synthesis.py:700`) carry no markers.
- `synthesis.py:76` saves a card built from chunks read earlier; an ingest that
  commits between the two has its card replaced by the older one, whose points
  name chunks that are gone. `pg_store.py:154` reads and writes the metadata in
  one transaction without a lock, with the same effect.
- Blocks taken from cards have no score and are cited with relevance 0
  (`synthesis.py:142`).
- `loadSession` does not look at `requestSeqRef` although the comment at
  `ChatPage.jsx:216` says only the latest request may update the chat; a session
  that arrives after a new question was sent replaces the chat. `crossed` marks
  that, and `AnswersFollowQuestions` and `ChatIsOneSession` hold until it happens.

`NothingDropped` rests on `MIN_CHUNK_CHARS <= CHUNK_OVERLAP_CHARS`
(`ChunkingAssumption`): with a shorter overlap a last piece below the minimum
could hold text of its own.

A leave that is handled while a join of the same room awaits its check is undone
by the join. In `LiveCorpus` that is harmless, since every leave of the page but
the last is followed by a join, and after the last the page has no handlers.

## 5. Proofs

`IngestionProofs`, first of the queue alone (for any number of papers, jobs, handlers, crashes, faults
and attempts; assumptions: `NoDocAssumption`, `BoundsAssumption`,
`AttemptsAssumption`):

- `IInvHolds`: `Spec => []IInv`. The properties are not inductive alone. `IInv`
  adds what a runner knows of its job's row at each await (`RunnersAgree`), that
  rows of a paper and its jobs come and go together (`RowsAgree`), what lives
  only in a process that is up (`PhasesAgree`), that the snapshot of the
  bootstrap is still true when it is used (`BootAgrees`) and where an open job
  without a runner can be (`OpenJobsKept`). One lemma per action, one step per
  conjunct the action can disturb. TLC checks `IInv` in `processing` first.
- `TypeCorrect`, `InProgressIsOwned`, `ReadyIsEarned`, `NoOpenJobForgotten`
  follow from it; `ReadyIsKept` is an action property proved from it;
  `QueueImplementsLifecycle` is step simulation under the mapping `Lifecycle`.

`CitationProofs` (for any lists, any set of chunks):

- `Position` is injective on what resolves and runs through exactly the numbers
  from one to their count (`PositionInRange`, `PositionIncreases`, `PositionInjective`,
  `ListingIsExact`): it counts along the order of first appearance, so a choice by
  position is unique, and the list has no gaps by cardinality.
- `AlignedMarkerOpensItsChunk`, `AlignedCitationsAreSound`,
  `DraftMarkerOpensItsEvidence`, and their composition
  `MarkerSurvivesBothRenumberings`: one number, followed through both.
- `EveryMarkerOpensWhatWasMeant` says it of a whole text, in which references are
  dropped and other numbers stand: what the client gets in brackets is, place for place,
  what is left of the draft (`Through`), and where that is a reference to evidence the
  number opens the chunk of that evidence. It rests on lemmas about `Among`
  (`RankGrows` to `AmongAmong`): a list of what is left keeps the order, loses and
  repeats nothing, and leaving things out twice is leaving them out once.

`ChunkStoreProofs` (any requests, texts, parsers, models, ids; assumptions: the
supply of ids and of citations is finite, null is no id, no model and no card,
bodies are sequences):

- `StoreInvariant`: `VectorsTrue` is not inductive, since what a request is about
  to write was read long before. `StoreInv` adds that an id stands for one text
  wherever it occurs (`OneTextPerId`): in a row, in the chunks a request has built,
  in the batch another is encoding. New ids are in use nowhere, and an id
  is adopted only with its text, so it can never be given a second one.
- `VectorsAreTrue` and `CitationsAreTrue` follow. `BuildsSomething`, that the list
  of an ingest is never empty, is used by the next module.
- `IngestIsExact`: what an ingest without company leaves. It is about one step, but
  the list that step writes was made from rows read two steps earlier. `AloneInv`
  carries that over: as long as an ingest has had the paper for itself nobody else
  is busy, its list fits the rows as they are (`Fits`: the body's texts in their
  order, the ids adopted in the order of the rows, new ids elsewhere), and what it
  has selected for deletion is all there is. The commit then writes each chunk in
  its place (`CommitsAlone`), and that it keeps as many rows of a text as the text
  has places, or all of them, is counted by injections (`SameSize`, `KeepsAsMany`).

`IngestionProofs`, then of both processes (any jobs, requests, crashes of both processes, texts and models;
assumptions: `PaperAssumption`, one paper is looked at, and `StoreAssumption`, those
of `ChunkStore`):

- `ComponentsAreKept`: every step of the composition is a step of `Processing` or
  leaves its variables alone, and the same of `ChunkStore`. So `IInvHolds` and
  `StoreInvariant` hold of the composition; the second is used through an instance
  of `ChunkStoreProofs` under the same substitution as the one of `ChunkStore`, and
  `SameInit` and `SameStep` say that both instances are the same specification.
  `TypesHold` follows.
- `ReadyIsComplete`: a paper whose last run had no company is READY only when it can
  be searched in full. `PipelineInv` is the invariant. `CallsAgree`, which always
  holds, says that a runner waits for a request of its own and of the kind it sent,
  and that what an ingest is about to store is not empty. `InTime`, while the run
  has had no company, says that one runner at most is in the pipeline, that an
  ingest under way is the only one and whoever is in the pipeline waits for it,
  that the ids an ingest has selected are still stored, and that chunks, and then
  their vectors, are there as far as the runner has come (`Progress`). An embed
  request left behind by a runner that gave up may still write: it only takes
  chunks from the set without vectors, and that it never writes an empty
  one is `VectorsTrue`, taken from `StoreInv`. Lemmas named after what a request
  does (`Builds`, `Selects`, `Commits`, `Reads`, `Writes`, `FailsOrIsAnswered`) say
  what the rest needs of `ChunkStore`; then one lemma per kind of step
  (`InTimeAfterMove`, `InTimeAfterStart` and so on).

`PaperProofs` (any papers, any look of their lines, any sizes of chunks, of the card's
evidence and of batches, any number of ingests, each of which may fail at any step): `PaperInvHolds` says `Spec => []PaperInv`.
`TypeOK`, `PointsOpenTheirChunk` and `Embedded` follow from it (`PaperTypes`,
`StoredPointsOpen`, `StoredAreEmbedded`). None of them is inductive: what is stored
was made by parsing, packing and adoption many steps before.

| part | what it says | why it is needed |
|---|---|---|
| `ReadInv` | what the parser has collected is on no later page than what is left to read; what is flushed on no later page than what is to flush | a section's first page is not after its last |
| `ParsedInv` | a parsed paper has texts of its own lines on its own pages, in order | page spans of chunks |
| `ChunkInv` | the rows made are numbered, then named apart, and a name is of this run or is that of a stored row of the same content | a vector kept under an old id must be of the text now stored under it |
| `StoredInv` | stored rows are named apart and by no run to come; a vector is of the content stored under its name | `Embedded` across ingests |
| `CardInv` | the stored card names chunks of runs that were begun, not of one whose chunks are still being made; a chunk it names has the words of a grounded point; unless chunks were committed without their card, it names stored ones | `PointsOpenTheirChunk`: a card outlives the rows it was made with when the chunks are written and their card is not |
| `ProfileInv` | a point names no chunk, or one of the rows at hand, and one that counts as grounded has its words there | `PointsOpenTheirChunk` |

Every function of the parser, of chunking, of the card and of the batches has a
lemma that says what it makes of what it gets (`ParsedIs`, `PackSectionIs`,
`BuildChunksIs`, `SplitTextIs`, `AdoptIdsIs`, `SelectProfileEvidenceIs`, `GroundIs`,
`BatchesAre`). Those that loop have a lemma for one step and one for all of them:
`LoopExists` gives the values of the loop as a function on the positions and
`LoopKeeps` carries a property over it, which is induction over a set of numbers
(`SetInduction` in `CitationProofs`) and so within reach of the provers. The pages
of a section's paragraphs rise (`ConcatRises`, `FlattenRises`), so a piece packed from
them has its first page before its last (`PutUnitPacks`, `PackSectionIs`); a carry is
of an earlier section, so it may be put in front (`CarriedInto`). An old row is
taken once, because a row taken is not free any more (`PutAdoptedIs`, `AdoptedGrows`).
Each position without a vector is in some batch, whatever the lengths (`PutTextIs`,
`BatchesAre`, `EncodedAre`), so the last batch leaves none open (`EmbedIs`).

TLC checks the six conjuncts on the states of `paper` first. Assumptions, all
evaluated by TLC on the instance: `LookAssumption` and `ParsingAssumption` (what a line
looks like has the shape the parser's patterns and measures give it; thresholds are
numbers), `ChunkingAssumption`, `BatchAssumption`, `RunsAssumption` (sizes are numbers,
those that divide are positive) and `PaperAssumption`: a paper's lines come page by
page, as `parse_paper` walks the document, and its tables are on its pages.

`AskServiceProofs` (any number of calls, keys, chunks, crashes, faults and
disconnects, any stray numbers; assumptions: `NullAssumption`, `StraysAssumption`, which
only says that they are numbers in brackets and no references, `BoundsAssumption`):

- `AskInvariant`: `AskInv` is the types, `KeysInv` (one call at most works for a
  key, it is the one `inflight` names, and a call past the look at the stored
  answer knows there is none) and `RowsInv` (what each stage of a call has written
  and what it holds for the client).
- `TypeCorrect`, `StoredOnce`, `RunsOnce`, `GivenIsStored`, `LabelStays` and
  `MarkersOpenWhatWasMeant` follow; the last one from `EveryMarkerOpensWhatWasMeant`
  for answers of the AI service (any draft, with any stray numbers) and `LinesOpen` for
  the fallback, whose lines end with their own marker wherever copied numbers put it,
  and the fact that chunks only disappear while a call is under way.

`AiServiceProofs`, first of the stream alone (no constants, any interleaving):

- `StreamIInvHolds`: besides the types, `RunSoFar` (the log is a run of the stages
  with at most one outcome and the end last), `WorkerAt` (what has been put when
  the worker is where it is: it may be past the check of `on_stage` and not yet at
  the put) and `GeneratorAt` (how far the generator and the client are).
- `StreamShapeHolds`: what the client is sent is such a run, and a client who
  stays gets the outcome.

`AiServiceProofs`, then of the service (any corpus, request, draft and score):

- `QuestionsImplementStream`: every step of the service is a step of `AskStream`
  or leaves its variables alone. `StreamShapeAlways` follows without another
  invariant of the service.
- `ModelsIInvHolds`: who holds the lock, who looked at the model under it and how
  often each was loaded (`ModelsIInv`). `ModelsAreLoadedOnce` follows: whoever asks
  first and whichever load fails.

`AiServiceProofs`, last of what a request is answered with (any stored chunks,
cards, intents, scores, drafts and bounds). `RequestTypes`, `RepliesAreGrounded` and
`PapersAreHeard` (`TypeOK`, `Grounded`, `EveryPaperHeard` of the run `requests`) follow
from `RequestIInvHolds`. None of the three is inductive, because a reply speaks of
evidence and drafts that were made stages earlier; `RequestIInv` says what a request
has at each stage:

| part | what it adds |
|---|---|
| `Asked` | the question searched for is one that can be asked, and the model is called at most twice |
| `CorpusIs` | stored chunks are of the paper they are stored under, and the points of a stored card are of its own paper, also after another ingest and after a card that was built from older chunks is saved |
| `PapersAre` | a task has papers of its scope only, with their own cards; the blocks that come from cards are in scope because of that |
| `FoundIs` | hits and pack are chunks of the scope, and no chunk is in the pack twice, so that a number names one block |
| `Going` | which phases and stages go with which kind of request, and that nothing is replied before the end |
| `Carded` | no paper is without a card once a task is past the cards; the card just built is that of a paper of the task |
| `Drafted` | a draft has the shape of the schema the model is held to, or is what the cards say |
| `Replied` | markers open the block they name, citations are in scope and show words of their chunk, claims called verified have their words and numbers in a cited block, gaps without evidence are doubtful and last; always of the pack the request still has |
| `Heard` | which papers were found and which have a block |

The argument follows a request. What a search returns is stored, in scope and ranked
(`HybridIs`, `FusionIs`, `RerankIs`, `CapIs`, `RetrieveMergedIs`, `BalancedRetrieveIs`: the
last says that each paper that can be found is found). A pack has no chunk twice
(`EvidencePackIs`) and numbers open it (`NumberOpens`). A text, a claim and a
citation made of a draft keep to the pack whatever the draft says (`RenderIs`,
`SupportIs`, `CiteIs`, `AnswerIs`). A card's points are of its paper (`CardOfIs`). Blocks
are taken from the papers in turns (`TurnIs`, `SeatIs`, `LineIs`, `PackTakesTurns`): a paper has
its second block only behind the first of every other, so a cut after
`MAX_EVIDENCE_BLOCKS` leaves nobody out as long as there are no more papers than
blocks (`GatherIs`). Gaps, review, comparison and summary are one lemma each
(`ResearchGapsIs`, `LiteratureReviewIs`, `ComparePapersIs`, `PaperSummaryIs`). Then one lemma
per action (`RetrieveKeeps` to `ReingestKeeps`). TLC checks `RequestIInv` on all
282,998 states of `requests`. The lemmas about lists are in `CitationProofs`.

Assumptions of these proofs, all evaluated by TLC on the instance:

- `VocabularyAssumption`, `GroundingAssumption`, `SynthesisAssumption`: sentences have finitely many
  words and the bounds are numbers, those of the code's constants.
- `StoreAssumption`: what a corpus may hold. Chunks are rows of `DocumentChunk`; an id
  is a UUID (`schema.prisma`), so two papers share none; a card's points name chunks
  of its own paper or none that is stored, because `_ground` takes the id from the
  blocks of the paper it was built for. That a card is of its own paper is assumed of
  the beginning only, and proved of every card a request builds and saves.
- `RequestAssumption`: a request names stored papers, of its collection if it has one
  (`assertDocumentsInCollection`, `sharedCollectionId` in the backend), asks for at
  least one block, and its task has at least one query.

`ChatClientProofs` (any number of questions and sessions):

- `PageInvHolds`: `LiveAgrees` says that `abortRef` names the question under way
  and that it is the latest one, `NewIsOpen` and `LoadsNamed` what is not on the
  wire yet. `SendingAlwaysWaits`, `LiveStreamIsCancelled` and `PageTyped` follow.
- `ChatInvHolds`: a second invariant on top of it. `RowsAgree` says what the rows
  of a session are, `LoadsAgree` that a session under way is a beginning of them,
  `LiveComesNext` that the answer of the latest question will be the
  next row of the session on the screen. `AnswersStandUnderQuestions` and
  `ChatShowsOneSession` are conjuncts of it.

`LiveCorpusProofs` (any finite set of collections, any number of changes, loads,
lost connections and failing calls; assumption: `CollectionsAssumption`):

- `CorpusInvHolds`: both properties speak of rest only, so the invariant has to say
  what is still to come. `RoomsInv`: of each collection the page has subscribed to,
  the last request on the wire is a join, or none is a leave and the page is in
  the room or being let in. `ListInv`: of a collection that is not in `lost`, what
  the list shows is current, or an event, a due refresh, or a load that reads
  it now or has read it is under way.
- `ListIsCurrent` and `RoomsAreJoined` are what is left of it at rest.

TLC checks each of these invariants before it is proved, on the states of the run
that checks the properties.

Only model-checked:

- liveness (`JobsEnd`, `ProcessingEnds`, `CallsEnd`, `SendingEnds`, `RequestsEnd`),
  which the prover cannot reach;
- of `paper`, `NothingDropped`, `OneSection` and `PagesTrue`. They follow one line by its name,
  so they hold only of papers whose lines have names of their own and in which a
  heading does not come twice, which the model does not ask for in general;
  `NothingDropped` speaks of the single characters of a passage after it was cut,
  overlapped and joined any number of times. What is proved for every paper is the
  page span of every chunk (`PaperTypes`) and that texts are made of the paper's
  lines (`PaperInvHolds`);
- the three runs that expect a violation.

## 6. Not modelled

- Knowledge graph: `kg_extractor.py`, the graph tables and queries of `pg_store.py`
  (from line 750) and the endpoints over them. No page of the frontend's main path
  calls them, and they keep no state of their own beyond what an upsert by key does.
- `POST /search/hybrid` serves the candidates of `HybridSearch` as they are, before
  fusion and rerank; the operator is modelled, the endpoint adds nothing to it.
- The unused halves of `verification.py` (`verify_single_claim`, `verify_claims`,
  `validate_citations`): no request path calls them. Scripts under `eval/` and the
  model-judged relevance measure quality and change nothing.
- In `documents.service.ts` the status paths nothing calls any more
  (`updateStatus`, `persistAiOutputs`) and reading progress; in `ChatPage.jsx` the
  stage display, the citation panel, the local list of questions and the way back
  to the route without a stream, which this backend never makes it take, and the errors
  for a reply with neither citations nor the label of a weak answer, which this
  backend never gives (`AskService!WeakStaysWeak`), and for a question without a
  collection, which is not sent.
- In `ai-proxy.service.ts` the retry of read-only calls (the AI service keeps no
  trace of a question, so a second run only costs time) and the cutting of the
  event stream into frames. In `events.gateway.ts` sockets without a valid token
  and an access check that fails.
- Authentication, workspaces and collections, and the backend's side of comparison,
  reviews and gaps: single synchronous steps, or one call and one row, as said in
  `PROJECT.json`.

## 7. Plan

Done, in this order: `Processing` with its abstract life cycle and proofs,
`ChunkStore`, their composition `Ingestion`, `Citations` with proofs,
`AskService`, `ChatClient`; `PaperPipeline` with its operators, `AskStream` with
proofs, `Retrieval`, `Grounding`, `Synthesis`, `Evaluation`, `AiService` with the
refinement and its proofs, `LiveCorpus`, `ChatClientProofs`, `ChunkStoreProofs`,
`AskServiceProofs`, `LiveCorpusProofs`, `IngestionProofs`, the invariant of a
request in `AiServiceProofs`, for which the list operators were put into `Lists`, and
`PaperProofs`, for which the loops of `PaperPipeline` were given as `Folded`.

Next theorems: `OneSection` and `PagesTrue`, from papers whose lines have names of
their own.

Next modules: a second collection in `AskService` (`resolveChatSession` accepts a
session of another one), and the handoff codes of the Google sign-in.
