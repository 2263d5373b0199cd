----------------------------- MODULE Retrieval -----------------------------
(***************************************************************************)
(* How the AI service finds evidence: routing (rag/query_router.py), the   *)
(* two candidate lists of a search (vector_store), their fusion, the       *)
(* cross-encoder and the caps (rag/retriever.py, rag/chain.py).            *)
(*                                                                         *)
(* A text is a sequence of sentences; what a sentence says is looked up in *)
(* Says.  A chunk is [id, doc, kind, section, model, text]: kind is its    *)
(* content type, model what its vector was made by.  What the embedder and *)
(* the cross-encoder think of a chunk is given by functions on ids, in per *)
(* cent: near and judge.                                                   *)
(***************************************************************************)
EXTENDS Lists

CONSTANTS
  Says,                \* [sentence -> [words, nums, spelled, names, refuses]]
  Asks,                \* [question -> [words, parts, intents, acrossPapers]]
  CollectionOf,        \* [document -> collection]
  RRF_K, RERANK_CANDIDATES, SYNTHESIS_RERANK_BUDGET,
  RERANKER_ENABLED,
  SECTION_BOOST,       \* in per cent
  EMBEDDING_MODEL,
  NoModel, NoCollection

ASSUME RetrievalAssumption ==
  /\ {RRF_K, SECTION_BOOST} \subseteq Nat
  /\ {RERANK_CANDIDATES, SYNTHESIS_RERANK_BUDGET} \subseteq Nat \ {0}
  /\ RERANKER_ENABLED \in BOOLEAN

StoredChunk ==
  [id : STRING, doc : DOMAIN CollectionOf, kind : STRING, section : STRING, model : STRING \cup {NoModel},
   text : Seq(DOMAIN Says) \ {<<>>}]

Words(text) == UNION {Says[s].words : s \in ToSet(text)}

-----------------------------------------------------------------------------
(* Routing *)

\* What each intent makes of a section type, in tenths.
Intents ==
  [limitations  |-> [limitations |-> 10, discussion |-> 6, conclusion |-> 4, future_work |-> 4],
   gaps         |-> [future_work |-> 10, limitations |-> 8, conclusion |-> 6, discussion |-> 5],
   method       |-> [method |-> 10, background |-> 3, experiments |-> 2],
   data         |-> [experiments |-> 10, method |-> 5, results |-> 3],
   results      |-> [results |-> 10, experiments |-> 6, discussion |-> 4, abstract |-> 3],
   contribution |-> [abstract |-> 10, introduction |-> 7, conclusion |-> 6, profile |-> 8],
   related      |-> [related_work |-> 10, introduction |-> 4, references |-> 5],
   conclusion   |-> [conclusion |-> 10, discussion |-> 6, abstract |-> 3]]

\* The first intent counts whole, the others half: weights are twentieths.
Weight(intents, i, section) ==
  IF section \in DOMAIN Intents[intents[i]]
  THEN Intents[intents[i]][section] * (IF i = 1 THEN 2 ELSE 1) ELSE 0

\* A question is routed by the intents there are, and its parts are questions.
ASSUME VocabularyAssumption ==
  /\ EMBEDDING_MODEL # NoModel
  /\ \A s \in DOMAIN Says : IsFiniteSet(Says[s].words)
  /\ \A q \in DOMAIN Asks : Asks[q].parts \in Seq(DOMAIN Asks) /\ Asks[q].intents \in Seq(DOMAIN Intents)

RouteQuery(question) ==
  LET asked == Asks[question].intents
      cards == Asks[question].acrossPapers \/ "contribution" \in ToSet(asked)
  IN  [exclude |-> IF "related" \in ToSet(asked) THEN {"front_matter"} ELSE {"reference", "front_matter"},
       boost   |-> [section \in (UNION {DOMAIN Intents[i] : i \in ToSet(asked)}) \cup {"profile"} |->
                      Max({Weight(asked, i, section) : i \in DOMAIN asked}
                          \cup {IF section = "profile" /\ cards THEN 12 ELSE 0})]]

\* In two-thousandths, like scores.
SectionBoost(route, section) ==
  IF section \in DOMAIN route.boost THEN SECTION_BOOST * route.boost[section] ELSE 0

\* The question and up to three parts of three words or more.
SplitFacets(question) ==
  Once(<<question>> \o Top(Select(Asks[question].parts, LAMBDA p : Cardinality(Asks[p].words) >= 3), 3))

-----------------------------------------------------------------------------
(* The two lists of candidates *)

InScope(doc, scope) ==
  /\ scope.collection # NoCollection => CollectionOf[doc] = scope.collection
  /\ scope.docs # <<>> => doc \in ToSet(scope.docs)

\* hybrid_search: keyword hits come before semantic ones; chunks of another
\* embedding model are found by their words only.
HybridSearch(store, question, scope, exclude, model, topK, near) ==
  LET base     == Select(store, LAMBDA c : InScope(c.doc, scope) /\ c.kind \notin exclude)
      shared(c) == Cardinality(Words(c.text) \cap Asks[question].words)
      vector   == Select(base, LAMBDA c : c.model # NoModel /\ model \in {c.model, NoModel})
      semantic == Top(Best(vector, LAMBDA c : near[c.id]), topK)
      keyword  == Top(Best(Select(base, LAMBDA c : shared(c) > 0), shared), topK)
  IN  [i \in DOMAIN keyword |-> [chunk |-> keyword[i], rank |-> i, similarity |-> -1]]
      \o [i \in DOMAIN semantic |-> [chunk |-> semantic[i], rank |-> i, similarity |-> near[semantic[i].id]]]

-----------------------------------------------------------------------------
(* Fusion and reranking *)

\* 1 / (RRF_K + rank), all ranks over one denominator.
Denominator == Product([rank \in 1 .. RERANK_CANDIDATES |-> RRF_K + rank])
Share(rank) == Denominator \div (RRF_K + rank)

ReciprocalRankFusion(raw, topK) ==
  LET of(i)    == {j \in DOMAIN raw : raw[j].chunk.id = raw[i].chunk.id}
      entry(i) == [chunk |-> raw[i].chunk,
                   rrf |-> Total([j \in DOMAIN raw |-> IF j \in of(i) THEN Share(raw[j].rank) ELSE 0]),
                   similarity |-> Max({raw[j].similarity : j \in of(i)})]
      firsts   == Kept([i \in DOMAIN raw |-> entry(i)], {i \in DOMAIN raw : i = Min(of(i))})
  IN  Top(Best(firsts, LAMBDA e : e.rrf), topK)

\* A chunk is kept unless enough of its paper rank before it.
CapPerDocument(ranked, topK, most) ==
  LET before(i) == {j \in 1 .. i - 1 : ranked[j].chunk.doc = ranked[i].chunk.doc}
  IN  Top(Kept(ranked, {i \in DOMAIN ranked : most = 0 \/ Cardinality(before(i)) < most}), topK)

\* The cross-encoder is skipped where it could only reorder what is returned.
Rerank(raw, route, topK, pool, most, judge) ==
  LET fused   == ReciprocalRankFusion(raw, pool)
      skipped == ~RERANKER_ENABLED \/ (pool < RERANK_CANDIDATES /\ Len(fused) <= topK)
      own(e)  == IF skipped THEN (2000 * e.rrf) \div fused[1].rrf ELSE 20 * judge[e.chunk.id]
      scored  == [i \in DOMAIN fused |->
                    [chunk |-> fused[i].chunk, similarity |-> fused[i].similarity, reranked |-> ~skipped,
                     score |-> Min({2000, own(fused[i]) + SectionBoost(route, fused[i].chunk.section)})]]
  IN  CapPerDocument(Best(scored, LAMBDA e : e.score), topK, most)

RetrieveMulti(store, questions, route, scope, topK, pool, most, near, judge) ==
  LET found(q) == HybridSearch(store, q, scope, route.exclude, EMBEDDING_MODEL, RERANK_CANDIDATES, near)
  IN  Rerank(FlattenSeq([i \in DOMAIN questions |-> found(questions[i])]), route, topK, pool, most, judge)

\* /search: one question, no cap.
RetrieveChunks(store, question, scope, topK, near, judge) ==
  RetrieveMulti(store, <<question>>, RouteQuery(question), scope, topK, RERANK_CANDIDATES, 0, near, judge)

\* /ask: the question and its facets, and no paper may crowd out the others
\* unless it is the only one.
MaxPerDocument(scope, topK) == IF Len(scope.docs) = 1 THEN 0 ELSE Max({3, topK \div 2})
RetrieveMerged(store, question, scope, topK, near, judge) ==
  RetrieveMulti(store, SplitFacets(question), RouteQuery(question), scope, Max({topK, 10}),
                RERANK_CANDIDATES, MaxPerDocument(scope, topK), near, judge)

\* Tasks over several papers: some of each, the pairs to score shared among them.
BalancedRetrieve(store, questions, docs, collection, perDocument, route, near, judge) ==
  LET keep == perDocument * Max({1, Len(questions)})
      pool == Min({RERANK_CANDIDATES, Max({keep, SYNTHESIS_RERANK_BUDGET \div Max({1, Len(docs)})})})
      of(d) == RetrieveMulti(store, questions, route, [collection |-> collection, docs |-> <<d>>], keep, pool, 0, near, judge)
  IN  FlattenSeq([i \in DOMAIN docs |-> of(docs[i])])
=============================================================================
