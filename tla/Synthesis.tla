----------------------------- MODULE Synthesis -----------------------------
(***************************************************************************)
(* Tasks over several papers (rag/synthesis.py): research gaps, literature *)
(* review, comparison, and the summary of one paper.  Evidence is gathered *)
(* from the papers' research cards and from a search of each; what the     *)
(* model drafts, or the cards say when it does not answer, is rendered     *)
(* with citations and checked sentence by sentence.                        *)
(*                                                                         *)
(* A paper is [doc, profile]; a profile is a sequence of points            *)
(* [field, of, entity, chunk, grounded].                                   *)
(***************************************************************************)
EXTENDS Grounding

CONSTANTS
  MAX_EVIDENCE_BLOCKS, PROFILE_EVIDENCE_PER_PAPER, MAX_ISSUES,
  NoProfile

ASSUME SynthesisAssumption ==
  /\ MAX_EVIDENCE_BLOCKS \in Nat \ {0}
  /\ {PROFILE_EVIDENCE_PER_PAPER, MAX_ISSUES} \subseteq Nat

\* A point of a research card: what was said of a field, and in which chunk.
Point == [of : DOMAIN Says, chunk : STRING, grounded : BOOLEAN, field : STRING, entity : STRING]

PROFILE_FIELDS == <<"contributions", "methods", "datasets", "metrics", "key_results",
                    "baselines", "limitations", "assumptions", "future_work">>

GAP_FIELDS == <<"limitations", "future_work", "assumptions", "datasets", "key_results">>

\* _grounded, of one field.
GroundedOf(profile, field) == Select(profile, LAMBDA p : p.grounded /\ p.field = field)
GroundedIn(profile, fields) == FlattenSeq([k \in DOMAIN fields |-> GroundedOf(profile, fields[k])])

-----------------------------------------------------------------------------
(* Evidence *)

\* A few chunks of each paper's card, a chunk once.
ProfileEvidenceIds(papers, fields) ==
  LET named(p) == Once(Each(GroundedIn(p.profile, fields), LAMBDA q : q.chunk))
      ids[i \in 0 .. Len(papers)] ==
        IF i = 0 THEN <<>>
        ELSE ids[i - 1] \o Top(Select(named(papers[i]), LAMBDA c : c \notin ToSet(ids[i - 1])), PROFILE_EVIDENCE_PER_PAPER)
  IN  ids[Len(papers)]

\* Those still stored, in the order asked for, without a score.
ChunksByIds(store, ids) ==
  LET here == Select(ids, LAMBDA id : \E c \in ToSet(store) : c.id = id)
      hit(id) == [chunk |-> CHOOSE c \in ToSet(store) : c.id = id, similarity |-> -1, reranked |-> FALSE, score |-> 0]
  IN  Each(here, hit)

\* The papers take turns, each with its next chunk; a chunk that came before
\* costs its paper the turn.
GatherUnturned(grounding, retrieved) ==
  Top(EvidencePack(grounding \o Best(retrieved, LAMBDA h : h.score)), MAX_EVIDENCE_BLOCKS)
Gather(grounding, retrieved) ==
  LET all     == grounding \o Best(retrieved, LAMBDA h : h.score)
      docs    == Once(Each(all, LAMBDA h : h.chunk.doc))
      turn(i) == Cardinality({j \in 1 .. i : all[j].chunk.doc = all[i].chunk.doc})
      seat(i) == CHOOSE k \in DOMAIN docs : docs[k] = all[i].chunk.doc
      order   == Best([i \in DOMAIN all |-> i], LAMBDA i : -(turn(i) * Len(docs) + seat(i)))
  IN  Top(EvidencePack(Each(order, LAMBDA i : all[i])), MAX_EVIDENCE_BLOCKS)

\* The block a chunk is shown as, none if it is not.
NumberOf(pack, chunk) == SelectInSeq(pack, LAMBDA h : h.chunk.id = chunk)
Marked(pack, point) ==
  [of |-> point.of, marks |-> IF NumberOf(pack, point.chunk) = 0 THEN <<>> ELSE <<NumberOf(pack, point.chunk)>>]
Unmarked(point) == [of |-> point.of, marks |-> <<>>]

-----------------------------------------------------------------------------
(* What the cards say of all papers *)

\* In how many papers each thing of a field is met.
Coverage(papers, field) ==
  LET met(p) == {q.entity : q \in ToSet(GroundedOf(p.profile, field))}
  IN  [e \in UNION {met(p) : p \in ToSet(papers)} |-> Cardinality({i \in DOMAIN papers : e \in met(papers[i])})]
CoverageReport(papers) ==
  [counts |-> [f \in {"datasets", "metrics", "methods"} |-> Coverage(papers, f)],
   noLimits |-> {p.doc : p \in {q \in ToSet(papers) : GroundedOf(q.profile, "limitations") = <<>>}}]

Cell(p, field, n) == Each(Top(GroundedOf(p.profile, field), n), LAMBDA q : q.of)
MatrixRow(p) ==
  [doc |-> p.doc, methods |-> Cell(p, "methods", 2), datasets |-> Cell(p, "datasets", 3), metrics |-> Cell(p, "metrics", 3),
   findings |-> Cell(p, "key_results", 2), weaknesses |-> Cell(p, "limitations", 2)]
PaperMatrix(papers) == Each(papers, MatrixRow)

-----------------------------------------------------------------------------
(* SynthesisVerifier *)

\* Papers the sentence names although no block it cites is of them or names them.
Misattributed(pack, papers, of, cited) ==
  {d \in Says[of].names \cap {p.doc : p \in ToSet(papers)} :
     \A n \in cited : pack[n].chunk.doc # d /\ \A s \in ToSet(Evidence(pack, n)) : d \notin Says[s].names}

Cited(pack, s) == FlattenSeq(Each(NumbersIn(pack, <<s>>), LAMBDA n : Evidence(pack, n)))
Supported(pack, s) == NumbersIn(pack, <<s>>) # <<>> /\ IsSupported(<<s.of>>, Cited(pack, s))

\* One sentence: what is wrong with it, "" for nothing, and whether it cites.
CheckSentence(pack, papers, s) ==
  LET cited == NumbersIn(pack, <<s>>)
  IN  IF cited = <<>>
      THEN [cites |-> FALSE, uncited |-> IsContentSentence(s.of) /\ ~Says[s.of].refuses, wrong |-> "", astray |-> FALSE]
      ELSE [cites |-> TRUE, uncited |-> FALSE, wrong |-> CheckClaim(<<s.of>>, Cited(pack, s)),
            astray |-> Misattributed(pack, papers, s.of, ToSet(cited)) # {}]

Verification(pack, papers, text) ==
  LET seen == Each(text, LAMBDA s : CheckSentence(pack, papers, s))
      count(test(_)) == Len(Select(seen, test))
      wrong == count(LAMBDA c : c.wrong # "")
      astray == count(LAMBDA c : c.astray)
  IN  [checked |-> count(LAMBDA c : c.cites), supported |-> count(LAMBDA c : c.cites /\ c.wrong = ""),
       unsupported |-> wrong, misattributed |-> astray,
       uncited |-> count(LAMBDA c : c.uncited), issues |-> Min({MAX_ISSUES, wrong + astray})]

-----------------------------------------------------------------------------
(* Research gaps.  A drafted gap is [description, rationale, numbers,      *)
(* confidence], confidence in per cent.                                    *)

ResearchGapResult ==
  [summary : Text, consensus : Text, contradictions : Seq([number : Int, stance : Text, doc : DOMAIN CollectionOf]),
   gaps : Seq([description : Text, rationale : Text, numbers : Seq(Int), confidence : 0 .. 100]), insufficient : BOOLEAN]

HeuristicGaps(papers, pack) ==
  LET gaps(field) == FlattenSeq(Each(papers, LAMBDA p : Top(GroundedOf(p.profile, field), 2)))
      gap(q) == [description |-> <<Unmarked(q)>>, rationale |-> <<>>, numbers |-> Marked(pack, q).marks, confidence |-> 50]
      all == Each(gaps("future_work") \o gaps("limitations"), gap)
  IN  [summary |-> <<>>, consensus |-> <<>>, contradictions |-> <<>>, gaps |-> all, insufficient |-> all = <<>>]

GapNumbers(pack, gap) == IF gap.numbers # <<>> THEN gap.numbers ELSE NumbersIn(pack, gap.rationale)
GapBlocks(pack, gap)  == Among(GapNumbers(pack, gap), Numbers(pack))

\* "stated" when the cited blocks say it, "inferred" when they are cited for
\* something else.
GapSupport(pack, gap) ==
  LET blocks == GapBlocks(pack, gap)
      text   == FlattenSeq(Each(blocks, LAMBDA n : Evidence(pack, n)))
      marked == \E s \in ToSet(gap.description \o gap.rationale) : Supported(pack, s)
  IN  IF blocks = <<>> THEN "ungrounded" ELSE IF marked \/ IsSupported(Sentences(gap.description), text) THEN "stated" ELSE "inferred"

GapConfidence(support, confidence) ==
  CASE support = "ungrounded" -> Min({confidence, 30})
    [] support = "inferred"   -> Min({confidence, 70})
    [] OTHER                  -> confidence

\* The gaps with evidence first, then by confidence.
JudgedGaps(pack, gaps) ==
  LET judged(g) == LET support == GapSupport(pack, g)
                   IN  [gap |-> g, support |-> support, confidence |-> GapConfidence(support, g.confidence)]
  IN  Best(Each(gaps, judged), LAMBDA g : g.confidence + (IF g.support = "ungrounded" THEN 0 ELSE 1000))

PositionUses(pack, positions) ==
  FlattenSeq(Each(positions, LAMBDA p : (IF p.number \in Numbers(pack) THEN <<p.number>> ELSE <<>>) \o NumbersIn(pack, p.stance)))

ResearchGaps(papers, pack, result, maxGaps) ==
  LET gaps   == Top(result.gaps, maxGaps)
      judged == JudgedGaps(pack, gaps)
      shown  == FlattenSeq(Each(judged, LAMBDA g : g.gap.description \o g.gap.rationale))
      stances == FlattenSeq(Each(result.contradictions, LAMBDA p : p.stance))
      text   == result.summary \o result.consensus \o stances \o shown
      uses   == FlattenSeq(Each(gaps, LAMBDA g : GapNumbers(pack, g)))
                \o PositionUses(pack, result.contradictions)
                \o NumbersIn(pack, result.summary \o result.consensus \o shown)
  IN  [uses |-> uses, text |-> text, gaps |-> judged, matrix |-> PaperMatrix(papers), coverage |-> CoverageReport(papers),
       positions |-> Each(result.contradictions, LAMBDA p :
         [number |-> p.number,
          verified |-> p.number \in Numbers(pack) /\ IsSupported(Sentences(p.stance), Evidence(pack, p.number)),
          astray |-> p.number \in Numbers(pack) /\ pack[p.number].chunk.doc # p.doc]),
       checked |-> Verification(pack, papers, result.summary \o result.consensus
                                \o FlattenSeq(Each(gaps, LAMBDA g : g.description \o g.rationale))),
       insufficient |-> result.insufficient \/ gaps = <<>>]

-----------------------------------------------------------------------------
(* Literature review.  A drafted section is [key, content, numbers].      *)

REVIEW_SECTIONS == <<"introduction", "existingApproaches", "commonMethodologies", "keyFindings",
                     "limitations", "researchGaps", "futureDirections">>

FieldFor ==
  [introduction |-> "contributions", existingApproaches |-> "baselines", commonMethodologies |-> "methods",
   keyFindings |-> "key_results", limitations |-> "limitations", researchGaps |-> "assumptions",
   futureDirections |-> "future_work"]

LiteratureReviewDraft ==
  [sections : Seq([key : STRING, content : Text, numbers : Seq(Int)]), insufficient : BOOLEAN]

HeuristicReview(papers, pack) ==
  LET said(key) == FlattenSeq(Each(papers, LAMBDA p : Top(GroundedOf(p.profile, FieldFor[key]), 2)))
      sections  == Each(REVIEW_SECTIONS, LAMBDA key :
                     [key |-> key, content |-> Each(said(key), LAMBDA q : Marked(pack, q)), numbers |-> <<>>])
      there     == Select(sections, LAMBDA s : s.content # <<>>)
  IN  [sections |-> there, insufficient |-> there = <<>>]

\* Each section of the list, the last the draft has of it.
LiteratureReview(papers, pack, draft) ==
  LET of(key) == SelectLastInSeq(draft.sections, LAMBDA s : s.key = key)
      there   == Each(Select(REVIEW_SECTIONS, LAMBDA key : of(key) # 0), LAMBDA key : draft.sections[of(key)])
      uses(s) == NumbersIn(pack, s.content) \o Among(s.numbers, Numbers(pack))
      text    == FlattenSeq(Each(there, LAMBDA s : s.content))
  IN  [uses |-> FlattenSeq(Each(there, uses)), text |-> text,
       sections |-> Each(there, LAMBDA s : [key |-> s.key, cites |-> Once(uses(s))]),
       matrix |-> PaperMatrix(papers), checked |-> Verification(pack, papers, text), insufficient |-> draft.insufficient]

-----------------------------------------------------------------------------
(* Comparison.  A draft is its texts, the narrative first, and numbers.     *)

ComparisonDraft == [texts : Seq(Text), numbers : Seq(Int), insufficient : BOOLEAN]

HeuristicComparison(papers) ==
  LET row(field) == FlattenSeq(Each(PaperMatrix(papers), LAMBDA r : r[field]))
      later      == FlattenSeq(Each(papers, LAMBDA p : Cell(p, "future_work", 2)))
      texts      == <<row("methods"), row("datasets"), row("findings"), row("weaknesses"), later>>
  IN  [texts |-> Each(texts, LAMBDA text : Each(text, LAMBDA s : [of |-> s, marks |-> <<>>])), numbers |-> <<>>,
       insufficient |-> FALSE]

ComparePapers(papers, pack, draft) ==
  LET text == FlattenSeq(draft.texts)
  IN  [uses |-> NumbersIn(pack, text) \o Among(draft.numbers, Numbers(pack)), text |-> text,
       matrix |-> PaperMatrix(papers), checked |-> Verification(pack, papers, text), insufficient |-> draft.insufficient]

-----------------------------------------------------------------------------
(* Summary of one paper *)

SummaryPack(store, profile) ==
  ChunksByIds(store, Once(Each(GroundedIn(profile, PROFILE_FIELDS), LAMBDA q : q.chunk)))

PaperSummary(pack, profile) ==
  LET said == FlattenSeq(Each(<<"contributions", "methods", "datasets", "key_results", "limitations", "future_work">>,
                              LAMBDA f : Top(GroundedOf(profile, f), 3)))
      text == Each(said, LAMBDA q : Marked(pack, q))
  IN  [uses |-> NumbersIn(pack, text), text |-> text]
=============================================================================
