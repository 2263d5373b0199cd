----------------------------- MODULE Evaluation -----------------------------
(***************************************************************************)
(* The metrics of /evaluate (rag/evaluation.py, and the answer that main   *)
(* rebuilds for them).  A share is [of, all], 1 of 1 where the code has    *)
(* 1.0 by definition.                                                      *)
(***************************************************************************)
EXTENDS Grounding

Whole == [of |-> 1, all |-> 1]
None  == [of |-> 0, all |-> 1]
ShareOf(s, test(_)) == [of |-> Len(Select(s, test)), all |-> Len(s)]

\* Relevant ids listed, counted with what is listed twice.
RecallAtK(ids, relevant, k) ==
  IF relevant = <<>> THEN None ELSE ShareOf(relevant, LAMBDA r : r \in ToSet(Top(ids, k)))

\* 0 where no relevant chunk was found, else the rank.
FirstRelevant(ids, relevant) == SelectInSeq(ids, LAMBDA id : id \in ToSet(relevant))

\* The notes appended to an answer are sentences of it too.
Faithfulness(answer, found) ==
  LET grounded(s) == \E h \in ToSet(found) : Covered(Says[s.of].words, h.chunk.text, 50)
  IN  IF answer.text = <<>> /\ answer.notes = {} THEN Whole
      ELSE [ShareOf(answer.text, grounded) EXCEPT !.all = @ + Cardinality(answer.notes)]

CitationCorrectness(citations, found) ==
  IF citations = <<>> THEN Whole
  ELSE ShareOf(citations, LAMBDA c : \E h \in ToSet(found) :
                            h.chunk.id = c.chunk /\ (c.shown = <<>> \/ Covered(Words(c.shown), h.chunk.text, 60)))

CitationPrecision(citations, found) ==
  IF citations = <<>> THEN Whole
  ELSE ShareOf(citations, LAMBDA c : \E h \in ToSet(found) : h.chunk.id = c.chunk)

\* The endpoint rebuilds the claims without what supports them.
RebuiltClaims(claims) == [i \in DOMAIN claims |-> [claims[i] EXCEPT !.supportedBy = <<>>]]

CitationCoverage(answer, claims) ==
  IF claims = <<>> THEN IF answer.insufficient THEN Whole ELSE None
  ELSE ShareOf(claims, LAMBDA c : c.supportedBy # <<>>)

\* test_unanswerable: a question without an answer must be seen as one.
Unanswerable(answer) ==
  answer.insufficient \/ (answer.citations # <<>> /\ answer.confidence < 60000)

EvaluationReport(answer, found, relevant, k) ==
  LET ids    == [i \in DOMAIN found |-> found[i].chunk.id]
      claims == RebuiltClaims(answer.claims)
  IN  [recall       |-> RecallAtK(ids, relevant, k),
       first        |-> FirstRelevant(ids, relevant),
       faithfulness |-> Faithfulness(answer, found),
       correctness  |-> CitationCorrectness(answer.citations, found),
       precision    |-> CitationPrecision(answer.citations, found),
       coverage     |-> CitationCoverage(answer, claims),
       unsupported  |-> UnsupportedClaimRate(claims),
       unanswerable |-> Unanswerable(answer)]
=============================================================================
