----------------------------- MODULE Grounding -----------------------------
(***************************************************************************)
(* How a draft of the model is tied to the evidence it was shown           *)
(* (rag/evidence.py, rag/verification.py, build_structured_answer).        *)
(*                                                                         *)
(* A drafted text is a sequence of [of, marks]: a sentence and the numbers *)
(* of its [Evidence N] markers.  Lengths are counted in content words.     *)
(***************************************************************************)
EXTENDS Retrieval, Citations

CONSTANTS
  MIN_CLAIM_WORDS,       \* fewer are not looked for in the evidence
  MIN_SENTENCE_WORDS,    \* fewer need no marker
  WINDOW                 \* length of the passage a citation shows

ASSUME GroundingAssumption == {MIN_CLAIM_WORDS, MIN_SENTENCE_WORDS, WINDOW} \subseteq Nat

\* What the model may draft: with_structured_output refuses anything else.
\* A confidence is in per cent.
Text        == Seq([of : DOMAIN Says, marks : Seq(Int)])
AnswerDraft == [answer : Text, claims : Seq([of : DOMAIN Says, numbers : Seq(Int)]), confidence : 0 .. 100,
                conflict : BOOLEAN, insufficient : BOOLEAN]

\* EvidencePack: each chunk once.
EvidencePack(hits) ==
  Kept(hits, {i \in DOMAIN hits : \A j \in 1 .. i - 1 : hits[j].chunk.id # hits[i].chunk.id})

Evidence(pack, n) == pack[n].chunk.text

Sentences(text)      == [i \in DOMAIN text |-> text[i].of]
MarksOf(text)        == FlattenSeq([i \in DOMAIN text |-> text[i].marks])
NumbersIn(pack, text) == Among(Once(MarksOf(text)), Numbers(pack))

-----------------------------------------------------------------------------
(* Does a text contain a claim? *)

\* At least part of hundred of the content words of a claim.
Covered(words, evidence, part) ==
  words # {} /\ 100 * Cardinality(words \cap Words(evidence)) >= part * Cardinality(words)

\* Digits of the claim; in the evidence spelled numbers count too.
MissingNumbers(claim, evidence) ==
  (UNION {Says[s].nums : s \in ToSet(claim)}) \ (UNION {Says[s].nums \cup Says[s].spelled : s \in ToSet(evidence)})

CheckClaimByWords(claim, evidence) ==
  IF Covered(Words(claim), evidence, 45) THEN "" ELSE "content"
CheckClaim(claim, evidence) ==
  IF MissingNumbers(claim, evidence) # {} THEN "numbers"
  ELSE IF Cardinality(Words(claim)) < MIN_CLAIM_WORDS \/ Covered(Words(claim), evidence, 45) THEN ""
  ELSE "content"

IsSupported(claim, evidence) == CheckClaim(claim, evidence) = ""

IsContentSentence(s) == Cardinality(Says[s].words) >= MIN_SENTENCE_WORDS

-----------------------------------------------------------------------------
(* Citations *)

Length(text) == Total([i \in DOMAIN text |-> Cardinality(Says[text[i]].words)])

\* The sentences from start on that fit; the first always does.
Run(text, start) ==
  LET fits(last) == last = start \/ Length(SubSeq(text, start, last)) <= WINDOW
  IN  SubSeq(text, start, Max({last \in start .. Len(text) : fits(last)}))

\* best_window: the first of the runs that cover most of the hint.
BestWindow(text, hint) ==
  LET covers(i) == Cardinality(Words(Run(text, i)) \cap Words(hint))
      most      == Max({covers(i) : i \in DOMAIN text})
  IN  IF Words(hint) = {} THEN Run(text, 1)
      ELSE Run(text, Min({i \in DOMAIN text : covers(i) = most}))

Cite(pack, n, hint) ==
  [chunk |-> pack[n].chunk.id, doc |-> pack[n].chunk.doc, relevance |-> pack[n].score,
   shown |-> BestWindow(Evidence(pack, n), hint)]

-----------------------------------------------------------------------------
(* The answer of a question *)

\* top_scores: -1 for none.
TopScores(hits) ==
  [similarity |-> Max({-1} \cup {hits[i].similarity : i \in DOMAIN hits}),
   rerank     |-> Max({-1} \cup {hits[i].score : i \in {j \in DOMAIN hits : hits[j].reranked}})]

\* A claim is verified by a block it cites and no other.
Verify(pack, claim) ==
  LET cited   == Among(claim.numbers, Numbers(pack))
      by      == Select(cited, LAMBDA n : IsSupported(<<claim.of>>, Evidence(pack, n)))
  IN  [of |-> claim.of, verified |-> by # <<>>,
       supportedBy |-> [i \in DOMAIN by |-> Cite(pack, by[i], <<claim.of>>)],
       misstated |-> by = <<>> /\ \E n \in ToSet(cited) : CheckClaim(<<claim.of>>, Evidence(pack, n)) = "numbers"]

UnsupportedClaimRate(claims) ==   \* in per cent
  IF claims = <<>> THEN 0
  ELSE (100 * Len(Select(claims, LAMBDA c : ~c.verified))) \div Len(claims)

\* renumber_markers: a marker becomes the position of its block among all
\* numbers used; markers of nothing disappear.
Render(pack, uses, text) ==
  LET kept(s) == Among(s.marks, Numbers(pack))
      mark(n) == Position(uses, Numbers(pack), n)
  IN  [i \in DOMAIN text |-> [of |-> text[i].of, written |-> kept(text[i]),
                              marks |-> [k \in DOMAIN kept(text[i]) |-> mark(kept(text[i])[k])]]]

\* Factual sentences without a marker.
Uncited(pack, text) ==
  Select(text, LAMBDA s : IsContentSentence(s.of) /\ NumbersIn(pack, <<s>>) = <<>> /\ ~Says[s.of].refuses)

OpensWithRefusal(text) == text # <<>> /\ Says[text[1].of].refuses

\* What the draft says where it cites block n.
SaidOf(n, draft) ==
  LET sentences == Select(draft.answer, LAMBDA s : n \in ToSet(s.marks))
      claims    == Select(draft.claims, LAMBDA c : n \in ToSet(c.numbers))
  IN  Sentences(sentences) \o Sentences(claims)

\* Confidence is in two-thousandths of a per cent.
BuildStructuredAnswer(draft, pack) ==
  LET uses     == NumbersIn(pack, draft.answer) \o FlattenSeq([i \in DOMAIN draft.claims |-> draft.claims[i].numbers])
      order    == Listing(uses, Numbers(pack))
      verified == [i \in DOMAIN draft.claims |-> Verify(pack, draft.claims[i])]
  IN  [kind         |-> "answer",
       text         |-> Render(pack, uses, draft.answer),
       citations    |-> [p \in DOMAIN order |-> Cite(pack, order[p], SaidOf(order[p], draft))],
       claims       |-> verified,
       uncited      |-> Len(Uncited(pack, draft.answer)),
       notes        |-> (IF \E i \in DOMAIN verified : ~verified[i].verified THEN {"unmatched"} ELSE {})
                        \cup (IF Uncited(pack, draft.answer) # <<>> /\ order # <<>> THEN {"uncited"} ELSE {}),
       confidence   |-> draft.confidence * (200 - UnsupportedClaimRate(verified)) * (IF draft.conflict THEN 8 ELSE 10),
       insufficient |-> draft.insufficient \/ order = <<>> \/ OpensWithRefusal(draft.answer)]
=============================================================================
