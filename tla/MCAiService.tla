---------------------------- MODULE MCAiService ----------------------------
(***************************************************************************)
(* Two papers in collection c, the first with a research card and more to  *)
(* say than a pack holds, the second without; a third paper elsewhere.     *)
(* Drafts have markers of nothing, a wrong number, an invented sentence, a *)
(* refusal and a sentence about the wrong paper.                           *)
(***************************************************************************)
EXTENDS AiService

Sentence(words, nums, spelled, names, refuses) ==
  [words |-> words, nums |-> nums, spelled |-> spelled, names |-> names, refuses |-> refuses]

\* What is stored (the first six), and what only drafts say.
Sayings ==
  [weak     |-> Sentence({"w", "l", "s"}, {}, {}, {}, FALSE),
   score    |-> Sentence({"r", "s", "t"}, {41}, {}, {}, FALSE),
   setup    |-> Sentence({"m", "d"}, {}, {8}, {}, FALSE),
   later    |-> Sentence({"w", "f"}, {}, {}, {}, FALSE),
   source   |-> Sentence({"m", "s"}, {}, {}, {}, FALSE),
   away     |-> Sentence({"w", "s"}, {}, {}, {}, FALSE),
   wrong    |-> Sentence({"r", "s", "t"}, {28}, {}, {}, FALSE),
   eight    |-> Sentence({"m", "d"}, {8}, {}, {}, FALSE),
   invented |-> Sentence({"x", "y", "z"}, {}, {}, {}, FALSE),
   other    |-> Sentence({"m", "d"}, {}, {}, {"p1"}, FALSE),
   refusal  |-> Sentence({"x", "y", "n"}, {}, {}, {}, TRUE)]

Question(words, parts, intents, across) == [words |-> words, parts |-> parts, intents |-> intents, acrossPapers |-> across]

Questions ==
  [limits  |-> Question({"w", "l"}, <<>>, <<"limitations">>, FALSE),
   both    |-> Question({"w", "l", "r", "t", "m"}, <<"scores", "limits">>, <<"limitations", "results">>, TRUE),
   scores  |-> Question({"r", "t", "s"}, <<>>, <<"results">>, FALSE),
   sources |-> Question({"s"}, <<>>, <<"contribution", "related">>, FALSE),
   nothing |-> Question({"q"}, <<>>, <<>>, FALSE)]

Chunk(id, doc, kind, section, model, text) ==
  [id |-> id, doc |-> doc, kind |-> kind, section |-> section, model |-> model, text |-> text]

FirstPaper ==
  <<Chunk("l1", "p1", "section_text", "limitations", "bge", <<"weak", "source">>),
    Chunk("r1", "p1", "section_text", "results", "bge", <<"score">>),
    Chunk("f1", "p1", "reference", "references", "bge", <<"source">>)>>
SecondPaper ==
  <<Chunk("m2", "p2", "section_text", "method", "old", <<"setup">>),
    Chunk("w2", "p2", "section_text", "future_work", "bge", <<"later">>)>>
ThirdPaper == <<Chunk("a3", "p3", "section_text", "other", "bge", <<"away">>)>>

Cues(s) ==
  CASE s = "weak"  -> [field |-> "limitations", entity |-> "weak"]
    [] s = "score" -> [field |-> "key_results", entity |-> "bleu"]
    [] s = "setup" -> [field |-> "methods", entity |-> "rnn"]
    [] s = "later" -> [field |-> "future_work", entity |-> "later"]
    [] OTHER       -> NoCue

Card == <<[of |-> "weak", chunk |-> "l1", grounded |-> TRUE, field |-> "limitations", entity |-> "weak"],
          [of |-> "score", chunk |-> "r1", grounded |-> TRUE, field |-> "key_results", entity |-> "bleu"],
          [of |-> "invented", chunk |-> "r1", grounded |-> FALSE, field |-> "future_work", entity |-> "x"]>>

Library(first, second) ==
  [p1 |-> [chunks |-> first, profile |-> Card],
   p2 |-> [chunks |-> second, profile |-> NoProfile],
   p3 |-> [chunks |-> ThirdPaper, profile |-> NoProfile]]

Libraries == {Library(FirstPaper, SecondPaper), Library(FirstPaper, <<>>)}

\* The second ingest of the second paper finds one chunk, of other text.
SecondIngest == [doc |-> "p2", chunks |-> <<Chunk("w2", "p2", "section_text", "limitations", "bge", <<"setup", "later">>)>>]

Home == [d \in {"p1", "p2", "p3"} |-> IF d = "p3" THEN "d" ELSE "c"]
Newest == <<"p2", "p1", "p3">>

Likely == [l1 |-> 80, r1 |-> 60, f1 |-> 70, m2 |-> 40, w2 |-> 55, a3 |-> 90]
Far    == [i \in DOMAIN Likely |-> Likely[i] \div 4]
Judged == [l1 |-> 90, r1 |-> 30, f1 |-> 10, m2 |-> 20, w2 |-> 50, a3 |-> 90]

Asked(op) ==
  [op |-> op, stream |-> FALSE, question |-> "limits", history |-> FALSE, collection |-> "c", docs |-> <<>>,
   topK |-> 4, near |-> Likely, judge |-> Judged, key |-> TRUE, relevant |-> <<>>]

SomeRequests ==
  {[Asked("ask") EXCEPT !.stream = s, !.history = h] : s \in BOOLEAN, h \in BOOLEAN}
  \cup {[Asked("ask") EXCEPT !.question = q] : q \in {"both", "sources", "nothing"}}
  \cup {[Asked("ask") EXCEPT !.near = Far], [Asked("ask") EXCEPT !.key = FALSE, !.stream = TRUE],
        [Asked("ask") EXCEPT !.docs = <<"p2">>, !.near = Far, !.stream = TRUE]}
  \cup {[Asked("evaluate") EXCEPT !.relevant = r] : r \in {<<>>, <<"r1", "w2">>}}
  \cup {[Asked("evaluate") EXCEPT !.near = Far]}
  \cup {[Asked(op) EXCEPT !.key = k] : op \in {"gaps", "literature", "compare"}, k \in BOOLEAN}
  \cup {[Asked("compare") EXCEPT !.docs = <<"p1", "p2">>], [Asked("compare") EXCEPT !.docs = <<"p1">>],
        [Asked("gaps") EXCEPT !.collection = NoCollection], [Asked("literature") EXCEPT !.collection = "d", !.question = "sources"]}
  \cup {[Asked("search") EXCEPT !.question = q] : q \in {"both", "nothing"}}
  \cup {[Asked(op) EXCEPT !.collection = NoCollection, !.docs = <<d>>] : op \in {"summarise", "review"}, d \in {"p1", "p2"}}

\* The questions searched for by each task, what routes them, and the fields
\* of the cards whose chunks are added.
SomeTasks ==
  [gaps       |-> [queries |-> <<"limits", "nothing">>, route |-> "both", fields |-> GAP_FIELDS],
   literature |-> [queries |-> <<"sources", "scores">>, route |-> "sources", fields |-> PROFILE_FIELDS],
   compare    |-> [queries |-> <<"both">>, route |-> "both", fields |-> PROFILE_FIELDS]]

Said(of, marks) == [of |-> of, marks |-> marks]
Claimed(of, numbers) == [of |-> of, numbers |-> numbers]

Answer(answer, claims) == [answer |-> answer, claims |-> claims, confidence |-> 80, conflict |-> FALSE, insufficient |-> FALSE]

SomeAnswers(n) ==
  {Answer(<<Said("score", <<n, 0>>), Said("weak", <<1, n>>)>>, <<Claimed("score", <<n, 1>>), Claimed("weak", <<1>>)>>),
   Answer(<<Said("weak", <<n + 1>>), Said("invented", <<>>)>>, <<Claimed("invented", <<1>>), Claimed("wrong", <<1, n>>)>>),
   [Answer(<<Said("wrong", <<n>>), Said("eight", <<1>>)>>, <<Claimed("wrong", <<2, n, 2>>), Claimed("eight", <<1, 2>>)>>) EXCEPT !.conflict = TRUE],
   Answer(<<Said("refusal", <<>>)>>, <<Claimed("weak", <<1>>)>>),
   Answer(<<>>, <<>>)}

Gap(of, marks, numbers, confidence) ==
  [description |-> <<Said(of, <<>>)>>, rationale |-> <<Said("weak", marks)>>, numbers |-> numbers, confidence |-> confidence]

SomeTaskDrafts(op, n) ==
  CASE op = "gaps" ->
         {[summary |-> <<Said("weak", <<1>>)>>, consensus |-> <<Said("other", <<n>>)>>,
           contradictions |-> <<[number |-> n, stance |-> <<Said("later", <<1>>)>>, doc |-> "p1"],
                                [number |-> n + 1, stance |-> <<Said("wrong", <<n>>)>>, doc |-> "p2"]>>,
           gaps |-> <<Gap("invented", <<>>, <<>>, 90), Gap("later", <<>>, <<n>>, 60), Gap("invented", <<1>>, <<>>, 90),
                      Gap("eight", <<>>, <<0>>, 70)>>, insufficient |-> FALSE],
          [summary |-> <<>>, consensus |-> <<>>, contradictions |-> <<>>, gaps |-> <<>>, insufficient |-> FALSE]}
    [] op = "literature" ->
         {[sections |-> <<[key |-> "keyFindings", content |-> <<Said("score", <<n>>), Said("other", <<1>>)>>, numbers |-> <<1, n + 1>>],
                          [key |-> "introduction", content |-> <<Said("invented", <<>>)>>, numbers |-> <<2>>],
                          [key |-> "keyFindings", content |-> <<Said("wrong", <<2, n>>)>>, numbers |-> <<>>]>>,
           insufficient |-> FALSE]}
    [] op = "compare" ->
         {[texts |-> <<<<Said("weak", <<n>>)>>, <<Said("other", <<1>>), Said("invented", <<>>)>>>>, numbers |-> <<2, 0>>, insufficient |-> FALSE]}
=============================================================================
