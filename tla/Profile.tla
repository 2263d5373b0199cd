------------------------------ MODULE Profile ------------------------------
(***************************************************************************)
(* The research card of a paper (rag/paper_profile.py): which chunks the   *)
(* model reads, how its points are tied to chunks, the extractive card     *)
(* that stands in for the model's, and the chunk the card is kept in.      *)
(*                                                                         *)
(* A point is [field, says, quote, chunk, grounded]: says and quote name   *)
(* the line the words are from, NoLine for words of no line of the paper;  *)
(* a chunk contains a text when it holds the line.                         *)
(***************************************************************************)
EXTENDS Chunking

CONSTANTS
  PROFILE_CONTEXT_CHARS,  \* what the prompt of a card may hold
  POINT_MIN, POINT_MAX,   \* length of a sentence the extractive card takes
  NoLine, NoChunk

Fields == <<"contributions", "methods", "datasets", "metrics", "key_results",
            "baselines", "limitations", "assumptions", "future_work">>

SectionBudget ==
  <<<<"abstract", 2>>, <<"introduction", 3>>, <<"method", 4>>, <<"experiments", 3>>, <<"results", 4>>,
    <<"limitations", 3>>, <<"discussion", 2>>, <<"conclusion", 2>>, <<"future_work", 2>>,
    <<"related_work", 1>>, <<"background", 1>>>>

FieldSections ==
  [contributions |-> {"abstract", "introduction", "conclusion"},
   methods       |-> {"method", "abstract", "experiments"},
   datasets      |-> {"experiments", "method", "results", "abstract"},
   metrics       |-> {"experiments", "results"},
   key_results   |-> {"results", "abstract", "conclusion", "discussion"},
   baselines     |-> {"experiments", "results"},
   limitations   |-> {"limitations", "discussion", "conclusion", "future_work"},
   assumptions   |-> {"method", "background", "limitations"},
   future_work   |-> {"future_work", "conclusion", "discussion", "limitations"}]

HomeSection ==
  [f \in ToSet(Fields) |->
     CASE f = "limitations" -> "limitations" [] f = "future_work" -> "future_work"
       [] f = "methods" -> "method"          [] f = "key_results" -> "results" [] OTHER -> ""]

EvidenceType(c) == IF c.contentType = "table" THEN "results" ELSE c.type

\* Positions of the chunks a list takes within the budget, skipping or, once
\* one does not fit, stopping.
TakeChunk(chunks, stopAtFirst, acc, i) ==
  LET used == Total([k \in DOMAIN acc.taken |-> ContentLen(chunks[acc.taken[k]])])
  IN  IF acc.full \/ i \in ToSet(acc.taken) THEN acc
      ELSE IF used + ContentLen(chunks[i]) > PROFILE_CONTEXT_CHARS
      THEN [acc EXCEPT !.full = stopAtFirst]
      ELSE [acc EXCEPT !.taken = Append(@, i)]
WithinBudget(chunks, wanted, taken, stopAtFirst) ==
  Folded(LAMBDA acc, i : TakeChunk(chunks, stopAtFirst, acc, i), [taken |-> taken, full |-> FALSE], wanted).taken

\* select_profile_evidence: some of each section type in order of priority;
\* of an unstructured paper the chunks from the first on.
SelectProfileEvidence(chunks) ==
  LET all      == [i \in DOMAIN chunks |-> i]
      ofType(t) == Select(all, LAMBDA i : /\ EvidenceType(chunks[i]) = t
                                          /\ chunks[i].contentType \notin {"reference", "paper_profile", "front_matter"})
      wanted   == FlattenSeq([k \in DOMAIN SectionBudget |-> Top(ofType(SectionBudget[k][1]), SectionBudget[k][2])])
      picked   == WithinBudget(chunks, wanted, <<>>, FALSE)
      readable == Select(all, LAMBDA i : chunks[i].contentType # "reference")
      chosen   == IF Len(picked) >= 4 THEN picked ELSE WithinBudget(chunks, readable, picked, TRUE)
  IN  Kept(chunks, ToSet(chosen))

\* _ground: a point belongs to the evidence block it names and is grounded when
\* that block contains its quote, or else its text.
GroundAnywhere(point, pack) ==
  [field |-> point.field, says |-> point.says, quote |-> point.quote,
   chunk |-> IF point.number \in DOMAIN pack THEN pack[point.number].id ELSE NoChunk,
   grounded |-> \E block \in ToSet(pack) : (IF point.quote # NoLine THEN point.quote ELSE point.says) \in Lines(block.text)]
Ground(point, pack) ==
  LET block       == pack[point.number]
      holds(line) == line \in Lines(block.text)
      tied(quote, chunk, grounded) ==
        [field |-> point.field, says |-> point.says, quote |-> quote, chunk |-> chunk, grounded |-> grounded]
  IN  IF point.number \notin DOMAIN pack THEN tied(point.quote, NoChunk, FALSE)
      ELSE IF point.quote # NoLine /\ ~holds(point.quote) /\ holds(point.says)
      THEN tied(NoLine, block.id, TRUE)
      ELSE tied(point.quote, block.id, holds(IF point.quote # NoLine THEN point.quote ELSE point.says))

GroundAll(points, pack) == [i \in DOMAIN points |-> Ground(points[i], pack)]

\* The cue sentences of a chunk for a field: three in the field's own section,
\* else one.
CueLines(chunk, field) ==
  LET cue(s) == TextLen(s) \in POINT_MIN .. POINT_MAX /\ \E l \in Lines(s) : field \in Look[l].cues
  IN  Top(Select(SplitSentences(chunk.text), cue), IF chunk.type = HomeSection[field] THEN 3 ELSE 1)

\* The extractive card; a field is full with the chunk that brings it to four.
PutCues(items, c, f) ==
  LET readable == /\ c.contentType \notin {"reference", "paper_profile", "front_matter"}
                  /\ c.type \in FieldSections[f] \/ c.contentType = "table"
      point(s) == [field |-> f, says |-> s[1].of, quote |-> s[1].of, chunk |-> c.id, grounded |-> TRUE]
  IN  IF Len(items) >= 4 \/ ~readable THEN items ELSE items \o Each(CueLines(c, f), point)
ExtractiveProfile(chunks) ==
  FlattenSeq([k \in DOMAIN Fields |-> Folded(LAMBDA items, c : PutCues(items, c, Fields[k]), <<>>, chunks)])

\* profile_chunk: no card without a line to put in it.
Card(id, profile, problem) ==
  IF profile = <<>> /\ problem = <<>> THEN <<>>
  ELSE <<WithId(id, Chunk([i \in DOMAIN profile |-> Passage(profile[i].says, 1, TRUE)],
                          NoPage, "paper_profile", "Paper profile", <<"Paper profile">>, "profile"))>>
=============================================================================
