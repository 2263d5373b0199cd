------------------------------ MODULE Citations ------------------------------
(***************************************************************************)
(* How citations keep their numbers on the way from the model's draft to   *)
(* the stored answer.  It happens twice, and each time the same way: what  *)
(* is cited is listed in the order in which it is first seen, what cannot  *)
(* be resolved is dropped, and each marker gets the position of what it    *)
(* cites.                                                                  *)
(*   - The AI service (build_structured_answer) lists the evidence numbers *)
(*     of the draft, those in its text before those of its claims.         *)
(*   - The backend (alignAiCitations, remapMarkers) lists the chunks of    *)
(*     the citations it was sent.                                          *)
(*                                                                         *)
(* Of a text only what has a number in brackets is kept, in its order: the *)
(* references to evidence the model was asked to write ([Evidence 3]), and *)
(* what else it wrote that a client reads as markers, be it copied from a  *)
(* paper's bibliography: [3], which looks like a marker already made, and  *)
(* groups like [3, 7].                                                     *)
(***************************************************************************)
EXTENDS Lists

\* The members of s that resolve.
Seen(s, ok) == {x \in ToSet(s) : x \in ok}

\* Where x is first seen in s.
First(s, x) == CHOOSE i \in DOMAIN s : s[i] = x /\ \A j \in DOMAIN s : s[j] = x => i <= j

\* The number x gets: how many are seen no later than x.
Position(s, ok, x) == Cardinality({y \in Seen(s, ok) : First(s, y) <= First(s, x)})

\* The list.
Listing(s, ok) ==
  [p \in 1 .. Cardinality(Seen(s, ok)) |-> CHOOSE x \in Seen(s, ok) : Position(s, ok, x) = p]

\* s without what is not in ok.
Places(s, ok) == {i \in DOMAIN s : s[i] \in ok}
Among(s, ok)  == Kept(s, Places(s, ok))

-----------------------------------------------------------------------------
(* The AI service: pack is the evidence shown to the model, each chunk once,*)
(* draft its text, claimed the evidence numbers of its claims.              *)

Forms     == {"evidence", "plain", "group"}
Bracketed == [form : Forms, n : Nat]   \* a group is a token for each number

Numbers(pack) == DOMAIN pack     \* EvidencePack.block resolves these

\* numbers_in: of [Evidence N] alone.
Referred(draft) == Each(Select(draft, LAMBDA t : t.form = "evidence"), LAMBDA t : t.n)

DraftOrder(pack, marks, claimed) == Listing(marks \o claimed, Numbers(pack))

DraftCitations(pack, marks, claimed) ==
  LET order == DraftOrder(pack, marks, claimed)
  IN [p \in DOMAIN order |-> pack[order[p]]]

\* renumber_markers: references to nothing disappear, others become [n]; what
\* was in brackets before stays.
Resolves(pack, t) == t.form = "evidence" => t.n \in Numbers(pack)
DraftText(pack, draft, claimed) ==
  LET kept == Among(draft, {t \in ToSet(draft) : Resolves(pack, t)})
  IN [i \in DOMAIN kept |->
       IF kept[i].form = "evidence"
       THEN [form |-> "plain", n |-> Position(Referred(draft) \o claimed, Numbers(pack), kept[i].n)]
       ELSE kept[i]]

(* The backend: raw is the list of cited chunks, present the chunks that    *)
(* are still there and in the scope of the question.                        *)

AlignedCitations(raw, present) == Listing(raw, present)

Mapped(raw, present) == {n \in DOMAIN raw : raw[n] \in present}

Mapping(raw, present, n) == Position(raw, present, raw[n])

\* remapMarkers sees every [n], whoever wrote it, and no group.
Survives(raw, present, t) == t.form = "plain" => t.n \in Mapped(raw, present)

\* Mutant: the old numbers stay.
AlignedTextUnmapped(raw, present, text) ==
  Among(text, {t \in ToSet(text) : Survives(raw, present, t)})

AlignedText(raw, present, text) ==
  LET kept == Among(text, {t \in ToSet(text) : Survives(raw, present, t)})
  IN [i \in DOMAIN kept |->
       IF kept[i].form = "plain" THEN [kept[i] EXCEPT !.n = Mapping(raw, present, @)] ELSE kept[i]]

\* Of the draft, what gets through both: references to chunks that are still
\* there, what the backend takes for a marker of its own, and groups.
Through(pack, raw, present, draft) ==
  Among(draft, {t \in ToSet(draft) :
    /\ t.form = "evidence" => t.n \in Numbers(pack) /\ pack[t.n] \in present
    /\ Survives(raw, present, t)})
=============================================================================
