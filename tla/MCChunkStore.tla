---------------------------- MODULE MCChunkStore ----------------------------
(***************************************************************************)
(* Instances of ChunkStore for TLC.  Two versions of the parser disagree on *)
(* the first text, in one of them a text occurs twice, and a third finds no *)
(* text at all.                                                            *)
(***************************************************************************)
EXTENDS ChunkStore, TLC

CONSTANTS a, b, card, m1, m2, r1, r2

Parsers     == {<<a, a>>, <<b, a>>, <<>>}
OneCard     == {card}
TwoModels   == {m1, m2}
TwoRequests == {r1, r2}
\* Requests differ only by name, and so do models.
Symmetry == Permutations({r1, r2}) \cup Permutations({m1, m2})

FewIds      == 1 .. 9
=============================================================================
