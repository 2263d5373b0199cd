---------------------------- MODULE MCIngestion ----------------------------
(***************************************************************************)
(* Instances of Ingestion for TLC: one paper of one body chunk and a card, *)
(* or without any text.                                                    *)
(***************************************************************************)
EXTENDS Ingestion, Sequences, TLC

CONSTANTS h1, a, card, m1, r1, r2

OnePaper    == {Paper}
OneHandler  == {h1}
TwoBodies   == {<<a>>, <<>>}
OneCard     == {card}
OneModel    == {m1}
TwoRequests == {r1, r2}
\* Requests differ only by name.
Symmetry == Permutations({r1, r2})

FewIds      == 1 .. 6
=============================================================================
