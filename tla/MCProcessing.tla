---------------------------- MODULE MCProcessing ----------------------------
(***************************************************************************)
(* Instances of Processing for TLC.                                        *)
(***************************************************************************)
EXTENDS Processing, TLC

CONSTANTS d1, d2, h1, h2

\* Papers differ only by name, and so do request handlers.
Symmetry == Permutations({d1, d2}) \cup Permutations({h1, h2})

OneDoc      == {d1}
TwoDocs     == {d1, d2}
OneHandler  == {h1}
TwoHandlers == {h1, h2}
=============================================================================
