----------------------------- MODULE PaperText -----------------------------
(***************************************************************************)
(* Texts taken from a paper.  A text is a sequence of passages; a passage  *)
(* is a run of characters of one printed line:                             *)
(*    of    the line it is from,                                           *)
(*    from  the character of the line it begins at,                        *)
(*    len   its length,                                                    *)
(*    gap   the white space before it inside its text (1 blank, 2 for a    *)
(*          blank line),                                                   *)
(*    stop  whether it ends a sentence.                                    *)
(* Texts have the length their strings have, and are cut where the code    *)
(* cuts them; the words inside a passage are left out.                     *)
(***************************************************************************)
EXTENDS Lists

Passage(line, length, ends) == [of |-> line, from |-> 0, len |-> length, gap |-> 1, stop |-> ends]

TextLen(t) ==
  LET upto[i \in 0 .. Len(t)] ==
        IF i = 0 THEN 0 ELSE upto[i - 1] + t[i].len + (IF i = 1 THEN 0 ELSE t[i].gap)
  IN  upto[Len(t)]

\* f"{a}{blanks}{b}" for a non-empty b; an empty a leaves no blanks.
Join(a, blanks, b) == IF a = <<>> THEN b ELSE a \o [b EXCEPT ![1].gap = blanks]
JoinAll(texts, blanks) == Folded(LAMBDA t, u : Join(t, blanks, u), <<>>, texts)

Lines(t) == {t[i].of : i \in DOMAIN t}

\* _SENTENCE_SPLIT: a sentence goes on until a passage that ends one.
PutPassage(ss, p) ==
  IF ss = <<>> \/ Last(Last(ss)).stop THEN Append(ss, <<p>>)
  ELSE [ss EXCEPT ![Len(ss)] = Append(@, p)]
SplitSentences(t) == Folded(PutPassage, <<>>, t)

\* text[first:last], blanks at a cut left out.
Cut(p, first, last) ==
  [p EXCEPT !.from = @ + first, !.len = last - first, !.stop = @ /\ last = p.len]
Slice(t, first, last) ==
  LET part(i, start) == Cut(t[i], Max({first - start, 0}), Min({last - start, t[i].len}))
      parts == [i \in DOMAIN t |-> part(i, TextLen(SubSeq(t, 1, i)) - t[i].len)]
  IN  Select(parts, LAMBDA p : p.len > 0)

LastOf(s, n) == SubSeq(s, Len(s) - n + 1, Len(s))
=============================================================================
