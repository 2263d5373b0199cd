-------------------------- MODULE MCPaperPipeline --------------------------
(***************************************************************************)
(* Papers for PaperPipeline, laid out from a few kinds of lines.  Lengths  *)
(* are scaled: a chunk holds 12 characters, overlaps by 5 and has 4 at     *)
(* least; a line of text has 2, 4 or 5.                                    *)
(***************************************************************************)
EXTENDS PaperPipeline

\* A line of text in the body font, and what other lines have that differs.
Plain ==
  [len |-> 4, stop |-> TRUE, size |-> 100, bold |-> FALSE, key |-> "", pageNumber |-> FALSE,
   caption |-> "", symbol |-> FALSE, known |-> FALSE, upper |-> FALSE, titled |-> FALSE, ends |-> TRUE,
   letters |-> TRUE, capital |-> TRUE, fits |-> TRUE, few |-> FALSE, number |-> 0, bareEnds |-> TRUE,
   bareFits |-> TRUE, hits |-> {}, inline |-> 0, mark |-> "", cues |-> {}]

Titled(size, number, hits) ==
  [Plain EXCEPT !.len = 3, !.stop = FALSE, !.size = size, !.bold = TRUE, !.ends = FALSE, !.few = TRUE,
                !.titled = TRUE, !.number = number, !.bareEnds = FALSE, !.hits = hits, !.known = number = 0 /\ hits # {}]
Text(length)  == [Plain EXCEPT !.len = length]
Ref(mark)     == [Plain EXCEPT !.len = 5, !.mark = mark, !.number = IF mark = "n." THEN 1 ELSE 0]

Wordings ==
  [title    |-> [Titled(180, 0, {}) EXCEPT !.len = 6],
   byline   |-> [Text(2) EXCEPT !.stop = FALSE, !.symbol = TRUE],
   running  |-> [Text(3) EXCEPT !.key = "running"],
   folio    |-> [Text(1) EXCEPT !.key = "#", !.pageNumber = TRUE, !.letters = FALSE],
   absHead  |-> Titled(120, 0, {"abstract"}),
   absLine  |-> [Text(5) EXCEPT !.cues = {"contributions"}],
   absIn    |-> [Text(9) EXCEPT !.inline = 5, !.cues = {"contributions"}],
   absLong  |-> Text(11),
   intro    |-> Titled(120, 1, {"introduction"}),
   method   |-> Titled(120, 1, {"method"}),
   methodA  |-> Titled(100, 2, {"method"}),
   task     |-> Titled(110, 0, {}),
   results  |-> Titled(120, 1, {"results", "discussion"}),
   limits   |-> Titled(120, 0, {"limitations"}),
   thanks   |-> Titled(120, 0, {"acknowledgements"}),
   bib      |-> Titled(120, 0, {"references"}),
   a        |-> Text(4),
   b        |-> [Text(5) EXCEPT !.stop = FALSE],
   c        |-> Text(5),
   d        |-> Text(2),
   e        |-> [Text(5) EXCEPT !.cues = {"limitations", "methods"}],
   f        |-> Text(5),
   g        |-> Text(4),
   h        |-> Text(2),
   k        |-> Text(2),
   m        |-> Text(5),
   wide     |-> Text(11),
   vast     |-> [Text(27) EXCEPT !.fits = FALSE],
   fig      |-> [Text(6) EXCEPT !.caption = "figure"],
   tab      |-> [Text(6) EXCEPT !.caption = "table"],
   r1 |-> Ref("[n]"), r2 |-> Ref("[n]"), r3 |-> Ref("[n]"),
   n1 |-> Ref("n."), n2 |-> Ref("n."), n3 |-> Ref("n."), p1 |-> Ref("")]

\* The headings the parser makes itself.
Synthetic == [l \in {"Front matter", "Abstract", "Introduction", "header", "t"} |-> Text(3)]
AllLooks  == Wordings @@ Synthetic

\* A paper from its items: a line, or a break of the page or the block.
Lay(items, tables, images, meta) ==
  LET Put(acc, item) ==
        IF item = "page" THEN [acc EXCEPT !.page = @ + 1, !.block = @ + 1]
        ELSE IF item = "block" THEN [acc EXCEPT !.block = @ + 1]
        ELSE [acc EXCEPT !.lines = Append(@, [of |-> item, page |-> acc.page, block |-> acc.block,
                                              margin |-> item \in {"running", "folio"},
                                              upper |-> acc.page = 1 /\ Len(acc.lines) < 4])]
      laid == FoldLeft(Put, [lines |-> <<>>, page |-> 1, block |-> 1], items)
  IN  [lines |-> laid.lines, pages |-> laid.page, tables |-> tables, images |-> images, meta |-> meta]

NoMeta   == [lines |-> {}, len |-> 0, file |-> FALSE]
FileMeta == [lines |-> {"d"}, len |-> 9, file |-> TRUE]
OwnMeta  == [lines |-> {"title"}, len |-> 9, file |-> FALSE]
ATable   == <<[of |-> "t", len |-> 7, page |-> 1]>>

ShortAbstracts == {<<"title", "byline", "block", "absIn", "block">>, <<"absHead", "absLine", "block">>}
LongAbstracts  == {<<>>, <<"title", "byline", "block", "absLong", "block">>}
LastPoints  == <<"block", "limits", "k">>
Bracketed   == <<"block", "thanks", "k", "bib", "r1", "r2", "block", "r3">>
Vancouver   == <<"block", "bib", "n1", "n2", "block", "n3", "p1">>
Subsections == <<"intro", "a", "c", "page", "method", "methodA", "e", "block", "f">>
ShortFirst  == <<"intro", "d", "block", "results", "a", "b", "c", "page", "e", "block", "g", "block", "h">>
LongLine    == <<"intro", "vast", "block", "a", "b", "page", "c", "f", "e", "g">>
LastLine    == <<"intro", "d", "block", "results", "wide", "page", "h", "method", "m">>
Untyped     == <<"method", "b", "vast", "page", "f", "block", "tab", "block", "task", "a", "e">>
NoHeadings  == <<"a", "b", "block", "c", "page", "vast", "e">>

Opened(openings, rests) ==
  {Lay(opening \o rest, IF opening = <<>> THEN <<>> ELSE ATable, {}, NoMeta) : opening \in openings, rest \in rests}
Combined ==
  Opened(ShortAbstracts, {Subsections \o LastPoints, ShortFirst, LongLine \o LastPoints, LastLine, Untyped \o Vancouver})
    \cup
  Opened(LongAbstracts, {Subsections \o Bracketed, ShortFirst \o Vancouver, LongLine, Untyped, NoHeadings, <<"d">>})
\* Running heads and page numbers, figures, a title from the file, no text.
Special ==
  {Lay(<<"running", "title", "byline", "intro", "a", "c", "page", "running", "e", "fig", "folio", "page",
         "running", "results", "f", "g", "folio">>, ATable, {2}, FileMeta),
   Lay(<<"a", "c", "fig", "page", "running", "d">>, <<>>, {1, 2}, OwnMeta),
   Lay(<<"absHead", "absLine", "block", "fig", "block", "limits", "k">>, <<>>, {}, OwnMeta),
   Lay(<<"intro", "a", "c", "page", "bib", "p1", "block", "n1">>, ATable, {}, NoMeta),
   Lay(<<>>, <<>>, {}, NoMeta)}
SomePapers == Combined \cup Special

QuotedLines == {"e"}
=============================================================================
