------------------------------ MODULE Chunking ------------------------------
(***************************************************************************)
(* From a parsed paper to evidence chunks (rag/chunking.py), and from the  *)
(* pages to chunks when there is too little to parse (ingest.py).          *)
(***************************************************************************)
EXTENDS Parsing

CONSTANTS
  CHUNK_MAX_CHARS, CHUNK_OVERLAP_CHARS, MIN_CHUNK_CHARS, REFERENCES_PER_CHUNK,
  HEADER_CHARS,       \* "Paper: ... Section: ..." and the blank line after it
  NotParsed           \* the parser raised: no parsed paper

\* The defaults are 2000, 300 and 120 characters, and 8 references.
ASSUME ChunkingAssumption ==
  /\ {CHUNK_MAX_CHARS, CHUNK_OVERLAP_CHARS, MIN_CHUNK_CHARS} \subseteq Nat
  /\ {REFERENCES_PER_CHUNK, HEADER_CHARS} \subseteq Nat \ {0} /\ "header" \in DOMAIN Look
  /\ MIN_CHUNK_CHARS <= CHUNK_OVERLAP_CHARS /\ CHUNK_OVERLAP_CHARS < CHUNK_MAX_CHARS

\* The trailing whole sentences of t that fit in the budget.
OverlapTail(t, budget) ==
  LET tails(ss)   == [k \in 0 .. Len(ss) |-> JoinAll(LastOf(ss, k), 1)]
      longest(ts) == ts[Max({k \in DOMAIN ts : TextLen(ts[k]) <= budget})]
  IN  longest(tails(SplitSentences(t)))

\* Sentence groups of an oversized paragraph.  A sentence longer than a chunk
\* is cut; its slices are put out before the sentences collected so far.
Slices(s) ==
  [i \in 1 .. 1 + (TextLen(s) - 1) \div CHUNK_MAX_CHARS |->
     Slice(s, (i - 1) * CHUNK_MAX_CHARS, i * CHUNK_MAX_CHARS)]
PutSlices(acc, cut, rest) ==
  IF acc.current # <<>> /\ TextLen(acc.current) + TextLen(rest) + 1 > CHUNK_MAX_CHARS
  THEN [texts |-> acc.texts \o cut \o <<acc.current>>, current |-> rest]
  ELSE [texts |-> acc.texts \o cut, current |-> Join(acc.current, 1, rest)]
PutSentence(acc, s) ==
  LET put(parts) == PutSlices(acc, SubSeq(parts, 1, Len(parts) - 1), Last(parts))
  IN  put(Slices(s))
SplitParagraph(p) ==
  LET all(acc) == IF acc.current = <<>> THEN acc.texts ELSE Append(acc.texts, acc.current)
  IN  Each(all(Folded(PutSentence, [texts |-> <<>>, current |-> <<>>], SplitSentences(p.text))),
           LAMBDA t : [text |-> t, page |-> p.page])

Units(paragraphs) ==
  FlattenSeq([i \in DOMAIN paragraphs |->
    IF TextLen(paragraphs[i].text) <= CHUNK_MAX_CHARS THEN <<paragraphs[i]>> ELSE SplitParagraph(paragraphs[i])])

\* A last piece that is too small is joined to the one before it.
JoinLastForgetsPage(pieces) ==
  LET n == Len(pieces)
  IN  IF n >= 2 /\ TextLen(pieces[n].text) < MIN_CHUNK_CHARS
      THEN Append(SubSeq(pieces, 1, n - 2), [pieces[n - 1] EXCEPT !.text = Join(@, 2, pieces[n].text)])
      ELSE pieces
JoinLast(pieces) ==
  LET n == Len(pieces)
  IN  IF n >= 2 /\ TextLen(pieces[n].text) < MIN_CHUNK_CHARS
      THEN Append(SubSeq(pieces, 1, n - 2),
                  [pieces[n - 1] EXCEPT !.text = Join(@, 2, pieces[n].text), !.last = pieces[n].last])
      ELSE pieces

\* Pieces of a section, [text, first, last] with their page span; a piece
\* opens with the overlap tail of the one before it.
Piece(acc) == [text |-> acc.text, first |-> acc.first, last |-> acc.last]
OpenPiece(acc, tail, u) ==
  [pieces |-> Append(acc.pieces, Piece(acc)), text |-> Join(tail, 2, u.text),
   first |-> IF tail = <<>> THEN u.page ELSE acc.last, last |-> u.page]
PutUnit(acc, u) ==
  IF acc.text # <<>> /\ TextLen(acc.text) + TextLen(u.text) + 2 > CHUNK_MAX_CHARS
  THEN OpenPiece(acc, OverlapTail(acc.text, CHUNK_OVERLAP_CHARS), u)
  ELSE [acc EXCEPT !.text = Join(@, 2, u.text), !.last = u.page,
                   !.first = IF acc.text = <<>> THEN u.page ELSE @]
NoPieces == [pieces |-> <<>>, text |-> <<>>, first |-> NoPage, last |-> NoPage]
PackSection(paragraphs) ==
  LET all(acc) == IF acc.text = <<>> THEN acc.pieces ELSE Append(acc.pieces, Piece(acc))
  IN  JoinLast(all(Folded(PutUnit, NoPieces, Units(paragraphs))))

\* A chunk: its text below the header, and the metadata retrieval reads.
Chunk(text, page, contentType, section, path, type) ==
  [text |-> text, page |-> page, first |-> page, last |-> page,
   contentType |-> contentType, section |-> section, path |-> path, type |-> type]

\* The row of a chunk.
WithId(id, c) ==
  [id |-> id, text |-> c.text, page |-> c.page, first |-> c.first, last |-> c.last,
   contentType |-> c.contentType, section |-> c.section, path |-> c.path, type |-> c.type]

\* Page chunks hold their header as part of the page's text.
ContentLen(c) == TextLen(c.text) + (IF c.contentType = "page_text" THEN 0 ELSE HEADER_CHARS)

ContentType(section) ==
  IF section.type \in {"abstract", "front_matter"} THEN section.type ELSE "section_text"

\* The parent is the last level 1 section that has paragraphs of its own.
SectionPath(section, parent) ==
  IF section.level = 1 \/ parent \in {"", section.heading} THEN <<section.heading>> ELSE <<parent, section.heading>>

\* The chunks of a section under the parent; small pieces of them only of the
\* abstract.
SectionChunks(s, parent) ==
  LET made(pieces) ==
        [i \in DOMAIN pieces |->
           [Chunk(pieces[i].text, pieces[i].first, ContentType(s), s.heading, SectionPath(s, parent), s.type)
              EXCEPT !.last = pieces[i].last]]
  IN  made(Select(PackSection(s.paragraphs),
                     LAMBDA p : ContentType(s) = "abstract" \/ TextLen(p.text) >= MIN_CHUNK_CHARS))

\* "Heading: text", as the next section of body text will begin.
Lead(s) ==
  [text |-> Join(<<Passage(s.heading, Look[s.heading].len, FALSE)>>, 2, SectionText(s)),
   page |-> IF PageStart(s) = NoPage THEN 1 ELSE PageStart(s)]

\* A section too short for a chunk is carried into the next section of body text.
PutBodyCarryKept(acc, s, parent) ==
  IF TextLen(SectionText(s)) < MIN_CHUNK_CHARS
  THEN [acc EXCEPT !.parent = parent, !.carry = <<Lead(s)>>]
  ELSE [acc EXCEPT !.parent = parent, !.chunks = @ \o SectionChunks(s, parent)]
PutBody(acc, s, parent) ==
  IF TextLen(SectionText(s)) < MIN_CHUNK_CHARS
  THEN [acc EXCEPT !.parent = parent, !.carry = <<Lead(s)>>]
  ELSE [parent |-> parent, carry |-> <<>>, chunks |-> acc.chunks \o SectionChunks(s, parent)]

\* The last one is appended to the last chunk of body text, if there is one.
AttachCarryNever(acc) == acc.chunks
AttachCarry(acc) ==
  LET body == SelectLastInSeq(acc.chunks, LAMBDA c : c.contentType = "section_text")
  IN  IF acc.carry = <<>> \/ body = 0 THEN acc.chunks
      ELSE [acc.chunks EXCEPT ![body].text = Join(@, 2, acc.carry[1].text)]

PutSection(acc, s) ==
  LET parent == IF s.level = 1 THEN s.heading ELSE acc.parent
  IN  IF ContentType(s) = "section_text"
      THEN PutBody(acc, [s EXCEPT !.paragraphs = acc.carry \o @], parent)
      ELSE [acc EXCEPT !.parent = parent, !.chunks = @ \o SectionChunks(s, parent)]
BodyChunks(sections) ==
  AttachCarry(Folded(PutSection, [chunks |-> <<>>, parent |-> "", carry |-> <<>>], sections))

TableChunks(tables) ==
  [i \in DOMAIN tables |->
     Chunk(Join(tables[i].caption, 1, <<Passage(tables[i].of, tables[i].len, TRUE)>>),
           tables[i].page, "table", tables[i].section, <<tables[i].section>>, "results")]

\* The caption of a table that has a chunk gets none of its own.
CaptionChunks(captions, tables) ==
  LET own == Select(captions, LAMBDA c : ~(c.kind = "table" /\ \E t \in ToSet(tables) : t.caption = c.text))
  IN  [i \in DOMAIN own |->
         Chunk(own[i].text, own[i].page, IF own[i].kind = "figure" THEN "figure" ELSE "table_caption", "", <<"Figure">>, "results")]

ReferenceChunks(references) ==
  LET groups == (Len(references) + REFERENCES_PER_CHUNK - 1) \div REFERENCES_PER_CHUNK
      group(i) == SubSeq(references, (i - 1) * REFERENCES_PER_CHUNK + 1, Min({i * REFERENCES_PER_CHUNK, Len(references)}))
  IN  [i \in 1 .. groups |-> Chunk(JoinAll(group(i), 1), NoPage, "reference", "", <<"References">>, "references")]

BuildChunks(parsed) ==
  BodyChunks(parsed.sections) \o TableChunks(parsed.tables)
    \o CaptionChunks(parsed.captions, parsed.tables) \o ReferenceChunks(parsed.references)

-----------------------------------------------------------------------------
(* The page fallback of ingest.py *)

\* The last characters of t.  (The code goes on to the next blank of them,
\* which loses less than a word.)
TailOverlap(t) == Slice(t, TextLen(t) - CHUNK_OVERLAP_CHARS, TextLen(t))

\* split_text: paragraphs that fit are pieces, the others fall into sentences,
\* and a sentence longer than a chunk is kept whole.
Keep(texts, t) == IF TextLen(t) >= MIN_CHUNK_CHARS THEN Append(texts, t) ELSE texts
PutPiece(acc, t) ==
  IF acc.current = <<>> \/ TextLen(acc.current) + TextLen(t) + 2 <= CHUNK_MAX_CHARS
  THEN [acc EXCEPT !.current = Join(@, 2, t)]
  ELSE [texts |-> Keep(acc.texts, acc.current), current |-> Join(TailOverlap(acc.current), 2, t)]
SplitText(paragraphs) ==
  LET pieces == FlattenSeq([i \in DOMAIN paragraphs |->
                  IF TextLen(paragraphs[i]) <= CHUNK_MAX_CHARS THEN <<paragraphs[i]>> ELSE SplitSentences(paragraphs[i])])
      all(acc)     == Keep(acc.texts, acc.current)
      split(whole) == IF TextLen(whole) <= CHUNK_MAX_CHARS THEN Keep(<<>>, whole)
                      ELSE all(Folded(PutPiece, [texts |-> <<>>, current |-> <<>>], pieces))
  IN  split(JoinAll(paragraphs, 2))

PageText(paper, page) ==
  LET lines == Select(paper.lines, LAMBDA l : l.page = page)
  IN  JoinAll([i \in DOMAIN lines |-> <<Passage(lines[i].of, Look[lines[i].of].len, Look[lines[i].of].stop)>>], 1)

\* The heading a page's chunks name: the first line like one, of this page or
\* of the last page that has any.
PageSection(paper, page) ==
  LET like(l) == /\ l.page <= page /\ Look[l.of].fits /\ ~Look[l.of].ends
                 /\ Look[l.of].number > 0 \/ Look[l.of].upper \/ Look[l.of].titled
      last == SelectLastInSeq(paper.lines, like)
      i    == SelectInSeq(paper.lines, LAMBDA l : like(l) /\ l.page = paper.lines[last].page)
  IN  IF last = 0 THEN "" ELSE paper.lines[i].of

\* Page by page: its text, its tables, and a note of its figures.
LegacyPageChunks(paper, failed) ==
  LET header == <<[Passage("header", HEADER_CHARS, FALSE) EXCEPT !.gap = 2]>>
      made(texts, page, section, type) ==
        [i \in DOMAIN texts |-> Chunk(texts[i], page, type, section, <<section>>, "other")]
      texts(text) == IF TextLen(text) < MIN_CHUNK_CHARS THEN <<>> ELSE SplitText(<<header, text>>)
      tables(page) ==
        LET found == Select(paper.tables, LAMBDA t : t.page = page /\ page \notin failed /\ t.len >= MIN_CHUNK_CHARS)
        IN  [i \in DOMAIN found |-> <<Passage(found[i].of, found[i].len, TRUE)>>]
      figures(page) ==
        LET captions == Select(paper.lines, LAMBDA l : l.page = page /\ Look[l.of].caption = "figure")
        IN  IF page \notin paper.images THEN <<>>
            ELSE IF captions = <<>> THEN <<header>>
            ELSE [i \in DOMAIN captions |-> <<Passage(captions[i].of, Look[captions[i].of].len, TRUE)>>]
      chunks(page) ==
        LET section == PageSection(paper, page)
        IN  made(texts(PageText(paper, page)), page, section, "page_text")
              \o made(tables(page), page, section, "table") \o made(figures(page), page, section, "figure")
  IN  FlattenSeq([page \in 1 .. paper.pages |-> chunks(page)])

\* With fewer than two body chunks the pages are used.
UsesPages(built) ==
  Len(Select(built, LAMBDA c : c.contentType \notin {"reference", "front_matter"})) < 2

\* What ingest_document keeps of the chunks built from the parsed paper: all of
\* them, or the references, after the chunks of the pages.
DocumentChunks(paper, built, failed) ==
  IF UsesPages(built)
  THEN LegacyPageChunks(paper, failed) \o Select(built, LAMBDA c : c.contentType = "reference")
  ELSE built
=============================================================================
