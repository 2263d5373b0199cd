------------------------------ MODULE Parsing ------------------------------
(***************************************************************************)
(* The layout parser of the AI service (rag/pdf_parser.py) as functions:   *)
(* which lines are running headers, which are headings and of what type,   *)
(* how lines become paragraphs, sections, references, captions and tables. *)
(* The loop over the lines is the state machine of PaperPipeline.          *)
(*                                                                         *)
(* A paper is a sequence of lines as PyMuPDF gives them.  What a line      *)
(* reads like is in Look, by the line's name: the outcome of each regular *)
(* expression and of each measure the parser takes of it.                  *)
(***************************************************************************)
EXTENDS PaperText

CONSTANTS
  Look,              \* what each line reads like (WordingFields)
  TITLE_MIN, TITLE_MAX,  \* characters of a title taken from the page
  INLINE_MIN,         \* "Abstract - ..." with more text than this opens the abstract
  ABSTRACT_MIN,       \* a front matter paragraph this long is taken for the abstract
  MIN_REFERENCE_CHARS, MIN_CAPTION_CHARS, MIN_TABLE_CHARS

WordingFields ==
  {"len", "stop",     \* characters; ends a sentence
   "size", "bold",    \* font size in tenths of a point
   "key",             \* _margin_key: the text with its digits masked
   "pageNumber", "caption", "symbol", "known", "upper", "titled", "ends", "letters", "capital",
   "fits", "few",     \* 2 to 100 characters and 12 words at most; 8 words at most
   "number",          \* depth of its heading number, 0 without one
   "bareEnds", "bareFits", \* the heading without its number ends in "."; has 80 characters at most
   "hits",            \* the section types whose pattern occurs in it
   "inline",          \* characters after "Abstract -", 0 when it does not begin so
   "mark",            \* how it begins as a reference: "[n]", "n." or ""
   "cues"}            \* the profile fields it has a cue of

\* The headings the parser makes itself have a look too.
ASSUME LookAssumption ==
  /\ {"Front matter", "Abstract", "Introduction"} \subseteq DOMAIN Look
  /\ \A l \in DOMAIN Look :
       /\ DOMAIN Look[l] = WordingFields
       /\ Look[l].len \in Nat \ {0} /\ Look[l].inline \in 0 .. Look[l].len
       /\ Look[l].size \in Nat /\ Look[l].number \in 0 .. 4
       /\ Look[l].stop \in BOOLEAN /\ Look[l].caption \in {"", "figure", "table"}

ASSUME ParsingAssumption ==
  {TITLE_MIN, TITLE_MAX, INLINE_MIN, ABSTRACT_MIN, MIN_REFERENCE_CHARS, MIN_CAPTION_CHARS, MIN_TABLE_CHARS} \subseteq Nat

\* Sections: [heading, type, level, paragraphs]; paragraphs: [text, page].
Section(heading, type, level, paragraphs) ==
  [heading |-> heading, type |-> type, level |-> level, paragraphs |-> paragraphs]

SectionText(s)  == JoinAll([i \in DOMAIN s.paragraphs |-> s.paragraphs[i].text], 2)
NoPage          == 0
PageStart(s)    == IF s.paragraphs = <<>> THEN NoPage ELSE s.paragraphs[1].page

SectionPatterns ==
  <<"abstract", "references", "acknowledgements", "back_matter", "appendix", "limitations",
    "future_work", "conclusion", "related_work", "introduction", "background", "discussion",
    "results", "experiments", "method">>

SectionTypes == ToSet(SectionPatterns) \cup {"front_matter", "other"}

\* The first pattern that matches wins.
ClassifySection(heading) ==
  LET i == SelectInSeq(SectionPatterns, LAMBDA t : t \in Look[heading].hits)
  IN  IF i = 0 THEN "other" ELSE SectionPatterns[i]

HeadingLevel(heading) == IF Look[heading].number = 0 THEN 1 ELSE Look[heading].number

\* Counter.most_common(1): the size of most characters, the first met of equals.
BodyFontSize(lines) ==
  LET size(i)   == Look[lines[i].of].size
      weight(z) == Total([i \in DOMAIN lines |-> IF size(i) = z THEN Look[lines[i].of].len ELSE 0])
      heaviest(i) == \A k \in DOMAIN lines : weight(size(k)) <= weight(size(i))
  IN  IF lines = <<>> THEN 100 ELSE size(CHOOSE i \in DOMAIN lines : heaviest(i) /\ \A k \in 1 .. i - 1 : ~heaviest(k))

\* Lines that repeat in a page margin, and page numbers there, go.
RemoveRunningHeaders(lines, pages) ==
  LET key(l)      == Look[l.of].key
      count(k)    == Cardinality({i \in DOMAIN lines : lines[i].margin /\ key(lines[i]) = k})
      repeated(k) == pages >= 3 /\ count(k) >= Max({3, (pages * 4) \div 10})
  IN  Select(lines, LAMBDA l : ~(l.margin /\ (Look[l.of].pageNumber \/ repeated(key(l)))))

IsHeading(name, body) ==
  LET p        == Look[name]
      larger   == p.size >= body + 10
      numbered == p.number > 0 /\ p.capital
  IN  /\ p.fits /\ p.caption = "" /\ ~p.symbol
      /\ IF p.known THEN p.bold \/ p.size > body + 4 \/ p.upper \/ p.number > 0
         ELSE /\ p.letters /\ (p.ends => p.number > 0)
              /\ IF numbered /\ (p.bold \/ larger \/ p.few) THEN ~p.bareEnds /\ p.bareFits
                 ELSE \/ larger /\ (p.bold \/ p.capital)
                      \/ p.bold /\ p.capital /\ p.few /\ p.size >= body - 2

\* A heading of no type of its own continues the last typed section.
InheritType(sections) ==
  LET typed == {i \in DOMAIN sections : sections[i].type \notin {"front_matter", "other"}}
      last  == sections[Max(typed)].type
  IN  CASE typed = {} -> "front_matter"
        [] typed # {} /\ last = "abstract" -> "introduction"
        [] typed # {} /\ last \in {"acknowledgements", "back_matter"} -> "other"
        [] OTHER -> last

\* The title is the set of the lines it is made of: the largest ones of the
\* upper half of page 1, unless the PDF's own title is usable.
DetectTitle(lines, meta) ==
  LET first   == Select(lines, LAMBDA l : l.page = 1 /\ l.upper)
      biggest == Max({Look[l.of].size : l \in ToSet(first)})
      large(i) == Look[first[i].of].size >= biggest - 3 /\ Look[first[i].of].len > 3
      run     == {i \in DOMAIN first : large(i) /\ \A a, b \in 1 .. i : (a < b /\ large(a)) => large(b)}
      largest == SubSeq(first, Min(run), Max(run))
      text    == JoinAll([i \in DOMAIN largest |-> <<Passage(largest[i].of, Look[largest[i].of].len, FALSE)>>], 1)
  IN  IF /\ run # {}
         /\ TextLen(text) \in TITLE_MIN .. TITLE_MAX
         /\ ~(Len(text) = 1 /\ Look[text[1].of].pageNumber)
         /\ meta.len < 8 \/ meta.file
      THEN Lines(text) ELSE meta.lines

\* Consecutive lines of one PyMuPDF block form a paragraph.
PutLine(ps, l) ==
  IF ps # <<>> /\ Last(ps).block = l.block
  THEN [ps EXCEPT ![Len(ps)].text = Join(@, 1, <<l.passage>>)]
  ELSE Append(ps, [text |-> <<l.passage>>, page |-> l.page, block |-> l.block])
GroupParagraphs(pending) ==
  LET ps == Folded(PutLine, <<>>, pending)
  IN  [i \in DOMAIN ps |-> [text |-> ps[i].text, page |-> ps[i].page]]

\* The text cut before every passage that begins with the mark.
PutEntry(es, p, mark) ==
  IF es = <<>> \/ (p.from = 0 /\ Look[p.of].mark = mark) THEN Append(es, <<p>>)
  ELSE [es EXCEPT ![Len(es)] = Append(@, p)]
CutBefore(t, mark) == Folded(LAMBDA es, p : PutEntry(es, p, mark), <<>>, t)

\* "[n]" entries, else "n." entries, else one entry per paragraph.
SplitReferences(section) ==
  LET text      == JoinAll([i \in DOMAIN section.paragraphs |-> section.paragraphs[i].text], 1)
      bracketed == CutBefore(text, "[n]")
      numbered  == CutBefore(text, "n.")
      opening   == IF Look[text[1].of].mark = "n." THEN 1 ELSE 0   \* the empty string before it
      entries   == IF Len(bracketed) > 2 THEN bracketed
                   ELSE IF Len(numbered) + opening > 2 THEN numbered
                   ELSE [i \in DOMAIN section.paragraphs |-> section.paragraphs[i].text]
  IN  Select(entries, LAMBDA e : TextLen(e) >= MIN_REFERENCE_CHARS)

\* Without a section called so, the first long paragraph of the front matter.
InferAbstract(sections) ==
  LET front == sections[1]
      long  == {i \in DOMAIN front.paragraphs : TextLen(front.paragraphs[i].text) >= ABSTRACT_MIN /\ front.paragraphs[i].page <= 2}
      i     == Min(long)
      parts == <<[front EXCEPT !.paragraphs = SubSeq(@, 1, i - 1)],
                 Section("Abstract", "abstract", 1, <<front.paragraphs[i]>>),
                 Section("Introduction", "introduction", 1, SubSeq(front.paragraphs, i + 1, Len(front.paragraphs)))>>
  IN  IF \/ \E s \in ToSet(sections) : s.type = "abstract"
         \/ sections = <<>> \/ front.type # "front_matter" \/ long = {}
      THEN sections
      ELSE Select(parts, LAMBDA s : s.paragraphs # <<>>) \o Tail(sections)

ExtractCaptions(sections) ==
  LET paragraphs == FlattenSeq([i \in DOMAIN sections |-> sections[i].paragraphs])
      kind(p)    == IF p.text[1].from = 0 THEN Look[p.text[1].of].caption ELSE ""
      captions   == Select(paragraphs, LAMBDA p : kind(p) # "" /\ TextLen(p.text) >= MIN_CAPTION_CHARS)
  IN  [i \in DOMAIN captions |-> [kind |-> kind(captions[i]), text |-> captions[i].text, page |-> captions[i].page]]

SectionForPage(sections, page) ==
  LET i == SelectLastInSeq(sections, LAMBDA s : PageStart(s) # NoPage /\ PageStart(s) <= page)
  IN  IF i = 0 THEN "" ELSE sections[i].heading

\* The tables found on the pages whose detection worked, each with the
\* first table caption of its page.
Tables(found, failed, sections, captions) ==
  LET kept == Select(found, LAMBDA t : t.page \notin failed /\ t.len >= MIN_TABLE_CHARS)
      caption(t) == LET i == SelectInSeq(captions, LAMBDA c : c.kind = "table" /\ c.page = t.page)
                    IN  IF i = 0 THEN <<>> ELSE captions[i].text
  IN  [i \in DOMAIN kept |->
         [of |-> kept[i].of, len |-> kept[i].len, page |-> kept[i].page,
          section |-> SectionForPage(sections, kept[i].page), caption |-> caption(kept[i])]]

\* What parse_paper returns for the sections its loop collected.
Parsed(paper, title, collected, failed) ==
  LET typed(sections, references) == Select(sections, LAMBDA s : (s.type = "references") = references)
      abstract(content) == LET i == SelectInSeq(content, LAMBDA s : s.type = "abstract")
                           IN  IF i = 0 THEN <<>> ELSE SectionText(content[i])
      entries(refs)     == FlattenSeq([i \in DOMAIN refs |-> SplitReferences(refs[i])])
      assembled(content, captions, refs) ==
        [title      |-> title,
         sections   |-> content,
         abstract   |-> abstract(content),
         references |-> entries(refs),
         captions   |-> captions,
         tables     |-> Tables(paper.tables, failed, content, captions)]
      divided(content, refs) == assembled(content, ExtractCaptions(content), refs)
      all(sections) == divided(typed(sections, FALSE), typed(sections, TRUE))
  IN  all(InferAbstract(Select(collected, LAMBDA s : s.paragraphs # <<>>)))
=============================================================================
