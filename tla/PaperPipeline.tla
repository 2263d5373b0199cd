--------------------------- MODULE PaperPipeline ---------------------------
(***************************************************************************)
(* One paper through ingest_document and embed_document: the parser's loop *)
(* over the lines, chunking or the page fallback, the adoption of stored   *)
(* ids, the research card, the two writes and the vectors.  The chunks are *)
(* committed before the card, each in a transaction of its own; an ingest  *)
(* may fail or die at any step, and ingesting again finds what is in the   *)
(* database.  What concurrent ingests do to the stored rows is in          *)
(* ChunkStore; here the write stores exactly the chunks, and embedding     *)
(* follows the ingest.                                                     *)
(***************************************************************************)
EXTENDS Profile

CONSTANTS
  Papers,             \* [lines, pages, meta, tables, images]
  EMBED_BATCH_SIZE,
  EMBED_REFERENCE_TOKENS, \* length a full batch is laid out for
  Sayings,            \* bound: lines a model's point may quote
  MaxRuns             \* bound: ingests of the paper

\* Lines come page by page; a table is on one of the pages.
ASSUME PaperAssumption ==
  \A p \in Papers :
    /\ p.pages \in Nat /\ p.meta.lines \subseteq DOMAIN Look
    /\ p.lines \in Seq([of : DOMAIN Look, page : 1 .. p.pages, block : Nat, margin : BOOLEAN, upper : BOOLEAN])
    /\ \A i \in DOMAIN p.lines : \A k \in 1 .. i : p.lines[k].page <= p.lines[i].page
    /\ p.tables \in Seq([of : DOMAIN Look, len : Nat \ {0}, page : 1 .. p.pages])

ASSUME BatchAssumption == {EMBED_BATCH_SIZE, EMBED_REFERENCE_TOKENS} \subseteq Nat \ {0}

ASSUME RunsAssumption == MaxRuns \in Nat

VARIABLES
  paper,
  stage,              \* of the ingest under way
  lines, title, body, \* parse_paper: lines kept, title, body font size
  at, sections, pending, inline, \* its loop: position, sections, lines to flush, abstract seen
  failed,             \* pages whose table detection fails
  parsed,             \* the parsed paper
  extractor,          \* what the chunks were made by
  chunks, profile,
  stored,             \* chunks in the database
  card,               \* points of the card in the document's metadata
  torn,               \* history: chunks were committed and their card was not yet
  vectors,            \* the content each embedded chunk was embedded from, by id
  run                 \* ingests begun

parsing == <<lines, title, body, at, sections, pending, inline>>
vars == <<paper, stage, lines, title, body, at, sections, pending, inline, failed, parsed, extractor, chunks, profile, stored, card, torn, vectors, run>>

FrontMatter == <<Section("Front matter", "front_matter", 1, <<>>)>>

Init ==
  /\ paper \in Papers
  /\ stage = "idle" /\ run = 0
  /\ lines = <<>> /\ title = {} /\ body = 0
  /\ at = 1 /\ sections = FrontMatter /\ pending = <<>> /\ inline = FALSE
  /\ failed = {} /\ parsed = NotParsed /\ extractor = "none"
  /\ chunks = <<>> /\ profile = <<>>
  /\ stored = <<>> /\ card = <<>> /\ torn = FALSE /\ vectors = <<>>

-----------------------------------------------------------------------------
(* parse_paper *)

OpenPdf ==
  /\ stage \in {"idle", "failed"} /\ run < MaxRuns
  /\ run' = run + 1
  /\ failed' \in {{}, {t.page : t \in ToSet(paper.tables)}}
  /\ lines' = RemoveRunningHeaders(paper.lines, paper.pages)
  /\ body' = BodyFontSize(lines')
  /\ title' = DetectTitle(lines', paper.meta)
  /\ at' = 1 /\ sections' = FrontMatter /\ pending' = <<>> /\ inline' = FALSE
  /\ parsed' = NotParsed /\ extractor' = "none" /\ chunks' = <<>> /\ profile' = <<>>
  /\ stage' = "lines"
  /\ UNCHANGED <<paper, stored, card, torn, vectors>>

line    == lines[at]
reading == Look[line.of]

Flushed ==
  [sections EXCEPT ![Len(sections)].paragraphs = @ \o GroupParagraphs(pending)]

\* Lines the title is made of are left out of the text.
IsTitleLine == line.page = 1 /\ line.of \in title /\ reading.size > body + 10

OpensAbstract == line.page <= 2 /\ ~inline /\ reading.inline > INLINE_MIN

Collected(passage) == [passage |-> passage, page |-> line.page, block |-> line.block]

NextLine ==
  /\ stage = "lines" /\ at <= Len(lines)
  /\ at' = at + 1
  /\ UNCHANGED <<paper, stage, lines, title, body, failed, parsed, extractor, chunks, profile, stored, card, torn, vectors, run>>

SkipTitleLine ==
  /\ NextLine
  /\ IsTitleLine
  /\ UNCHANGED <<sections, pending, inline>>

\* "Abstract - text": a section of its own that begins inside the line.
InlineAbstract ==
  /\ NextLine
  /\ ~IsTitleLine /\ OpensAbstract
  /\ sections' = Append(Flushed, Section("Abstract", "abstract", 1, <<>>))
  /\ pending' = <<Collected(Cut(Passage(line.of, reading.len, reading.stop), reading.len - reading.inline, reading.len))>>
  /\ inline' = TRUE

Heading ==
  /\ NextLine
  /\ ~IsTitleLine /\ ~OpensAbstract /\ IsHeading(line.of, body)
  /\ LET own  == ClassifySection(line.of)
         type == IF own = "other" THEN InheritType(Flushed) ELSE own
     IN  sections' = Append(Flushed, Section(line.of, type, HeadingLevel(line.of), <<>>))
  /\ pending' = <<>>
  /\ UNCHANGED inline

TextLine ==
  /\ NextLine
  /\ ~IsTitleLine /\ ~OpensAbstract /\ ~IsHeading(line.of, body)
  /\ pending' = Append(pending, Collected(Passage(line.of, reading.len, reading.stop)))
  /\ UNCHANGED <<sections, inline>>

EndOfLines ==
  /\ stage = "lines" /\ at > Len(lines)
  /\ parsed' = Parsed(paper, title, Flushed, failed)
  /\ sections' = Flushed /\ pending' = <<>>
  /\ stage' = "parsed"
  /\ UNCHANGED <<paper, lines, title, body, at, inline, failed, extractor, chunks, profile, stored, card, torn, vectors, run>>

\* parse_paper raises; the pages are used.
ParseFails ==
  /\ stage = "lines" /\ at = 1
  /\ stage' = "parsed"
  /\ UNCHANGED <<paper, parsing, failed, parsed, extractor, chunks, profile, stored, card, torn, vectors, run>>

-----------------------------------------------------------------------------
(* ingest_document *)

\* A paper without any text fails; what was stored stays.
ChunkPaper ==
  /\ stage = "parsed"
  /\ \E built \in {IF parsed = NotParsed THEN <<>> ELSE BuildChunks(parsed)} :
     \E new \in {DocumentChunks(paper, built, failed)} :
       /\ chunks' = [i \in DOMAIN new |-> WithId(<<run, i>>, new[i])]
       /\ stage' = IF new = <<>> THEN "failed" ELSE "chunked"
       /\ extractor' = IF UsesPages(built) THEN "pymupdf" ELSE "layout"
  /\ UNCHANGED <<paper, parsing, failed, parsed, profile, stored, card, torn, vectors, run>>

\* The content hash is of the header and the text.
Content(c) == <<c.path, c.text>>

\* reconcile_chunk_ids: a chunk takes the id of a stored row of its content
\* that no earlier chunk has taken.
PutAdopted(acc, c, old) ==
  LET free == SelectInSeq(old, LAMBDA o : Content(o) = Content(c) /\ \A a \in ToSet(acc) : a.id # o.id)
  IN  Append(acc, IF free = 0 THEN c ELSE [c EXCEPT !.id = old[free].id])
AdoptIds(new, old) == Folded(LAMBDA acc, c : PutAdopted(acc, c, old), <<>>, new)

Reconcile ==
  /\ stage = "chunked"
  /\ chunks' = AdoptIds(chunks, stored)
  /\ stage' = "reconciled"
  /\ UNCHANGED <<paper, parsing, failed, parsed, extractor, profile, stored, card, torn, vectors, run>>

\* The model's points name any block and say anything.
ProfileByModel ==
  /\ stage = "reconciled"
  /\ \E pack \in {SelectProfileEvidence(chunks)} :
         \E n \in {0, 1, Len(pack), Len(pack) + 1}, says, quote \in Sayings \cup {NoLine} :
           profile' = GroundAll(<<[field |-> "limitations", number |-> n, says |-> says, quote |-> quote]>>, pack)
  /\ stage' = "profiled"
  /\ UNCHANGED <<paper, parsing, failed, parsed, extractor, chunks, stored, card, torn, vectors, run>>

\* No key, or any failure of the model.
ProfileExtracted ==
  /\ stage = "reconciled"
  /\ profile' = ExtractiveProfile(chunks)
  /\ stage' = "profiled"
  /\ UNCHANGED <<paper, parsing, failed, parsed, extractor, chunks, stored, card, torn, vectors, run>>

\* The chunks are committed.  Rows of the last time go unless their text came
\* again; those keep their vectors.
PersistKeepsVectors ==
  /\ stage = "profiled"
  /\ stored' = chunks \o Card(<<run, 0>>, profile, IF parsed = NotParsed THEN <<>> ELSE parsed.abstract)
  /\ torn' = TRUE
  /\ stage' = "stored"
  /\ UNCHANGED <<paper, parsing, failed, parsed, extractor, chunks, profile, card, vectors, run>>
Persist ==
  /\ stage = "profiled"
  /\ stored' = chunks \o Card(<<run, 0>>, profile, IF parsed = NotParsed THEN <<>> ELSE parsed.abstract)
  /\ vectors' = Restrict(vectors, {c.id : c \in ToSet(stored')} \cap DOMAIN vectors)
  /\ torn' = TRUE
  /\ stage' = "stored"
  /\ UNCHANGED <<paper, parsing, failed, parsed, extractor, chunks, profile, card, run>>

\* update_document_ingest_metadata, a transaction of its own.
SaveCard ==
  /\ stage = "stored"
  /\ card' = profile /\ torn' = FALSE
  /\ stage' = "carded"
  /\ UNCHANGED <<paper, parsing, failed, parsed, extractor, chunks, profile, stored, vectors, run>>

-----------------------------------------------------------------------------
(* embed_document *)

\* The batch begun last is one too.
CloseBatchDropped(acc) == acc.batches
CloseBatch(acc) == IF acc.current = <<>> THEN acc.batches ELSE Append(acc.batches, acc.current)

\* Batches of positions, longest first: a batch padded to its longest text
\* costs no more than a full one of the reference length, down to a batch of one.
PutText(acc, i, lengths) ==
  LET n       == Len(acc.current) + 1
      longest == lengths[acc.current[1]]
      full    == \/ n > EMBED_BATCH_SIZE
                 \/ n * longest * longest > EMBED_BATCH_SIZE * EMBED_REFERENCE_TOKENS * EMBED_REFERENCE_TOKENS
  IN  IF acc.current # <<>> /\ full
      THEN [batches |-> Append(acc.batches, acc.current), current |-> <<i>>]
      ELSE [acc EXCEPT !.current = Append(@, i)]
LengthBoundedBatches(lengths) ==
  CloseBatch(Folded(LAMBDA acc, i : PutText(acc, i, lengths), [batches |-> <<>>, current |-> <<>>],
                    Ordered([i \in DOMAIN lengths |-> i], lengths)))

\* The chunks without a vector; the vectors of a batch go to the places it names.
Embed ==
  /\ stage = "carded"
  /\ LET open    == Select(stored, LAMBDA c : c.id \notin DOMAIN vectors)
         batches == LengthBoundedBatches([i \in DOMAIN open |-> ContentLen(open[i])])
     IN  \E encoded \in {{open[i] : i \in ToSet(FlattenSeq(batches))}} :
           vectors' = [id \in DOMAIN vectors \cup {c.id : c \in encoded} |->
                         IF id \in DOMAIN vectors THEN vectors[id] ELSE Content(CHOOSE c \in encoded : c.id = id)]
  /\ stage' = "idle"
  /\ UNCHANGED <<paper, parsing, failed, parsed, extractor, chunks, profile, stored, card, torn, run>>

-----------------------------------------------------------------------------
(* Around it *)

\* A call to the database or the disk fails, or the service dies: what was in
\* memory is gone, what is committed stays.
IngestFails ==
  /\ stage \notin {"idle", "failed"}
  /\ stage' = "failed"
  /\ lines' = <<>> /\ title' = {} /\ body' = 0
  /\ at' = 1 /\ sections' = FrontMatter /\ pending' = <<>> /\ inline' = FALSE
  /\ failed' = {} /\ parsed' = NotParsed /\ extractor' = "none"
  /\ chunks' = <<>> /\ profile' = <<>>
  /\ UNCHANGED <<paper, stored, card, torn, vectors, run>>

Ingest ==
  \/ OpenPdf \/ SkipTitleLine \/ InlineAbstract \/ Heading \/ TextLine \/ EndOfLines \/ ParseFails
  \/ ChunkPaper \/ Reconcile \/ ProfileByModel \/ ProfileExtracted \/ Persist \/ SaveCard \/ Embed
  \/ IngestFails

\* The paper is ingested as often as the bound allows.
Over == stage \in {"idle", "failed"} /\ run = MaxRuns /\ UNCHANGED vars

Next == Ingest \/ Over
Spec == Init /\ [][Next]_vars

-----------------------------------------------------------------------------
(* Properties *)

\* Sections and chunks are of the types the pipeline knows; positions and
\* pages are in range.
TypeOK ==
  /\ run \in 0 .. MaxRuns
  /\ stage \in {"idle", "lines", "parsed", "chunked", "reconciled", "profiled", "stored", "carded", "failed"}
  /\ at \in 1 .. Len(lines) + 1 /\ inline \in BOOLEAN /\ body \in Nat
  /\ failed \subseteq 1 .. paper.pages
  /\ title \subseteq DOMAIN Look
  /\ \A s \in ToSet(sections) : s.type \in SectionTypes /\ s.level \in 1 .. 4
  /\ \A c \in ToSet(chunks) : c.first \in 0 .. paper.pages /\ c.last \in c.first .. paper.pages
  /\ \A p \in ToSet(profile \o card) : p.field \in ToSet(Fields) /\ p.grounded \in BOOLEAN
  /\ torn \in BOOLEAN
  /\ DOMAIN vectors \subseteq {c.id : c \in ToSet(stored)}

\* What the chunks say is settled when they are made; they only change their
\* ids after that.
Structured == stage = "chunked" /\ extractor = "layout"
FromPages  == stage = "chunked" /\ extractor = "pymupdf"

ChunksOf(types) == {c \in ToSet(chunks) : c.contentType \in types}
Body            == ChunksOf({"abstract", "front_matter", "section_text"})

\* Every character of the passage is in one of the chunks.
Covered(p, among) ==
  \A x \in p.from .. p.from + p.len - 1 :
    \E c \in among : \E q \in ToSet(c.text) : q.of = p.of /\ x \in q.from .. q.from + q.len - 1

Short(s) == ContentType(s) = "section_text" /\ TextLen(SectionText(s)) < MIN_CHUNK_CHARS

\* No text is lost on the way from the page to the chunks, however sections,
\* paragraphs and sentences are joined, cut and overlapped: all of every
\* section below the front matter (of a section too short for a chunk, as long
\* as some section of body text has one to take it), and all of every page the
\* fallback reads.  build_chunks, pack_section, _units, split_text.
NothingDropped ==
  /\ Structured =>
       \A s \in ToSet(parsed.sections) :
         s.type # "front_matter" /\ (Short(s) => ChunksOf({"section_text"}) # {})
           => \A p \in ToSet(SectionText(s)) : Covered(p, Body)
  /\ FromPages =>
       \A page \in 1 .. paper.pages :
         TextLen(PageText(paper, page)) >= MIN_CHUNK_CHARS
           => \A p \in ToSet(PageText(paper, page)) : Covered(p, ChunksOf({"page_text"}))

\* A chunk is of one section, whose heading and type it carries; a section too
\* short for a chunk of its own is told in one other section only.
\* build_chunks: carry.
OneSection ==
  Structured =>
    \A s \in ToSet(parsed.sections) :
      LET telling == {c \in Body : Lines(c.text) \cap Lines(SectionText(s)) # {}}
      IN  IF Short(s) THEN Cardinality({c.section : c \in telling}) <= 1
          ELSE \A c \in telling : c.section = s.heading /\ c.type = s.type

Printed(l) == lines[SelectInSeq(lines, LAMBDA p : p.of = l)].page

\* The pages a citation of a chunk shows are those its text is printed on: of
\* every line of the chunk's section that no earlier chunk has.
\* pack_section, through cuts, overlaps and the joined last piece.
PagesTrue ==
  Structured =>
    \A i \in DOMAIN chunks : chunks[i] \in Body =>
      LET c     == chunks[i]
          own   == UNION {Lines(SectionText(s)) : s \in {s \in ToSet(parsed.sections) : s.heading = c.section}}
          first == own \ UNION {Lines(chunks[k].text) : k \in 1 .. i - 1}
      IN  \A l \in Lines(c.text) \cap first : Printed(l) \in c.first .. c.last

\* A point of the stored card opens a stored chunk, unless an ingest has
\* committed its chunks and not its card; and a chunk it opens always has the
\* words the point is said to be grounded in, also when the card is of an
\* earlier ingest: through the choice of evidence, the model's numbering, the
\* adoption of old ids and the two writes.  _ground, ingest_document.
PointsOpenTheirChunk ==
  \A p \in ToSet(card) : p.chunk # NoChunk =>
    LET opened == {c \in ToSet(stored) : c.id = p.chunk}
    IN  /\ torn \/ opened # {}
        /\ p.grounded => \A c \in opened : (IF p.quote # NoLine THEN p.quote ELSE p.says) \in Lines(c.text)

\* After an ingest every stored chunk has a vector, of its own text: also a
\* chunk that kept its id, and whatever batch it fell into.  embed_document.
Embedded ==
  stage = "idle" =>
    /\ DOMAIN vectors = {c.id : c \in ToSet(stored)}
    /\ \A c \in ToSet(stored) : vectors[c.id] = Content(c)
=============================================================================
