----------------------------- MODULE ChunkStore -----------------------------
(***************************************************************************)
(* The evidence chunks of one paper in PostgreSQL and the two requests of  *)
(* the AI service that write them: POST /ingest (ingest_document) and      *)
(* POST /embed (embed_document).  FastAPI runs them in a thread pool, so   *)
(* several requests for one paper may be under way; reindex.py is one more *)
(* caller.  A request reads first and writes in a transaction much later:  *)
(* between the two lie an LLM call (ingest) or the encoding of every chunk *)
(* (embed).                                                                *)
(*                                                                         *)
(* A content hash is identified with the text it is of.  A vector is       *)
(* abstracted to the text and the model it was computed from.              *)
(***************************************************************************)
EXTENDS Naturals, Sequences, FiniteSets, SequencesExt

CONSTANTS
  Ids,        \* bound: supply of chunk ids
  Bodies,     \* the sequences of body texts a version of the parser may give
  Cards,      \* the texts a paper's profile card may have
  NoCard,     \* no card: the profile is too short
  Models,     \* embedding models
  Requests,   \* bound: AI requests under way at the same time
  MaxStarts,  \* bound: AI requests ever started
  MaxCitations, \* bound: citations at the same time
  NoId,       \* a chunk that adopts no stored id
  NoVec       \* embedding IS NULL

ASSUME BoundsAssumption == IsFiniteSet(Ids) /\ MaxCitations \in Nat /\ MaxStarts \in Nat
ASSUME BodyAssumption == \A b \in Bodies : b \in Seq(ToSet(b))
ASSUME CardAssumption == NoCard \notin Cards
ASSUME NullAssumption == NoId \notin Ids /\ NoVec \notin Models

Texts == Cards \cup UNION {ToSet(b) : b \in Bodies}

VARIABLES
  present,    \* the Document row exists
  rows,       \* DocumentChunk by id: text, chunkIndex, embedding
  meta,       \* EmbeddingMetadata.modelName by chunk id
  citations,  \* Citation rows: chunk id and the text that was cited
  body,       \* what the deployed parser makes of the PDF
  model,      \* the deployed EMBEDDING_MODEL
  req,        \* the AI requests
  starts      \* how many have been started

vars == <<present, rows, meta, citations, body, model, req, starts>>

Vectors == [text : Texts, model : Models]
Rows    == [text : Texts, index : Nat, vec : Vectors \cup {NoVec}]
Chunks  == [id : Ids, text : Texts, reuse : BOOLEAN, keep : BOOLEAN]
Stages  == {"idle", "built", "selected", "encoded", "completed", "failed"}

ASSUME VecAssumption == NoVec \notin Vectors

\* alone: no other request for the paper was under way during this one.
Idle == [stage |-> "idle", chunks |-> <<>>, existing |-> {}, batch |-> <<>>, alone |-> FALSE]

TypeOK ==
  /\ present \in BOOLEAN
  /\ DOMAIN rows \subseteq Ids /\ \A i \in DOMAIN rows : rows[i] \in Rows
  /\ DOMAIN meta \subseteq DOMAIN rows /\ \A i \in DOMAIN meta : meta[i] \in Models
  /\ citations \subseteq [chunk : DOMAIN rows, text : Texts]
  /\ body \in Bodies /\ model \in Models
  /\ \A r \in Requests :
       /\ req[r].stage \in Stages
       /\ req[r].chunks \in Seq(Chunks)
       /\ req[r].existing \subseteq Ids
       /\ \A i \in DOMAIN req[r].batch : i \in Ids /\ req[r].batch[i] \in Texts
  /\ starts \in 0 .. MaxStarts

Init ==
  /\ present = TRUE
  /\ rows = <<>> /\ meta = <<>> /\ citations = {}
  /\ body \in Bodies /\ model \in Models
  /\ req = [r \in Requests |-> Idle]
  /\ starts = 0

-----------------------------------------------------------------------------
(* Requests *)

Busy(r) == req[r].stage \in {"built", "selected", "encoded"}

\* A request starts with record q; it and every busy one now share the paper.
Begin(r, q) ==
  /\ req[r].stage = "idle"
  /\ starts < MaxStarts /\ starts' = starts + 1
  /\ req' = [s \in Requests |->
               IF s = r THEN [q EXCEPT !.alone = \A t \in Requests : ~Busy(t)]
               ELSE [req[s] EXCEPT !.alone = FALSE]]

\* The request is over; what it held in memory is gone.
End(r, from, outcome) ==
  /\ req[r].stage = from
  /\ req' = [req EXCEPT ![r] = [Idle EXCEPT !.stage = outcome]]

\* The caller has taken the answer.
Answered(r) ==
  /\ req[r].stage \in {"completed", "failed"}
  /\ req' = [req EXCEPT ![r] = Idle]
  /\ UNCHANGED <<present, rows, meta, citations, body, model, starts>>

\* Any exception: parser, profile, encoder or database.  What the request's
\* transaction wrote is rolled back.
Fail(r) ==
  /\ Busy(r) /\ End(r, req[r].stage, "failed")
  /\ UNCHANGED <<present, rows, meta, citations, body, model, starts>>

-----------------------------------------------------------------------------
(* ingest_document *)

\* Mutant: chunks adopt stored ids by position, as if text never moved.
AdoptionsByIndex(texts) ==
  {f \in [DOMAIN texts -> DOMAIN rows \cup {NoId}] :
     \A i \in DOMAIN texts :
       IF f[i] = NoId THEN \A id \in DOMAIN rows : rows[id].index # i - 1
       ELSE rows[f[i]].index = i - 1}

\* reconcile_chunk_ids: the chunk at position i of the new list adopts the
\* stored chunk f[i] of the same text, as long as there is one left; the order
\* of equal rows is the database's choice.
Adoptions(texts) ==
  {f \in [DOMAIN texts -> DOMAIN rows \cup {NoId}] :
     \A i \in DOMAIN texts :
       /\ f[i] # NoId =>
            /\ rows[f[i]].text = texts[i]
            /\ \A k \in DOMAIN texts : f[k] = f[i] => k = i
       /\ f[i] = NoId =>
            \A id \in DOMAIN rows :
              rows[id].text = texts[i] => \E k \in 1 .. i - 1 : f[k] = id}

\* Mutant: the stored model is not compared.
StoredModelUnread(id) == model

\* The model recorded for a stored vector (get_chunk_fingerprints).
StoredModel(id) == IF rows[id].vec = NoVec THEN NoVec ELSE meta[id]

HeldBy(q) == {k.id : k \in ToSet(q.chunks)} \cup q.existing \cup DOMAIN q.batch
IdsInUse  == DOMAIN rows \cup UNION {HeldBy(req[r]) : r \in Requests}
\* New uuids, one for each of n places; ids nothing refers to any more stand for
\* ids never used.
Free      == Ids \ IdsInUse
NewIds(n) == [1 .. n -> Free]
Differ(new) == \A i, j \in DOMAIN new : new[i] = new[j] => i = j

\* No text was found in the PDF: the request ends before it has read any chunk.
IngestRefuse(r) ==
  /\ body = <<>>
  /\ Begin(r, [Idle EXCEPT !.stage = "failed"])
  /\ UNCHANGED <<present, rows, meta, citations, body, model>>

\* Up to the call of insert_ingestion_chunks: parse, read the fingerprints,
\* adopt ids, and append the profile card, which never adopts one.
IngestBuild(r) ==
  /\ body # <<>>
  /\ \E f \in Adoptions(body), card \in Cards \cup {NoCard} :
      LET fresh  == CHOOSE new \in NewIds(Len(body) + 1) : Differ(new)
          chunks == [i \in DOMAIN body |->
                       IF f[i] = NoId
                       THEN [id |-> fresh[i], text |-> body[i], reuse |-> FALSE, keep |-> FALSE]
                       ELSE [id |-> f[i], text |-> body[i], reuse |-> TRUE,
                             keep |-> StoredModel(f[i]) = model]]
          last   == IF card = NoCard THEN <<>>
                    ELSE <<[id |-> fresh[Len(body) + 1], text |-> card,
                            reuse |-> FALSE, keep |-> FALSE]>>
      IN /\ Cardinality(Free) > Len(body)
         /\ Begin(r, [Idle EXCEPT !.stage = "built", !.chunks = chunks \o last])
         /\ UNCHANGED <<present, rows, meta, citations, body, model>>

\* insert_ingestion_chunks, first statement: the ids stored now.
IngestSelect(r) ==
  /\ req[r].stage = "built"
  /\ req' = [req EXCEPT ![r].stage = "selected", ![r].existing = DOMAIN rows]
  /\ UNCHANGED <<present, rows, meta, citations, body, model, starts>>

\* The rest of the transaction.  reused and stale come from the ids selected;
\* other transactions may have committed since.
IngestCommit(r) ==
  LET chunks  == req[r].chunks
      reused  == {c.id : c \in {k \in ToSet(chunks) : k.reuse}} \cap req[r].existing
      stale   == req[r].existing \ reused
      others  == DOMAIN rows \ (stale \cup reused)
      inserts == {i \in DOMAIN chunks : chunks[i].id \notin reused}
      written == {i \in DOMAIN chunks : i \in inserts \/ chunks[i].id \in DOMAIN rows}
      at(id)  == CHOOSE i \in written : chunks[i].id = id
      \* primary key, and unique (documentId, chunkIndex)
      clash   == \/ \E i \in inserts : chunks[i].id \in DOMAIN rows \ stale
                 \/ \E i \in written, id \in others : rows[id].index = i - 1
      newRow(i) ==
        [text |-> chunks[i].text, index |-> i - 1,
         vec |-> IF i \notin inserts /\ chunks[i].keep THEN rows[chunks[i].id].vec ELSE NoVec]
      left    == others \cup {chunks[i].id : i \in written}
      vector(id) == IF id \in others THEN rows[id].vec ELSE newRow(at(id)).vec
  IN /\ present \/ inserts = {}    \* foreign key
     /\ ~clash
     /\ End(r, "selected", "completed")
     /\ rows' = [id \in left |-> IF id \in others THEN rows[id] ELSE newRow(at(id))]
     /\ meta' = [id \in {i \in left \cap DOMAIN meta : vector(i) # NoVec} |-> meta[id]]
     \* cascade: a citation goes with its row, and a re-inserted row is a new one
     /\ citations' = {k \in citations : k.chunk \in left \ stale}
     /\ UNCHANGED <<present, body, model, starts>>

-----------------------------------------------------------------------------
(* embed_document *)

Unembedded == {id \in DOMAIN rows : rows[id].vec = NoVec}

\* get_unembedded_chunks; with nothing to do the request is complete.
EmbedRead(r) ==
  LET batch == [id \in Unembedded |-> rows[id].text]
  IN /\ Begin(r, IF Unembedded = {} THEN [Idle EXCEPT !.stage = "completed"]
                 ELSE [Idle EXCEPT !.stage = "encoded", !.batch = batch])
     /\ UNCHANGED <<present, rows, meta, citations, body, model>>

\* update_chunk_embeddings: one transaction; the metadata row of a chunk that
\* is gone violates its foreign key, and the whole batch is rolled back.
EmbedWrite(r) ==
  LET batch == req[r].batch
  IN /\ present /\ DOMAIN batch \subseteq DOMAIN rows
     /\ End(r, "encoded", "completed")
     /\ rows' = [id \in DOMAIN rows |->
                   IF id \in DOMAIN batch
                   THEN [rows[id] EXCEPT !.vec = [text |-> batch[id], model |-> model]]
                   ELSE rows[id]]
     /\ meta' = [id \in DOMAIN meta \cup DOMAIN batch |->
                   IF id \in DOMAIN batch THEN model ELSE meta[id]]
     /\ UNCHANGED <<present, citations, body, model, starts>>

-----------------------------------------------------------------------------
(* Around the requests *)

\* An answer cites a chunk that retrieval found (it searches vectors).
Cite(id) ==
  /\ id \in DOMAIN rows /\ rows[id].vec # NoVec
  /\ Cardinality(citations) < MaxCitations
  /\ citations' = citations \cup {[chunk |-> id, text |-> rows[id].text]}
  /\ UNCHANGED <<present, rows, meta, body, model, req, starts>>

\* The paper is deleted: chunks, metadata and citations cascade.
RemovePaper ==
  /\ present
  /\ present' = FALSE
  /\ rows' = <<>> /\ meta' = <<>> /\ citations' = {}
  /\ UNCHANGED <<body, model, req, starts>>

\* The AI service dies and comes back, perhaps with a new parser or model.
Restart(b, m) ==
  /\ body' = b /\ model' = m
  /\ req' = [r \in Requests |-> Idle]
  /\ UNCHANGED <<present, rows, meta, citations, starts>>

Next ==
  \/ \E r \in Requests :
       \/ IngestRefuse(r) \/ IngestBuild(r) \/ IngestSelect(r) \/ IngestCommit(r)
       \/ EmbedRead(r) \/ EmbedWrite(r)
       \/ Fail(r) \/ Answered(r)
  \/ \E id \in Ids : Cite(id)
  \/ RemovePaper
  \/ \E b \in Bodies, m \in Models : Restart(b, m)

Spec == Init /\ [][Next]_vars

-----------------------------------------------------------------------------
(* Properties *)

\* Whatever requests overlap and whatever was redeployed in between, a vector
\* belongs to the text of its row and its metadata names the model that made
\* it (keepEmbedding, the reset of changed rows, the upsert of embed).
VectorsTrue ==
  \A id \in DOMAIN rows :
    IF rows[id].vec = NoVec THEN id \notin DOMAIN meta
    ELSE /\ rows[id].vec.text = rows[id].text
         /\ id \in DOMAIN meta /\ meta[id] = rows[id].vec.model

\* No citation ever points to a chunk whose text is not the text cited.
CitationsTrue ==
  \A k \in citations : k.chunk \in DOMAIN rows /\ rows[k.chunk].text = k.text

InOrder(chunks) ==
  /\ Cardinality(DOMAIN rows') = Len(chunks)
  /\ \A i \in DOMAIN chunks :
       \E id \in DOMAIN rows' : rows'[id].index = i - 1 /\ rows'[id].text = chunks[i].text

WithText(t, ids) == {id \in ids : rows[id].text = t}
TimesIn(t, s) == Cardinality({i \in DOMAIN s : s[i] = t})

\* An ingest that had the (not deleted) paper for itself leaves exactly the chunks it built,
\* in their order; of each text it keeps as many stored rows as the text still
\* has places, and a kept row keeps a vector of the deployed model.
IngestExact ==
  [][\A r \in Requests :
       (IngestCommit(r) /\ req[r].alone /\ present) =>
         /\ InOrder(req[r].chunks)
         /\ \A t \in ToSet(body) :
              LET old  == WithText(t, DOMAIN rows)
                  kept == old \cap DOMAIN rows'
                  most == TimesIn(t, body)
              IN /\ Cardinality(kept) = IF Cardinality(old) < most THEN Cardinality(old) ELSE most
                 /\ \A id \in kept : rows[id].vec # NoVec =>
                      rows'[id].vec = IF rows[id].vec.model = model THEN rows[id].vec ELSE NoVec]_vars
=============================================================================
