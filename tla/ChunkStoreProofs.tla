-------------------------- MODULE ChunkStoreProofs --------------------------
(***************************************************************************)
(* For any number of overlapping requests, any texts, models and ids: a    *)
(* stored vector is of the text of its row, and a citation points to the   *)
(* text that was cited.                                                    *)
(*                                                                         *)
(* A request reads first and writes much later, so the invariant speaks of *)
(* what requests hold in memory as well: wherever an id occurs, in a row,  *)
(* in the list of a request or in its batch, it stands for the same text.  *)
(*                                                                         *)
(* An ingest that had the paper for itself is exact, because what it read  *)
(* is true until it commits: whoever starts meanwhile ends its being alone.*)
(***************************************************************************)
EXTENDS ChunkStore, FiniteSetTheorems, SequenceTheorems, TLAPS

Batches == UNION {[S -> Texts] : S \in SUBSET Ids}
ReqRow  == [stage : Stages, chunks : Seq(Chunks), existing : SUBSET Ids, batch : Batches,
            alone : BOOLEAN]

\* TypeOK says what the requests hold; that they are records is said here.
RequestsTyped == req \in [Requests -> ReqRow]

\* A request holds text t under id.
Held(r, id, t) ==
  \/ \E i \in DOMAIN req[r].chunks : req[r].chunks[i].id = id /\ req[r].chunks[i].text = t
  \/ id \in DOMAIN req[r].batch /\ req[r].batch[id] = t

\* Somebody says that id is text t.
Claim(id, t) ==
  \/ id \in DOMAIN rows /\ rows[id].text = t
  \/ \E r \in Requests : Held(r, id, t)

OneTextPerId == \A id \in Ids, t, u \in Texts : Claim(id, t) /\ Claim(id, u) => t = u

StoreInv == TypeOK /\ RequestsTyped /\ OneTextPerId /\ VectorsTrue /\ CitationsTrue

-----------------------------------------------------------------------------
(* Lemmas about what requests hold *)

\* The record of a request that holds nothing.
LEMMA IdleRow ==
  ASSUME NEW s \in Stages
  PROVE  /\ [Idle EXCEPT !.stage = s] \in ReqRow
         /\ [Idle EXCEPT !.stage = s].chunks = <<>>
         /\ [Idle EXCEPT !.stage = s].batch = <<>>
         /\ DOMAIN <<>> = {}
<1>1. <<>> \in Batches
  <2>1. <<>> \in Seq(Texts) /\ Len(<<>>) = 0
    BY EmptySeq, Zenon
  <2>2. <<>> \in [1 .. 0 -> Texts]
    BY <2>1, LenProperties, Zenon
  <2>3. 1 .. 0 = {}
    OBVIOUS
  <2> QED  BY <2>2, <2>3 DEF Batches
<1>2. FALSE \in BOOLEAN
  OBVIOUS
<1>3. <<>> \in Seq(Chunks) /\ {} \in SUBSET Ids
  OBVIOUS
<1>4. [Idle EXCEPT !.stage = s] = [stage |-> s, chunks |-> <<>>, existing |-> {},
                                   batch |-> <<>>, alone |-> FALSE]
  <2>1. PICK e, o : e = <<>> /\ o = FALSE
    BY Zenon
  <2>2. Idle = [stage |-> "idle", chunks |-> e, existing |-> {}, batch |-> e, alone |-> o]
    BY <2>1, Zenon DEF Idle
  <2>3. [Idle EXCEPT !.stage = s] = [stage |-> s, chunks |-> e, existing |-> {}, batch |-> e,
                                     alone |-> o]
    BY <2>2
  <2> QED  BY <2>1, <2>3, Zenon
<1>5. [Idle EXCEPT !.stage = s] \in ReqRow
  BY <1>1, <1>2, <1>3, <1>4, Zenon DEF ReqRow
<1>6. [Idle EXCEPT !.stage = s].chunks = <<>> /\ [Idle EXCEPT !.stage = s].batch = <<>>
  BY <1>4, Zenon
<1>7. DOMAIN <<>> = {}
  OBVIOUS
<1> QED  BY <1>5, <1>6, <1>7, Zenon

\* Idle is the record of an idle request.
LEMMA IdleIsIdle == Idle = [Idle EXCEPT !.stage = "idle"]
<1>1. PICK e, o : e = <<>> /\ o = FALSE
  BY Zenon
<1>2. Idle = [stage |-> "idle", chunks |-> e, existing |-> {}, batch |-> e, alone |-> o]
  BY <1>1, Zenon DEF Idle
<1> QED  BY <1>2

\* The members of Batches.
LEMMA BatchType ==
  ASSUME NEW b \in Batches
  PROVE  DOMAIN b \subseteq Ids /\ \A i \in DOMAIN b : i \in Ids /\ b[i] \in Texts
BY DEF Batches

\* Where a step only lets claims go, no id gets a second text.
LEMMA FewerClaims ==
  ASSUME OneTextPerId, \A id \in Ids, t \in Texts : Claim(id, t)' => Claim(id, t)
  PROVE  OneTextPerId'
BY DEF OneTextPerId

\* A request that starts holds what its record holds; the others what they held.
LEMMA BeginStep ==
  ASSUME TypeOK, RequestsTyped, NEW r \in Requests, NEW q \in ReqRow, Begin(r, q)
  PROVE  /\ RequestsTyped'
         /\ starts' \in 0 .. MaxStarts
         /\ req'[r].chunks = q.chunks /\ req'[r].batch = q.batch
         /\ \A s \in Requests \ {r} :
              req'[s].chunks = req[s].chunks /\ req'[s].batch = req[s].batch
<1>1. /\ starts \in 0 .. MaxStarts /\ starts < MaxStarts /\ starts' = starts + 1
  BY DEF TypeOK, Begin
<1>2. PICK alone \in BOOLEAN :
        req' = [s \in Requests |->
                  IF s = r THEN [q EXCEPT !.alone = alone] ELSE [req[s] EXCEPT !.alone = FALSE]]
  BY Zenon DEF Begin
<1>3. \A s \in Requests : req[s] \in ReqRow
  BY DEF RequestsTyped
<1>4. \A row \in ReqRow, b \in BOOLEAN :
        /\ [row EXCEPT !.alone = b] \in ReqRow
        /\ [row EXCEPT !.alone = b].chunks = row.chunks
        /\ [row EXCEPT !.alone = b].batch = row.batch
  BY DEF ReqRow
<1>5. FALSE \in BOOLEAN
  OBVIOUS
<1>6. RequestsTyped'
  BY <1>2, <1>3, <1>4, <1>5 DEF RequestsTyped
<1>7. /\ req'[r].chunks = q.chunks /\ req'[r].batch = q.batch
      /\ \A s \in Requests \ {r} :
           req'[s].chunks = req[s].chunks /\ req'[s].batch = req[s].batch
  BY <1>2, <1>3, <1>4, <1>5
<1> QED  BY <1>1, <1>6, <1>7, BoundsAssumption

\* A request that is over holds nothing.
LEMMA EndStep ==
  ASSUME RequestsTyped, NEW r \in Requests, NEW s \in Stages,
         req' = [req EXCEPT ![r] = [Idle EXCEPT !.stage = s]]
  PROVE  /\ RequestsTyped'
         /\ \A q \in Requests : \A id, t : Held(q, id, t)' => Held(q, id, t)
<1>1. /\ [Idle EXCEPT !.stage = s] \in ReqRow
      /\ [Idle EXCEPT !.stage = s].chunks = <<>>
      /\ [Idle EXCEPT !.stage = s].batch = <<>>
      /\ DOMAIN <<>> = {}
  BY IdleRow
<1> DEFINE row == [Idle EXCEPT !.stage = s]
<1> HIDE DEF row
<1>2. req' = [req EXCEPT ![r] = row] /\ row \in ReqRow
      /\ row.chunks = <<>> /\ row.batch = <<>>
  BY <1>1 DEF row
<1>3. RequestsTyped'
  BY <1>2 DEF RequestsTyped
<1>4. ASSUME NEW q \in Requests, NEW id, NEW t, Held(q, id, t)' PROVE Held(q, id, t)
  <2>1. CASE q = r
    <3>1. req'[q].chunks = <<>> /\ req'[q].batch = <<>>
      BY <1>2, <2>1 DEF RequestsTyped
    <3> QED  BY <1>1, <1>4, <3>1 DEF Held
  <2>2. CASE q # r
    <3>1. req'[q] = req[q]
      BY <1>2, <2>2 DEF RequestsTyped
    <3> QED  BY <1>4, <3>1 DEF Held
  <2> QED  BY <2>1, <2>2
<1> QED  BY <1>3, <1>4

\* The types of what the requests hold, in the words of TypeOK.
LEMMA HeldTypes ==
  ASSUME NEW held \in [Requests -> ReqRow]
  PROVE  \A r \in Requests :
           /\ held[r].stage \in Stages
           /\ held[r].chunks \in Seq(Chunks)
           /\ held[r].existing \subseteq Ids
           /\ \A i \in DOMAIN held[r].batch : i \in Ids /\ held[r].batch[i] \in Texts
<1> SUFFICES ASSUME NEW r \in Requests
             PROVE  /\ held[r].stage \in Stages
                    /\ held[r].chunks \in Seq(Chunks)
                    /\ held[r].existing \subseteq Ids
                    /\ \A i \in DOMAIN held[r].batch : i \in Ids /\ held[r].batch[i] \in Texts
  OBVIOUS
<1>1. held[r] \in ReqRow
  OBVIOUS
<1>2. held[r].batch \in Batches
  BY <1>1 DEF ReqRow
<1> QED  BY <1>1, <1>2, BatchType DEF ReqRow

-----------------------------------------------------------------------------
(* Building a list of chunks *)

\* While there are enough ids that nothing refers to, a new list gets new ones,
\* no two of them the same.
LEMMA FreshIds ==
  ASSUME NEW n \in Nat, Cardinality(Free) >= n
  PROVE  LET fresh == CHOOSE new \in NewIds(n) : Differ(new)
         IN fresh \in [1 .. n -> Free] /\ Differ(fresh)
<1>1. IsFiniteSet(Free)
  <2>1. Free \in SUBSET Ids
    BY DEF Free
  <2> QED  BY <2>1, BoundsAssumption, FS_Subset
<1>2. PICK g : g \in Bijection(1 .. Cardinality(Free), Free)
  BY <1>1, FS_CardinalityType DEF ExistsBijection
<1>3. /\ g \in [1 .. Cardinality(Free) -> Free]
      /\ \A i, j \in 1 .. Cardinality(Free) : g[i] = g[j] => i = j
  BY <1>2 DEF Bijection, Injection, IsInjective
<1>4. Cardinality(Free) \in Nat
  BY <1>1, FS_CardinalityType
<1> DEFINE new == [i \in 1 .. n |-> g[i]]
<1>5. 1 .. n \subseteq 1 .. Cardinality(Free)
  BY <1>4
<1>6. new \in NewIds(n) /\ Differ(new)
  BY <1>3, <1>5 DEF NewIds, Differ
<1> QED  BY <1>6 DEF NewIds

\* The parts of IngestBuild.
FreshList    == CHOOSE new \in NewIds(Len(body) + 1) : Differ(new)
BodyList(f)  == [i \in DOMAIN body |->
                   IF f[i] = NoId
                   THEN [id |-> FreshList[i], text |-> body[i], reuse |-> FALSE, keep |-> FALSE]
                   ELSE [id |-> f[i], text |-> body[i], reuse |-> TRUE,
                         keep |-> StoredModel(f[i]) = model]]
CardList(card) == IF card = NoCard THEN <<>>
                  ELSE <<[id |-> FreshList[Len(body) + 1], text |-> card,
                          reuse |-> FALSE, keep |-> FALSE]>>

\* An entry of a list.
LEMMA ChunkRecord ==
  ASSUME NEW id \in Ids, NEW t \in Texts, NEW reuse \in BOOLEAN, NEW keep \in BOOLEAN, NEW c,
         c = [id |-> id, text |-> t, reuse |-> reuse, keep |-> keep]
  PROVE  c \in Chunks /\ c.id = id /\ c.text = t
BY DEF Chunks

\* The texts of the parser are texts.
LEMMA BodyTexts ==
  ASSUME TypeOK
  PROVE  /\ body \in Seq(Texts) /\ Len(body) \in Nat /\ DOMAIN body = 1 .. Len(body)
         /\ Cards \subseteq Texts
<1>1. body \in Bodies /\ body \in Seq(ToSet(body))
  BY BodyAssumption DEF TypeOK
<1>2. ToSet(body) \subseteq Texts /\ Cards \subseteq Texts
  <2>1. ToSet(body) \in {ToSet(b) : b \in Bodies}
    BY <1>1, Zenon
  <2>2. ToSet(body) \subseteq UNION {ToSet(b) : b \in Bodies}
    BY <2>1, Zenon
  <2> DEFINE Parsed == UNION {ToSet(b) : b \in Bodies}
  <2>3. Texts = Cards \cup Parsed /\ ToSet(body) \subseteq Parsed
    BY <2>2, Zenon DEF Texts
  <2> HIDE DEF Parsed
  <2> QED  BY <2>3
<1>3. body \in Seq(Texts)
  BY <1>1, <1>2, SeqMonotonic
<1> QED  BY <1>2, <1>3

\* An entry of a new list says of a stored id what is said already, or has an id
\* nobody knows.
LEMMA NewEntries ==
  ASSUME TypeOK, NEW f \in Adoptions(body), Cardinality(Free) > Len(body)
  PROVE  /\ BodyList(f) \in Seq(Chunks) /\ Len(BodyList(f)) = Len(body)
         /\ \A i \in 1 .. Len(body) :
              \/ Claim(BodyList(f)[i].id, BodyList(f)[i].text)
              \/ BodyList(f)[i].id = FreshList[i]
<1>1. /\ body \in Seq(Texts) /\ Len(body) \in Nat /\ DOMAIN body = 1 .. Len(body)
  BY BodyTexts
<1>2. Cardinality(Free) >= Len(body) + 1
  <2>1. Free \in SUBSET Ids
    BY DEF Free
  <2>2. Cardinality(Free) \in Nat
    BY <2>1, BoundsAssumption, FS_Subset, FS_CardinalityType
  <2> QED  BY <1>1, <2>2
<1>3. FreshList \in [1 .. Len(body) + 1 -> Free]
  <2>1. Len(body) + 1 \in Nat
    BY <1>1
  <2> QED  BY <1>2, <2>1, FreshIds, Zenon DEF FreshList
<1>7. PICK no \in BOOLEAN, yes \in BOOLEAN : no = FALSE /\ yes = TRUE
  BY Zenon
<1>4. ASSUME NEW i \in 1 .. Len(body)
      PROVE  /\ BodyList(f)[i] \in Chunks
             /\ \/ Claim(BodyList(f)[i].id, BodyList(f)[i].text)
                \/ BodyList(f)[i].id = FreshList[i]
  <2>1. body[i] \in Texts /\ FreshList[i] \in Ids
    BY <1>1, <1>3 DEF Free
  <2>2. CASE f[i] = NoId
    <3>1. BodyList(f)[i] = [id |-> FreshList[i], text |-> body[i], reuse |-> no, keep |-> no]
      BY <1>1, <1>7, <2>2, Zenon DEF BodyList
    <3>2. BodyList(f)[i] \in Chunks /\ BodyList(f)[i].id = FreshList[i]
      BY <2>1, <3>1, ChunkRecord
    <3> QED  BY <3>2, Zenon
  <2>3. CASE f[i] # NoId
    <3>1. f[i] \in DOMAIN rows /\ rows[f[i]].text = body[i]
      BY <1>1, <2>3 DEF Adoptions
    <3>2. f[i] \in Ids
      BY <3>1 DEF TypeOK
    <3>3. PICK keep \in BOOLEAN : keep = (StoredModel(f[i]) = model)
      BY Zenon
    <3>4. BodyList(f)[i] = [id |-> f[i], text |-> body[i], reuse |-> yes, keep |-> keep]
      BY <1>1, <1>7, <2>3, <3>3, Zenon DEF BodyList
    <3>5. BodyList(f)[i] \in Chunks
      BY <2>1, <3>2, <3>4, ChunkRecord
    <3>6. BodyList(f)[i].id = f[i] /\ BodyList(f)[i].text = body[i]
      BY <2>1, <3>2, <3>4, ChunkRecord
    <3>7. Claim(BodyList(f)[i].id, BodyList(f)[i].text)
      BY <3>1, <3>6 DEF Claim
    <3> QED  BY <3>5, <3>7
  <2> QED  BY <2>2, <2>3
<1>5. BodyList(f) = [i \in 1 .. Len(body) |-> BodyList(f)[i]]
  BY <1>1 DEF BodyList
<1>6. BodyList(f) \in Seq(Chunks) /\ Len(BodyList(f)) = Len(body)
  BY <1>1, <1>4, <1>5
<1> QED  BY <1>4, <1>6

\* The same for the whole list: the chunks of the body, and the profile card.
LEMMA NewList ==
  ASSUME TypeOK, NEW f \in Adoptions(body), NEW card \in Cards \cup {NoCard},
         Cardinality(Free) > Len(body)
  PROVE  /\ BodyList(f) \o CardList(card) \in Seq(Chunks)
         /\ Len(BodyList(f) \o CardList(card)) >= Len(body)
         /\ \A i \in DOMAIN (BodyList(f) \o CardList(card)) :
              LET c == (BodyList(f) \o CardList(card))[i]
              IN Claim(c.id, c.text) \/ (i \in 1 .. Len(body) + 1 /\ c.id = FreshList[i])
<1> DEFINE front == BodyList(f)
           last  == CardList(card)
<1>1. /\ front \in Seq(Chunks) /\ Len(front) = Len(body)
      /\ \A i \in 1 .. Len(body) :
           Claim(front[i].id, front[i].text) \/ front[i].id = FreshList[i]
  BY NewEntries
<1>2. Len(body) \in Nat /\ Cards \subseteq Texts
  BY BodyTexts
<1>3. FreshList[Len(body) + 1] \in Ids
  <2>1. Free \in SUBSET Ids
    BY DEF Free
  <2>2. Cardinality(Free) \in Nat
    BY <2>1, BoundsAssumption, FS_Subset, FS_CardinalityType
  <2>3. Len(body) + 1 \in Nat /\ Cardinality(Free) >= Len(body) + 1
    BY <1>2, <2>2
  <2>4. FreshList \in [1 .. Len(body) + 1 -> Free]
    BY <2>3, FreshIds, Zenon DEF FreshList
  <2> QED  BY <1>2, <2>1, <2>4
<1>4. /\ last \in Seq(Chunks) /\ Len(last) \in {0, 1}
      /\ Len(last) = 1 => last[1].id = FreshList[Len(body) + 1]
  <2>1. CASE card = NoCard
    <3>1. last = <<>>
      BY <2>1 DEF CardList
    <3> QED  BY <3>1
  <2>2. CASE card # NoCard
    <3>1. PICK no \in BOOLEAN : no = FALSE
      BY Zenon
    <3>2. PICK c : c = [id |-> FreshList[Len(body) + 1], text |-> card,
                        reuse |-> no, keep |-> no]
      OBVIOUS
    <3>3. c \in Chunks /\ c.id = FreshList[Len(body) + 1]
      BY <1>2, <1>3, <2>2, <3>2, ChunkRecord
    <3>4. last = <<c>>
      BY <2>2, <3>1, <3>2, Zenon DEF CardList
    <3> QED  BY <3>3, <3>4
  <2> QED  BY <2>1, <2>2
<1> HIDE DEF front, last
<1>5. front \o last \in Seq(Chunks) /\ Len(front \o last) = Len(body) + Len(last)
  <2>1. front \in Seq(Chunks) /\ Len(front) = Len(body)
    BY <1>1
  <2>2. last \in Seq(Chunks)
    BY <1>4
  <2>3. \A s, t \in Seq(Chunks) : s \o t \in Seq(Chunks) /\ Len(s \o t) = Len(s) + Len(t)
    OBVIOUS
  <2> QED  BY <2>1, <2>2, <2>3, Zenon
<1>7. Len(front \o last) >= Len(body)
  BY <1>2, <1>4, <1>5
<1>6. ASSUME NEW i \in DOMAIN (front \o last)
      PROVE  \/ Claim((front \o last)[i].id, (front \o last)[i].text)
             \/ i \in 1 .. Len(body) + 1 /\ (front \o last)[i].id = FreshList[i]
  <2>1. CASE i \in 1 .. Len(body)
    <3>1. (front \o last)[i] = front[i]
      BY <1>1, <1>4, <2>1
    <3> QED  BY <1>1, <1>2, <2>1, <3>1
  <2>2. CASE i \notin 1 .. Len(body)
    <3>1. Len(last) = 1 /\ i = Len(body) + 1
      <4>1. i \in 1 .. Len(body) + Len(last)
        BY <1>5
      <4>2. \A n \in Nat, k \in {0, 1} : \A m \in 1 .. n + k : m \notin 1 .. n => k = 1 /\ m = n + 1
        OBVIOUS
      <4> QED  BY <1>2, <1>4, <2>2, <4>1, <4>2, Zenon
    <3>2. i = Len(front) + 1 /\ front \in Seq(Chunks) /\ last \in Seq(Chunks)
      BY <1>1, <1>4, <3>1
    <3>3. ASSUME NEW s \in Seq(Chunks), NEW t \in Seq(Chunks), Len(t) = 1
          PROVE  (s \o t)[Len(s) + 1] = t[1]
      <4>1. Len(s) \in Nat
        BY LenProperties, Zenon
      <4>2. /\ Len(s) + 1 \in 1 .. Len(s) + 1 /\ ~(Len(s) + 1 <= Len(s))
            /\ Len(s) + 1 - Len(s) = 1
        BY <4>1
      <4>3. \A k \in 1 .. Len(s) + Len(t) :
              (s \o t)[k] = IF k <= Len(s) THEN s[k] ELSE t[k - Len(s)]
        BY ConcatProperties, Zenon
      <4>4. (s \o t)[Len(s) + 1] = IF Len(s) + 1 <= Len(s) THEN s[Len(s) + 1]
                                  ELSE t[Len(s) + 1 - Len(s)]
        <5>1. Len(s) + 1 \in 1 .. Len(s) + Len(t)
          BY <3>3, <4>1
        <5> QED  BY <4>3, <5>1
      <4> QED  BY <4>2, <4>4, Zenon
    <3>4. (front \o last)[i] = last[1]
      BY <3>1, <3>2, <3>3, Zenon
    <3> QED  BY <1>2, <1>4, <3>1, <3>4
  <2> QED  BY <2>1, <2>2
<1> QED  BY <1>5, <1>6, <1>7 DEF front, last

\* What is said of an id is said by somebody who refers to it.
LEMMA ClaimedInUse ==
  ASSUME NEW id, NEW t, Claim(id, t)
  PROVE  id \in IdsInUse
<1>1. CASE id \in DOMAIN rows
  BY <1>1 DEF IdsInUse
<1>2. CASE \E r \in Requests : Held(r, id, t)
  <2>1. PICK r \in Requests : Held(r, id, t)
    BY <1>2
  <2>2. id \in HeldBy(req[r])
    BY <2>1 DEF Held, HeldBy, ToSet
  <2> QED  BY <2>1, <2>2 DEF IdsInUse
<1> QED  BY <1>1, <1>2 DEF Claim

\* A request that ingests starts: its list agrees with everybody.
LEMMA IngestBuildStep ==
  ASSUME StoreInv, NEW r \in Requests, IngestBuild(r)
  PROVE  StoreInv'
<1>1. TypeOK /\ RequestsTyped /\ OneTextPerId /\ VectorsTrue /\ CitationsTrue
  BY DEF StoreInv
<1>2. PICK f \in Adoptions(body), card \in Cards \cup {NoCard} :
        /\ Cardinality(Free) > Len(body)
        /\ Begin(r, [Idle EXCEPT !.stage = "built", !.chunks = BodyList(f) \o CardList(card)])
        /\ UNCHANGED <<present, rows, meta, citations, body, model>>
  BY DEF IngestBuild, BodyList, CardList, FreshList
<1> DEFINE list == BodyList(f) \o CardList(card)
           q == [Idle EXCEPT !.stage = "built", !.chunks = list]
<1>3. /\ list \in Seq(Chunks)
      /\ \A i \in DOMAIN list :
           \/ Claim(list[i].id, list[i].text)
           \/ i \in 1 .. Len(body) + 1 /\ list[i].id = FreshList[i]
  BY <1>1, <1>2, NewList
<1> HIDE DEF list
<1>4. q \in ReqRow /\ q.chunks = list /\ q.batch = <<>>
  <2>1. PICK none : none = [Idle EXCEPT !.stage = "built"]
    OBVIOUS
  <2>2. none \in ReqRow /\ none.batch = <<>>
    BY <2>1, IdleRow DEF Stages
  <2>3. q = [none EXCEPT !.chunks = list]
    BY <2>1, Zenon
  <2> QED  BY <1>3, <2>2, <2>3 DEF ReqRow
<1> HIDE DEF q
<1>5. Begin(r, q)
  BY <1>2 DEF q, list
<1>6. /\ RequestsTyped' /\ starts' \in 0 .. MaxStarts
      /\ req'[r].chunks = list /\ req'[r].batch = <<>>
      /\ \A s \in Requests \ {r} :
           req'[s].chunks = req[s].chunks /\ req'[s].batch = req[s].batch
  BY <1>1, <1>4, <1>5, BeginStep
<1>7. /\ FreshList \in [1 .. Len(body) + 1 -> Free]
      /\ \A i, j \in 1 .. Len(body) + 1 : FreshList[i] = FreshList[j] => i = j
  <2>1. Free \in SUBSET Ids
    BY DEF Free
  <2>2. Cardinality(Free) \in Nat
    BY <2>1, BoundsAssumption, FS_Subset, FS_CardinalityType
  <2>3. Len(body) + 1 \in Nat /\ Cardinality(Free) >= Len(body) + 1
    BY <1>1, <1>2, <2>2, BodyTexts
  <2>4. FreshList \in [1 .. Len(body) + 1 -> Free] /\ Differ(FreshList)
    BY <2>3, FreshIds, Zenon DEF FreshList
  <2> QED  BY <2>4 DEF Differ
<1>8. ASSUME NEW id, NEW t, Claim(id, t)'
      PROVE  \/ Claim(id, t)
             \/ \E i \in DOMAIN list : /\ list[i].id = id /\ list[i].text = t
                                       /\ i \in 1 .. Len(body) + 1 /\ id = FreshList[i]
  <2>1. CASE id \in DOMAIN rows /\ rows[id].text = t
    BY <2>1 DEF Claim
  <2>2. CASE \E s \in Requests : Held(s, id, t)'
    <3>1. PICK s \in Requests : Held(s, id, t)'
      BY <2>2
    <3>2. CASE s = r
      <4>1. DOMAIN <<>> = {}
        OBVIOUS
      <4>2. \E i \in DOMAIN list : list[i].id = id /\ list[i].text = t
        BY <1>6, <3>1, <3>2, <4>1 DEF Held
      <4> QED  BY <1>3, <4>2
    <3>3. CASE s # r
      <4>1. Held(s, id, t)
        BY <1>6, <3>1, <3>3 DEF Held
      <4> QED  BY <4>1 DEF Claim
    <3> QED  BY <3>2, <3>3
  <2> QED  BY <1>2, <1>8, <2>1, <2>2 DEF Claim
<1>9. \A id, t : Claim(id, t) => id \notin Free
  BY ClaimedInUse DEF Free
<1>10. OneTextPerId'
  <2> SUFFICES ASSUME NEW id \in Ids, NEW t \in Texts, NEW u \in Texts,
                      Claim(id, t)', Claim(id, u)'
               PROVE  t = u
    BY DEF OneTextPerId
  <2>1. CASE Claim(id, t) /\ Claim(id, u)
    BY <1>1, <2>1 DEF OneTextPerId
  <2>2. CASE ~Claim(id, t) \/ ~Claim(id, u)
    <3>1. ~Claim(id, t) /\ ~Claim(id, u)
      BY <1>7, <1>8, <1>9, <2>2
    <3> QED  BY <1>7, <1>8, <3>1
  <2> QED  BY <2>1, <2>2
<1>11. TypeOK'
  BY <1>1, <1>2, <1>6, HeldTypes DEF TypeOK, RequestsTyped
<1>12. VectorsTrue' /\ CitationsTrue'
  BY <1>1, <1>2 DEF VectorsTrue, CitationsTrue
<1> QED  BY <1>6, <1>10, <1>11, <1>12 DEF StoreInv

\* What an ingest has built is not empty.
LEMMA BuildsSomething ==
  ASSUME TypeOK, RequestsTyped, NEW r \in Requests, IngestBuild(r)
  PROVE  req'[r].chunks # <<>>
<1>1. PICK f \in Adoptions(body), card \in Cards \cup {NoCard} :
        /\ Cardinality(Free) > Len(body)
        /\ Begin(r, [Idle EXCEPT !.stage = "built", !.chunks = BodyList(f) \o CardList(card)])
  BY DEF IngestBuild, BodyList, CardList, FreshList
<1> DEFINE list == BodyList(f) \o CardList(card)
           q == [Idle EXCEPT !.stage = "built", !.chunks = list]
<1>2. list \in Seq(Chunks) /\ Len(list) >= Len(body)
  BY <1>1, NewList
<1> HIDE DEF list
<1>3. q \in ReqRow /\ q.chunks = list
  <2>1. PICK none : none = [Idle EXCEPT !.stage = "built"]
    OBVIOUS
  <2>2. none \in ReqRow
    BY <2>1, IdleRow DEF Stages
  <2>3. q = [none EXCEPT !.chunks = list]
    BY <2>1, Zenon
  <2> QED  BY <1>2, <2>2, <2>3 DEF ReqRow
<1> HIDE DEF q
<1>4. Begin(r, q)
  BY <1>1 DEF q, list
<1>5. req'[r].chunks = list
  BY <1>3, <1>4, BeginStep
<1>6. Len(body) \in Nat \ {0}
  <2>1. body \in Seq(Texts) /\ body # <<>>
    BY BodyTexts DEF IngestBuild
  <2> QED  BY <2>1
<1>7. Len(list) # 0
  BY <1>2, <1>6
<1>8. list # <<>>
  BY <1>7
<1> QED  BY <1>5, <1>8

-----------------------------------------------------------------------------
(* The other steps *)

\* A step after which requests hold no more than before, and rows and citations
\* are the same.
LEMMA QuietStep ==
  ASSUME StoreInv, UNCHANGED <<rows, meta, citations>>, RequestsTyped',
         \A s \in Requests : \A id, t : Held(s, id, t)' => Held(s, id, t),
         present' \in BOOLEAN, body' \in Bodies, model' \in Models, starts' \in 0 .. MaxStarts
  PROVE  StoreInv'
<1>1. OneTextPerId'
  <2>1. \A id, t : Claim(id, t)' => Claim(id, t)
    BY DEF Claim
  <2> QED  BY <2>1, FewerClaims DEF StoreInv
<1>2. TypeOK'
  BY HeldTypes DEF StoreInv, TypeOK, RequestsTyped
<1>3. VectorsTrue' /\ CitationsTrue'
  BY DEF StoreInv, VectorsTrue, CitationsTrue
<1> QED  BY <1>1, <1>2, <1>3 DEF StoreInv

\* The ids stored now are read.
LEMMA IngestSelectStep ==
  ASSUME StoreInv, NEW r \in Requests, IngestSelect(r)
  PROVE  StoreInv'
<1>1. req \in [Requests -> ReqRow] /\ DOMAIN rows \in SUBSET Ids
  BY DEF StoreInv, RequestsTyped, TypeOK
<1>2. req[r] \in ReqRow
  BY <1>1
<1>3. PICK q : q = [req[r] EXCEPT !.stage = "selected", !.existing = DOMAIN rows]
  OBVIOUS
<1>4. q \in ReqRow /\ q.chunks = req[r].chunks /\ q.batch = req[r].batch
  BY <1>1, <1>2, <1>3 DEF ReqRow, Stages
<1>5. req' = [req EXCEPT ![r] = q]
  BY <1>3 DEF IngestSelect
<1>6. RequestsTyped'
  BY <1>1, <1>4, <1>5 DEF RequestsTyped
<1>7. \A s \in Requests : req'[s].chunks = req[s].chunks /\ req'[s].batch = req[s].batch
  BY <1>1, <1>4, <1>5
<1>8. \A s \in Requests : \A id, t : Held(s, id, t)' => Held(s, id, t)
  BY <1>7 DEF Held
<1> QED  BY <1>6, <1>8, QuietStep DEF IngestSelect, StoreInv, TypeOK

\* A request ends without a write.
LEMMA EndedStep ==
  ASSUME StoreInv, NEW r \in Requests, Fail(r) \/ Answered(r)
  PROVE  StoreInv'
<1>1. PICK s \in Stages : req' = [req EXCEPT ![r] = [Idle EXCEPT !.stage = s]]
  <2>1. CASE Fail(r)
    BY <2>1 DEF Fail, End, Stages
  <2>2. CASE Answered(r)
    <3>1. Idle = [Idle EXCEPT !.stage = "idle"]
      BY IdleIsIdle
    <3> QED  BY <2>2, <3>1 DEF Answered, Stages
  <2> QED  BY <2>1, <2>2
<1>2. /\ RequestsTyped'
      /\ \A q \in Requests : \A id, t : Held(q, id, t)' => Held(q, id, t)
  BY <1>1, EndStep DEF StoreInv
<1>3. UNCHANGED <<present, rows, meta, citations, body, model, starts>>
  BY DEF Fail, Answered
<1> QED  BY <1>2, <1>3, QuietStep DEF StoreInv, TypeOK

\* A request that finds no text holds nothing.
LEMMA IngestRefuseStep ==
  ASSUME StoreInv, NEW r \in Requests, IngestRefuse(r)
  PROVE  StoreInv'
<1>1. PICK q : q = [Idle EXCEPT !.stage = "failed"]
  OBVIOUS
<1>2. q \in ReqRow /\ q.chunks = <<>> /\ q.batch = <<>> /\ DOMAIN <<>> = {}
  BY <1>1, IdleRow DEF Stages
<1>3. Begin(r, q)
  BY <1>1 DEF IngestRefuse
<1>4. /\ RequestsTyped' /\ starts' \in 0 .. MaxStarts
      /\ req'[r].chunks = <<>> /\ req'[r].batch = <<>>
      /\ \A s \in Requests \ {r} :
           req'[s].chunks = req[s].chunks /\ req'[s].batch = req[s].batch
  BY <1>2, <1>3, BeginStep DEF StoreInv
<1>5. \A s \in Requests : \A id, t : Held(s, id, t)' => Held(s, id, t)
  BY <1>2, <1>4 DEF Held
<1> QED  BY <1>4, <1>5, QuietStep DEF IngestRefuse, StoreInv, TypeOK

\* The service comes back: nothing is held in memory.
LEMMA RestartStep ==
  ASSUME StoreInv, NEW b \in Bodies, NEW m \in Models, Restart(b, m)
  PROVE  StoreInv'
<1>1. req' = [r \in Requests |-> Idle]
  BY DEF Restart
<1>2. Idle \in ReqRow /\ Idle.chunks = <<>> /\ Idle.batch = <<>> /\ DOMAIN <<>> = {}
  <2>1. Idle = [Idle EXCEPT !.stage = "idle"]
    BY IdleIsIdle
  <2> QED  BY <2>1, IdleRow, Zenon DEF Stages
<1>3. RequestsTyped'
  BY <1>1, <1>2 DEF RequestsTyped
<1>4. \A s \in Requests : \A id, t : ~Held(s, id, t)'
  BY <1>1, <1>2 DEF Held
<1> QED  BY <1>3, <1>4, QuietStep DEF Restart, StoreInv, TypeOK

\* A citation is of the text its chunk has now.
LEMMA CiteStep ==
  ASSUME StoreInv, NEW id \in Ids, Cite(id)
  PROVE  StoreInv'
<1>1. TypeOK' /\ RequestsTyped'
  BY HeldTypes DEF StoreInv, TypeOK, RequestsTyped, Cite, Rows
<1>2. OneTextPerId'
  BY DEF StoreInv, OneTextPerId, Claim, Held, Cite
<1>3. VectorsTrue' /\ CitationsTrue'
  BY DEF StoreInv, VectorsTrue, CitationsTrue, Cite
<1> QED  BY <1>1, <1>2, <1>3 DEF StoreInv

\* A deleted paper has no rows, no vectors and no citations.
LEMMA RemovePaperStep ==
  ASSUME StoreInv, RemovePaper
  PROVE  StoreInv'
<1>1. DOMAIN rows' = {} /\ DOMAIN meta' = {} /\ citations' = {}
  BY DEF RemovePaper
<1>2. present' \in BOOLEAN
  BY Zenon DEF RemovePaper
<1>3. TypeOK' /\ RequestsTyped'
  BY <1>1, <1>2 DEF StoreInv, TypeOK, RequestsTyped, RemovePaper
<1>4. OneTextPerId'
  <2>1. \A s \in Requests : \A id, t : Held(s, id, t)' => Held(s, id, t)
    BY DEF Held, RemovePaper
  <2>2. \A id, t : Claim(id, t)' => Claim(id, t)
    BY <1>1, <2>1 DEF Claim
  <2> QED  BY <2>2, FewerClaims DEF StoreInv
<1>5. VectorsTrue' /\ CitationsTrue'
  BY <1>1 DEF VectorsTrue, CitationsTrue
<1> QED  BY <1>3, <1>4, <1>5 DEF StoreInv

\* The vectors that are missing are read, with the texts of their rows.
LEMMA EmbedReadStep ==
  ASSUME StoreInv, NEW r \in Requests, EmbedRead(r)
  PROVE  StoreInv'
<1>1. TypeOK /\ RequestsTyped /\ OneTextPerId /\ VectorsTrue /\ CitationsTrue
  BY DEF StoreInv
<1> DEFINE batch == [id \in Unembedded |-> rows[id].text]
<1>2. PICK q \in ReqRow :
        /\ Begin(r, q) /\ q.chunks = <<>>
        /\ q.batch = <<>> \/ q.batch = batch
  <2>1. CASE Unembedded = {}
    <3>1. [Idle EXCEPT !.stage = "completed"] \in ReqRow
          /\ [Idle EXCEPT !.stage = "completed"].chunks = <<>>
          /\ [Idle EXCEPT !.stage = "completed"].batch = <<>>
      BY IdleRow DEF Stages
    <3> QED  BY <2>1, <3>1 DEF EmbedRead
  <2>2. CASE Unembedded # {}
    <3>1. batch \in Batches
      <4>1. \A id \in Unembedded : id \in Ids /\ rows[id].text \in Texts
        BY <1>1 DEF Unembedded, TypeOK, Rows
      <4>2. Unembedded \in SUBSET Ids /\ batch \in [Unembedded -> Texts]
        BY <4>1
      <4> QED  BY <4>2 DEF Batches
    <3> HIDE DEF batch
    <3>2. PICK none : none = [Idle EXCEPT !.stage = "encoded"]
      OBVIOUS
    <3>3. none \in ReqRow /\ none.chunks = <<>>
      BY <3>2, IdleRow DEF Stages
    <3>4. PICK q : q = [none EXCEPT !.batch = batch]
      OBVIOUS
    <3>5. q \in ReqRow /\ q.chunks = <<>> /\ q.batch = batch
      BY <3>1, <3>3, <3>4 DEF ReqRow
    <3>6. q = [Idle EXCEPT !.stage = "encoded", !.batch = batch]
      BY <3>2, <3>4, Zenon
    <3>7. Begin(r, q)
      BY <2>2, <3>6 DEF EmbedRead, batch
    <3> QED  BY <3>5, <3>7
  <2> QED  BY <2>1, <2>2
<1>3. /\ RequestsTyped' /\ starts' \in 0 .. MaxStarts
      /\ req'[r].chunks = <<>> /\ req'[r].batch = q.batch
      /\ \A s \in Requests \ {r} :
           req'[s].chunks = req[s].chunks /\ req'[s].batch = req[s].batch
  BY <1>1, <1>2, BeginStep
<1>4. UNCHANGED <<present, rows, meta, citations, body, model>>
  BY DEF EmbedRead
<1>5. ASSUME NEW id, NEW t, Claim(id, t)' PROVE Claim(id, t)
  <2>1. CASE id \in DOMAIN rows /\ rows[id].text = t
    BY <2>1 DEF Claim
  <2>2. CASE Held(r, id, t)'
    <3>1. DOMAIN <<>> = {}
      OBVIOUS
    <3>2. id \in DOMAIN q.batch /\ q.batch[id] = t
      BY <1>3, <2>2, <3>1 DEF Held
    <3>3. id \in Unembedded /\ rows[id].text = t
      BY <1>2, <3>1, <3>2
    <3> QED  BY <3>3 DEF Unembedded, Claim
  <2>3. CASE \E s \in Requests \ {r} : Held(s, id, t)'
    <3>1. PICK s \in Requests \ {r} : Held(s, id, t)'
      BY <2>3
    <3>2. Held(s, id, t)
      BY <1>3, <3>1 DEF Held
    <3> QED  BY <3>2 DEF Claim
  <2> QED  BY <1>4, <1>5, <2>1, <2>2, <2>3 DEF Claim
<1>6. OneTextPerId'
  BY <1>1, <1>5, FewerClaims
<1>7. TypeOK'
  BY <1>1, <1>3, <1>4, HeldTypes DEF TypeOK, RequestsTyped
<1>8. VectorsTrue' /\ CitationsTrue'
  BY <1>1, <1>4 DEF VectorsTrue, CitationsTrue
<1> QED  BY <1>3, <1>6, <1>7, <1>8 DEF StoreInv

\* The vectors are written, each to the row whose text it is of.
LEMMA EmbedWriteStep ==
  ASSUME StoreInv, NEW r \in Requests, EmbedWrite(r)
  PROVE  StoreInv'
<1>1. TypeOK /\ RequestsTyped /\ OneTextPerId /\ VectorsTrue /\ CitationsTrue
  BY DEF StoreInv
<1> DEFINE batch == req[r].batch
<1>2. /\ DOMAIN batch \subseteq DOMAIN rows
      /\ rows' = [id \in DOMAIN rows |->
                    IF id \in DOMAIN batch
                    THEN [rows[id] EXCEPT !.vec = [text |-> batch[id], model |-> model]]
                    ELSE rows[id]]
      /\ meta' = [id \in DOMAIN meta \cup DOMAIN batch |->
                    IF id \in DOMAIN batch THEN model ELSE meta[id]]
      /\ UNCHANGED <<present, citations, body, model, starts>>
      /\ req' = [req EXCEPT ![r] = [Idle EXCEPT !.stage = "completed"]]
  BY DEF EmbedWrite, End
<1>3. /\ RequestsTyped'
      /\ \A q \in Requests : \A id, t : Held(q, id, t)' => Held(q, id, t)
  BY <1>1, <1>2, EndStep DEF Stages
<1>4. ASSUME NEW id \in DOMAIN batch
      PROVE  /\ batch[id] \in Texts /\ batch[id] = rows[id].text
             /\ [text |-> batch[id], model |-> model] \in Vectors
  <2>1. id \in Ids /\ batch[id] \in Texts /\ rows[id].text \in Texts /\ model \in Models
    BY <1>1, <1>2 DEF TypeOK, Rows
  <2>2. Claim(id, batch[id]) /\ Claim(id, rows[id].text)
    BY <1>2 DEF Claim, Held
  <2> QED  BY <1>1, <2>1, <2>2 DEF OneTextPerId, Vectors
<1>5. ASSUME NEW id \in DOMAIN rows
      PROVE  /\ rows'[id] \in Rows /\ rows'[id].text = rows[id].text
             /\ id \in DOMAIN batch => rows'[id].vec = [text |-> batch[id], model |-> model]
             /\ id \notin DOMAIN batch => rows'[id] = rows[id]
  <2>1. rows[id] \in Rows
    BY <1>1 DEF TypeOK
  <2>2. CASE id \in DOMAIN batch
    <3>1. PICK v : v = [text |-> batch[id], model |-> model]
      OBVIOUS
    <3>2. v \in Vectors
      BY <1>4, <2>2, <3>1
    <3>3. rows'[id] = [rows[id] EXCEPT !.vec = v]
      BY <1>2, <2>2, <3>1
    <3> QED  BY <2>1, <2>2, <3>1, <3>2, <3>3 DEF Rows
  <2>3. CASE id \notin DOMAIN batch
    BY <1>2, <2>1, <2>3
  <2> QED  BY <2>2, <2>3
<1> HIDE DEF batch
<1>6. DOMAIN rows' = DOMAIN rows /\ DOMAIN meta' = DOMAIN meta \cup DOMAIN batch
  BY <1>2
<1>7. OneTextPerId'
  <2>1. \A id, t : Claim(id, t)' => Claim(id, t)
    BY <1>3, <1>5, <1>6 DEF Claim
  <2> QED  BY <1>1, <2>1, FewerClaims
<1>8. TypeOK'
  <2>1. DOMAIN rows' \subseteq Ids /\ \A i \in DOMAIN rows' : rows'[i] \in Rows
    BY <1>1, <1>5, <1>6 DEF TypeOK
  <2>2. DOMAIN meta' \subseteq DOMAIN rows' /\ \A i \in DOMAIN meta' : meta'[i] \in Models
    BY <1>1, <1>2, <1>6 DEF TypeOK
  <2>3. citations' \subseteq [chunk : DOMAIN rows', text : Texts]
    BY <1>1, <1>2, <1>6 DEF TypeOK
  <2>4. present' \in BOOLEAN /\ body' \in Bodies /\ model' \in Models /\ starts' \in 0 .. MaxStarts
    BY <1>1, <1>2 DEF TypeOK
  <2> QED  BY <1>3, <2>1, <2>2, <2>3, <2>4, HeldTypes DEF TypeOK, RequestsTyped
<1>9. VectorsTrue'
  <2> SUFFICES ASSUME NEW id \in DOMAIN rows
               PROVE  IF rows'[id].vec = NoVec THEN id \notin DOMAIN meta'
                      ELSE /\ rows'[id].vec.text = rows'[id].text
                           /\ id \in DOMAIN meta' /\ meta'[id] = rows'[id].vec.model
    BY <1>6 DEF VectorsTrue
  <2>1. CASE id \in DOMAIN batch
    <3>1. PICK v : v = [text |-> batch[id], model |-> model]
      OBVIOUS
    <3>2. rows'[id].vec = v /\ v.text = rows'[id].text /\ v.model = model
      BY <1>4, <1>5, <2>1, <3>1 DEF batch
    <3>3. id \in DOMAIN meta' /\ meta'[id] = model
      BY <1>2, <1>6, <2>1 DEF batch
    <3>4. v # NoVec
      <4>1. v \in Vectors /\ NoVec \notin Vectors
        BY <1>4, <2>1, <3>1, VecAssumption DEF batch
      <4> QED  BY <4>1
    <3> QED  BY <3>2, <3>3, <3>4
  <2>2. CASE id \notin DOMAIN batch
    <3>1. /\ rows'[id] = rows[id] /\ (id \in DOMAIN meta' <=> id \in DOMAIN meta)
          /\ id \in DOMAIN meta => meta'[id] = meta[id]
      BY <1>2, <1>5, <1>6, <2>2 DEF batch
    <3> QED  BY <1>1, <3>1 DEF VectorsTrue
  <2> QED  BY <2>1, <2>2
<1>10. CitationsTrue'
  BY <1>1, <1>2, <1>5, <1>6 DEF CitationsTrue
<1> QED  BY <1>3, <1>7, <1>8, <1>9, <1>10 DEF StoreInv

-----------------------------------------------------------------------------
(* The commit of an ingest *)

\* What a row that the commit writes comes from: an entry of the list, or a row
\* of another request; a vector stays only with a row that stays.
LEMMA CommittedRows ==
  ASSUME StoreInv, NEW r \in Requests, IngestCommit(r)
  PROVE  /\ DOMAIN rows' \subseteq Ids
         /\ \A id \in DOMAIN rows' :
              \/ id \in DOMAIN rows /\ rows'[id] = rows[id]
              \/ /\ \E i \in DOMAIN req[r].chunks :
                      req[r].chunks[i].id = id /\ req[r].chunks[i].text = rows'[id].text
                 /\ rows'[id].text \in Texts /\ rows'[id].index \in Nat
                 /\ rows'[id] = [text |-> rows'[id].text, index |-> rows'[id].index,
                                 vec |-> rows'[id].vec]
                 /\ \/ rows'[id].vec = NoVec
                    \/ id \in DOMAIN rows /\ rows'[id].vec = rows[id].vec
         /\ DOMAIN meta' = {id \in DOMAIN rows' \cap DOMAIN meta : rows'[id].vec # NoVec}
         /\ \A id \in DOMAIN meta' : meta'[id] = meta[id]
         /\ \A k \in citations' : k \in citations /\ k.chunk \in DOMAIN rows'
         /\ UNCHANGED <<present, body, model, starts>>
         /\ req' = [req EXCEPT ![r] = [Idle EXCEPT !.stage = "completed"]]
<1> DEFINE chunks  == req[r].chunks
           reused  == {c.id : c \in {k \in ToSet(chunks) : k.reuse}} \cap req[r].existing
           stale   == req[r].existing \ reused
           others  == DOMAIN rows \ (stale \cup reused)
           inserts == {i \in DOMAIN chunks : chunks[i].id \notin reused}
           written == {i \in DOMAIN chunks : i \in inserts \/ chunks[i].id \in DOMAIN rows}
           at(id)  == CHOOSE i \in written : chunks[i].id = id
           newRow(i) ==
             [text |-> chunks[i].text, index |-> i - 1,
              vec |-> IF i \notin inserts /\ chunks[i].keep THEN rows[chunks[i].id].vec ELSE NoVec]
           left    == others \cup {chunks[i].id : i \in written}
           vector(id) == IF id \in others THEN rows[id].vec ELSE newRow(at(id)).vec
<1>1. /\ rows' = [id \in left |-> IF id \in others THEN rows[id] ELSE newRow(at(id))]
      /\ meta' = [id \in {i \in left \cap DOMAIN meta : vector(i) # NoVec} |-> meta[id]]
      /\ citations' = {k \in citations : k.chunk \in left \ stale}
      /\ UNCHANGED <<present, body, model, starts>>
      /\ req' = [req EXCEPT ![r] = [Idle EXCEPT !.stage = "completed"]]
  BY Zenon DEF IngestCommit, End
<1>2. chunks \in Seq(Chunks) /\ DOMAIN rows \subseteq Ids
  BY HeldTypes DEF StoreInv, TypeOK, RequestsTyped
<1>3. DOMAIN chunks = 1 .. Len(chunks) /\ Len(chunks) \in Nat
      /\ \A i \in DOMAIN chunks : chunks[i] \in Chunks
  BY <1>2
<1>4. \A i \in DOMAIN chunks : chunks[i].id \in Ids /\ chunks[i].text \in Texts /\ i - 1 \in Nat
  BY <1>3 DEF Chunks
<1>5. ASSUME NEW id \in left, id \notin others
      PROVE  at(id) \in written /\ chunks[at(id)].id = id
  <2>1. \E i \in written : chunks[i].id = id
    BY <1>5
  <2> QED  BY <2>1
<1>6. ASSUME NEW id \in left, id \notin others
      PROVE  \E i \in DOMAIN chunks :
               /\ chunks[i].id = id /\ rows'[id] = newRow(i)
               /\ newRow(i).vec = NoVec \/ (id \in DOMAIN rows /\ newRow(i).vec = rows[id].vec)
  <2>0. PICK i : i = at(id)
    OBVIOUS
  <2>1. i \in written /\ i \in DOMAIN chunks /\ chunks[i].id = id
    BY <1>5, <1>6, <2>0
  <2>2. rows'[id] = newRow(i)
    BY <1>1, <1>6, <2>0, Zenon
  <2>3. CASE i \notin inserts
    <3>1. id \in DOMAIN rows
      BY <2>1, <2>3
    <3>2. newRow(i).vec = rows[id].vec \/ newRow(i).vec = NoVec
      BY <2>1
    <3> QED  BY <2>1, <2>2, <3>1, <3>2
  <2>4. CASE i \in inserts
    <3>1. newRow(i).vec = NoVec
      BY <2>4
    <3> QED  BY <2>1, <2>2, <3>1
  <2> QED  BY <2>3, <2>4
<1>7. left \subseteq Ids
  BY <1>2, <1>4
<1>8. DOMAIN rows' = left
  BY <1>1, Zenon
<1>9. ASSUME NEW id \in left
      PROVE  \/ id \in DOMAIN rows /\ rows'[id] = rows[id]
             \/ /\ \E i \in DOMAIN chunks : chunks[i].id = id /\ chunks[i].text = rows'[id].text
                /\ rows'[id].text \in Texts /\ rows'[id].index \in Nat
                /\ rows'[id] = [text |-> rows'[id].text, index |-> rows'[id].index,
                                vec |-> rows'[id].vec]
                /\ \/ rows'[id].vec = NoVec
                   \/ id \in DOMAIN rows /\ rows'[id].vec = rows[id].vec
  <2>1. CASE id \in others
    <3>1. rows'[id] = rows[id]
      BY <1>1, <2>1, Zenon
    <3> QED  BY <2>1, <3>1
  <2>2. CASE id \notin others
    <3>1. PICK i \in DOMAIN chunks :
            /\ chunks[i].id = id /\ rows'[id] = newRow(i)
            /\ newRow(i).vec = NoVec \/ (id \in DOMAIN rows /\ newRow(i).vec = rows[id].vec)
      BY <1>6, <2>2, Zenon
    <3>2. PICK v : v = newRow(i).vec
      OBVIOUS
    <3>3. newRow(i) = [text |-> chunks[i].text, index |-> i - 1, vec |-> v]
      BY <3>2
    <3>4. rows'[id] = [text |-> chunks[i].text, index |-> i - 1, vec |-> v]
      BY <3>1, <3>3, Zenon
    <3>5. v = NoVec \/ (id \in DOMAIN rows /\ v = rows[id].vec)
      BY <3>1, <3>2, Zenon
    <3> HIDE DEF chunks
    <3> QED  BY <1>4, <3>1, <3>4, <3>5
  <2> QED  BY <2>1, <2>2
<1>10. \A id \in left : vector(id) = rows'[id].vec
  <2> SUFFICES ASSUME NEW id \in left PROVE vector(id) = rows'[id].vec
    OBVIOUS
  <2>1. CASE id \in others
    BY <1>1, <2>1, Zenon
  <2>2. CASE id \notin others
    BY <1>1, <2>2, Zenon
  <2> QED  BY <2>1, <2>2
<1>11. /\ DOMAIN meta' = {id \in DOMAIN rows' \cap DOMAIN meta : rows'[id].vec # NoVec}
       /\ \A id \in DOMAIN meta' : meta'[id] = meta[id]
  <2> HIDE DEF left, vector
  <2>1. DOMAIN meta' = {id \in left \cap DOMAIN meta : vector(id) # NoVec}
        /\ \A id \in DOMAIN meta' : meta'[id] = meta[id]
    BY <1>1, Zenon
  <2> QED  BY <1>8, <1>10, <2>1
<1>12. \A k \in citations' : k \in citations /\ k.chunk \in DOMAIN rows'
  <2> HIDE DEF left, stale
  <2> QED  BY <1>1, <1>8
<1> HIDE DEF left, chunks
<1>13. DOMAIN rows' \subseteq Ids
  BY <1>7, <1>8
<1> QED  BY <1>1, <1>8, <1>9, <1>11, <1>12, <1>13, Zenon DEF chunks

\* The commit stores no text under an id that stands for another one.
LEMMA IngestCommitStep ==
  ASSUME StoreInv, NEW r \in Requests, IngestCommit(r)
  PROVE  StoreInv'
<1>1. TypeOK /\ RequestsTyped /\ OneTextPerId /\ VectorsTrue /\ CitationsTrue
  BY DEF StoreInv
<1> DEFINE Kept(id)  == id \in DOMAIN rows /\ rows'[id] = rows[id]
           Wrote(id) ==
             /\ \E i \in DOMAIN req[r].chunks :
                  req[r].chunks[i].id = id /\ req[r].chunks[i].text = rows'[id].text
             /\ rows'[id].text \in Texts /\ rows'[id].index \in Nat
             /\ rows'[id] = [text |-> rows'[id].text, index |-> rows'[id].index,
                             vec |-> rows'[id].vec]
             /\ \/ rows'[id].vec = NoVec
                \/ id \in DOMAIN rows /\ rows'[id].vec = rows[id].vec
<1>2. /\ DOMAIN rows' \subseteq Ids
      /\ \A id \in DOMAIN rows' : Kept(id) \/ Wrote(id)
      /\ DOMAIN meta' = {id \in DOMAIN rows' \cap DOMAIN meta : rows'[id].vec # NoVec}
      /\ \A id \in DOMAIN meta' : meta'[id] = meta[id]
      /\ \A k \in citations' : k \in citations /\ k.chunk \in DOMAIN rows'
      /\ UNCHANGED <<present, body, model, starts>>
      /\ req' = [req EXCEPT ![r] = [Idle EXCEPT !.stage = "completed"]]
  BY CommittedRows
<1>3. /\ RequestsTyped'
      /\ \A q \in Requests : \A id, t : Held(q, id, t)' => Held(q, id, t)
  BY <1>1, <1>2, EndStep DEF Stages
<1>4. ASSUME NEW id \in DOMAIN rows' PROVE Claim(id, rows'[id].text)
  <2>1. CASE Kept(id)
    BY <2>1 DEF Claim
  <2>2. CASE Wrote(id)
    <3>1. Held(r, id, rows'[id].text)
      BY <2>2 DEF Held
    <3> QED  BY <3>1 DEF Claim
  <2> QED  BY <1>2, <2>1, <2>2
<1>5. OneTextPerId'
  <2>1. \A id, t : Claim(id, t)' => Claim(id, t)
    BY <1>3, <1>4 DEF Claim
  <2> QED  BY <1>1, <2>1, FewerClaims
<1>6. ASSUME NEW id \in DOMAIN rows'
      PROVE  /\ rows'[id] \in Rows
             /\ id \in DOMAIN rows => rows'[id].text = rows[id].text
             /\ \/ rows'[id].vec = NoVec
                \/ id \in DOMAIN rows /\ rows'[id].vec = rows[id].vec
  <2>1. CASE Kept(id)
    BY <1>1, <2>1 DEF TypeOK
  <2>2. CASE Wrote(id)
    <3>1. id \in Ids /\ rows'[id].text \in Texts
      BY <1>2, <2>2
    <3>2. id \in DOMAIN rows =>
            /\ rows[id].text \in Texts /\ rows[id].vec \in Vectors \cup {NoVec}
            /\ Claim(id, rows[id].text)
      BY <1>1 DEF TypeOK, Rows, Claim
    <3>3. id \in DOMAIN rows => rows'[id].text = rows[id].text
      BY <1>1, <1>4, <3>1, <3>2 DEF OneTextPerId
    <3>4. rows'[id].vec \in Vectors \cup {NoVec}
      BY <2>2, <3>2
    <3>5. rows'[id] \in Rows
      BY <2>2, <3>4 DEF Rows
    <3> QED  BY <2>2, <3>3, <3>5
  <2> QED  BY <1>2, <2>1, <2>2
<1> HIDE DEF Kept, Wrote
<1>7. TypeOK'
  <2>1. DOMAIN meta' \subseteq DOMAIN rows' /\ \A i \in DOMAIN meta' : meta'[i] \in Models
    BY <1>1, <1>2 DEF TypeOK
  <2>2. citations' \subseteq [chunk : DOMAIN rows', text : Texts]
    BY <1>1, <1>2 DEF TypeOK
  <2>3. present' \in BOOLEAN /\ body' \in Bodies /\ model' \in Models /\ starts' \in 0 .. MaxStarts
    BY <1>1, <1>2 DEF TypeOK
  <2> QED  BY <1>2, <1>3, <1>6, <2>1, <2>2, <2>3, HeldTypes DEF TypeOK, RequestsTyped
<1>8. VectorsTrue'
  <2> SUFFICES ASSUME NEW id \in DOMAIN rows'
               PROVE  IF rows'[id].vec = NoVec THEN id \notin DOMAIN meta'
                      ELSE /\ rows'[id].vec.text = rows'[id].text
                           /\ id \in DOMAIN meta' /\ meta'[id] = rows'[id].vec.model
    BY DEF VectorsTrue
  <2>1. CASE rows'[id].vec = NoVec
    BY <1>2, <2>1
  <2>2. CASE rows'[id].vec # NoVec
    <3>1. /\ id \in DOMAIN rows /\ rows'[id].vec = rows[id].vec
          /\ rows'[id].text = rows[id].text
      BY <1>6, <2>2
    <3>2. /\ rows[id].vec.text = rows[id].text
          /\ id \in DOMAIN meta /\ meta[id] = rows[id].vec.model
      BY <1>1, <2>2, <3>1 DEF VectorsTrue
    <3>3. id \in DOMAIN meta' /\ meta'[id] = meta[id]
      BY <1>2, <2>2, <3>2
    <3> QED  BY <2>2, <3>1, <3>2, <3>3
  <2> QED  BY <2>1, <2>2
<1>9. CitationsTrue'
  BY <1>1, <1>2, <1>6 DEF CitationsTrue
<1> QED  BY <1>3, <1>5, <1>7, <1>8, <1>9 DEF StoreInv

-----------------------------------------------------------------------------
(* Theorems *)

\* In every reachable state, wherever an id occurs, in a row, in the list a
\* request has built or in the batch it is encoding, it stands for one text.
THEOREM StoreInvariant == Spec => []StoreInv
<1>1. Init => StoreInv
  <2> SUFFICES ASSUME Init PROVE StoreInv
    OBVIOUS
  <2>1. DOMAIN rows = {} /\ DOMAIN meta = {} /\ citations = {}
    <3>1. DOMAIN <<>> = {}
      OBVIOUS
    <3> QED  BY <3>1 DEF Init
  <2>2. Idle \in ReqRow /\ Idle.chunks = <<>> /\ Idle.batch = <<>> /\ DOMAIN <<>> = {}
    BY IdleRow, IdleIsIdle, Zenon DEF Stages
  <2>3. RequestsTyped
    BY <2>2 DEF Init, RequestsTyped
  <2>4. present \in BOOLEAN
    BY Zenon DEF Init
  <2>5. body \in Bodies /\ model \in Models /\ starts \in 0 .. MaxStarts
    BY BoundsAssumption DEF Init
  <2>6. TypeOK
    BY <2>1, <2>3, <2>4, <2>5, HeldTypes DEF TypeOK, RequestsTyped
  <2>7. \A r \in Requests : \A id, t : ~Held(r, id, t)
    BY <2>2 DEF Init, Held
  <2>8. OneTextPerId
    BY <2>1, <2>7 DEF OneTextPerId, Claim
  <2>9. VectorsTrue /\ CitationsTrue
    BY <2>1 DEF VectorsTrue, CitationsTrue
  <2> QED  BY <2>3, <2>6, <2>8, <2>9 DEF StoreInv
<1>2. StoreInv /\ [Next]_vars => StoreInv'
  <2> SUFFICES ASSUME StoreInv, [Next]_vars PROVE StoreInv'
    OBVIOUS
  <2>1. CASE UNCHANGED vars
    <3>1. UNCHANGED <<present, rows, meta, citations, body, model, req, starts>>
      BY <2>1 DEF vars
    <3>2. RequestsTyped' /\ \A s \in Requests : \A id, t : Held(s, id, t)' => Held(s, id, t)
      BY <3>1 DEF StoreInv, RequestsTyped, Held
    <3> QED  BY <3>1, <3>2, QuietStep DEF StoreInv, TypeOK
  <2>2. CASE Next
    <3>1. CASE \E r \in Requests :
                 \/ IngestRefuse(r) \/ IngestBuild(r) \/ IngestSelect(r) \/ IngestCommit(r)
                 \/ EmbedRead(r) \/ EmbedWrite(r) \/ Fail(r) \/ Answered(r)
      BY <3>1, IngestRefuseStep, IngestBuildStep, IngestSelectStep, IngestCommitStep,
         EmbedReadStep, EmbedWriteStep, EndedStep
    <3>2. CASE \E id \in Ids : Cite(id)
      BY <3>2, CiteStep
    <3>3. CASE RemovePaper
      BY <3>3, RemovePaperStep
    <3>4. CASE \E b \in Bodies, m \in Models : Restart(b, m)
      BY <3>4, RestartStep
    <3> QED  BY <2>2, <3>1, <3>2, <3>3, <3>4 DEF Next
  <2> QED  BY <2>1, <2>2
<1> QED  BY <1>1, <1>2, PTL DEF Spec

\* A stored vector is of the text of its row, and its metadata names the model
\* that made it: an embed that began before an ingest and ends after it never
\* leaves a vector at a changed text.
THEOREM VectorsAreTrue == Spec => []VectorsTrue
<1>1. StoreInv => VectorsTrue
  BY DEF StoreInv
<1> QED  BY <1>1, StoreInvariant, PTL

\* A citation points to a row whose text is the text that was cited: ids are
\* adopted by equal text only, and a stale list never writes another.
THEOREM CitationsAreTrue == Spec => []CitationsTrue
<1>1. StoreInv => CitationsTrue
  BY DEF StoreInv
<1> QED  BY <1>1, StoreInvariant, PTL
-----------------------------------------------------------------------------
(* An ingest without company *)

\* The list an ingest builds fits the rows: where f says so it takes a stored row
\* of its text, elsewhere a new id, and no id twice.
Fits(list, f) ==
  /\ Len(list) \in {Len(body), Len(body) + 1}
  /\ \A i \in DOMAIN list :
       IF i \in DOMAIN body /\ f[i] # NoId
       THEN list[i].id = f[i] /\ list[i].reuse /\ (list[i].keep <=> StoredModel(f[i]) = model)
       ELSE list[i].id \notin DOMAIN rows /\ ~list[i].reuse
  /\ \A i \in DOMAIN body : list[i].text = body[i]
  /\ \A i, j \in DOMAIN list : list[i].id = list[j].id => i = j

\* An ingest that still has the paper for itself.
HasPaper(r) == req[r].stage \in {"built", "selected"} /\ req[r].alone

\* Nobody else can write, so what it read is still true.
ReadIsTrue(r) ==
  /\ \A s \in Requests \ {r} : ~Busy(s)
  /\ present => /\ \E f \in Adoptions(body) : Fits(req[r].chunks, f)
                /\ req[r].stage = "selected" => req[r].existing = DOMAIN rows

AloneInv == \A r \in Requests : HasPaper(r) => ReadIsTrue(r)

\* A request that starts takes the claim to the paper from all others.
LEMMA BeginAlone ==
  ASSUME RequestsTyped, NEW r \in Requests, NEW q \in ReqRow, Begin(r, q)
  PROVE  /\ req'[r].stage = q.stage /\ req'[r].chunks = q.chunks
         /\ req'[r].alone <=> \A t \in Requests : ~Busy(t)
         /\ \A s \in Requests \ {r} : req'[s].stage = req[s].stage /\ ~req'[s].alone
<1>1. PICK no \in BOOLEAN, alone \in BOOLEAN :
        no = FALSE /\ alone = (\A t \in Requests : ~Busy(t))
  BY Zenon
<1>2. req' = [s \in Requests |->
                IF s = r THEN [q EXCEPT !.alone = alone] ELSE [req[s] EXCEPT !.alone = no]]
  BY <1>1, Zenon DEF Begin
<1>3. \A s \in Requests : req[s] \in ReqRow
  BY DEF RequestsTyped
<1>4. \A row \in ReqRow, b \in BOOLEAN :
        /\ [row EXCEPT !.alone = b].alone = b
        /\ [row EXCEPT !.alone = b].stage = row.stage
        /\ [row EXCEPT !.alone = b].chunks = row.chunks
  BY DEF ReqRow
<1>5. /\ req'[r].stage = q.stage /\ req'[r].chunks = q.chunks /\ req'[r].alone = alone
      /\ \A s \in Requests \ {r} : req'[s].stage = req[s].stage /\ req'[s].alone = no
  BY <1>1, <1>2, <1>3, <1>4
<1> QED  BY <1>1, <1>5

\* A list fits as long as rows, parser and model are the same.
LEMMA FitsStill ==
  ASSUME UNCHANGED <<rows, meta, body, model>>
  PROVE  /\ Adoptions(body)' = Adoptions(body)
         /\ \A list, f : Fits(list, f)' <=> Fits(list, f)
BY DEF Adoptions, Fits, StoredModel

\* What is read stays true where the request and the rows stay as they are.
LEMMA StillTrue ==
  ASSUME NEW r \in Requests, ReadIsTrue(r), UNCHANGED <<rows, meta, body, model>>,
         present' => present, req'[r] = req[r], \A s \in Requests \ {r} : Busy(s)' => Busy(s)
  PROVE  ReadIsTrue(r)'
BY FitsStill DEF ReadIsTrue

\* The list of a new ingest fits.
LEMMA BuiltFits ==
  ASSUME TypeOK, NEW f \in Adoptions(body), NEW card \in Cards \cup {NoCard},
         Cardinality(Free) > Len(body)
  PROVE  Fits(BodyList(f) \o CardList(card), f)
<1> DEFINE front == BodyList(f)
           last  == CardList(card)
           list  == front \o last
           n     == Len(body)
<1>1. /\ n \in Nat /\ DOMAIN body = 1 .. n
      /\ front \in Seq(Chunks) /\ Len(front) = n
  BY BodyTexts, NewEntries
<1>2. FreshList \in [1 .. n + 1 -> Free] /\ Differ(FreshList)
  <2>1. Free \in SUBSET Ids
    BY DEF Free
  <2>2. Cardinality(Free) \in Nat
    BY <2>1, BoundsAssumption, FS_Subset, FS_CardinalityType
  <2>3. n + 1 \in Nat /\ Cardinality(Free) >= n + 1
    BY <1>1, <2>2
  <2> QED  BY <2>3, FreshIds, Zenon DEF FreshList
<1>3. \A i \in 1 .. n + 1 : FreshList[i] \in Ids /\ FreshList[i] \notin DOMAIN rows
  BY <1>2 DEF Free, IdsInUse
<1>4. \A i, j \in 1 .. n + 1 : FreshList[i] = FreshList[j] => i = j
  BY <1>2 DEF Differ
<1>5. /\ f \in [1 .. n -> DOMAIN rows \cup {NoId}]
      /\ \A i \in 1 .. n : f[i] # NoId =>
            f[i] \in DOMAIN rows /\ \A k \in 1 .. n : f[k] = f[i] => k = i
  BY <1>1 DEF Adoptions
<1>6. PICK no, yes : no = FALSE /\ yes = TRUE
  OBVIOUS
<1>7. ASSUME NEW i \in 1 .. n
      PROVE  /\ front[i].text = body[i]
             /\ f[i] = NoId => front[i].id = FreshList[i] /\ ~front[i].reuse
             /\ f[i] # NoId => /\ front[i].id = f[i] /\ front[i].reuse
                               /\ front[i].keep <=> StoredModel(f[i]) = model
  <2>1. CASE f[i] = NoId
    <3>1. front[i] = [id |-> FreshList[i], text |-> body[i], reuse |-> no, keep |-> no]
      BY <1>1, <1>6, <2>1, Zenon DEF BodyList
    <3>2. front[i].id = FreshList[i] /\ front[i].text = body[i] /\ front[i].reuse = no
      BY <3>1
    <3> QED  BY <1>6, <2>1, <3>2
  <2>2. CASE f[i] # NoId
    <3>1. PICK keep : keep = (StoredModel(f[i]) = model)
      OBVIOUS
    <3>2. front[i] = [id |-> f[i], text |-> body[i], reuse |-> yes, keep |-> keep]
      BY <1>1, <1>6, <2>2, <3>1, Zenon DEF BodyList
    <3>3. front[i].id = f[i] /\ front[i].text = body[i] /\ front[i].reuse = yes /\ front[i].keep = keep
      BY <3>2
    <3> QED  BY <1>6, <2>2, <3>1, <3>3
  <2> QED  BY <2>1, <2>2
<1>8. /\ last \in Seq(Chunks) /\ Len(last) \in {0, 1}
      /\ Len(last) = 1 => last[1].id = FreshList[n + 1] /\ ~last[1].reuse
  <2>1. CASE card = NoCard
    <3>1. last = <<>>
      BY <2>1 DEF CardList
    <3> QED  BY <3>1
  <2>2. CASE card # NoCard
    <3>1. PICK out \in BOOLEAN : out = FALSE
      BY Zenon
    <3>2. PICK c : c = [id |-> FreshList[n + 1], text |-> card, reuse |-> out, keep |-> out]
      OBVIOUS
    <3>3. card \in Texts /\ FreshList[n + 1] \in Ids
      BY <1>1, <1>3, <2>2, BodyTexts
    <3>4. c \in Chunks /\ c.id = FreshList[n + 1]
      BY <3>2, <3>3, ChunkRecord
    <3>5. c.reuse = out
      BY <3>2
    <3>6. last = <<c>>
      BY <2>2, <3>1, <3>2, Zenon DEF CardList
    <3> QED  BY <3>1, <3>4, <3>5, <3>6
  <2> QED  BY <2>1, <2>2
<1> HIDE DEF front, last
<1>9. /\ list \in Seq(Chunks) /\ Len(list) = n + Len(last) /\ DOMAIN list = 1 .. n + Len(last)
      /\ \A i \in 1 .. n : i \in DOMAIN list /\ list[i] = front[i]
      /\ \A i \in DOMAIN list : i \in 1 .. n \/ (i = n + 1 /\ Len(last) = 1 /\ list[i] = last[1])
  <2>1. ASSUME NEW s \in Seq(Chunks), NEW t \in Seq(Chunks), Len(t) \in {0, 1}
        PROVE  /\ s \o t \in Seq(Chunks) /\ Len(s \o t) = Len(s) + Len(t)
               /\ DOMAIN (s \o t) = 1 .. Len(s) + Len(t)
               /\ \A i \in 1 .. Len(s) : i \in DOMAIN (s \o t) /\ (s \o t)[i] = s[i]
               /\ \A i \in DOMAIN (s \o t) :
                    i \in 1 .. Len(s) \/ (i = Len(s) + 1 /\ Len(t) = 1 /\ (s \o t)[i] = t[1])
    <3>1. Len(s) \in Nat /\ s \o t \in Seq(Chunks) /\ Len(s \o t) = Len(s) + Len(t)
      BY <2>1, ConcatProperties, LenProperties
    <3>2. DOMAIN (s \o t) = 1 .. Len(s) + Len(t)
      BY <3>1, LenProperties, Zenon
    <3>3. \A i \in 1 .. Len(s) + Len(t) : (s \o t)[i] = IF i <= Len(s) THEN s[i] ELSE t[i - Len(s)]
      BY ConcatProperties, Zenon
    <3>4. ASSUME NEW a \in Nat, NEW b \in {0, 1}
          PROVE  /\ \A i \in 1 .. a : i \in 1 .. a + b /\ i <= a
                 /\ \A i \in 1 .. a + b :
                      i \in 1 .. a \/ (i = a + 1 /\ b = 1 /\ ~(i <= a) /\ i - a = 1)
      BY <3>4
    <3>5. \A i \in 1 .. Len(s) : i \in DOMAIN (s \o t) /\ (s \o t)[i] = s[i]
      BY <2>1, <3>1, <3>2, <3>3, <3>4, Zenon
    <3>6. \A i \in DOMAIN (s \o t) :
            i \in 1 .. Len(s) \/ (i = Len(s) + 1 /\ Len(t) = 1 /\ (s \o t)[i] = t[1])
      BY <2>1, <3>1, <3>2, <3>3, <3>4, Zenon
    <3> QED  BY <3>1, <3>2, <3>5, <3>6
  <2>2. front \in Seq(Chunks) /\ Len(front) = n /\ last \in Seq(Chunks) /\ Len(last) \in {0, 1}
    BY <1>1, <1>8
  <2> HIDE DEF n
  <2> QED  BY <2>1, <2>2, Zenon
<1> HIDE DEF list
<1>10. ASSUME NEW i \in DOMAIN list
       PROVE  IF i \in DOMAIN body /\ f[i] # NoId
              THEN list[i].id = f[i] /\ list[i].reuse /\ (list[i].keep <=> StoredModel(f[i]) = model)
              ELSE list[i].id = FreshList[i] /\ i \in 1 .. n + 1 /\ ~list[i].reuse
  BY <1>1, <1>7, <1>8, <1>9
<1>11. \A i, j \in DOMAIN list : list[i].id = list[j].id => i = j
  BY <1>1, <1>3, <1>4, <1>5, <1>10
<1>12. Len(list) \in {n, n + 1}
  <2>1. \A k \in Nat, m \in {0, 1} : k + m \in {k, k + 1}
    OBVIOUS
  <2> QED  BY <1>1, <1>8, <1>9, <2>1, Zenon
<1>13. \A i \in DOMAIN body : list[i].text = body[i]
  BY <1>1, <1>7, <1>9
<1> QED  BY <1>3, <1>10, <1>11, <1>12, <1>13 DEF Fits, list, front, last

\* Whoever has the paper for itself knows what is stored, after every step.
LEMMA AloneStep ==
  ASSUME StoreInv, AloneInv, Next
  PROVE  AloneInv'
<1> USE DEF AloneInv
<1>1. TypeOK /\ RequestsTyped
  BY DEF StoreInv
<1>2. req \in [Requests -> ReqRow]
  BY <1>1 DEF RequestsTyped

\* A request that ends, with or without a commit: none has the paper but it.
<1>3. ASSUME NEW r \in Requests, Busy(r) \/ UNCHANGED <<present, rows, meta, body, model>>,
             NEW q, q.stage \notin {"built", "selected", "encoded"},
             req' = [req EXCEPT ![r] = q]
      PROVE  AloneInv'
  <2> SUFFICES ASSUME NEW s \in Requests, HasPaper(s)' PROVE ReadIsTrue(s)'
    OBVIOUS
  <2>1. s # r
    BY <1>2, <1>3 DEF HasPaper
  <2>2. req'[s] = req[s] /\ HasPaper(s) /\ ReadIsTrue(s)
    BY <1>2, <1>3, <2>1 DEF HasPaper
  <2>3. ~Busy(r)
    BY <2>1, <2>2 DEF ReadIsTrue
  <2>4. \A t \in Requests \ {s} : Busy(t)' => Busy(t)
    BY <1>2, <1>3 DEF Busy
  <2> QED  BY <1>3, <2>2, <2>3, <2>4, StillTrue
<1>4. ASSUME NEW r \in Requests, Fail(r) \/ Answered(r) PROVE AloneInv'
  <2>1. PICK s \in {"idle", "failed"} : req' = [req EXCEPT ![r] = [Idle EXCEPT !.stage = s]]
    <3>1. Idle = [Idle EXCEPT !.stage = "idle"]
      BY IdleIsIdle
    <3> QED  BY <1>4, <3>1, Zenon DEF Fail, Answered, End
  <2>2. PICK q : q = [Idle EXCEPT !.stage = s]
    OBVIOUS
  <2>3. q.stage = s
    BY <2>2 DEF Idle
  <2>4. UNCHANGED <<present, rows, meta, body, model>>
    BY <1>4 DEF Fail, Answered
  <2> QED  BY <1>3, <2>1, <2>2, <2>3, <2>4
<1>5. ASSUME NEW r \in Requests, IngestCommit(r) \/ EmbedWrite(r) PROVE AloneInv'
  <2>1. PICK q : q = [Idle EXCEPT !.stage = "completed"]
    OBVIOUS
  <2>2. q.stage = "completed"
    BY <2>1 DEF Idle
  <2>3. req' = [req EXCEPT ![r] = q] /\ Busy(r)
    BY <1>5, <2>1, Zenon DEF IngestCommit, EmbedWrite, End, Busy
  <2> QED  BY <1>3, <2>2, <2>3
\* A request that starts takes the paper from whoever had it.
<1>6. ASSUME NEW r \in Requests, NEW q \in ReqRow, Begin(r, q),
             HasPaper(r)' => ReadIsTrue(r)'
      PROVE  AloneInv'
  <2>1. \A s \in Requests \ {r} : ~HasPaper(s)'
    BY <1>1, <1>6, BeginAlone DEF HasPaper
  <2> QED  BY <1>6, <2>1
<1>7. ASSUME NEW r \in Requests, IngestRefuse(r) \/ EmbedRead(r) PROVE AloneInv'
  <2> DEFINE batch == [id \in Unembedded |-> rows[id].text]
  <2>1. PICK q : Begin(r, q) /\ q \in ReqRow /\ q.stage \in {"failed", "completed", "encoded"}
    <3>1. \A s \in {"failed", "completed", "encoded"} :
            [Idle EXCEPT !.stage = s] \in ReqRow /\ [Idle EXCEPT !.stage = s].stage = s
      <4>1. \A s : [Idle EXCEPT !.stage = s].stage = s
        BY DEF Idle
      <4> QED  BY <4>1, IdleRow DEF Stages
    <3>2. batch \in Batches
      <4>1. Unembedded \in SUBSET Ids /\ \A id \in Unembedded : rows[id].text \in Texts
        BY <1>1 DEF TypeOK, Unembedded, Rows
      <4>2. batch \in [Unembedded -> Texts]
        BY <4>1
      <4> QED  BY <4>1, <4>2 DEF Batches
    <3>3. PICK none : none = [Idle EXCEPT !.stage = "encoded"]
      OBVIOUS
    <3>4. [none EXCEPT !.batch = batch] \in ReqRow /\ [none EXCEPT !.batch = batch].stage = "encoded"
      BY <3>1, <3>2, <3>3 DEF ReqRow
    <3>5. [none EXCEPT !.batch = batch] = [Idle EXCEPT !.stage = "encoded", !.batch = batch]
      BY <3>3, Zenon
    <3>6. CASE IngestRefuse(r)
      BY <3>1, <3>6 DEF IngestRefuse
    <3>7. CASE EmbedRead(r)
      <4>1. CASE Unembedded = {}
        BY <3>1, <3>7, <4>1 DEF EmbedRead
      <4>2. CASE Unembedded # {}
        BY <3>4, <3>5, <3>7, <4>2 DEF EmbedRead
      <4> QED  BY <4>1, <4>2
    <3> QED  BY <1>7, <3>6, <3>7
  <2>2. ~HasPaper(r)'
    BY <1>1, <2>1, BeginAlone DEF HasPaper
  <2> QED  BY <1>6, <2>1, <2>2
<1>8. ASSUME NEW r \in Requests, IngestBuild(r) PROVE AloneInv'
  <2>1. PICK f \in Adoptions(body), card \in Cards \cup {NoCard} :
          /\ Cardinality(Free) > Len(body)
          /\ Begin(r, [Idle EXCEPT !.stage = "built", !.chunks = BodyList(f) \o CardList(card)])
          /\ UNCHANGED <<present, rows, meta, citations, body, model>>
    BY <1>8 DEF IngestBuild, BodyList, CardList, FreshList
  <2>0. PICK list : list = BodyList(f) \o CardList(card)
    OBVIOUS
  <2> DEFINE q == [Idle EXCEPT !.stage = "built", !.chunks = list]
  <2>2. list \in Seq(Chunks) /\ Fits(list, f)
    BY <1>1, <2>0, <2>1, NewList, BuiltFits
  <2>3. q \in ReqRow /\ q.chunks = list /\ q.stage = "built"
    <3>1. PICK none : none = [Idle EXCEPT !.stage = "built"]
      OBVIOUS
    <3>2. none \in ReqRow
      BY <3>1, IdleRow DEF Stages
    <3>3. none.stage = "built"
      BY <3>1 DEF Idle
    <3>4. q = [none EXCEPT !.chunks = list]
      BY <3>1, Zenon
    <3> QED  BY <2>2, <3>2, <3>3, <3>4 DEF ReqRow
  <2> HIDE DEF q
  <2>4. Begin(r, q)
    BY <2>0, <2>1 DEF q
  <2>5. /\ req'[r].stage = "built" /\ req'[r].chunks = list
        /\ req'[r].alone <=> \A t \in Requests : ~Busy(t)
        /\ \A s \in Requests \ {r} : req'[s].stage = req[s].stage
    BY <1>1, <2>3, <2>4, BeginAlone
  <2>6. f \in Adoptions(body)' /\ Fits(list, f)'
    BY <2>1, <2>2, FitsStill
  <2>7. ASSUME HasPaper(r)' PROVE ReadIsTrue(r)'
    <3>1. \A s \in Requests \ {r} : ~Busy(s)'
      BY <2>5, <2>7 DEF HasPaper, Busy
    <3> QED  BY <2>5, <2>6, <3>1 DEF ReadIsTrue
  <2> QED  BY <1>6, <2>3, <2>4, <2>7
<1>9. ASSUME NEW r \in Requests, IngestSelect(r) PROVE AloneInv'
  <2> SUFFICES ASSUME NEW s \in Requests, HasPaper(s)' PROVE ReadIsTrue(s)'
    OBVIOUS
  <2>1. req[r] \in ReqRow /\ req[r].stage = "built"
        /\ UNCHANGED <<present, rows, meta, body, model>>
    BY <1>2, <1>9 DEF IngestSelect
  <2>2. PICK q : q = [req[r] EXCEPT !.stage = "selected", !.existing = DOMAIN rows]
    OBVIOUS
  <2>3. /\ q.stage = "selected" /\ q.existing = DOMAIN rows
        /\ q.chunks = req[r].chunks /\ q.alone = req[r].alone
    BY <2>1, <2>2 DEF ReqRow
  <2>4. req' = [req EXCEPT ![r] = q]
    BY <1>9, <2>2 DEF IngestSelect
  <2>5. \A t \in Requests : Busy(t)' => Busy(t)
    BY <1>2, <2>1, <2>4 DEF Busy
  <2>6. CASE s = r
    <3>1. HasPaper(r) /\ ReadIsTrue(r) /\ req'[r] = q
      BY <1>2, <2>1, <2>3, <2>4, <2>6 DEF HasPaper
    <3> QED  BY <2>1, <2>3, <2>5, <2>6, <3>1, FitsStill DEF ReadIsTrue
  <2>7. CASE s # r
    <3>1. req'[s] = req[s]
      BY <1>2, <2>4, <2>7
    <3>2. HasPaper(s) /\ ReadIsTrue(s)
      BY <3>1 DEF HasPaper
    <3> QED  BY <2>1, <2>5, <3>1, <3>2, StillTrue
  <2> QED  BY <2>6, <2>7
<1>10. ASSUME NEW id \in Ids, Cite(id) PROVE AloneInv'
  <2>1. UNCHANGED <<present, rows, meta, body, model, req>>
    BY <1>10 DEF Cite
  <2>2. \A s \in Requests : /\ HasPaper(s)' => HasPaper(s)
                            /\ Busy(s)' => Busy(s) /\ req'[s] = req[s]
    BY <2>1 DEF HasPaper, Busy
  <2> QED  BY <2>1, <2>2, StillTrue
<1>11. ASSUME RemovePaper PROVE AloneInv'
  BY <1>11 DEF RemovePaper, HasPaper, ReadIsTrue, Busy
<1>12. ASSUME NEW b \in Bodies, NEW m \in Models, Restart(b, m) PROVE AloneInv'
  <2>1. \A s \in Requests : req'[s].stage = "idle"
    BY <1>12 DEF Restart, Idle
  <2> QED  BY <2>1 DEF HasPaper
<1> QED  BY <1>4, <1>5, <1>7, <1>8, <1>9, <1>10, <1>11, <1>12 DEF Next

\* As many values as there are arguments, when no two have the same.
LEMMA SameSize ==
  ASSUME NEW S, IsFiniteSet(S), NEW g, \A i, j \in S : g[i] = g[j] => i = j
  PROVE  Cardinality({g[i] : i \in S}) = Cardinality(S)
<1> DEFINE T == {g[i] : i \in S}
           h == [i \in S |-> g[i]]
<1>1. h \in Bijection(S, T)
  BY DEF Bijection, Injection, Surjection, IsInjective
<1> HIDE DEF h
<1> QED  BY <1>1, FS_Bijection DEF ExistsBijection

\* What a commit stores when it has the paper for itself: the list it built, each
\* chunk in its place under its own id.
LEMMA CommitsAlone ==
  ASSUME StoreInv, NEW r \in Requests, ReadIsTrue(r), IngestCommit(r), present
  PROVE  \E f \in Adoptions(body) :
           /\ Fits(req[r].chunks, f)
           /\ DOMAIN rows' = {req[r].chunks[i].id : i \in DOMAIN req[r].chunks}
           /\ \A i \in DOMAIN req[r].chunks :
                LET c == req[r].chunks[i]
                IN  /\ rows'[c.id].text = c.text /\ rows'[c.id].index = i - 1
                    /\ rows'[c.id].vec = IF c.id \in DOMAIN rows /\ c.keep THEN rows[c.id].vec ELSE NoVec
<1> DEFINE chunks  == req[r].chunks
           reused  == {c.id : c \in {k \in ToSet(chunks) : k.reuse}} \cap req[r].existing
           stale   == req[r].existing \ reused
           others  == DOMAIN rows \ (stale \cup reused)
           inserts == {i \in DOMAIN chunks : chunks[i].id \notin reused}
           written == {i \in DOMAIN chunks : i \in inserts \/ chunks[i].id \in DOMAIN rows}
           at(id)  == CHOOSE i \in written : chunks[i].id = id
           newRow(i) ==
             [text |-> chunks[i].text, index |-> i - 1,
              vec |-> IF i \notin inserts /\ chunks[i].keep THEN rows[chunks[i].id].vec ELSE NoVec]
           left    == others \cup {chunks[i].id : i \in written}
<1>1. /\ rows' = [id \in left |-> IF id \in others THEN rows[id] ELSE newRow(at(id))]
      /\ req[r].stage = "selected"
  BY Zenon DEF IngestCommit, End
<1>2. PICK f \in Adoptions(body) : Fits(chunks, f)
  BY <1>1 DEF ReadIsTrue
<1>3. req[r].existing = DOMAIN rows
  BY <1>1 DEF ReadIsTrue
<1>4. \A i \in DOMAIN body : f[i] # NoId => f[i] \in DOMAIN rows
  BY DEF Adoptions
<1>5. /\ \A i \in DOMAIN chunks : chunks[i].id \in DOMAIN rows <=> chunks[i].reuse
      /\ \A i, j \in DOMAIN chunks : chunks[i].id = chunks[j].id => i = j
  BY <1>2, <1>4 DEF Fits
<1>6. others = {} /\ written = DOMAIN chunks
      /\ \A i \in DOMAIN chunks : i \notin inserts <=> chunks[i].id \in DOMAIN rows
  <2>1. \A i \in DOMAIN chunks : chunks[i].reuse <=> chunks[i].id \in reused
    BY <1>3, <1>5 DEF ToSet
  <2> QED  BY <1>3, <1>5, <2>1
<1>7. left = {chunks[i].id : i \in DOMAIN chunks}
  <2> HIDE DEF others, written, chunks
  <2> QED  BY <1>6
<1>8. ASSUME NEW i \in DOMAIN chunks
      PROVE  /\ rows'[chunks[i].id].text = chunks[i].text /\ rows'[chunks[i].id].index = i - 1
             /\ rows'[chunks[i].id].vec =
                  IF chunks[i].id \in DOMAIN rows /\ chunks[i].keep THEN rows[chunks[i].id].vec ELSE NoVec
  <2>1. at(chunks[i].id) = i
    <3> HIDE DEF chunks, written
    <3> QED  BY <1>5, <1>6
  <2>2. chunks[i].id \in left /\ chunks[i].id \notin others
    <3> HIDE DEF chunks, others, left
    <3> QED  BY <1>6, <1>7
  <2>3. rows'[chunks[i].id] = newRow(i)
    <3> HIDE DEF chunks, others, left, newRow, written
    <3> QED  BY <1>1, <2>1, <2>2, Zenon
  <2>4. i \notin inserts <=> chunks[i].id \in DOMAIN rows
    BY <1>6, Zenon
  <2> HIDE DEF inserts, chunks
  <2>5. PICK v : v = IF chunks[i].id \in DOMAIN rows /\ chunks[i].keep THEN rows[chunks[i].id].vec ELSE NoVec
    OBVIOUS
  <2>6. newRow(i) = [text |-> chunks[i].text, index |-> i - 1, vec |-> v]
    BY <2>4, <2>5
  <2>7. newRow(i).text = chunks[i].text /\ newRow(i).index = i - 1 /\ newRow(i).vec = v
    BY <2>6
  <2> QED  BY <2>3, <2>5, <2>7, Zenon
<1>9. DOMAIN rows' = left
  BY <1>1, Zenon
<1> QED  BY <1>2, <1>7, <1>8, <1>9, Zenon

\* Of each text an ingest keeps as many rows as the text still has places.
LEMMA KeepsAsMany ==
  ASSUME TypeOK, NEW f \in Adoptions(body), NEW t, NEW kept,
         kept = {f[i] : i \in {k \in DOMAIN body : body[k] = t /\ f[k] # NoId}}
  PROVE  LET old  == WithText(t, DOMAIN rows)
             most == TimesIn(t, body)
         IN  kept \subseteq old
             /\ Cardinality(kept) = IF Cardinality(old) < most THEN Cardinality(old) ELSE most
<1> DEFINE old    == WithText(t, DOMAIN rows)
           places == {k \in DOMAIN body : body[k] = t}
           taken  == {k \in places : f[k] # NoId}
           most   == TimesIn(t, body)
<1>1. /\ \A i \in taken : f[i] \in old /\ \A k \in taken : f[k] = f[i] => k = i
      /\ \A i \in places : f[i] = NoId => \A id \in old : \E k \in DOMAIN body : f[k] = id /\ f[k] # NoId
      /\ \A k \in DOMAIN body : f[k] \in old => k \in taken
  <2>1. \A i \in DOMAIN body : i \in 1 .. Len(body) /\ \A k \in 1 .. i - 1 : k \in DOMAIN body
    BY BodyTexts
  <2>2. NoId \notin DOMAIN rows
    BY NullAssumption DEF TypeOK
  <2>3. \A i \in DOMAIN body : f[i] # NoId => /\ f[i] \in DOMAIN rows /\ rows[f[i]].text = body[i]
                                             /\ \A k \in DOMAIN body : f[k] = f[i] => k = i
    BY DEF Adoptions
  <2>4. \A i \in DOMAIN body : f[i] = NoId =>
          \A id \in DOMAIN rows : rows[id].text = body[i] => \E k \in 1 .. i - 1 : f[k] = id
    BY DEF Adoptions
  <2> QED  BY <2>1, <2>2, <2>3, <2>4 DEF WithText
<1>2. IsFiniteSet(places) /\ IsFiniteSet(taken) /\ IsFiniteSet(old)
  <2>1. Len(body) \in Nat /\ places \in SUBSET (1 .. Len(body)) /\ taken \in SUBSET (1 .. Len(body))
    BY BodyTexts
  <2>2. old \in SUBSET Ids
    BY DEF TypeOK, WithText
  <2> HIDE DEF places, taken, old
  <2>3. IsFiniteSet(1 .. Len(body)) /\ IsFiniteSet(Ids)
    BY <2>1, BoundsAssumption, FS_Interval
  <2> QED  BY <2>1, <2>2, <2>3, FS_Subset
<1>3. kept = {f[i] : i \in taken}
  OBVIOUS
<1>4. kept \subseteq old /\ IsFiniteSet(kept)
  <2>1. kept \subseteq old
    BY <1>1, <1>3
  <2> QED  BY <1>2, <2>1, FS_Subset
<1>5. Cardinality(kept) = Cardinality(taken)
  <2> HIDE DEF taken
  <2> QED  BY <1>1, <1>2, <1>3, SameSize
<1>6. most = Cardinality(places)
  BY DEF TimesIn
<1>7. Cardinality(kept) <= Cardinality(old) /\ Cardinality(taken) <= Cardinality(places)
  BY <1>2, <1>4, FS_Subset
<1>8. /\ Cardinality(kept) \in Nat /\ Cardinality(old) \in Nat
      /\ Cardinality(taken) \in Nat /\ Cardinality(places) \in Nat
  BY <1>2, <1>4, FS_CardinalityType

\* A place without a row is left only when the rows are used up.
<1>9. CASE \E i \in places : f[i] = NoId
  <2>1. taken # places
    BY <1>9
  <2>2. Cardinality(taken) # Cardinality(places)
    BY <1>2, <2>1, FS_Subset
  <2>3. kept = old
    <3>1. old \subseteq kept
      BY <1>1, <1>3, <1>9
    <3> QED  BY <1>4, <3>1
  <2> HIDE DEF old, places, taken
  <2>4. Cardinality(kept) = IF Cardinality(old) < Cardinality(places) THEN Cardinality(old) ELSE Cardinality(places)
    BY <1>5, <1>7, <1>8, <2>2, <2>3
  <2> QED  BY <1>4, <1>6, <2>4 DEF old
<1>10. CASE \A i \in places : f[i] # NoId
  <2>1. taken = places
    BY <1>10
  <2> HIDE DEF old, places, taken
  <2>2. Cardinality(kept) = IF Cardinality(old) < Cardinality(places) THEN Cardinality(old) ELSE Cardinality(places)
    BY <1>5, <1>7, <1>8, <2>1
  <2> QED  BY <1>4, <1>6, <2>2 DEF old
<1> QED  BY <1>9, <1>10

\* An ingest that had the paper for itself is exact.
LEMMA ExactStep ==
  ASSUME StoreInv, AloneInv, NEW r \in Requests, IngestCommit(r), req[r].alone, present
  PROVE  /\ InOrder(req[r].chunks)
         /\ \A t \in ToSet(body) :
              LET old  == WithText(t, DOMAIN rows)
                  kept == old \cap DOMAIN rows'
                  most == TimesIn(t, body)
              IN /\ Cardinality(kept) = IF Cardinality(old) < most THEN Cardinality(old) ELSE most
                 /\ \A id \in kept : rows[id].vec # NoVec =>
                      rows'[id].vec = IF rows[id].vec.model = model THEN rows[id].vec ELSE NoVec
<1>1. TypeOK /\ RequestsTyped /\ VectorsTrue
  BY DEF StoreInv
<1>2. ReadIsTrue(r)
  <2>1. req[r].stage = "selected"
    BY Zenon DEF IngestCommit, End
  <2> QED  BY <2>1 DEF AloneInv, HasPaper
<1> DEFINE chunks == req[r].chunks
<1>3. chunks \in Seq(Chunks) /\ DOMAIN chunks = 1 .. Len(chunks) /\ Len(chunks) \in Nat
  <2>1. chunks \in Seq(Chunks)
    BY <1>1 DEF TypeOK
  <2> QED  BY <2>1
<1>4. PICK f \in Adoptions(body) :
        /\ Fits(chunks, f)
        /\ DOMAIN rows' = {chunks[i].id : i \in DOMAIN chunks}
        /\ \A i \in DOMAIN chunks :
             /\ rows'[chunks[i].id].text = chunks[i].text /\ rows'[chunks[i].id].index = i - 1
             /\ rows'[chunks[i].id].vec =
                  IF chunks[i].id \in DOMAIN rows /\ chunks[i].keep THEN rows[chunks[i].id].vec ELSE NoVec
  BY <1>2, CommitsAlone, Zenon
<1> HIDE DEF chunks
<1>5. /\ Len(body) \in Nat /\ DOMAIN body = 1 .. Len(body) /\ Len(chunks) \in {Len(body), Len(body) + 1}
      /\ DOMAIN body \subseteq DOMAIN chunks
  <2>1. /\ Len(body) \in Nat /\ DOMAIN body = 1 .. Len(body)
        /\ Len(chunks) \in {Len(body), Len(body) + 1}
    BY <1>1, <1>4, BodyTexts DEF Fits
  <2>2. \A n \in Nat : \A m \in {n, n + 1} : 1 .. n \subseteq 1 .. m
    OBVIOUS
  <2> QED  BY <1>3, <2>1, <2>2, Zenon
<1>6. /\ \A i \in DOMAIN body : chunks[i].text = body[i]
      /\ \A i, j \in DOMAIN chunks : chunks[i].id = chunks[j].id => i = j
      /\ \A i \in DOMAIN chunks :
           IF i \in DOMAIN body /\ f[i] # NoId
           THEN chunks[i].id = f[i] /\ (chunks[i].keep <=> StoredModel(f[i]) = model)
           ELSE chunks[i].id \notin DOMAIN rows
  BY <1>4 DEF Fits
<1>7. InOrder(chunks)
  <2>1. Cardinality(DOMAIN rows') = Len(chunks)
    <3>1. PICK g : g = [i \in DOMAIN chunks |-> chunks[i].id]
      OBVIOUS
    <3>2. DOMAIN rows' = {g[i] : i \in DOMAIN chunks}
      BY <1>4, <3>1
    <3>3. \A i, j \in DOMAIN chunks : g[i] = g[j] => i = j
      BY <1>6, <3>1
    <3>4. IsFiniteSet(DOMAIN chunks) /\ Cardinality(DOMAIN chunks) = Len(chunks)
      BY <1>3, FS_Interval
    <3> QED  BY <3>2, <3>3, <3>4, SameSize
  <2>2. \A i \in DOMAIN chunks : \E id \in DOMAIN rows' : rows'[id].index = i - 1 /\ rows'[id].text = chunks[i].text
    BY <1>4
  <2> QED  BY <2>1, <2>2 DEF InOrder
<1>8. ASSUME NEW t \in ToSet(body), NEW kept, kept = WithText(t, DOMAIN rows) \cap DOMAIN rows'
      PROVE  /\ Cardinality(kept) = IF Cardinality(WithText(t, DOMAIN rows)) < TimesIn(t, body)
                                    THEN Cardinality(WithText(t, DOMAIN rows)) ELSE TimesIn(t, body)
             /\ \A id \in kept : rows[id].vec # NoVec =>
                  rows'[id].vec = IF rows[id].vec.model = model THEN rows[id].vec ELSE NoVec
  <2>1. \A i \in DOMAIN body : f[i] # NoId => f[i] \in DOMAIN rows /\ rows[f[i]].text = body[i]
    BY DEF Adoptions
  <2>2. ASSUME NEW id \in kept
        PROVE  \E i \in DOMAIN body : body[i] = t /\ f[i] # NoId /\ id = f[i] /\ id = chunks[i].id
    <3>1. id \in DOMAIN rows /\ rows[id].text = t
      BY <1>8 DEF WithText
    <3>2. PICK i \in DOMAIN chunks : id = chunks[i].id
      BY <1>4, <1>8
    <3> QED  BY <1>6, <2>1, <3>1, <3>2
  <2>3. kept = {f[i] : i \in {k \in DOMAIN body : body[k] = t /\ f[k] # NoId}}
    <3>1. ASSUME NEW i \in DOMAIN body, body[i] = t, f[i] # NoId PROVE f[i] \in kept
      <4>1. f[i] \in DOMAIN rows' /\ f[i] \in WithText(t, DOMAIN rows)
        BY <1>4, <1>5, <1>6, <2>1, <3>1 DEF WithText
      <4> QED  BY <1>8, <4>1
    <3> QED  BY <2>2, <3>1
  <2>4. Cardinality(kept) = IF Cardinality(WithText(t, DOMAIN rows)) < TimesIn(t, body)
                            THEN Cardinality(WithText(t, DOMAIN rows)) ELSE TimesIn(t, body)
    BY <1>1, <2>3, KeepsAsMany, Zenon
  <2>5. ASSUME NEW id \in kept, rows[id].vec # NoVec
        PROVE  rows'[id].vec = IF rows[id].vec.model = model THEN rows[id].vec ELSE NoVec
    <3>1. PICK i \in DOMAIN body : body[i] = t /\ f[i] # NoId /\ id = f[i] /\ id = chunks[i].id
      BY <2>2, <2>5
    <3>2. id \in DOMAIN rows /\ meta[id] = rows[id].vec.model
      BY <1>1, <2>1, <2>5, <3>1 DEF VectorsTrue
    <3>3. chunks[i].keep <=> rows[id].vec.model = model
      BY <1>5, <1>6, <2>5, <3>1, <3>2 DEF StoredModel
    <3>4. rows'[id].vec = IF id \in DOMAIN rows /\ chunks[i].keep THEN rows[id].vec ELSE NoVec
      BY <1>4, <1>5, <3>1
    <3> QED  BY <3>2, <3>3, <3>4
  <2> QED  BY <2>4, <2>5
<1> QED  BY <1>7, <1>8 DEF chunks

\* What an ingest without company reads is true until it has committed.
THEOREM AloneInvHolds == Spec => []AloneInv
<1>1. Init => AloneInv
  <2>1. \A r \in Requests : Idle.stage = "idle"
    BY DEF Idle
  <2> QED  BY <2>1 DEF Init, AloneInv, HasPaper
<1>2. StoreInv /\ AloneInv /\ [Next]_vars => AloneInv'
  <2>1. ASSUME StoreInv, AloneInv, UNCHANGED vars PROVE AloneInv'
    <3>1. UNCHANGED <<present, rows, meta, body, model, req>>
      BY <2>1 DEF vars
    <3>2. \A s \in Requests : /\ HasPaper(s)' => HasPaper(s)
                              /\ Busy(s)' => Busy(s) /\ req'[s] = req[s]
      BY <3>1 DEF HasPaper, Busy
    <3> QED  BY <2>1, <3>1, <3>2, StillTrue DEF AloneInv
  <2> QED  BY <2>1, AloneStep
<1> QED  BY <1>1, <1>2, StoreInvariant, PTL DEF Spec

\* An ingest that had the paper for itself leaves exactly the chunks it built, in
\* their order, keeps as many stored rows of each text as it can, and their
\* vectors as long as the model is the same (reconcile_chunk_ids,
\* insert_ingestion_chunks).
THEOREM IngestIsExact == Spec => IngestExact
<1>1. ASSUME StoreInv, AloneInv, NEW r \in Requests, IngestCommit(r) /\ req[r].alone /\ present
      PROVE  /\ InOrder(req[r].chunks)
             /\ \A t \in ToSet(body) :
                  LET old  == WithText(t, DOMAIN rows)
                      kept == old \cap DOMAIN rows'
                      most == TimesIn(t, body)
                  IN /\ Cardinality(kept) = IF Cardinality(old) < most THEN Cardinality(old) ELSE most
                     /\ \A id \in kept : rows[id].vec # NoVec =>
                          rows'[id].vec = IF rows[id].vec.model = model THEN rows[id].vec ELSE NoVec
  BY <1>1, ExactStep, Zenon
<1> DEFINE Exact ==
      \A r \in Requests :
        (IngestCommit(r) /\ req[r].alone /\ present) =>
          /\ InOrder(req[r].chunks)
          /\ \A t \in ToSet(body) :
               LET old  == WithText(t, DOMAIN rows)
                   kept == old \cap DOMAIN rows'
                   most == TimesIn(t, body)
               IN /\ Cardinality(kept) = IF Cardinality(old) < most THEN Cardinality(old) ELSE most
                  /\ \A id \in kept : rows[id].vec # NoVec =>
                       rows'[id].vec = IF rows[id].vec.model = model THEN rows[id].vec ELSE NoVec
<1>2. StoreInv /\ AloneInv => Exact
  BY <1>1, Zenon
<1> HIDE DEF Exact
<1>3. Spec => [][Exact]_vars
  BY <1>2, StoreInvariant, AloneInvHolds, PTL
<1>4. [][Exact]_vars <=> IngestExact
  BY PTL DEF Exact, IngestExact
<1> QED  BY <1>3, <1>4
=============================================================================
