--------------------------- MODULE AskServiceProofs ---------------------------
(***************************************************************************)
(* For any number of calls, clients' ids, chunks, failures and crashes: a  *)
(* question is stored once per clientRequestId, what a client was given is *)
(* what is stored, and every marker opens the chunk it was meant for.      *)
(*                                                                         *)
(* An answer is made, stored and returned in many steps, with other calls  *)
(* and removals of chunks between any two of them.  The invariant says in  *)
(* each stage how far the call is: what its row already holds of its       *)
(* citations, and that nobody else writes to that row.                     *)
(***************************************************************************)
EXTENDS AskService, CitationProofs

CallsTyped == call \in [Calls -> Call]

\* A call that has been made has the id its client sent.
Asked == \A c \in Calls : call[c].stage \in Working \cup {"joined"} => call[c].key \in Sent

\* inflightAsks has exactly the calls that work for a key.
OneWorker ==
  /\ \A k \in Keys : inflight[k] # NoCall =>
       call[inflight[k]].stage \in Working /\ call[inflight[k]].key = k
  /\ \A c \in Calls :
       call[c].stage \in Working /\ call[c].key # NoKey => inflight[call[c].key] = c

\* A call that joined waits for the one that works for its key.
JoinedWait ==
  \A c \in Calls : At(c, "joined") =>
    /\ call[c].key # NoKey
    /\ inflight[call[c].key] # NoCall /\ call[c].owner = inflight[call[c].key]

\* Between the look for a stored answer and the write of one.
Unstored == {"session", "ai", "align", "search", "persist"}
NotStoredYet ==
  \A c \in Calls :
    call[c].stage \in Unstored /\ call[c].key # NoKey =>
      \A i \in DOMAIN queries : queries[i].key # call[c].key

\* A Query row has a session, which is there before anything is stored.
SessionReady ==
  \A c \in Calls : call[c].stage \in {"ai", "align", "search", "persist", "cite"} => session

KeysInv == Asked /\ OneWorker /\ JoinedWait /\ NotStoredYet /\ OneRowPerKey

\* Record r has a row with the citations written so far, less those whose chunk
\* has been removed since.
Written(r) == Len(r.answer.cites) - Len(r.left)
Writing(r) ==
  /\ r.query \in DOMAIN queries
  /\ queries[r.query].key = r.key
  /\ queries[r.query].answer.text = r.answer.text
  /\ queries[r.query].answer.weak = r.answer.weak
  /\ Written(r) \in 0 .. Len(r.answer.cites)
  /\ r.left = SubSeq(r.answer.cites, Written(r) + 1, Len(r.answer.cites))
  /\ queries[r.query].answer.cites = Among(SubSeq(r.answer.cites, 1, Written(r)), chunks)
  /\ r.answer.cites = <<>> => r.answer.weak

\* Record r, as an answer that was given, is in the database.
Stored(r) ==
  /\ r.query \in DOMAIN queries
  /\ queries[r.query].answer.cites = Among(r.answer.cites, chunks)
  /\ queries[r.query].answer.text = r.answer.text
  /\ r.answer.cites = <<>> => r.answer.weak
  /\ r.answer.weak => StoredWeak(queries[r.query])
  /\ ~r.replayed => Opens(r.answer)

\* Nobody else has the row a call writes to.
Apart ==
  \A c, d \in Calls :
    At(c, "cite") /\ call[d].stage \in {"cite", "answered"} /\ call[d].query = call[c].query
      => c = d

RowsInv ==
  /\ \A c \in Calls : At(c, "cite") => Writing(call[c])
  /\ \A c \in Calls : At(c, "answered") => Stored(call[c])
  /\ \A c \in Calls : call[c].stage \in {"persist", "cite"} => Opens(call[c].answer)
  /\ Apart

Typed  == TypeOK /\ CallsTyped /\ SessionReady
AskInv == Typed /\ KeysInv /\ RowsInv

-----------------------------------------------------------------------------
(* Records *)

\* The null values of the records.
LEMMA Nulls == /\ <<>> \in Seq(Marker) /\ <<>> \in Seq(Chunks) /\ FALSE \in BOOLEAN
               /\ Nothing \in Answer
<1>1. <<>> \in Seq(Marker) /\ <<>> \in Seq(Chunks) /\ FALSE \in BOOLEAN
  OBVIOUS
<1>2. Nothing \in Answer
  BY <1>1, Zenon DEF Nothing, Answer
<1> QED  BY <1>1, <1>2, Zenon

\* The record of a call that has just been made.
Made(st, k, o) == [[[New EXCEPT !.key = k] EXCEPT !.stage = st] EXCEPT !.owner = o]

LEMMA NewCall ==
  ASSUME NEW st \in Stages, NEW k \in Sent \cup {NoKey}, NEW o \in Calls \cup {NoCall}
  PROVE  /\ Made(st, k, o) \in Call
         /\ Made(st, k, o).stage = st /\ Made(st, k, o).key = k /\ Made(st, k, o).owner = o
<1>1. PICK e, f : e = <<>> /\ f = FALSE
  BY Zenon
<1>2. New = [stage |-> "new", key |-> NoKey, owner |-> NoCall,
             answer |-> Nothing, left |-> e, query |-> 0, replayed |-> f]
  BY <1>1, Zenon DEF New
<1>3. Made(st, k, o)
      = [stage |-> st, key |-> k, owner |-> o,
         answer |-> Nothing, left |-> e, query |-> 0, replayed |-> f]
  <2> DEFINE N1 == [New EXCEPT !.key = k]
             N2 == [N1 EXCEPT !.stage = st]
  <2>1. N1 = [stage |-> "new", key |-> k, owner |-> NoCall,
              answer |-> Nothing, left |-> e, query |-> 0, replayed |-> f]
    BY <1>2
  <2> HIDE DEF N1
  <2>2. N2 = [stage |-> st, key |-> k, owner |-> NoCall,
              answer |-> Nothing, left |-> e, query |-> 0, replayed |-> f]
    BY <2>1
  <2> HIDE DEF N2
  <2>3. [N2 EXCEPT !.owner = o]
        = [stage |-> st, key |-> k, owner |-> o,
           answer |-> Nothing, left |-> e, query |-> 0, replayed |-> f]
    BY <2>2
  <2> QED  BY <2>3, Zenon DEF N1, N2, Made
<1>4. [stage |-> st, key |-> k, owner |-> o,
       answer |-> Nothing, left |-> e, query |-> 0, replayed |-> f] \in Call
  BY <1>1, Nulls DEF Call
<1> QED  BY <1>3, <1>4

\* The record of a call that has been answered.
LEMMA AnsweredCall ==
  ASSUME NEW a \in Answer, NEW i \in Nat, NEW b \in BOOLEAN
  PROVE  /\ Answered(a, i, b) \in Call
         /\ Answered(a, i, b).stage = "answered" /\ Answered(a, i, b).answer = a
         /\ Answered(a, i, b).query = i /\ Answered(a, i, b).replayed = b
<1>1. PICK e, f : e = <<>> /\ f = FALSE
  BY Zenon
<1>2. New = [stage |-> "new", key |-> NoKey, owner |-> NoCall,
             answer |-> Nothing, left |-> e, query |-> 0, replayed |-> f]
  BY <1>1, Zenon DEF New
<1>3. Answered(a, i, b) = [stage |-> "answered", key |-> NoKey, owner |-> NoCall,
                           answer |-> a, left |-> e, query |-> i, replayed |-> b]
  <2> DEFINE N1 == [New EXCEPT !.stage = "answered"]
             N2 == [N1 EXCEPT !.answer = a]
             N3 == [N2 EXCEPT !.query = i]
  <2>1. N1 = [stage |-> "answered", key |-> NoKey, owner |-> NoCall,
              answer |-> Nothing, left |-> e, query |-> 0, replayed |-> f]
    BY <1>2
  <2> HIDE DEF N1
  <2>2. N2 = [stage |-> "answered", key |-> NoKey, owner |-> NoCall,
              answer |-> a, left |-> e, query |-> 0, replayed |-> f]
    BY <2>1
  <2> HIDE DEF N2
  <2>3. N3 = [stage |-> "answered", key |-> NoKey, owner |-> NoCall,
              answer |-> a, left |-> e, query |-> i, replayed |-> f]
    BY <2>2
  <2>4. Answered(a, i, b) = [N3 EXCEPT !.replayed = b]
    BY Zenon DEF Answered, N1, N2
  <2> HIDE DEF N3
  <2>5. PICK g : g = b
    OBVIOUS
  <2>6. [N3 EXCEPT !.replayed = g]
        = [stage |-> "answered", key |-> NoKey, owner |-> NoCall,
           answer |-> a, left |-> e, query |-> i, replayed |-> g]
    BY <2>3
  <2> QED  BY <2>4, <2>5, <2>6, Zenon
<1>4. Answered(a, i, b) \in Call
  BY <1>1, <1>3, Nulls DEF Call, Stages, Over
<1> QED  BY <1>3, <1>4

\* The record of a call that has failed.
LEMMA FailedCall == Failed \in Call /\ Failed.stage = "failed"
<1>1. PICK e, f : e = <<>> /\ f = FALSE
  BY Zenon
<1>2. New = [stage |-> "new", key |-> NoKey, owner |-> NoCall,
             answer |-> Nothing, left |-> e, query |-> 0, replayed |-> f]
  BY <1>1, Zenon DEF New
<1>3. Failed = [stage |-> "failed", key |-> NoKey, owner |-> NoCall,
                answer |-> Nothing, left |-> e, query |-> 0, replayed |-> f]
  BY <1>2 DEF Failed
<1>4. Failed \in Call
  BY <1>1, <1>3, Nulls DEF Call, Stages, Over
<1> QED  BY <1>3, <1>4

\* A call that goes to another stage keeps the rest.
LEMMA StageOnly ==
  ASSUME NEW r \in Call, NEW st \in Stages
  PROVE  /\ [r EXCEPT !.stage = st] \in Call
         /\ [r EXCEPT !.stage = st].stage = st /\ [r EXCEPT !.stage = st].key = r.key
         /\ [r EXCEPT !.stage = st].answer = r.answer
BY DEF Call

\* A call whose answer is ready.
LEMMA AnswerReady ==
  ASSUME NEW r \in Call, NEW a \in Answer
  PROVE  /\ [[r EXCEPT !.stage = "persist"] EXCEPT !.answer = a] \in Call
         /\ [[r EXCEPT !.stage = "persist"] EXCEPT !.answer = a].stage = "persist"
         /\ [[r EXCEPT !.stage = "persist"] EXCEPT !.answer = a].key = r.key
         /\ [[r EXCEPT !.stage = "persist"] EXCEPT !.answer = a].answer = a
BY DEF Call, Stages, Working

\* One call's record changes.
LEMMA MoveOne ==
  ASSUME CallsTyped, NEW c \in Calls, NEW r \in Call, call' = [call EXCEPT ![c] = r]
  PROVE  /\ CallsTyped' /\ call'[c] = r
         /\ \A d \in Calls \ {c} : call'[d] = call[d]
BY DEF CallsTyped

-----------------------------------------------------------------------------
(* Keys *)

\* A promise that settles: who gets the outcome, and that nothing else changes.
LEMMA SettleStep ==
  ASSUME TypeOK, CallsTyped, NEW c \in Calls, NEW r \in Call, Settle(c, r)
  PROVE  /\ CallsTyped' /\ call'[c] = r
         /\ \A d \in Calls : call'[d] = call[d] \/ call'[d] = r
         /\ \A d \in Calls : call[d].stage \in Working /\ d # c => call'[d] = call[d]
         /\ \A d \in Calls : At(d, "joined") /\ call[d].owner = c => call'[d] = r
         /\ gone' \subseteq Calls /\ inflight' \in [Keys -> Calls \cup {NoCall}]
         /\ \A k \in Keys : inflight'[k] = IF inflight[k] = c THEN NoCall ELSE inflight[k]
<1>1. call' = [b \in Calls |->
                 IF b = c \/ (At(b, "joined") /\ call[b].owner = c) THEN r ELSE call[b]]
  BY DEF Settle
<1>2. gone' \subseteq Calls /\ inflight' \in [Keys -> Calls \cup {NoCall}]
      /\ \A k \in Keys : inflight'[k] = IF inflight[k] = c THEN NoCall ELSE inflight[k]
  BY DEF Settle, TypeOK
<1>3. CallsTyped'
  BY <1>1 DEF CallsTyped
<1>4. \A d \in Calls : call[d].stage \in Working => ~At(d, "joined")
  BY DEF At, Working
<1> QED  BY <1>1, <1>2, <1>3, <1>4

\* A call that ends takes its key out of the map, and with it those who waited.
LEMMA KeysAfterSettle ==
  ASSUME TypeOK, CallsTyped, KeysInv, NEW c \in Calls, NEW r \in Call, Settle(c, r),
         r.stage \in Over, UNCHANGED queries
  PROVE  KeysInv'
<1> DEFINE Live == Working \cup {"joined"}
<1>1. /\ \A d \in Calls : call'[d] = call[d] \/ call'[d] = r
      /\ call'[c] = r
      /\ \A d \in Calls : call[d].stage \in Working /\ d # c => call'[d] = call[d]
      /\ \A d \in Calls : At(d, "joined") /\ call[d].owner = c => call'[d] = r
      /\ \A k \in Keys : inflight'[k] = IF inflight[k] = c THEN NoCall ELSE inflight[k]
  BY SettleStep
<1>2. r.stage \notin Live /\ Unstored \subseteq Working
  BY DEF Over, Working, Unstored
<1>3. \A d \in Calls : call'[d].stage \in Live => call'[d] = call[d] /\ d # c
  BY <1>1, <1>2
<1>4. \A d \in Calls : call[d].stage \in Live /\ call[d].key # NoKey => call[d].key \in Keys
  BY DEF KeysInv, Asked, Keys
<1>5. Asked'
  BY <1>3 DEF KeysInv, Asked
<1>6. OneWorker'
  <2>1. ASSUME NEW k \in Keys, inflight'[k] # NoCall
        PROVE  call'[inflight'[k]].stage \in Working /\ call'[inflight'[k]].key = k
    <3>1. inflight'[k] = inflight[k] /\ inflight[k] # c /\ inflight[k] # NoCall
      BY <1>1, <2>1
    <3>2. inflight[k] \in Calls
      BY <3>1 DEF TypeOK
    <3>3. call[inflight[k]].stage \in Working /\ call[inflight[k]].key = k
      BY <3>1 DEF KeysInv, OneWorker
    <3> QED  BY <1>1, <3>1, <3>2, <3>3
  <2>2. ASSUME NEW d \in Calls, call'[d].stage \in Working, call'[d].key # NoKey
        PROVE  inflight'[call'[d].key] = d
    <3>1. call'[d] = call[d] /\ d # c /\ call[d].stage \in Working
      BY <1>3, <2>2
    <3>2. inflight[call[d].key] = d /\ call[d].key \in Keys
      BY <1>4, <2>2, <3>1 DEF KeysInv, OneWorker
    <3> QED  BY <1>1, <3>1, <3>2
  <2> QED  BY <2>1, <2>2 DEF OneWorker
<1>7. JoinedWait'
  <2> SUFFICES ASSUME NEW d \in Calls, call'[d].stage = "joined"
               PROVE  /\ call'[d].key # NoKey /\ inflight'[call'[d].key] # NoCall
                      /\ call'[d].owner = inflight'[call'[d].key]
    BY DEF JoinedWait, At
  <2>1. call'[d] = call[d]
    BY <1>3
  <2>2. /\ call[d].key # NoKey /\ inflight[call[d].key] # NoCall
        /\ call[d].owner = inflight[call[d].key] /\ call[d].key \in Keys
    BY <1>4, <2>1 DEF KeysInv, JoinedWait, At
  <2>3. call[d].owner # c
    <3> SUFFICES ASSUME call[d].owner = c PROVE FALSE
      OBVIOUS
    <3>1. call'[d] = r
      BY <1>1, <2>1 DEF At
    <3> QED  BY <1>2, <3>1
  <2> QED  BY <1>1, <2>1, <2>2, <2>3
<1>8. NotStoredYet'
  BY <1>2, <1>3 DEF KeysInv, NotStoredYet
<1>9. OneRowPerKey'
  BY DEF KeysInv, OneRowPerKey
<1> QED  BY <1>5, <1>6, <1>7, <1>8, <1>9 DEF KeysInv

\* A call that goes on, with the rows keeping their keys.
LEMMA KeysAfterMove ==
  ASSUME TypeOK, CallsTyped, KeysInv, NEW c \in Calls, NEW r \in Call,
         call[c].stage \in Working, r.stage \in Working, r.key = call[c].key,
         call' = [call EXCEPT ![c] = r], UNCHANGED inflight,
         DOMAIN queries' = DOMAIN queries,
         \A i \in DOMAIN queries : queries'[i].key = queries[i].key,
         r.stage \in Unstored /\ r.key # NoKey =>
           \A i \in DOMAIN queries : queries[i].key # r.key
  PROVE  KeysInv'
<1>1. call'[c] = r /\ \A d \in Calls \ {c} : call'[d] = call[d]
  BY MoveOne
<1>2. "joined" \notin Working
  BY DEF Working
<1>3. Asked'
  BY <1>1, <1>2 DEF KeysInv, Asked
<1>4. OneWorker'
  <2>1. ASSUME NEW k \in Keys, inflight'[k] # NoCall
        PROVE  call'[inflight'[k]].stage \in Working /\ call'[inflight'[k]].key = k
    <3>1. inflight[k] \in Calls /\ call[inflight[k]].stage \in Working
          /\ call[inflight[k]].key = k
      BY <2>1 DEF TypeOK, KeysInv, OneWorker
    <3> QED  BY <1>1, <3>1
  <2>2. ASSUME NEW d \in Calls, call'[d].stage \in Working, call'[d].key # NoKey
        PROVE  inflight'[call'[d].key] = d
    BY <1>1, <2>2 DEF KeysInv, OneWorker
  <2> QED  BY <2>1, <2>2 DEF OneWorker
<1>5. JoinedWait'
  BY <1>1, <1>2 DEF KeysInv, JoinedWait, At
<1>6. NotStoredYet'
  <2> SUFFICES ASSUME NEW d \in Calls, call'[d].stage \in Unstored, call'[d].key # NoKey,
                      NEW i \in DOMAIN queries
               PROVE  queries[i].key # call'[d].key
    BY DEF NotStoredYet
  <2> QED  BY <1>1 DEF KeysInv, NotStoredYet
<1>7. OneRowPerKey'
  BY DEF KeysInv, OneRowPerKey
<1> QED  BY <1>3, <1>4, <1>5, <1>6, <1>7 DEF KeysInv

-----------------------------------------------------------------------------
(* Rows *)

\* A call that does not move goes on writing the row it writes.
LEMMA WritingStays ==
  ASSUME NEW d \in Calls, call'[d] = call[d], Writing(call[d]), UNCHANGED <<queries, chunks>>
  PROVE  Writing(call[d])'
BY DEF Writing

\* Where no row changes and no call gets further than the AI service, what is
\* said of the rows stays true.
LEMMA RowsAfterQuiet ==
  ASSUME RowsInv, UNCHANGED <<queries, chunks>>,
         \A d \in Calls : \/ call'[d] = call[d]
                          \/ call'[d].stage \notin {"answered", "cite", "persist"}
  PROVE  RowsInv'
<1>1. \A d \in Calls : call'[d].stage \in {"answered", "cite", "persist"} => call'[d] = call[d]
  OBVIOUS
<1>2. \A d \in Calls : call'[d].stage = "cite" => Writing(call[d])'
  <2> SUFFICES ASSUME NEW d \in Calls, call'[d].stage = "cite" PROVE Writing(call[d])'
    OBVIOUS
  <2>1. call'[d] = call[d] /\ Writing(call[d])
    BY <1>1 DEF RowsInv, At
  <2> QED  BY <2>1, WritingStays
<1>3. \A d \in Calls : call'[d].stage = "answered" => Stored(call[d])'
  BY <1>1 DEF RowsInv, At, Stored, StoredWeak
<1>4. \A d \in Calls : call'[d].stage \in {"persist", "cite"} => Opens(call'[d].answer)
  BY <1>1 DEF RowsInv
<1>5. Apart'
  BY <1>1 DEF RowsInv, Apart, At
<1> QED  BY <1>2, <1>3, <1>4, <1>5 DEF RowsInv, At

\* An answer is given: it is stored, and nobody writes to its row any more.
LEMMA RowsAfterAnswer ==
  ASSUME TypeOK, CallsTyped, RowsInv, NEW c \in Calls, NEW r \in Call, Settle(c, r),
         UNCHANGED <<queries, chunks>>, r.stage = "answered", Stored(r),
         \A d \in Calls : At(d, "cite") /\ call[d].query = r.query => d = c
  PROVE  RowsInv'
<1>1. call'[c] = r /\ \A d \in Calls : call'[d] = call[d] \/ call'[d] = r
  BY SettleStep
<1>2. \A d \in Calls : call'[d].stage \in {"cite", "persist"} => call'[d] = call[d] /\ d # c
  BY <1>1
<1>3. \A d \in Calls : call'[d].stage = "cite" => Writing(call[d])'
  <2> SUFFICES ASSUME NEW d \in Calls, call'[d].stage = "cite" PROVE Writing(call[d])'
    OBVIOUS
  <2>1. call'[d] = call[d] /\ Writing(call[d])
    BY <1>2 DEF RowsInv, At
  <2> QED  BY <2>1, WritingStays
<1>4. \A d \in Calls : call'[d].stage = "answered" => Stored(call[d])'
  <2> SUFFICES ASSUME NEW d \in Calls, call'[d].stage = "answered" PROVE Stored(call[d])'
    OBVIOUS
  <2>1. CASE call'[d] = call[d]
    BY <2>1 DEF RowsInv, Stored, StoredWeak, At
  <2>2. CASE call'[d] = r
    BY <2>2 DEF Stored, StoredWeak
  <2> QED  BY <1>1, <2>1, <2>2
<1>5. \A d \in Calls : call'[d].stage \in {"persist", "cite"} => Opens(call'[d].answer)
  BY <1>2 DEF RowsInv
<1>6. Apart'
  BY <1>1, <1>2 DEF RowsInv, Apart, At
<1> QED  BY <1>3, <1>4, <1>5, <1>6 DEF RowsInv, At

\* An answer is ready to be stored.
LEMMA RowsAfterReady ==
  ASSUME CallsTyped, RowsInv, NEW c \in Calls, NEW r \in Call, call' = [call EXCEPT ![c] = r],
         UNCHANGED <<queries, chunks>>, r.stage = "persist", Opens(r.answer)
  PROVE  RowsInv'
<1>1. call'[c] = r /\ \A d \in Calls \ {c} : call'[d] = call[d]
  BY MoveOne
<1>2. \A d \in Calls : call'[d].stage = "cite" => Writing(call[d])'
  <2> SUFFICES ASSUME NEW d \in Calls, call'[d].stage = "cite" PROVE Writing(call[d])'
    OBVIOUS
  <2>1. call'[d] = call[d] /\ Writing(call[d])
    BY <1>1 DEF RowsInv, At
  <2> QED  BY <2>1, WritingStays
<1>3. \A d \in Calls : call'[d].stage = "answered" => Stored(call[d])'
  BY <1>1 DEF RowsInv, At, Stored, StoredWeak
<1>4. \A d \in Calls : call'[d].stage \in {"persist", "cite"} => Opens(call'[d].answer)
  BY <1>1 DEF RowsInv
<1>5. Apart'
  BY <1>1 DEF RowsInv, Apart, At
<1> QED  BY <1>2, <1>3, <1>4, <1>5 DEF RowsInv, At

-----------------------------------------------------------------------------
(* Steps of one call *)

\* A step of one call that leaves the rows alone keeps the types.
LEMMA TypesAfterMove ==
  ASSUME Typed, NEW c \in Calls, NEW r \in Call, call' = [call EXCEPT ![c] = r],
         UNCHANGED <<gone, inflight, queries, chunks, crashes>>, faults' \in 0 .. MaxFaults,
         session' \in BOOLEAN, session => session',
         r.stage \in {"ai", "align", "search", "persist", "cite"} => session'
  PROVE  Typed'
<1>1. CallsTyped' /\ call'[c] = r /\ \A d \in Calls \ {c} : call'[d] = call[d]
  BY MoveOne DEF Typed
<1>2. SessionReady'
  BY <1>1 DEF Typed, SessionReady
<1>3. \A d \in Calls : call'[d] \in Call
  BY <1>1 DEF CallsTyped
<1>4. TypeOK'
  BY <1>3 DEF Typed, TypeOK
<1> QED  BY <1>1, <1>2, <1>4 DEF Typed

\* And so does a call that ends.
LEMMA TypesAfterSettle ==
  ASSUME Typed, NEW c \in Calls, NEW r \in Call, r.stage \in Over, Settle(c, r),
         UNCHANGED <<session, queries, chunks, crashes>>, faults' \in 0 .. MaxFaults
  PROVE  Typed'
<1>1. /\ CallsTyped' /\ \A d \in Calls : call'[d] = call[d] \/ call'[d] = r
      /\ gone' \subseteq Calls /\ inflight' \in [Keys -> Calls \cup {NoCall}]
  BY SettleStep DEF Typed
<1>2. SessionReady'
  BY <1>1 DEF Typed, SessionReady, Over
<1>3. \A d \in Calls : call'[d] \in Call
  BY <1>1 DEF CallsTyped
<1>4. TypeOK'
  BY <1>1, <1>3 DEF Typed, TypeOK
<1> QED  BY <1>1, <1>2, <1>4 DEF Typed

\* The calls are where they can be.
LEMMA StagesAre ==
  ASSUME Typed, NEW c \in Calls
  PROVE  call[c] \in Call /\ call[c].stage \in Stages /\ call[c].answer \in Answer
         /\ call[c].query \in Nat /\ call[c].key \in Sent \cup {NoKey}
         /\ call[c].left \in Seq(Chunks)
BY DEF Typed, CallsTyped, Call

\* A database call that fails is counted.
LEMMA FaultCounted ==
  ASSUME Typed, Fault \/ UNCHANGED faults
  PROVE  faults' \in 0 .. MaxFaults
BY BoundsAssumption DEF Typed, TypeOK, Fault

\* A call ends with an error.
LEMMA EndsFailed ==
  ASSUME AskInv, NEW c \in Calls, call[c].stage \in Working, Settle(c, Failed),
         UNCHANGED <<session, queries, chunks, crashes>>, Fault \/ UNCHANGED faults
  PROVE  AskInv'
<1>1. Failed \in Call /\ Failed.stage = "failed"
  BY FailedCall
<1>2. Failed.stage \in Over /\ Failed.stage \notin {"answered", "cite", "persist"}
  BY <1>1 DEF Over
<1>3. faults' \in 0 .. MaxFaults
  BY FaultCounted DEF AskInv
<1> DEFINE r == Failed
<1> HIDE DEF r
<1>4. r \in Call /\ r.stage \in Over /\ r.stage \notin {"answered", "cite", "persist"}
      /\ Settle(c, r)
  BY <1>1, <1>2 DEF r
<1>5. Typed'
  BY <1>3, <1>4, TypesAfterSettle DEF AskInv
<1>6. KeysInv'
  BY <1>4, KeysAfterSettle DEF AskInv, Typed
<1>7. RowsInv'
  <2>1. \A d \in Calls : call'[d] = call[d] \/ call'[d] = r
    BY <1>4, SettleStep DEF AskInv, Typed
  <2> QED  BY <1>4, <2>1, RowsAfterQuiet DEF AskInv
<1> QED  BY <1>5, <1>6, <1>7 DEF AskInv

\* A call goes on to another stage before its answer is ready.
LEMMA GoesOn ==
  ASSUME AskInv, NEW c \in Calls, NEW st \in Unstored \ {"persist"}, Goto(c, st),
         call[c].stage \in Working,
         UNCHANGED <<gone, inflight, queries, chunks, crashes>>, Fault \/ UNCHANGED faults,
         session' \in BOOLEAN, session => session',
         st \in {"ai", "align", "search"} => session',
         call[c].key # NoKey => \A i \in DOMAIN queries : queries[i].key # call[c].key
  PROVE  AskInv'
<1>1. st \in Stages /\ st \in Working /\ st \notin {"answered", "cite", "persist"}
  BY DEF Unstored, Stages, Working
<1>2. PICK r : r = [call[c] EXCEPT !.stage = st]
  OBVIOUS
<1>3. r \in Call /\ r.stage = st /\ r.key = call[c].key
  BY <1>1, <1>2, StagesAre, StageOnly DEF AskInv
<1>4. call' = [call EXCEPT ![c] = r]
  BY <1>2 DEF Goto
<1>5. faults' \in 0 .. MaxFaults
  BY FaultCounted DEF AskInv
<1>6. Typed'
  BY <1>1, <1>3, <1>4, <1>5, TypesAfterMove DEF AskInv
<1>7. KeysInv'
  BY <1>1, <1>3, <1>4, KeysAfterMove DEF AskInv, Typed
<1>8. RowsInv'
  <2>1. call'[c] = r /\ \A d \in Calls \ {c} : call'[d] = call[d]
    BY <1>3, <1>4, MoveOne DEF AskInv, Typed
  <2> QED  BY <1>1, <1>3, <2>1, RowsAfterQuiet DEF AskInv
<1> QED  BY <1>6, <1>7, <1>8 DEF AskInv

\* The answer of a call gets ready, with every marker right.
LEMMA GetsReady ==
  ASSUME AskInv, NEW c \in Calls, call[c].stage \in {"align", "search"},
         NEW a \in Answer, Opens(a),
         call' = [call EXCEPT ![c].stage = "persist", ![c].answer = a],
         UNCHANGED <<gone, inflight, session, queries, chunks, faults, crashes>>
  PROVE  AskInv'
<1>1. PICK r : r = [[call[c] EXCEPT !.stage = "persist"] EXCEPT !.answer = a]
  OBVIOUS
<1>2. r \in Call /\ r.stage = "persist" /\ r.key = call[c].key /\ r.answer = a
  BY <1>1, StagesAre, AnswerReady DEF AskInv
<1>3. call' = [call EXCEPT ![c] = r]
  BY <1>1 DEF AskInv, Typed, CallsTyped
<1>4. session /\ session \in BOOLEAN
  BY DEF AskInv, Typed, SessionReady, TypeOK
<1>5. Typed'
  <2>1. faults' \in 0 .. MaxFaults
    BY FaultCounted DEF AskInv
  <2> QED  BY <1>2, <1>3, <1>4, <2>1, TypesAfterMove DEF AskInv
<1>6. KeysInv'
  <2>1. call[c].stage \in Working /\ r.stage \in Working
    BY <1>2 DEF Working
  <2>2. call[c].key # NoKey => \A i \in DOMAIN queries : queries[i].key # call[c].key
    BY DEF AskInv, KeysInv, NotStoredYet, Unstored
  <2>3. r.key # NoKey => \A i \in DOMAIN queries : queries[i].key # r.key
    BY <1>2, <2>2
  <2>4. TypeOK /\ CallsTyped /\ KeysInv
    BY DEF AskInv, Typed
  <2> QED  BY <1>2, <1>3, <2>1, <2>3, <2>4, KeysAfterMove
<1>7. RowsInv'
  BY <1>2, <1>3, RowsAfterReady DEF AskInv, Typed
<1> QED  BY <1>5, <1>6, <1>7 DEF AskInv

\* What changes of an answer when its label does.
LEMMA OtherLabel ==
  ASSUME NEW a \in Answer, NEW w \in BOOLEAN
  PROVE  /\ [a EXCEPT !.weak = w] \in Answer /\ [a EXCEPT !.weak = w].weak = w
         /\ [a EXCEPT !.weak = w].cites = a.cites /\ [a EXCEPT !.weak = w].text = a.text
BY DEF Answer

\* And when its citations do.
LEMMA OtherCites ==
  ASSUME NEW a \in Answer, NEW s \in Seq(Chunks)
  PROVE  /\ [a EXCEPT !.cites = s] \in Answer /\ [a EXCEPT !.cites = s].cites = s
         /\ [a EXCEPT !.cites = s].weak = a.weak /\ [a EXCEPT !.cites = s].text = a.text
BY DEF Answer

\* The rows.
LEMMA RowsAre ==
  ASSUME Typed, NEW i \in DOMAIN queries
  PROVE  /\ queries \in Seq(Query) /\ i \in Nat /\ queries[i] \in Query
         /\ queries[i].answer \in Answer /\ queries[i].key \in Sent
         /\ queries[i].answer.cites \in Seq(Chunks) /\ queries[i].answer.weak \in BOOLEAN
         /\ \A p \in DOMAIN queries[i].answer.cites : queries[i].answer.cites[p] \in chunks
<1>1. queries \in Seq(Query)
  BY DEF Typed, TypeOK
<1>2. i \in Nat /\ queries[i] \in Query
  BY <1>1
<1>3. queries[i].answer \in Answer /\ queries[i].key \in Sent
  BY <1>2 DEF Query
<1>4. queries[i].answer.cites \in Seq(Chunks) /\ queries[i].answer.weak \in BOOLEAN
  BY <1>3 DEF Answer
<1>5. queries[i] \in ToSet(queries)
  BY DEF ToSet
<1>6. ToSet(queries[i].answer.cites) \subseteq chunks
  BY <1>5 DEF Typed, TypeOK
<1>7. \A p \in DOMAIN queries[i].answer.cites : queries[i].answer.cites[p] \in chunks
  BY <1>6 DEF ToSet
<1> QED  BY <1>1, <1>2, <1>3, <1>4, <1>7

\* A stored answer is given again, as it was stored.
LEMMA Replayed ==
  ASSUME AskInv, NEW c \in Calls, At(c, "replay"), NEW i \in DOMAIN queries,
         call[c].key = queries[i].key, call[c].key # NoKey, NEW a,
         a = [queries[i].answer EXCEPT !.weak = StoredWeak(queries[i])],
         Settle(c, Answered(a, i, TRUE)),
         UNCHANGED <<session, queries, chunks, faults, crashes>>
  PROVE  AskInv'
<1>1. PICK w \in BOOLEAN : w = StoredWeak(queries[i])
  BY Zenon DEF StoredWeak
<1>2. a = [queries[i].answer EXCEPT !.weak = w]
  BY <1>1, Zenon
<1>3. /\ queries[i].answer \in Answer /\ i \in Nat
      /\ queries[i].answer.cites \in Seq(Chunks)
      /\ \A p \in DOMAIN queries[i].answer.cites : queries[i].answer.cites[p] \in chunks
  BY RowsAre DEF AskInv
<1>4. <<>> \in Seq(Chunks) /\ TRUE \in BOOLEAN
  OBVIOUS
<1>5. /\ a \in Answer /\ a.weak = w
      /\ a.cites = queries[i].answer.cites /\ a.text = queries[i].answer.text
  <2>1. ASSUME NEW q \in Answer
        PROVE  /\ [q EXCEPT !.weak = w] \in Answer /\ [q EXCEPT !.weak = w].weak = w
               /\ [q EXCEPT !.weak = w].cites = q.cites /\ [q EXCEPT !.weak = w].text = q.text
    BY OtherLabel
  <2> QED  BY <1>2, <1>3, <2>1, Zenon
<1>6. PICK r : r = Answered(a, i, TRUE)
  OBVIOUS
<1>7. /\ r \in Call /\ r.stage = "answered" /\ r.answer = a /\ r.query = i /\ r.replayed = TRUE
  <2>1. PICK t \in BOOLEAN : t = TRUE
    BY Zenon
  <2>2. r = Answered(a, i, t)
    BY <1>6, <2>1, Zenon
  <2>3. i \in Nat /\ a \in Answer
    BY <1>3, <1>5
  <2>4. /\ Answered(a, i, t) \in Call /\ Answered(a, i, t).stage = "answered" /\ Answered(a, i, t).answer = a
        /\ Answered(a, i, t).query = i /\ Answered(a, i, t).replayed = t
    BY <2>3, AnsweredCall
  <2> QED  BY <2>1, <2>2, <2>4, Zenon
<1>8. r.stage \in Over /\ call[c].stage \in Working /\ Settle(c, r)
  BY <1>6, <1>7 DEF Over, Working, At
<1>9. Stored(r)
  <2>1. Among(a.cites, chunks) = queries[i].answer.cites
    BY <1>3, <1>5, AmongAll
  <2>2. a.weak => StoredWeak(queries[i])
    BY <1>1, <1>5, Zenon
  <2>3. a.cites = <<>> => a.weak
    <3>1. a.cites = <<>> => StoredWeak(queries[i])
      BY <1>5 DEF StoredWeak
    <3> QED  BY <1>1, <1>5, <3>1, Zenon
  <2>4. ~r.replayed => Opens(r.answer)
    BY <1>7, Zenon
  <2> QED  BY <1>5, <1>7, <2>1, <2>2, <2>3, <2>4, Zenon DEF Stored
<1>10. \A d \in Calls : At(d, "cite") /\ call[d].query = r.query => d = c
  <2> SUFFICES ASSUME NEW d \in Calls, At(d, "cite"), call[d].query = i PROVE d = c
    BY <1>7
  <2>1. call[d].key = call[c].key
    BY DEF AskInv, RowsInv, Writing
  <2>2. call[d].stage \in Working
    BY DEF At, Working
  <2> QED  BY <1>8, <2>1, <2>2 DEF AskInv, KeysInv, OneWorker
<1>11. Typed'
  <2>1. faults' \in 0 .. MaxFaults
    BY FaultCounted DEF AskInv
  <2> QED  BY <1>7, <1>8, <2>1, TypesAfterSettle DEF AskInv
<1>12. KeysInv'
  BY <1>7, <1>8, KeysAfterSettle DEF AskInv, Typed
<1>13. RowsInv'
  BY <1>7, <1>8, <1>9, <1>10, RowsAfterAnswer DEF AskInv, Typed
<1> QED  BY <1>11, <1>12, <1>13 DEF AskInv

\* A new call: it joins the one that works for its key, or it registers.
LEMMA SubmitStep ==
  ASSUME AskInv, NEW c \in Calls, NEW k \in Sent, Submit(c, k)
  PROVE  AskInv'
<1> USE DEF AskInv
<1>1. At(c, "new") /\ UNCHANGED <<gone, session, queries, chunks, faults, crashes>>
  BY DEF Submit
<1>2. "new" \notin Working /\ {"joined", "replay"} \subseteq Stages
      /\ "replay" \in Working /\ "joined" \notin Working /\ {"joined", "replay"} \cap Unstored = {}
  BY DEF Working, Stages, Unstored
<1>3. faults' \in 0 .. MaxFaults /\ session' \in BOOLEAN
  BY <1>1, FaultCounted DEF Typed, TypeOK
<1>4. inflight \in [Keys -> Calls \cup {NoCall}]
  BY DEF Typed, TypeOK
<1>5. CASE k # NoKey /\ inflight[k] # NoCall
  <2>1. k \in Keys /\ inflight[k] \in Calls
    BY <1>4, <1>5 DEF Keys
  <2>1a. PICK r : r = Made("joined", k, inflight[k])
    OBVIOUS
  <2>2. r \in Call /\ r.stage = "joined" /\ r.key = k /\ r.owner = inflight[k]
    <3>1. "joined" \in Stages /\ k \in Sent \cup {NoKey} /\ inflight[k] \in Calls \cup {NoCall}
      BY <1>2, <2>1
    <3> QED  BY <2>1a, <3>1, NewCall
  <2>3. call' = [call EXCEPT ![c] = r] /\ inflight' = inflight
    BY <1>5, <2>1a, Zenon DEF Submit, Made
  <2>4. CallsTyped' /\ call'[c] = r /\ \A d \in Calls \ {c} : call'[d] = call[d]
    BY <2>2, <2>3, MoveOne DEF Typed
  <2>5. Typed'
    BY <1>1, <1>3, <2>2, <2>3, TypesAfterMove
  <2>6. Asked' /\ NotStoredYet' /\ OneRowPerKey'
    BY <1>1, <1>2, <2>2, <2>4 DEF KeysInv, Asked, NotStoredYet, OneRowPerKey
  <2>7. OneWorker'
    <3>1. ASSUME NEW l \in Keys, inflight[l] # NoCall
          PROVE  call'[inflight[l]].stage \in Working /\ call'[inflight[l]].key = l
      <4>1. inflight[l] \in Calls /\ call[inflight[l]].stage \in Working
            /\ call[inflight[l]].key = l
        BY <1>4, <3>1 DEF KeysInv, OneWorker
      <4>2. inflight[l] # c
        BY <1>1, <1>2, <4>1 DEF At
      <4> QED  BY <2>4, <4>1, <4>2
    <3>2. ASSUME NEW d \in Calls, call'[d].stage \in Working, call'[d].key # NoKey
          PROVE  inflight[call'[d].key] = d
      BY <1>2, <2>2, <2>4, <3>2 DEF KeysInv, OneWorker
    <3> QED  BY <2>3, <3>1, <3>2 DEF OneWorker
  <2>8. JoinedWait'
    BY <1>5, <2>2, <2>3, <2>4 DEF KeysInv, JoinedWait, At
  <2>9. RowsInv'
    BY <1>1, <2>2, <2>4, RowsAfterQuiet
  <2> QED  BY <2>5, <2>6, <2>7, <2>8, <2>9 DEF KeysInv
<1>6. CASE ~(k # NoKey /\ inflight[k] # NoCall)
  <2>1a. PICK r : r = Made("replay", k, NoCall)
    OBVIOUS
  <2>1. r \in Call /\ r.stage = "replay" /\ r.key = k
    <3>1. "replay" \in Stages /\ k \in Sent \cup {NoKey} /\ NoCall \in Calls \cup {NoCall}
      BY <1>2
    <3> QED  BY <2>1a, <3>1, NewCall
  <2>2. r = [[New EXCEPT !.key = k] EXCEPT !.stage = "replay"]
    <3> DEFINE q == [[New EXCEPT !.key = k] EXCEPT !.stage = "replay"]
    <3>1. DOMAIN q = {"stage", "key", "owner", "answer", "left", "query", "replayed"}
          /\ q.owner = NoCall
      BY DEF New
    <3>2. r = [q EXCEPT !.owner = NoCall]
      BY <2>1a, Zenon DEF Made
    <3>3. q = [f \in DOMAIN q |-> q[f]]
      BY DEF New
    <3> HIDE DEF q
    <3>4. r = q
      BY <3>1, <3>2, <3>3
    <3> QED  BY <3>4 DEF q
  <2>3. /\ call' = [call EXCEPT ![c] = r]
        /\ inflight' = IF k = NoKey THEN inflight ELSE [inflight EXCEPT ![k] = c]
    BY <1>6, <2>2, Zenon DEF Submit
  <2>4. CallsTyped' /\ call'[c] = r /\ \A d \in Calls \ {c} : call'[d] = call[d]
    BY <2>1, <2>3, MoveOne DEF Typed
  <2>5. Typed'
    <3>1. \A d \in Calls : call'[d] \in Call
      BY <2>4 DEF CallsTyped
    <3>2. inflight' \in [Keys -> Calls \cup {NoCall}]
      BY <1>4, <2>3
    <3>3. TypeOK'
      BY <1>1, <3>1, <3>2 DEF Typed, TypeOK
    <3>4. SessionReady'
      BY <1>1, <2>1, <2>4 DEF Typed, SessionReady
    <3> QED  BY <2>4, <3>3, <3>4 DEF Typed
  <2>6. Asked' /\ NotStoredYet' /\ OneRowPerKey'
    BY <1>1, <1>2, <2>1, <2>4 DEF KeysInv, Asked, NotStoredYet, OneRowPerKey
  <2>7. OneWorker'
    <3>1. ASSUME NEW l \in Keys, inflight'[l] # NoCall
          PROVE  call'[inflight'[l]].stage \in Working /\ call'[inflight'[l]].key = l
      <4>1. CASE k # NoKey /\ l = k
        <5>1. inflight'[l] = c
          BY <1>4, <2>3, <4>1
        <5> QED  BY <1>2, <2>1, <2>4, <4>1, <5>1
      <4>2. CASE k = NoKey \/ l # k
        <5>1. inflight'[l] = inflight[l]
          BY <1>4, <2>3, <4>2
        <5>2. inflight[l] \in Calls /\ call[inflight[l]].stage \in Working
              /\ call[inflight[l]].key = l
          BY <1>4, <3>1, <5>1 DEF KeysInv, OneWorker
        <5>3. inflight[l] # c
          BY <1>1, <1>2, <5>2 DEF At
        <5> QED  BY <2>4, <5>1, <5>2, <5>3
      <4> QED  BY <4>1, <4>2
    <3>2. ASSUME NEW d \in Calls, call'[d].stage \in Working, call'[d].key # NoKey
          PROVE  inflight'[call'[d].key] = d
      <4>1. CASE d = c
        <5>1. call'[d].key = k /\ k \in Keys
          BY <2>1, <2>4, <3>2, <4>1 DEF Keys
        <5> QED  BY <1>4, <2>3, <3>2, <4>1, <5>1
      <4>2. CASE d # c
        <5>1. call'[d] = call[d]
          BY <2>4, <4>2
        <5>2. inflight[call[d].key] = d /\ call[d].key \in Keys
          BY <3>2, <5>1 DEF KeysInv, OneWorker, Asked, Keys
        <5>3. d # NoCall
          BY NullAssumption
        <5> QED  BY <1>4, <1>6, <2>3, <5>1, <5>2, <5>3
      <4> QED  BY <4>1, <4>2
    <3> QED  BY <3>1, <3>2 DEF OneWorker
  <2>8. JoinedWait'
    <3> SUFFICES ASSUME NEW d \in Calls, call'[d].stage = "joined"
                 PROVE  /\ call'[d].key # NoKey /\ inflight'[call'[d].key] # NoCall
                        /\ call'[d].owner = inflight'[call'[d].key]
      BY DEF JoinedWait, At
    <3>1. call'[d] = call[d]
      BY <2>1, <2>4
    <3>2. /\ call[d].key # NoKey /\ inflight[call[d].key] # NoCall
          /\ call[d].owner = inflight[call[d].key] /\ call[d].key \in Sent
      BY <3>1 DEF KeysInv, JoinedWait, At, Asked
    <3>3. inflight'[call[d].key] = inflight[call[d].key]
      BY <1>4, <1>6, <2>3, <3>2 DEF Keys
    <3> QED  BY <3>1, <3>2, <3>3
  <2>9. RowsInv'
    BY <1>1, <2>1, <2>4, RowsAfterQuiet
  <2> QED  BY <2>5, <2>6, <2>7, <2>8, <2>9 DEF KeysInv
<1> QED  BY <1>5, <1>6

-----------------------------------------------------------------------------
(* An answer gets ready *)

\* A list of members of S is one of members of any larger set.
LEMMA WiderSeq ==
  ASSUME NEW S, NEW T, S \subseteq T, NEW s \in Seq(S)
  PROVE  s \in Seq(T)
<1>1. Len(s) \in Nat /\ s \in [1 .. Len(s) -> S]
  OBVIOUS
<1>2. s \in [1 .. Len(s) -> T]
  BY <1>1
<1> QED  BY <1>1, <1>2, FunctionIsSeq

\* The bounded lists are lists.
LEMMA BoundedLists ==
  ASSUME NEW S, NEW n \in Nat, NEW s \in SeqOf(S, n)
  PROVE  s \in Seq(S)
<1>1. PICK m \in 0 .. n : s \in [1 .. m -> S]
  BY DEF SeqOf
<1> QED  BY <1>1, FunctionIsSeq

\* The record of an answer, from its parts.
LEMMA AnswerOf ==
  ASSUME NEW t \in Seq(Marker), NEW s \in Seq(Chunks), NEW w \in BOOLEAN,
         NEW a, a = [text |-> t, cites |-> s, weak |-> w]
  PROVE  a \in Answer /\ a.text = t /\ a.cites = s /\ a.weak = w
BY DEF Answer

\* What is made of a draft: every reference to evidence is a marker that opens it.
LEMMA CitedOpens ==
  ASSUME NEW pack \in Seq(Chunks), NEW draft \in Seq(Bracketed), NEW claimed \in Seq(Nat),
         NEW w \in BOOLEAN, NEW a, a = [Cited(pack, draft, claimed) EXCEPT !.weak = w]
  PROVE  a \in Answer /\ Opens(a)
<1> DEFINE raw   == DraftCitations(pack, Referred(draft), claimed)
           shown == AlignedText(raw, chunks, DraftText(pack, draft, claimed))
           named == Through(pack, raw, chunks, draft)
           there(i) == [n |-> shown[i].n, means |-> IF named[i].form = "evidence" THEN pack[named[i].n] ELSE NoChunk]
           text  == [i \in DOMAIN shown |-> there(i)]
           cites == AlignedCitations(raw, chunks)
<1>1. OpenAll(pack, named, shown, cites)
  BY EveryMarkerOpensWhatWasMeant, Zenon
<1>2. cites \in Seq(Chunks)
  <2>1. raw \in Seq(Chunks)
    BY ReferredIs, DraftCitationsType
  <2> HIDE DEF raw
  <2> QED  BY <2>1, ListingType DEF AlignedCitations
<1>3. a = [text |-> text, cites |-> cites, weak |-> w]
  <2>1. PICK f : f = FALSE
    OBVIOUS
  <2>2. Cited(pack, draft, claimed) = [text |-> text, cites |-> cites, weak |-> f]
    BY <2>1, Zenon DEF Cited
  <2> HIDE DEF text, cites
  <2> QED  BY <2>2
<1> HIDE DEF shown, cites, named
<1>4. ASSUME NEW i \in DOMAIN shown
      PROVE  /\ there(i) \in Marker
             /\ there(i).means # NoChunk => there(i).n \in DOMAIN cites /\ cites[there(i).n] = there(i).means
  <2>1. shown[i] \in Bracketed /\ shown[i].n \in Nat
    <3>1. shown[i] \in Bracketed
      BY <1>1 DEF OpenAll
    <3> QED  BY <3>1 DEF Bracketed
  <2>2. CASE named[i].form = "evidence"
    <3>1. /\ named[i].n \in Numbers(pack)
          /\ shown[i].n \in DOMAIN cites /\ cites[shown[i].n] = pack[named[i].n]
      BY <1>1, <2>2 DEF OpenAll
    <3>2. there(i) = [n |-> shown[i].n, means |-> pack[named[i].n]]
      BY <2>2
    <3>3. pack[named[i].n] \in Chunks
      BY <3>1 DEF Numbers
    <3> QED  BY <2>1, <3>1, <3>2, <3>3 DEF Marker
  <2>3. CASE named[i].form # "evidence"
    <3>1. there(i) = [n |-> shown[i].n, means |-> NoChunk]
      BY <2>3
    <3> QED  BY <2>1, <3>1 DEF Marker
  <2> QED  BY <2>2, <2>3
<1>5. DOMAIN shown = 1 .. Len(shown) /\ Len(shown) \in Nat
  <2>1. shown \in Seq(Bracketed)
    BY <1>1 DEF OpenAll
  <2> QED  BY <2>1
<1>6. text \in Seq(Marker) /\ DOMAIN text = DOMAIN shown
  <2> HIDE DEF there
  <2>1. text \in [1 .. Len(shown) -> Marker]
    BY <1>4, <1>5
  <2> QED  BY <1>5, <2>1, FunctionIsSeq
<1>7. \A i \in DOMAIN shown : text[i] = there(i)
  OBVIOUS
<1> HIDE DEF text, there
<1>8. a \in Answer /\ a.text = text /\ a.cites = cites
  <2>1. PICK b : b = [text |-> text, cites |-> cites, weak |-> w]
    OBVIOUS
  <2>2. b \in Answer /\ b.text = text /\ b.cites = cites
    BY <1>2, <1>6, <2>1, AnswerOf
  <2> QED  BY <1>3, <2>1, <2>2, Zenon
<1> QED  BY <1>4, <1>6, <1>7, <1>8 DEF Opens

\* alignAiCitations.
LEMMA AlignStep ==
  ASSUME AskInv, NEW c \in Calls, Align(c)
  PROVE  AskInv'
<1>1. At(c, "align") /\ UNCHANGED <<gone, inflight, session, queries, chunks, faults, crashes>>
  BY DEF Align
<1>2. PICK pack \in Lists(Chunks), draft \in Drafts,
           claimed \in SeqOf(1 .. MaxCites, 1), weak \in BOOLEAN :
        call' = [call EXCEPT ![c].stage = "persist",
                   ![c].answer = [Cited(pack, draft, claimed) EXCEPT
                                    !.weak = weak \/ Cited(pack, draft, claimed).cites = <<>>]]
  BY Zenon DEF Align
<1>3. pack \in Seq(Chunks) /\ draft \in Seq(Bracketed) /\ claimed \in Seq(Nat)
  <2>1. MaxCites \in Nat /\ 1 \in Nat
    BY BoundsAssumption
  <2>2. pack \in Seq(Chunks)
    BY <2>1, BoundedLists DEF Lists
  <2>3. draft \in Seq(References \cup Strays) /\ claimed \in Seq(1 .. MaxCites)
    BY <2>1, BoundedLists DEF Drafts
  <2>4. 1 .. MaxCites \subseteq Nat
    BY <2>1
  <2>5. References \cup Strays \subseteq Bracketed
    BY <2>4, StraysAssumption DEF References, Bracketed, Forms
  <2>6. draft \in Seq(Bracketed) /\ claimed \in Seq(Nat)
    BY <2>3, <2>4, <2>5, WiderSeq, Zenon
  <2> QED  BY <2>2, <2>6
<1>4. PICK w \in BOOLEAN : w = (weak \/ Cited(pack, draft, claimed).cites = <<>>)
  BY Zenon
<1>5. PICK a : a = [Cited(pack, draft, claimed) EXCEPT !.weak = w]
  OBVIOUS
<1>6. call' = [call EXCEPT ![c].stage = "persist", ![c].answer = a]
  BY <1>2, <1>4, <1>5, Zenon
<1>7. a \in Answer /\ Opens(a)
  BY <1>3, <1>5, CitedOpens
<1> QED  BY <1>1, <1>6, <1>7, GetsReady DEF At

\* A line: its copied numbers mean no chunk, its own marker the passage.
LEMMA LineIs ==
  ASSUME NEW copied \in Seq(Nat), NEW i \in Nat, NEW passage \in Chunks
  PROVE  /\ Line(copied, i, passage) \in Seq(Marker)
         /\ \A t \in ToSet(Line(copied, i, passage)) : t.means = NoChunk \/ t = [n |-> i, means |-> passage]
<1> DEFINE stray == [k \in DOMAIN copied |-> [n |-> copied[k], means |-> NoChunk]]
           own   == [n |-> i, means |-> passage]
<1>1. Line(copied, i, passage) = Append(stray, own)
  BY Zenon DEF Line, Each
<1>2. DOMAIN copied = 1 .. Len(copied) /\ Len(copied) \in Nat
  OBVIOUS
<1>3. \A k \in DOMAIN copied : [n |-> copied[k], means |-> NoChunk] \in Marker
  BY DEF Marker
<1>4. stray \in Seq(Marker) /\ \A k \in DOMAIN stray : stray[k].means = NoChunk
  <2>1. stray \in [1 .. Len(copied) -> Marker]
    BY <1>2, <1>3
  <2> QED  BY <1>2, <2>1, FunctionIsSeq
<1>5. own \in Marker
  BY DEF Marker
<1> HIDE DEF stray, own
<1>6. Append(stray, own) \in Seq(Marker) /\ \A t \in ToSet(Append(stray, own)) : t \in ToSet(stray) \/ t = own
  BY <1>4, <1>5 DEF ToSet
<1>7. \A t \in ToSet(stray) : t.means = NoChunk
  BY <1>4 DEF ToSet
<1> QED  BY <1>1, <1>6, <1>7 DEF own

\* A text whose markers open what they were put there for.
TextOpens(text, cites) ==
  /\ text \in Seq(Marker)
  /\ \A k \in DOMAIN text : text[k].means # NoChunk => text[k].n \in DOMAIN cites /\ cites[text[k].n] = text[k].means

\* The fallback's text: a marker that is a passage's own has the place of the
\* passage.
LEMMA LinesOpen ==
  ASSUME NEW found \in Seq(Chunks), NEW copied \in [DOMAIN found -> Seq(Nat)],
         NEW text, text = FlattenSeq([i \in DOMAIN found |-> Line(copied[i], i, found[i])])
  PROVE  TextOpens(text, found)
<1> DEFINE lines == [i \in DOMAIN found |-> Line(copied[i], i, found[i])]
<1>1. ASSUME NEW i \in DOMAIN found
      PROVE  /\ Line(copied[i], i, found[i]) \in Seq(Marker)
             /\ \A t \in ToSet(Line(copied[i], i, found[i])) : t.means = NoChunk \/ t = [n |-> i, means |-> found[i]]
  <2>1. copied[i] \in Seq(Nat) /\ i \in Nat /\ found[i] \in Chunks
    OBVIOUS
  <2> QED  BY <2>1, LineIs
<1>2. /\ lines \in [DOMAIN found -> Seq(Marker)]
      /\ \A i \in DOMAIN found : lines[i] = Line(copied[i], i, found[i])
  BY <1>1
<1>3. text = FlattenSeq(lines)
  BY Zenon DEF lines
<1> HIDE DEF lines
<1>4. text \in Seq(Marker) /\ ToSet(text) = UNION {ToSet(lines[i]) : i \in DOMAIN found}
  <2>1. ASSUME NEW f \in [DOMAIN found -> Seq(Marker)]
        PROVE  FlattenSeq(f) \in Seq(Marker) /\ ToSet(FlattenSeq(f)) = UNION {ToSet(f[i]) : i \in DOMAIN found}
    BY FlattenEach
  <2> QED  BY <1>2, <1>3, <2>1, Zenon
<1>5. ASSUME NEW t \in ToSet(text), t.means # NoChunk
      PROVE  t.n \in DOMAIN found /\ found[t.n] = t.means
  <2>1. PICK i \in DOMAIN found : t \in ToSet(lines[i])
    BY <1>4
  <2>2. t \in ToSet(Line(copied[i], i, found[i]))
    BY <1>2, <2>1
  <2>3. t = [n |-> i, means |-> found[i]]
    BY <1>1, <1>5, <2>2
  <2> QED  BY <2>3
<1> QED  BY <1>4, <1>5 DEF ToSet, TextOpens

\* The fallback: each passage has its own marker, whatever is copied with it.
LEMMA SearchStep ==
  ASSUME AskInv, NEW c \in Calls, Search(c)
  PROVE  AskInv'
<1>1. At(c, "search") /\ UNCHANGED <<gone, inflight, session, queries, chunks, faults, crashes>>
  BY DEF Search
<1>2. PICK found \in Lists(chunks) \ {<<>>} :
        \E copied \in [DOMAIN found -> SeqOf({t.n : t \in Strays}, 1)] :
          call' = [call EXCEPT ![c].stage = "persist",
                               ![c].answer = [text |-> FlattenSeq([i \in DOMAIN found |-> Line(copied[i], i, found[i])]),
                                              cites |-> found, weak |-> FALSE]]
  BY Zenon DEF Search
<1>2a. PICK copied \in [DOMAIN found -> SeqOf({t.n : t \in Strays}, 1)] :
        call' = [call EXCEPT ![c].stage = "persist",
                             ![c].answer = [text |-> FlattenSeq([i \in DOMAIN found |-> Line(copied[i], i, found[i])]),
                                            cites |-> found, weak |-> FALSE]]
  BY <1>2, Zenon
<1>3. found \in Seq(Chunks)
  <2>1. found \in Seq(chunks)
    BY BoundedLists, BoundsAssumption DEF Lists
  <2> QED  BY <2>1 DEF AskInv, Typed, TypeOK
<1>4. copied \in [DOMAIN found -> Seq(Nat)]
  <2>1. {t.n : t \in Strays} \subseteq Nat
    BY StraysAssumption DEF Bracketed
  <2>2. \A s \in SeqOf({t.n : t \in Strays}, 1) : s \in Seq(Nat)
    <3> SUFFICES ASSUME NEW s \in SeqOf({t.n : t \in Strays}, 1) PROVE s \in Seq(Nat)
      OBVIOUS
    <3>1. s \in Seq({t.n : t \in Strays})
      BY BoundedLists
    <3> QED  BY <2>1, <3>1, WiderSeq, Zenon
  <2> QED  BY <2>2
<1>5. PICK m : m = FlattenSeq([i \in DOMAIN found |-> Line(copied[i], i, found[i])])
  OBVIOUS
<1>6. TextOpens(m, found)
  BY <1>3, <1>4, <1>5, LinesOpen, Zenon
<1>7. PICK f \in BOOLEAN : f = FALSE
  BY Zenon
<1>8. PICK a : a = [text |-> m, cites |-> found, weak |-> f]
  OBVIOUS
<1>9. a \in Answer /\ a.text = m /\ a.cites = found
  <2>1. m \in Seq(Marker)
    BY <1>6, Zenon DEF TextOpens
  <2> QED  BY <1>3, <1>8, <2>1, AnswerOf
<1>10. Opens(a)
  BY <1>6, <1>9 DEF Opens, TextOpens
<1>11. call' = [call EXCEPT ![c].stage = "persist", ![c].answer = a]
  BY <1>2a, <1>5, <1>7, <1>8, Zenon
<1> QED  BY <1>1, <1>9, <1>10, <1>11, GetsReady DEF At

-----------------------------------------------------------------------------
(* An answer is stored, and returned *)

\* A row is added, for a key that has none.
LEMMA CreateQueryStep ==
  ASSUME AskInv, NEW c \in Calls, CreateQuery(c)
  PROVE  AskInv'
<1> DEFINE a == call[c].answer
           N == Len(queries)
<1> USE DEF AskInv
<1>1. /\ At(c, "persist") /\ (a.cites # <<>> \/ a.weak)
      /\ UNCHANGED <<gone, inflight, session, chunks, faults, crashes>>
  BY DEF CreateQuery
<1>2. /\ call[c] \in Call /\ a \in Answer /\ a.cites \in Seq(Chunks) /\ a.text \in Seq(Marker)
      /\ a.weak \in BOOLEAN /\ queries \in Seq(Query) /\ N \in Nat
  BY DEF Typed, CallsTyped, TypeOK, Call, Answer
<1>3. call[c].key \in Sent
  BY <1>1 DEF KeysInv, Asked, At, Working
<1>4. PICK e : e = <<>>
  OBVIOUS
<1>5. e \in Seq(Chunks) /\ Len(e) = 0
  BY <1>4
<1>6. PICK b : b = [a EXCEPT !.cites = e]
  OBVIOUS
<1>7. b \in Answer /\ b.cites = e /\ b.weak = a.weak /\ b.text = a.text
  BY <1>2, <1>5, <1>6, OtherCites
<1>8. PICK q : q = [key |-> call[c].key, answer |-> b]
  OBVIOUS
<1>9. q \in Query /\ q.key = call[c].key /\ q.answer = b
  BY <1>3, <1>7, <1>8 DEF Query
<1>10. queries' = Append(queries, q)
  BY <1>4, <1>6, <1>8, Zenon DEF CreateQuery
<1>11. /\ queries' \in Seq(Query) /\ DOMAIN queries' = 1 .. N + 1 /\ DOMAIN queries = 1 .. N
       /\ queries'[N + 1] = q /\ \A i \in 1 .. N : queries'[i] = queries[i]
  BY <1>2, <1>9, <1>10
<1>12. PICK r : r = [[[call[c] EXCEPT !.stage = "cite"] EXCEPT !.left = a.cites]
                        EXCEPT !.query = N + 1]
  OBVIOUS
<1>13. /\ r \in Call /\ r.stage = "cite" /\ r.key = call[c].key /\ r.answer = a
       /\ r.left = a.cites /\ r.query = N + 1
  <2>1. N + 1 \in Nat
    BY <1>2
  <2> HIDE DEF N
  <2> QED  BY <1>2, <1>12, <2>1 DEF Call, Stages, Working
<1>14. call' = [call EXCEPT ![c] = r]
  <2>1. call' = [call EXCEPT ![c].stage = "cite", ![c].left = a.cites, ![c].query = N + 1]
    BY Zenon DEF CreateQuery
  <2> QED  BY <1>12, <2>1 DEF Typed, CallsTyped
<1>15. CallsTyped' /\ call'[c] = r /\ \A d \in Calls \ {c} : call'[d] = call[d]
  BY <1>13, <1>14, MoveOne DEF Typed
<1> HIDE DEF N
<1>16. Typed'
  <2>1. \A d \in Calls : call'[d] \in Call
    BY <1>15 DEF CallsTyped
  <2>2. session
    BY <1>1 DEF Typed, SessionReady, At
  <2>3. \A s \in ToSet(queries') : ToSet(s.answer.cites) \subseteq chunks
    <3> SUFFICES ASSUME NEW i \in DOMAIN queries' PROVE ToSet(queries'[i].answer.cites) \subseteq chunks
      BY DEF ToSet
    <3>1. CASE i = N + 1
      <4>1. ToSet(e) = {}
        BY <1>5 DEF ToSet
      <4> QED  BY <1>7, <1>9, <1>11, <3>1, <4>1
    <3>2. CASE i \in 1 .. N
      <4>1. queries[i] \in ToSet(queries)
        BY <1>11, <3>2 DEF ToSet
      <4> QED  BY <1>11, <3>2, <4>1 DEF Typed, TypeOK
    <3> QED  BY <1>2, <1>11, <3>1, <3>2
  <2>4. TypeOK'
    BY <1>1, <1>11, <2>1, <2>2, <2>3 DEF Typed, TypeOK
  <2>5. SessionReady'
    BY <1>1, <2>2 DEF SessionReady
  <2> QED  BY <1>15, <2>4, <2>5 DEF Typed
<1>17. call[c].key # NoKey => \A i \in 1 .. N : queries[i].key # call[c].key
  BY <1>1, <1>11 DEF KeysInv, NotStoredYet, Unstored, At
<1>18. KeysInv'
  <2>0. "cite" \in Working /\ "cite" \notin Unstored /\ "joined" \notin Working
        /\ call[c].stage \in Working /\ Unstored \subseteq Working
    BY <1>1 DEF Working, Unstored, At
  <2>1. Asked'
    BY <1>3, <1>13, <1>15 DEF KeysInv, Asked
  <2>2. OneWorker'
    <3>1. ASSUME NEW k \in Keys, inflight'[k] # NoCall
          PROVE  call'[inflight'[k]].stage \in Working /\ call'[inflight'[k]].key = k
      <4>1. inflight[k] \in Calls /\ call[inflight[k]].stage \in Working
            /\ call[inflight[k]].key = k
        BY <1>1, <3>1 DEF Typed, TypeOK, KeysInv, OneWorker
      <4> QED  BY <1>1, <1>13, <1>15, <2>0, <4>1
    <3>2. ASSUME NEW d \in Calls, call'[d].stage \in Working, call'[d].key # NoKey
          PROVE  inflight'[call'[d].key] = d
      BY <1>1, <1>13, <1>15, <2>0, <3>2 DEF KeysInv, OneWorker
    <3> QED  BY <3>1, <3>2 DEF OneWorker
  <2>3. JoinedWait'
    BY <1>1, <1>13, <1>15 DEF KeysInv, JoinedWait, At
  <2>4. NotStoredYet'
    <3> SUFFICES ASSUME NEW d \in Calls, call'[d].stage \in Unstored, call'[d].key # NoKey,
                        NEW i \in 1 .. N + 1
                 PROVE  queries'[i].key # call'[d].key
      BY <1>11 DEF NotStoredYet
    <3>1. d # c /\ call'[d] = call[d]
      BY <1>13, <1>15, <2>0
    <3>2. CASE i \in 1 .. N
      BY <1>11, <3>1, <3>2 DEF KeysInv, NotStoredYet
    <3>3. CASE i = N + 1
      <4>1. call[d].key # call[c].key
        BY <2>0, <3>1 DEF KeysInv, OneWorker
      <4> QED  BY <1>9, <1>11, <3>1, <3>3, <4>1
    <3> QED  BY <1>2, <3>2, <3>3
  <2>5. OneRowPerKey'
    <3> SUFFICES ASSUME NEW i \in 1 .. N + 1, NEW j \in 1 .. N + 1,
                        queries'[i].key # NoKey, queries'[i].key = queries'[j].key
                 PROVE  i = j
      BY <1>11 DEF OneRowPerKey
    <3>1. CASE i \in 1 .. N /\ j \in 1 .. N
      BY <1>11, <3>1 DEF KeysInv, OneRowPerKey
    <3>2. CASE i = N + 1 /\ j \in 1 .. N
      BY <1>9, <1>11, <1>17, <3>2
    <3>3. CASE i \in 1 .. N /\ j = N + 1
      BY <1>9, <1>11, <1>17, <3>3
    <3> QED  BY <1>2, <3>1, <3>2, <3>3
  <2> QED  BY <2>1, <2>2, <2>3, <2>4, <2>5 DEF KeysInv
<1>19. RowsInv'
  <2>1. ASSUME NEW d \in Calls, call'[d].stage = "cite" PROVE Writing(call[d])'
    <3>1. CASE d = c
      <4>1. /\ Written(r) = 0 /\ 0 \in 0 .. Len(a.cites)
            /\ a.cites = SubSeq(a.cites, 1, Len(a.cites)) /\ SubSeq(a.cites, 1, 0) = e
        BY <1>2, <1>4, <1>13 DEF Written
      <4>2. Among(e, chunks) = e
        <5>1. \A i \in DOMAIN e : e[i] \in chunks
          BY <1>5
        <5> QED  BY <1>5, <5>1, AmongAll
      <4>3. a.cites = <<>> => a.weak
        BY <1>1
      <4>4. N + 1 \in DOMAIN queries'
        BY <1>2, <1>11
      <4>5. r.left = SubSeq(r.answer.cites, Written(r) + 1, Len(r.answer.cites))
        BY <1>13, <4>1
      <4>6. queries'[N + 1].answer.cites = Among(SubSeq(r.answer.cites, 1, Written(r)), chunks')
        BY <1>1, <1>7, <1>9, <1>11, <1>13, <4>1, <4>2
      <4> HIDE DEF a
      <4> QED  BY <1>7, <1>9, <1>11, <1>13, <1>15, <3>1, <4>1, <4>3, <4>4, <4>5, <4>6 DEF Writing, Written
    <3>2. CASE d # c
      <4>1. call'[d] = call[d] /\ Writing(call[d])
        BY <1>15, <2>1, <3>2 DEF RowsInv, At
      <4>2. call[d].query \in 1 .. N
        BY <1>11, <4>1 DEF Writing
      <4>3. call[d].query \in 1 .. N + 1
        BY <1>2, <4>2
      <4> QED  BY <1>1, <1>11, <4>1, <4>2, <4>3 DEF Writing, Written
    <3> QED  BY <3>1, <3>2
  <2>2. ASSUME NEW d \in Calls, call'[d].stage = "answered" PROVE Stored(call[d])'
    <3>1. call'[d] = call[d] /\ Stored(call[d])
      BY <1>13, <1>15, <2>2 DEF RowsInv, At
    <3>2. call[d].query \in 1 .. N
      BY <1>11, <3>1 DEF Stored
    <3>3. call[d].query \in 1 .. N + 1
      BY <1>2, <3>2
    <3> QED  BY <1>1, <1>11, <3>1, <3>2, <3>3 DEF Stored, StoredWeak
  <2>3. \A d \in Calls : call'[d].stage \in {"persist", "cite"} => Opens(call'[d].answer)
    BY <1>1, <1>13, <1>15 DEF RowsInv, At
  <2>4. Apart'
    <3>1. \A d \in Calls \ {c} :
            call'[d].stage \in {"cite", "answered"} =>
              call'[d] = call[d] /\ call[d].query \in 1 .. N
      BY <1>11, <1>15 DEF RowsInv, At, Writing, Stored
    <3>2. N + 1 \notin 1 .. N
      BY <1>2
    <3>3. \A d \in Calls \ {c} : call'[d].stage \in {"cite", "answered"} => call'[d].query # N + 1
      BY <3>1, <3>2
    <3> QED  BY <1>13, <1>15, <3>1, <3>3 DEF RowsInv, Apart, At
  <2> QED  BY <2>1, <2>2, <2>3, <2>4 DEF RowsInv, At
<1> QED  BY <1>16, <1>18, <1>19

\* The rows of the others, where a call writes to its own.
LEMMA OthersKeepTheirs ==
  ASSUME AskInv, NEW c \in Calls, At(c, "cite"), UNCHANGED chunks,
         NEW d \in Calls, d # c, call'[d] = call[d],
         DOMAIN queries' = DOMAIN queries,
         \A i \in DOMAIN queries : i # call[c].query => queries'[i] = queries[i]
  PROVE  /\ At(d, "cite") => Writing(call[d])'
         /\ At(d, "answered") => Stored(call[d])'
<1>1. At(d, "cite") => Writing(call[d]) /\ call[d].query # call[c].query
  BY DEF AskInv, RowsInv, Apart, At
<1>2. At(d, "answered") => Stored(call[d]) /\ call[d].query # call[c].query
  BY DEF AskInv, RowsInv, Apart, At
<1>3. At(d, "cite") => Writing(call[d])'
  BY <1>1 DEF Writing, Written
<1>4. At(d, "answered") => Stored(call[d])'
  BY <1>2 DEF Stored, StoredWeak
<1> QED  BY <1>3, <1>4

\* One more of the citations that are left is written.
LEMMA OneMoreWritten ==
  ASSUME NEW s \in Seq(Chunks), NEW n \in 0 .. Len(s), NEW left, left # <<>>,
         left = SubSeq(s, n + 1, Len(s)), Head(left) \in chunks
  PROVE  /\ n + 1 \in 0 .. Len(s) /\ Head(left) = s[n + 1] /\ Head(left) \in Chunks
         /\ Tail(left) = SubSeq(s, n + 2, Len(s))
         /\ left \in Seq(Chunks) /\ Len(left) = Len(s) - n /\ Len(Tail(left)) = Len(s) - (n + 1)
         /\ Among(SubSeq(s, 1, n + 1), chunks) = Append(Among(SubSeq(s, 1, n), chunks), Head(left))
<1>1. n \in Nat /\ Len(s) \in Nat
  OBVIOUS
<1>2. n < Len(s)
  OBVIOUS
<1>3. /\ left \in Seq(Chunks) /\ Len(left) = Len(s) - n
      /\ Head(left) = s[n + 1] /\ Head(left) \in Chunks
      /\ Tail(left) = SubSeq(s, n + 2, Len(s))
      /\ Len(Tail(left)) = Len(s) - (n + 1)
  BY <1>1, <1>2
<1>4. PICK t : t = SubSeq(s, 1, n)
  OBVIOUS
<1>5. t \in Seq(Chunks) /\ SubSeq(s, 1, n + 1) = Append(t, Head(left))
  BY <1>1, <1>2, <1>3, <1>4
<1>6. Among(Append(t, Head(left)), chunks) = Append(Among(t, chunks), Head(left))
  <2>1. ASSUME NEW u \in Seq(Chunks), NEW x \in Chunks, x \in chunks
        PROVE  Among(Append(u, x), chunks) = Append(Among(u, chunks), x)
    BY <2>1, AmongAppend
  <2> QED  BY <1>3, <1>5, <2>1, Zenon
<1>7. Among(SubSeq(s, 1, n + 1), chunks) = Append(Among(SubSeq(s, 1, n), chunks), Head(left))
  BY <1>4, <1>5, <1>6, Zenon
<1>8. n + 1 \in 0 .. Len(s)
  BY <1>1, <1>2
<1> QED  BY <1>3, <1>7, <1>8

\* A citation is written to the row of the call.
LEMMA CreateCitationStep ==
  ASSUME AskInv, NEW c \in Calls, CreateCitation(c)
  PROVE  AskInv'
<1> DEFINE a  == call[c].answer
           n  == Written(call[c])
           i  == call[c].query
           ch == Head(call[c].left)
<1> USE DEF AskInv
<1>1. /\ At(c, "cite") /\ call[c].left # <<>> /\ ch \in chunks
      /\ UNCHANGED <<gone, inflight, session, chunks, faults, crashes>>
  BY DEF CreateCitation
<1>2. Writing(call[c])
  BY <1>1 DEF RowsInv
<1>3. /\ call[c] \in Call /\ a \in Answer /\ a.cites \in Seq(Chunks)
      /\ call[c].left \in Seq(Chunks)
  BY DEF Typed, CallsTyped, Call, Answer
<1>4. /\ i \in DOMAIN queries /\ queries[i] \in Query /\ queries \in Seq(Query) /\ i \in Nat
      /\ queries[i].answer \in Answer /\ queries[i].answer.cites \in Seq(Chunks)
      /\ \A p \in DOMAIN queries[i].answer.cites : queries[i].answer.cites[p] \in chunks
  BY <1>2, RowsAre DEF Writing
<1>5. /\ n \in 0 .. Len(a.cites) /\ call[c].left = SubSeq(a.cites, n + 1, Len(a.cites))
      /\ queries[i].answer.cites = Among(SubSeq(a.cites, 1, n), chunks)
  BY <1>2 DEF Writing
<1>6. /\ n + 1 \in 0 .. Len(a.cites) /\ ch \in Chunks
      /\ Tail(call[c].left) = SubSeq(a.cites, n + 2, Len(a.cites))
      /\ Len(Tail(call[c].left)) = Len(a.cites) - (n + 1)
      /\ Among(SubSeq(a.cites, 1, n + 1), chunks)
         = Append(Among(SubSeq(a.cites, 1, n), chunks), ch)
  <2> HIDE DEF n, a
  <2>1. PICK left : left = call[c].left
    OBVIOUS
  <2>2. left # <<>> /\ Head(left) \in chunks /\ left = SubSeq(a.cites, n + 1, Len(a.cites))
    BY <1>1, <1>5, <2>1
  <2>3. ASSUME NEW s \in Seq(Chunks), NEW m \in 0 .. Len(s), left = SubSeq(s, m + 1, Len(s))
        PROVE  /\ m + 1 \in 0 .. Len(s) /\ Head(left) \in Chunks
               /\ Tail(left) = SubSeq(s, m + 2, Len(s))
               /\ Len(Tail(left)) = Len(s) - (m + 1)
               /\ Among(SubSeq(s, 1, m + 1), chunks)
                  = Append(Among(SubSeq(s, 1, m), chunks), Head(left))
    BY <2>2, <2>3, OneMoreWritten
  <2> QED  BY <1>3, <1>5, <2>1, <2>2, <2>3, Zenon
<1>7. PICK t : t = Append(queries[i].answer.cites, ch)
  OBVIOUS
<1>8. t \in Seq(Chunks) /\ \A p \in DOMAIN t : t[p] \in chunks
  <2>1. PICK old : old = queries[i].answer.cites
    OBVIOUS
  <2>2. old \in Seq(Chunks) /\ (\A p \in DOMAIN old : old[p] \in chunks) /\ ch \in Chunks /\ ch \in chunks
    BY <1>1, <1>4, <1>6, <2>1
  <2>3. t = Append(old, ch)
    BY <1>7, <2>1
  <2> HIDE DEF i, ch
  <2> QED  BY <2>2, <2>3
<1>9. PICK b : b = [queries[i].answer EXCEPT !.cites = t]
  OBVIOUS
<1>10. b \in Answer /\ b.cites = t /\ b.weak = queries[i].answer.weak
       /\ b.text = queries[i].answer.text
  <2> HIDE DEF i
  <2>1. ASSUME NEW g \in Answer
        PROVE  /\ [g EXCEPT !.cites = t] \in Answer /\ [g EXCEPT !.cites = t].cites = t
               /\ [g EXCEPT !.cites = t].weak = g.weak /\ [g EXCEPT !.cites = t].text = g.text
    BY <1>8, OtherCites
  <2> QED  BY <1>4, <1>9, <2>1, Zenon
<1>11. PICK q : q = [queries[i] EXCEPT !.answer = b]
  OBVIOUS
<1>12. q \in Query /\ q.key = queries[i].key /\ q.answer = b
  BY <1>4, <1>10, <1>11 DEF Query
<1>13. queries' = [queries EXCEPT ![i] = q]
  <2>1. queries' = [queries EXCEPT ![i].answer.cites = Append(@, ch)]
    BY DEF CreateCitation
  <2> HIDE DEF i, ch
  <2> QED  BY <1>4, <1>7, <1>9, <1>11, <2>1
<1>14. /\ queries' \in Seq(Query) /\ DOMAIN queries' = DOMAIN queries /\ queries'[i] = q
       /\ \A j \in DOMAIN queries : j # i => queries'[j] = queries[j]
  <2> HIDE DEF i
  <2> QED  BY <1>4, <1>12, <1>13
<1>15. PICK r : r = [call[c] EXCEPT !.left = Tail(@)]
  OBVIOUS
<1>16. /\ r \in Call /\ r.stage = "cite" /\ r.key = call[c].key /\ r.answer = a
       /\ r.left = Tail(call[c].left) /\ r.query = i
  <2>1. Tail(call[c].left) \in Seq(Chunks)
    BY <1>1, <1>3
  <2> QED  BY <1>1, <1>3, <1>15, <2>1 DEF Call, At
<1>17. call' = [call EXCEPT ![c] = r]
  BY <1>15 DEF CreateCitation, Typed, CallsTyped
<1>18. CallsTyped' /\ call'[c] = r /\ \A d \in Calls \ {c} : call'[d] = call[d]
  BY <1>16, <1>17, MoveOne DEF Typed
<1>19. Typed'
  <2>1. \A d \in Calls : call'[d] \in Call
    BY <1>18 DEF CallsTyped
  <2>2. \A s \in ToSet(queries') : ToSet(s.answer.cites) \subseteq chunks
    <3> SUFFICES ASSUME NEW j \in DOMAIN queries
                 PROVE  ToSet(queries'[j].answer.cites) \subseteq chunks
      BY <1>14 DEF ToSet
    <3>1. CASE j = i
      <4>1. ToSet(t) \subseteq chunks
        BY <1>8 DEF ToSet
      <4> QED  BY <1>10, <1>12, <1>14, <3>1, <4>1
    <3>2. CASE j # i
      <4>1. queries[j] \in ToSet(queries)
        BY DEF ToSet
      <4> QED  BY <1>14, <3>2, <4>1 DEF Typed, TypeOK
    <3> QED  BY <3>1, <3>2
  <2>3. session
    BY <1>1 DEF Typed, SessionReady, At
  <2>4. TypeOK'
    BY <1>1, <1>14, <2>1, <2>2, <2>3 DEF Typed, TypeOK
  <2>5. SessionReady'
    BY <1>1, <2>3 DEF SessionReady
  <2> QED  BY <1>18, <2>4, <2>5 DEF Typed
<1>20. KeysInv'
  <2>1. call[c].stage \in Working /\ r.stage \in Working /\ r.stage \notin Unstored
    BY <1>1, <1>16 DEF At, Working, Unstored
  <2>2. \A j \in DOMAIN queries : queries'[j].key = queries[j].key
    BY <1>12, <1>14
  <2> QED  BY <1>1, <1>14, <1>16, <1>17, <2>1, <2>2, KeysAfterMove DEF Typed
<1>21. RowsInv'
  <2>1. Writing(call[c])'
    <3>1. Written(r) = n + 1
      <4>1. Len(a.cites) \in Nat /\ n \in Nat
        BY <1>3, <1>5
      <4> HIDE DEF a, n
      <4>2. r.answer.cites = a.cites /\ Len(r.left) = Len(a.cites) - (n + 1)
        BY <1>6, <1>16
      <4>3. Written(r) = Len(a.cites) - (Len(a.cites) - (n + 1))
        BY <4>2, Zenon DEF Written
      <4>4. \A L, m \in Nat : L - (L - (m + 1)) = m + 1
        OBVIOUS
      <4> QED  BY <4>1, <4>3, <4>4, Zenon
    <3>2. r.left = SubSeq(a.cites, Written(r) + 1, Len(a.cites))
      <4>1. n + 1 + 1 = n + 2
        BY <1>5
      <4> HIDE DEF a, n
      <4> QED  BY <1>6, <1>16, <3>1, <4>1
    <3>3. t = Among(SubSeq(a.cites, 1, Written(r)), chunks)
      <4> HIDE DEF a, n, ch, i
      <4> QED  BY <1>5, <1>6, <1>7, <3>1, Zenon
    <3>4. queries'[i].key = r.key /\ queries'[i].answer = b
      BY <1>2, <1>12, <1>14, <1>16 DEF Writing
    <3>5. b.text = a.text /\ b.weak = a.weak /\ (a.cites = <<>> => a.weak)
      BY <1>2, <1>10 DEF Writing
    <3>6. Written(r) \in 0 .. Len(a.cites) /\ i \in DOMAIN queries'
      BY <1>4, <1>6, <1>14, <3>1
    <3> HIDE DEF a, n, i, ch
    <3> QED  BY <1>1, <1>10, <1>16, <1>18, <3>2, <3>3, <3>4, <3>5, <3>6 DEF Writing, Written
  <2>2. \A d \in Calls \ {c} : /\ At(d, "cite") => Writing(call[d])'
                               /\ At(d, "answered") => Stored(call[d])'
    BY <1>1, <1>14, <1>18, OthersKeepTheirs
  <2>3. \A d \in Calls : call'[d].stage = "cite" => Writing(call[d])'
    BY <1>18, <2>1, <2>2 DEF At
  <2>4. \A d \in Calls : call'[d].stage = "answered" => Stored(call[d])'
    BY <1>16, <1>18, <2>2 DEF At
  <2>5. \A d \in Calls : call'[d].stage \in {"persist", "cite"} => Opens(call'[d].answer)
    BY <1>1, <1>16, <1>18 DEF RowsInv, At
  <2>6. Apart'
    BY <1>1, <1>16, <1>18 DEF RowsInv, Apart, At
  <2> QED  BY <2>3, <2>4, <2>5, <2>6 DEF RowsInv, At
<1> QED  BY <1>19, <1>20, <1>21

\* The answer is returned when no citation is left.
LEMMA ReplyStep ==
  ASSUME AskInv, NEW c \in Calls, Reply(c)
  PROVE  AskInv'
<1> DEFINE a == call[c].answer
<1>1. /\ At(c, "cite") /\ call[c].left = <<>> /\ Writing(call[c]) /\ Opens(a)
      /\ UNCHANGED <<session, queries, chunks, faults, crashes>>
  BY DEF Reply, AskInv, RowsInv, At
<1>2. a \in Answer /\ call[c].query \in Nat /\ a.cites \in Seq(Chunks)
  BY DEF AskInv, Typed, CallsTyped, Call, Answer
<1>3. PICK f \in BOOLEAN : f = FALSE
  BY Zenon
<1>4. PICK r : r = Answered(a, call[c].query, f)
  OBVIOUS
<1>5. r \in Call /\ r.stage = "answered" /\ r.answer = a /\ r.query = call[c].query
  BY <1>2, <1>4, AnsweredCall
<1>6. Settle(c, r)
  BY <1>3, <1>4, Zenon DEF Reply
<1>7. call[c].stage \in Working /\ r.stage \in Over
  BY <1>1, <1>5 DEF At, Working, Over
<1>8. Written(call[c]) = Len(a.cites) /\ SubSeq(a.cites, 1, Len(a.cites)) = a.cites
  BY <1>1, <1>2 DEF Written
<1>9. Stored(r)
  <2>1. /\ call[c].query \in DOMAIN queries
        /\ queries[call[c].query].answer.cites = Among(a.cites, chunks)
        /\ queries[call[c].query].answer.text = a.text
        /\ queries[call[c].query].answer.weak = a.weak
        /\ a.cites = <<>> => a.weak
    <3>1. queries[call[c].query].answer.cites = Among(a.cites, chunks)
      BY <1>1, <1>8, Zenon DEF Writing
    <3> QED  BY <1>1, <3>1 DEF Writing
  <2> HIDE DEF a
  <2> QED  BY <1>1, <1>5, <2>1 DEF Stored, StoredWeak
<1>10. \A d \in Calls : At(d, "cite") /\ call[d].query = r.query => d = c
  BY <1>1, <1>5 DEF AskInv, RowsInv, Apart, At
<1>11. Typed'
  <2>1. faults' \in 0 .. MaxFaults
    BY <1>1, FaultCounted DEF AskInv
  <2> QED  BY <1>1, <1>5, <1>6, <1>7, <2>1, TypesAfterSettle DEF AskInv
<1>12. KeysInv'
  BY <1>1, <1>5, <1>6, <1>7, KeysAfterSettle DEF AskInv, Typed
<1>13. RowsInv'
  BY <1>1, <1>5, <1>6, <1>9, <1>10, RowsAfterAnswer DEF AskInv, Typed
<1> QED  BY <1>11, <1>12, <1>13 DEF AskInv

-----------------------------------------------------------------------------
(* Around the calls *)

\* What a cut leaves of a list that has been cut before.
LEMMA CutAgain ==
  ASSUME NEW s \in Seq(Chunks), NEW S, NEW T, T \subseteq S
  PROVE  Among(Among(s, S), T) = Among(s, T)
<1>1. S \cap T = T
  OBVIOUS
<1>2. Among(Among(s, S), T) = Among(s, S \cap T)
  BY AmongAmong
<1> QED  BY <1>1, <1>2, Zenon

\* A row with other citations.
LEMMA RowCut ==
  ASSUME NEW q \in Query, NEW s \in Seq(Chunks)
  PROVE  /\ [q EXCEPT !.answer.cites = s] \in Query
         /\ [q EXCEPT !.answer.cites = s].key = q.key
         /\ [q EXCEPT !.answer.cites = s].answer.cites = s
         /\ [q EXCEPT !.answer.cites = s].answer.text = q.answer.text
         /\ [q EXCEPT !.answer.cites = s].answer.weak = q.answer.weak
<1>1. q.answer \in Answer /\ q.key \in Sent
  BY DEF Query
<1>2. PICK b : b = [q.answer EXCEPT !.cites = s]
  OBVIOUS
<1>3. b \in Answer /\ b.cites = s /\ b.weak = q.answer.weak /\ b.text = q.answer.text
  <2>1. ASSUME NEW g \in Answer
        PROVE  /\ [g EXCEPT !.cites = s] \in Answer /\ [g EXCEPT !.cites = s].cites = s
               /\ [g EXCEPT !.cites = s].weak = g.weak /\ [g EXCEPT !.cites = s].text = g.text
    BY OtherCites
  <2> QED  BY <1>1, <1>2, <2>1, Zenon
<1>4. PICK p : p = [q EXCEPT !.answer = b]
  OBVIOUS
<1>5. p \in Query /\ p.key = q.key /\ p.answer = b
  BY <1>1, <1>3, <1>4 DEF Query
<1>6. p = [q EXCEPT !.answer.cites = s]
  BY <1>2, <1>4
<1> QED  BY <1>3, <1>5, <1>6

\* A chunk goes: the citations of all rows are cut, of the answers only what
\* is said of them.
LEMMA RemoveChunkStep ==
  ASSUME AskInv, NEW ch \in Chunks, RemoveChunk(ch)
  PROVE  AskInv'
<1> DEFINE T == chunks \ {ch}
<1> USE DEF AskInv
<1>1. chunks' = T /\ UNCHANGED <<call, gone, inflight, session, faults, crashes>>
  BY DEF RemoveChunk
<1>2. T \subseteq chunks /\ T \subseteq Chunks /\ queries \in Seq(Query)
  BY DEF Typed, TypeOK
<1> HIDE DEF T
<1>3. ASSUME NEW i \in DOMAIN queries
      PROVE  /\ queries'[i] \in Query /\ queries'[i].key = queries[i].key
             /\ queries'[i].answer.cites = Among(queries[i].answer.cites, T)
             /\ queries'[i].answer.text = queries[i].answer.text
             /\ queries'[i].answer.weak = queries[i].answer.weak
             /\ ToSet(queries'[i].answer.cites) \subseteq T
             /\ queries[i].answer.cites = <<>> => queries'[i].answer.cites = <<>>
  <2>1. queries[i] \in Query /\ queries[i].answer.cites \in Seq(Chunks)
    BY RowsAre
  <2>2. PICK s : s = Among(queries[i].answer.cites, T)
    OBVIOUS
  <2>3. s \in Seq(Chunks) /\ \A p \in DOMAIN s : s[p] \in T
    BY <2>1, <2>2, AmongIsLeft
  <2>4. queries'[i] = [queries[i] EXCEPT !.answer.cites = s]
    <3>1. queries' = [j \in DOMAIN queries |->
                        [queries[j] EXCEPT !.answer.cites = Among(queries[j].answer.cites, T)]]
      BY Zenon DEF RemoveChunk, T
    <3>2. queries'[i] = [queries[i] EXCEPT !.answer.cites = Among(queries[i].answer.cites, T)]
      BY <3>1, Zenon
    <3> QED  BY <2>2, <3>2, Zenon
  <2>5. /\ queries'[i] \in Query /\ queries'[i].key = queries[i].key
        /\ queries'[i].answer.cites = s
        /\ queries'[i].answer.text = queries[i].answer.text
        /\ queries'[i].answer.weak = queries[i].answer.weak
    <3>1. ASSUME NEW q \in Query
          PROVE  /\ [q EXCEPT !.answer.cites = s] \in Query
                 /\ [q EXCEPT !.answer.cites = s].key = q.key
                 /\ [q EXCEPT !.answer.cites = s].answer.cites = s
                 /\ [q EXCEPT !.answer.cites = s].answer.text = q.answer.text
                 /\ [q EXCEPT !.answer.cites = s].answer.weak = q.answer.weak
      BY <2>3, RowCut
    <3> QED  BY <2>1, <2>4, <3>1, Zenon
  <2>6. ToSet(s) \subseteq T
    BY <2>3 DEF ToSet
  <2>7. queries[i].answer.cites = <<>> => s = <<>>
    <3>1. PICK e : e = <<>>
      OBVIOUS
    <3>2. e \in Seq(Chunks) /\ \A p \in DOMAIN e : e[p] \in T
      BY <3>1
    <3>3. Among(e, T) = e
      BY <3>2, AmongAll
    <3> QED  BY <2>2, <3>1, <3>3, Zenon
  <2> QED  BY <2>2, <2>5, <2>6, <2>7
<1>4. DOMAIN queries' = DOMAIN queries /\ DOMAIN queries = 1 .. Len(queries)
  BY <1>2 DEF RemoveChunk
<1>5. queries' \in Seq(Query) /\ (queries' # <<>> => queries # <<>>)
  <2>1. queries' \in [1 .. Len(queries) -> Query]
    <3>1. queries' = [i \in DOMAIN queries |-> queries'[i]]
      BY DEF RemoveChunk
    <3> QED  BY <1>3, <1>4, <3>1
  <2>2. Len(queries) \in Nat
    BY <1>2
  <2>3. queries' \in Seq(Query) /\ Len(queries') = Len(queries)
    BY <2>1, <2>2, FunctionIsSeq
  <2> QED  BY <1>2, <2>3
<1>6. Typed'
  <2>1. \A q \in ToSet(queries') : ToSet(q.answer.cites) \subseteq T
    BY <1>3, <1>4 DEF ToSet
  <2>2. TypeOK'
    BY <1>1, <1>2, <1>5, <2>1 DEF Typed, TypeOK
  <2> QED  BY <1>1, <2>2 DEF Typed, CallsTyped, SessionReady
<1>7. KeysInv'
  BY <1>1, <1>3, <1>4 DEF KeysInv, Asked, OneWorker, JoinedWait, NotStoredYet, OneRowPerKey, At
<1>8. ASSUME NEW c \in Calls, At(c, "cite")
      PROVE  Writing(call[c])'
  <2>1. PICK s : s = SubSeq(call[c].answer.cites, 1, Written(call[c]))
    OBVIOUS
  <2>2. Writing(call[c])
    BY <1>8 DEF RowsInv
  <2>3. s \in Seq(Chunks)
    <3>1. call[c].answer.cites \in Seq(Chunks)
      BY StagesAre DEF Answer
    <3>2. Written(call[c]) \in 0 .. Len(call[c].answer.cites)
      BY <2>2 DEF Writing
    <3> QED  BY <2>1, <3>1, <3>2
  <2>4. queries[call[c].query].answer.cites = Among(s, chunks) /\ call[c].query \in DOMAIN queries
    BY <2>1, <2>2, Zenon DEF Writing
  <2>5. queries'[call[c].query].answer.cites = Among(s, T)
    <3>1. Among(Among(s, chunks), T) = Among(s, T)
      BY <1>2, <2>3, CutAgain
    <3> QED  BY <1>3, <2>4, <3>1
  <2> QED  BY <1>1, <1>3, <1>4, <2>1, <2>2, <2>4, <2>5 DEF Writing, Written
<1>9. ASSUME NEW c \in Calls, At(c, "answered")
      PROVE  Stored(call[c])'
  <2>1. Stored(call[c])
    BY <1>9 DEF RowsInv
  <2>2. call[c].query \in DOMAIN queries /\ call[c].answer.cites \in Seq(Chunks)
    BY <2>1, StagesAre DEF Stored, Answer
  <2>3. queries'[call[c].query].answer.cites = Among(call[c].answer.cites, T)
    <3>1. Among(Among(call[c].answer.cites, chunks), T) = Among(call[c].answer.cites, T)
      BY <1>2, <2>2, CutAgain
    <3> QED  BY <1>3, <2>1, <2>2, <3>1 DEF Stored
  <2>4. StoredWeak(queries[call[c].query]) => StoredWeak(queries[call[c].query])'
    BY <1>1, <1>3, <2>2 DEF StoredWeak
  <2> QED  BY <1>1, <1>3, <1>4, <2>1, <2>2, <2>3, <2>4 DEF Stored
<1>10. RowsInv'
  BY <1>1, <1>8, <1>9 DEF RowsInv, Apart, At
<1> QED  BY <1>6, <1>7, <1>10

\* The backend dies: what ran is lost, what was answered or stored stays.
LEMMA CrashStep ==
  ASSUME AskInv, Crash
  PROVE  AskInv'
<1> USE DEF AskInv
<1>1. /\ UNCHANGED <<session, queries, chunks, faults>> /\ gone' = {}
      /\ inflight' = [k \in Keys |-> NoCall] /\ crashes' \in 0 .. MaxCrashes
  BY BoundsAssumption DEF Crash, Typed, TypeOK
<1>2. PICK f : f = Failed
  OBVIOUS
<1>3. f \in Call /\ f.stage = "failed"
  BY <1>2, FailedCall
<1>4. call' = [c \in Calls |->
                 IF call[c].stage \in Working \cup {"joined"} THEN f ELSE call[c]]
  BY <1>2, Zenon DEF Crash
<1>5. \A c \in Calls : \/ call'[c] = f
                       \/ call'[c] = call[c] /\ call[c].stage \notin Working \cup {"joined"}
  BY <1>4
<1>6. CallsTyped'
  BY <1>3, <1>4 DEF Typed, CallsTyped
<1>7. \A c \in Calls : call'[c].stage \notin Working \cup {"joined"}
  BY <1>3, <1>5 DEF Working
<1>8. Typed'
  <2>1. \A c \in Calls : call'[c] \in Call
    BY <1>6 DEF CallsTyped
  <2>2. TypeOK'
    BY <1>1, <2>1 DEF Typed, TypeOK
  <2>3. SessionReady'
    BY <1>7 DEF SessionReady, Working
  <2> QED  BY <1>6, <2>2, <2>3 DEF Typed
<1>9. KeysInv'
  BY <1>1, <1>7 DEF KeysInv, Asked, OneWorker, JoinedWait, NotStoredYet, OneRowPerKey, At,
                    Unstored, Working
<1>10. RowsInv'
  <2>1. \A d \in Calls : call'[d] = call[d] \/ call'[d].stage \notin {"answered", "cite", "persist"}
    BY <1>3, <1>5
  <2> QED  BY <1>1, <2>1, RowsAfterQuiet
<1> QED  BY <1>8, <1>9, <1>10

\* A client that goes away changes nothing that is stored.
LEMMA DisconnectStep ==
  ASSUME AskInv, NEW c \in Calls, Disconnect(c)
  PROVE  AskInv'
<1> USE DEF AskInv
<1>1. gone' \subseteq Calls /\ UNCHANGED <<call, inflight, session, queries, chunks, faults, crashes>>
  BY DEF Disconnect, Typed, TypeOK
<1>2. Typed'
  BY <1>1 DEF Typed, TypeOK, CallsTyped, SessionReady
<1>3. KeysInv'
  BY <1>1 DEF KeysInv, Asked, OneWorker, JoinedWait, NotStoredYet, OneRowPerKey, At
<1>4. RowsInv'
  BY <1>1, RowsAfterQuiet
<1> QED  BY <1>2, <1>3, <1>4

-----------------------------------------------------------------------------
(* The invariant *)

\* Each step of a call keeps the invariant.
LEMMA CallStepKeeps ==
  ASSUME AskInv, NEW c \in Calls, CallStep(c)
  PROVE  AskInv'
<1> USE DEF AskInv
<1>0. session \in BOOLEAN /\ Unstored \subseteq Working /\ "replay" \in Working /\ "cite" \in Working
  BY DEF Typed, TypeOK, Unstored, Working
<1>00. call[c].stage \in Unstored /\ call[c].key # NoKey =>
         \A i \in DOMAIN queries : queries[i].key # call[c].key
  BY DEF KeysInv, NotStoredYet
<1>1. CASE Replay(c)
  <2> DEFINE found == {i \in DOMAIN queries : call[c].key = queries[i].key /\ call[c].key # NoKey}
  <2>1. At(c, "replay") /\ UNCHANGED <<session, queries, chunks, faults, crashes>>
    BY <1>1 DEF Replay
  <2>2. CASE found = {}
    <3>1. Goto(c, "session") /\ UNCHANGED <<inflight, gone>>
      BY <1>1, <2>2 DEF Replay
    <3>2. call[c].key # NoKey => \A i \in DOMAIN queries : queries[i].key # call[c].key
      BY <2>2
    <3> QED  BY <1>0, <2>1, <3>1, <3>2, GoesOn DEF At, Unstored
  <2>3. CASE found # {}
    <3>1. PICK i \in found :
            Settle(c, Answered([queries[i].answer EXCEPT !.weak = StoredWeak(queries[i])], i, TRUE))
      BY <1>1, <2>3, Zenon DEF Replay
    <3>2. PICK a : a = [queries[i].answer EXCEPT !.weak = StoredWeak(queries[i])]
      BY Zenon
    <3>3. i \in DOMAIN queries /\ call[c].key = queries[i].key /\ call[c].key # NoKey
      OBVIOUS
    <3>4. Settle(c, Answered(a, i, TRUE))
      BY <3>1, <3>2, Zenon
    <3> QED  BY <2>1, <3>2, <3>3, <3>4, Replayed, Zenon
  <2> QED  BY <2>2, <2>3
<1>2. CASE ResolveSession(c)
  <2>1. session' \in BOOLEAN /\ session'
    BY <1>2, Zenon DEF ResolveSession
  <2>2. /\ At(c, "session") /\ Goto(c, "ai")
        /\ UNCHANGED <<gone, inflight, queries, chunks, faults, crashes>>
    BY <1>2 DEF ResolveSession
  <2> QED  BY <1>0, <1>00, <2>1, <2>2, GoesOn DEF At, Unstored
<1>3. CASE Refused(c)
  BY <1>0, <1>3, EndsFailed DEF Refused, Unstored
<1>4. CASE AiAnswers(c)
  <2>1. At(c, "ai") /\ Goto(c, "align")
        /\ UNCHANGED <<gone, inflight, session, queries, chunks, faults, crashes>>
    BY <1>4 DEF AiAnswers
  <2>2. session
    BY <2>1 DEF Typed, SessionReady, At
  <2> QED  BY <1>0, <1>00, <2>1, <2>2, GoesOn DEF At, Unstored
<1>5. CASE AiFails(c)
  <2>1. At(c, "ai") /\ UNCHANGED <<session, queries, chunks, faults, crashes>>
    BY <1>5 DEF AiFails
  <2>2. session
    BY <2>1 DEF Typed, SessionReady, At
  <2>3. CASE Aborted(c)
    BY <1>0, <1>5, <2>1, <2>3, EndsFailed DEF AiFails, At, Unstored
  <2>4. CASE ~Aborted(c)
    <3>1. Goto(c, "search") /\ UNCHANGED <<inflight, gone>>
      BY <1>5, <2>4 DEF AiFails
    <3> QED  BY <1>0, <1>00, <2>1, <2>2, <3>1, GoesOn DEF At, Unstored
  <2> QED  BY <2>3, <2>4
<1>6. CASE AiSaysNothing(c)
  <2>1. At(c, "ai") /\ Goto(c, "search")
        /\ UNCHANGED <<gone, inflight, session, queries, chunks, faults, crashes>>
    BY <1>6 DEF AiSaysNothing
  <2>2. session
    BY <2>1 DEF Typed, SessionReady, At
  <2> QED  BY <1>0, <1>00, <2>1, <2>2, GoesOn DEF At, Unstored
<1>7. CASE Align(c)
  BY <1>7, AlignStep
<1>8. CASE AlignFails(c)
  <2>1. At(c, "align") /\ Fault /\ UNCHANGED <<session, queries, chunks, crashes>>
    BY <1>8 DEF AlignFails
  <2>2. session
    BY <2>1 DEF Typed, SessionReady, At
  <2>3. CASE Aborted(c)
    BY <1>0, <1>8, <2>1, <2>3, EndsFailed DEF AlignFails, At, Unstored
  <2>4. CASE ~Aborted(c)
    <3>1. Goto(c, "search") /\ UNCHANGED <<inflight, gone>>
      BY <1>8, <2>4 DEF AlignFails
    <3> QED  BY <1>0, <1>00, <2>1, <2>2, <3>1, GoesOn DEF At, Unstored
  <2> QED  BY <2>3, <2>4
<1>9. CASE Search(c)
  BY <1>9, SearchStep
<1>10. CASE CreateQuery(c)
  BY <1>10, CreateQueryStep
<1>11. CASE CreateCitation(c)
  BY <1>11, CreateCitationStep
<1>12. CASE CitationFails(c)
  BY <1>0, <1>12, EndsFailed DEF CitationFails, At
<1>13. CASE Reply(c)
  BY <1>13, ReplyStep
<1>14. CASE DatabaseFails(c)
  BY <1>0, <1>14, EndsFailed DEF DatabaseFails, Unstored
<1> QED  BY <1>1, <1>2, <1>3, <1>4, <1>5, <1>6, <1>7, <1>8, <1>9, <1>10, <1>11, <1>12,
            <1>13, <1>14 DEF CallStep

\* The invariant holds at first.
LEMMA AskInit == Init => AskInv
<1> SUFFICES ASSUME Init PROVE AskInv
  OBVIOUS
<1>1. PICK e, f : e = <<>> /\ f = FALSE
  BY Zenon
<1>2. New = [stage |-> "new", key |-> NoKey, owner |-> NoCall,
             answer |-> Nothing, left |-> e, query |-> 0, replayed |-> f]
  BY <1>1, Zenon DEF New
<1>3. PICK n : n = New
  OBVIOUS
<1>4. n \in Call /\ n.stage = "new"
  BY <1>1, <1>2, <1>3, Nulls DEF Call, Stages
<1>5. call = [c \in Calls |-> n]
  BY <1>3, Zenon DEF Init
<1>6. \A c \in Calls : call[c] \in Call /\ call[c].stage = "new"
  BY <1>4, <1>5
<1>7. session \in BOOLEAN
  BY Zenon DEF Init
<1>8. /\ queries = <<>> /\ queries \in Seq(Query) /\ DOMAIN queries = {} /\ ToSet(queries) = {}
  BY DEF Init, ToSet
<1>9. TypeOK
  BY <1>6, <1>7, <1>8, BoundsAssumption DEF Init, TypeOK
<1>10. CallsTyped
  BY <1>4, <1>5 DEF CallsTyped
<1>11. SessionReady /\ Asked /\ OneWorker /\ JoinedWait /\ NotStoredYet
  BY <1>6 DEF Init, SessionReady, Asked, OneWorker, JoinedWait, NotStoredYet, Unstored, Working, At
<1>12. OneRowPerKey
  BY <1>8 DEF OneRowPerKey
<1>13. RowsInv
  BY <1>6 DEF RowsInv, Apart, At
<1> QED  BY <1>9, <1>10, <1>11, <1>12, <1>13 DEF AskInv, Typed, KeysInv

\* The invariant of the specification: types, keys and rows.
THEOREM AskInvariant == Spec => []AskInv
<1>1. AskInv /\ [Next]_vars => AskInv'
  <2> SUFFICES ASSUME AskInv, [Next]_vars PROVE AskInv'
    OBVIOUS
  <2>1. ASSUME NEW c \in Calls, NEW k \in Sent, Submit(c, k) PROVE AskInv'
    BY <2>1, SubmitStep
  <2>2. ASSUME NEW c \in Calls, CallStep(c) PROVE AskInv'
    BY <2>2, CallStepKeeps
  <2>3. ASSUME NEW c \in Calls, Disconnect(c) PROVE AskInv'
    BY <2>3, DisconnectStep
  <2>4. ASSUME NEW ch \in Chunks, RemoveChunk(ch) PROVE AskInv'
    BY <2>4, RemoveChunkStep
  <2>5. CASE Crash
    BY <2>5, CrashStep
  <2>6. CASE UNCHANGED vars
    <3>1. Typed'
      BY <2>6 DEF vars, AskInv, Typed, TypeOK, CallsTyped, SessionReady
    <3>2. KeysInv'
      BY <2>6 DEF vars, AskInv, KeysInv, Asked, OneWorker, JoinedWait, NotStoredYet,
                  OneRowPerKey, At
    <3>3. RowsInv'
      BY <2>6, RowsAfterQuiet DEF vars, AskInv
    <3> QED  BY <3>1, <3>2, <3>3 DEF AskInv
  <2> QED  BY <2>1, <2>2, <2>3, <2>4, <2>5, <2>6 DEF Next
<1> QED  BY AskInit, <1>1, PTL DEF Spec

\* The states are of their types: a stored question has a session, and its
\* citations are of chunks that are there.
THEOREM TypeCorrect == Spec => []TypeOK
<1>1. AskInv => TypeOK
  BY DEF AskInv, Typed
<1> QED  BY <1>1, AskInvariant, PTL

\* A question asked again and again with one clientRequestId is stored at most
\* once (findReplayedAnswer, inflightAsks).
THEOREM StoredOnce == Spec => []OneRowPerKey
<1>1. AskInv => OneRowPerKey
  BY DEF AskInv, KeysInv
<1> QED  BY <1>1, AskInvariant, PTL

\* At most one call works for a key, and none once the key has an answer.
THEOREM RunsOnce == Spec => []NoSecondRun
<1>1. AskInv => NoSecondRun
  BY DEF AskInv, KeysInv, OneWorker, NotStoredYet, NoSecondRun, Unstored
<1> QED  BY <1>1, AskInvariant, PTL

\* An answer a client was given is in the database, with its citations less
\* those whose chunk is gone (persistQuery).
THEOREM GivenIsStored == Spec => []AnswersAreStored
<1>1. AskInv => AnswersAreStored
  BY DEF AskInv, RowsInv, Stored, AnswersAreStored
<1> QED  BY <1>1, AskInvariant, PTL

\* The label of weak evidence is never lost (storedAnswerFields).
THEOREM LabelStays == Spec => []WeakStaysWeak
<1>1. AskInv => WeakStaysWeak
  BY DEF AskInv, RowsInv, Stored, WeakStaysWeak
<1> QED  BY <1>1, AskInvariant, PTL

\* Each marker of a new answer that the model or the fallback put there for a
\* chunk opens that chunk, whatever other numbers the draft or the copied
\* sentences have (renumber_markers, remapMarkers, composeCitedAnswer).
THEOREM MarkersOpenWhatWasMeant == Spec => []MarkersTrue
<1>1. AskInv => MarkersTrue
  BY DEF AskInv, RowsInv, Stored, MarkersTrue
<1> QED  BY <1>1, AskInvariant, PTL
=============================================================================
