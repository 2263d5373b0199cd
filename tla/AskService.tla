----------------------------- MODULE AskService -----------------------------
(***************************************************************************)
(* Questions of one user to the NestJS backend (QueryService.ask), over    *)
(* POST /query/ask and the event stream POST /query/ask/stream.            *)
(*                                                                         *)
(* A client names a question with a clientRequestId (key) so that a retry  *)
(* is answered once: a call that finds its key in the map inflightAsks     *)
(* waits for the call that put it there, and a call that finds a stored    *)
(* Query row with its key replays that row.  Between two awaits of a call  *)
(* other calls run, clients go away, papers lose chunks, and the backend   *)
(* may die.                                                                *)
(*                                                                         *)
(* Of an answer the numbers a client shows as markers and its citations    *)
(* are kept.  Wording, the history sent along, scores and timings are left *)
(* out.                                                                    *)
(***************************************************************************)
EXTENDS Citations

CONSTANTS
  Calls,       \* bound: HTTP calls ever made, each used once
  NoKey,       \* a call without a clientRequestId
  Sent,        \* the values of clientRequestId that clients send, NoKey too
  Chunks,      \* the evidence chunks of the collection
  NoCall,      \* no owner
  NoChunk,     \* what a number means that nobody put there for a citation
  MaxCites,    \* bound: passages shown to the model, and references in its draft
  Strays,      \* other numbers in brackets: of a draft, or of a sentence that is copied
  MaxFaults,   \* bound: database calls that fail
  MaxCrashes   \* bound: deaths of the backend

ASSUME NullAssumption   == NoCall \notin Calls /\ NoChunk \notin Chunks
ASSUME StraysAssumption == Strays \subseteq {t \in Bracketed : t.form # "evidence"}
ASSUME BoundsAssumption == /\ MaxCites \in Nat \ {0}
                           /\ MaxFaults \in Nat /\ MaxCrashes \in Nat

Keys == Sent \ {NoKey}

VARIABLES
  call,       \* each call: where it is, and what it holds in memory
  gone,       \* working calls whose signal is aborted: the client disconnected
  inflight,   \* inflightAsks: the call that works for a key
  session,    \* there is a ChatSession row
  queries,    \* Query rows in the order of createdAt, with their Citation rows
  chunks,     \* DocumentChunk rows still there
  faults, crashes

vars == <<call, gone, inflight, session, queries, chunks, faults, crashes>>

Working == {"replay", "session", "ai", "align", "search", "persist", "cite"}
Over    == {"answered", "failed"}   \* failed: also cancelled (499), or lost in a crash
Stages  == {"new", "joined"} \cup Working \cup Over

\* A number in brackets.  A client shows each as a marker that opens citation n;
\* means: the chunk the model, or the fallback, named there.  A number copied
\* from a paper's bibliography, or made up, means none.
Marker == [n : Nat, means : Chunks \cup {NoChunk}]

\* What is known of an answer.  text: its markers.  cites: the list the client
\* gets.  weak: insufficient_evidence.
Answer == [text : Seq(Marker), cites : Seq(Chunks), weak : BOOLEAN]
Nothing == [text |-> <<>>, cites |-> <<>>, weak |-> FALSE]

\* left: citations whose rows are to be created.
Call == [stage : Stages, key : Sent \cup {NoKey}, owner : Calls \cup {NoCall},
         answer : Answer, left : Seq(Chunks), query : Nat,
         replayed : BOOLEAN]
New  == [stage |-> "new", key |-> NoKey, owner |-> NoCall,
         answer |-> Nothing, left |-> <<>>, query |-> 0, replayed |-> FALSE]

\* An answer as persistQuery stores it; its cites are the Citation rows so far,
\* in the order they were created.
Query == [key : Sent, answer : Answer]

TypeOK ==
  /\ \A c \in Calls : call[c] \in Call
  /\ gone \subseteq Calls
  /\ inflight \in [Keys -> Calls \cup {NoCall}]
  /\ session \in BOOLEAN
  /\ queries \in Seq(Query) /\ (queries # <<>> => session)
  /\ \A q \in ToSet(queries) : ToSet(q.answer.cites) \subseteq chunks
  /\ chunks \subseteq Chunks
  /\ faults \in 0 .. MaxFaults /\ crashes \in 0 .. MaxCrashes

Init ==
  /\ call = [c \in Calls |-> New]
  /\ gone = {}
  /\ inflight = [k \in Keys |-> NoCall]
  /\ session = FALSE /\ queries = <<>> /\ chunks = Chunks
  /\ faults = 0 /\ crashes = 0

-----------------------------------------------------------------------------
(* Parts of a call *)

At(c, stage) == call[c].stage = stage
Aborted(c) == c \in gone        \* opts.signal.aborted

Goto(c, stage) == call' = [call EXCEPT ![c].stage = stage]

\* Mutant: the calls that joined are forgotten.
SettleAlone(c, r) ==
  /\ call' = [call EXCEPT ![c] = r]
  /\ gone' = gone \ {c}
  /\ inflight' = [k \in Keys |-> IF inflight[k] = c THEN NoCall ELSE inflight[k]]

\* The promise of call c settles: c and the calls that joined it get the
\* outcome r, and the finally block takes its key out of the map.
Settle(c, r) ==
  /\ call' = [b \in Calls |->
                IF b = c \/ (At(b, "joined") /\ call[b].owner = c) THEN r ELSE call[b]]
  /\ gone' = gone \ {c}
  /\ inflight' = [k \in Keys |-> IF inflight[k] = c THEN NoCall ELSE inflight[k]]

Failed == [New EXCEPT !.stage = "failed"]
Answered(answer, i, replayed) ==
  [New EXCEPT !.stage = "answered", !.answer = answer, !.query = i, !.replayed = replayed]

\* Mutant: the flag alone, without the count of citations.
StoredWeakFlag(q) == q.answer.weak

\* The labels of a stored answer (storedAnswerFields).
StoredWeak(q) == q.answer.weak \/ q.answer.cites = <<>>

Distinct(s) == \A i, j \in DOMAIN s : s[i] = s[j] => i = j
\* Lists of at most MaxCites chunks of S, none twice.
Lists(S) == {s \in SeqOf(S, MaxCites) : Distinct(s)}

Fault == faults < MaxFaults /\ faults' = faults + 1

-----------------------------------------------------------------------------
(* ask *)

\* Mutant: the key is not registered before the first await.
SubmitUnregistered(c, k) ==
  /\ At(c, "new")
  /\ call' = [call EXCEPT ![c] = [New EXCEPT !.key = k, !.stage = "replay"]]
  /\ UNCHANGED <<gone, inflight, session, queries, chunks, faults, crashes>>

\* Up to the first await: join the call that works for the key, or register.
Submit(c, k) ==
  /\ At(c, "new")
  /\ LET asked == [New EXCEPT !.key = k]
     IN IF k # NoKey /\ inflight[k] # NoCall
        THEN /\ call' = [call EXCEPT ![c] = [asked EXCEPT !.stage = "joined", !.owner = inflight[k]]]
             /\ UNCHANGED inflight
        ELSE /\ call' = [call EXCEPT ![c] = [asked EXCEPT !.stage = "replay"]]
             /\ inflight' = IF k = NoKey THEN inflight ELSE [inflight EXCEPT ![k] = c]
  /\ UNCHANGED <<gone, session, queries, chunks, faults, crashes>>

\* Mutant: only answers with citations are found again.
ReplayCited(c) ==
  /\ At(c, "replay")
  /\ LET found == {i \in DOMAIN queries : /\ call[c].key = queries[i].key /\ call[c].key # NoKey
                                          /\ queries[i].answer.cites # <<>>}
     IN IF found = {} THEN Goto(c, "session") /\ UNCHANGED <<inflight, gone>>
        ELSE \E i \in found :
            LET stored == [queries[i].answer EXCEPT !.weak = StoredWeak(queries[i])]
            IN Settle(c, Answered(stored, i, TRUE))
  /\ UNCHANGED <<session, queries, chunks, faults, crashes>>

\* assertCollectionAccess lets the call pass, then findReplayedAnswer.
Replay(c) ==
  /\ At(c, "replay")
  /\ LET found == {i \in DOMAIN queries : call[c].key = queries[i].key /\ call[c].key # NoKey}
     IN IF found = {} THEN Goto(c, "session") /\ UNCHANGED <<inflight, gone>>
        ELSE \E i \in found :
            LET stored == [queries[i].answer EXCEPT !.weak = StoredWeak(queries[i])]
            IN Settle(c, Answered(stored, i, TRUE))
  /\ UNCHANGED <<session, queries, chunks, faults, crashes>>

\* resolveChatSession: a stored session, or a new one.
ResolveSession(c) ==
  /\ At(c, "session")
  /\ session' = TRUE
  /\ Goto(c, "ai")
  /\ UNCHANGED <<gone, inflight, queries, chunks, faults, crashes>>

\* No access to the collection, papers outside of it, or no evidence found.
Refused(c) ==
  /\ call[c].stage \in {"replay", "ai", "search"}
  /\ Settle(c, Failed)
  /\ UNCHANGED <<session, queries, chunks, faults, crashes>>

\* The AI service answers.  An aborted call rejects whatever has not arrived.
AiAnswers(c) ==
  /\ At(c, "ai") /\ ~Aborted(c)
  /\ Goto(c, "align")
  /\ UNCHANGED <<gone, inflight, session, queries, chunks, faults, crashes>>

\* The AI call throws (error, timeout, abort): a client that is still there
\* gets the local fallback.
AiFails(c) ==
  /\ At(c, "ai")
  /\ IF Aborted(c) THEN Settle(c, Failed) ELSE Goto(c, "search") /\ UNCHANGED <<inflight, gone>>
  /\ UNCHANGED <<session, queries, chunks, faults, crashes>>

\* An answer without text is no answer.
AiSaysNothing(c) ==
  /\ At(c, "ai") /\ ~Aborted(c)
  /\ Goto(c, "search")
  /\ UNCHANGED <<gone, inflight, session, queries, chunks, faults, crashes>>

\* What the AI service makes of a draft, and the backend of that: citations
\* whose chunk is gone are dropped, with their markers.
Cited(pack, draft, claimed) ==
  LET raw   == DraftCitations(pack, Referred(draft), claimed)
      text  == AlignedText(raw, chunks, DraftText(pack, draft, claimed))
      named == Through(pack, raw, chunks, draft)
  IN [text  |-> [i \in DOMAIN text |->
                  [n |-> text[i].n, means |-> IF named[i].form = "evidence" THEN pack[named[i].n] ELSE NoChunk]],
      cites |-> AlignedCitations(raw, chunks),
      weak  |-> FALSE]

\* References to evidence, and stray numbers among them.
References == {[form |-> "evidence", n |-> n] : n \in 1 .. MaxCites}
Drafts     == SeqOf(References \cup Strays, MaxCites)

\* alignAiCitations and remapMarkers.  The answer rests on chunks that were
\* retrieved a while ago; left without citations it is weak.
Align(c) ==
  /\ At(c, "align")
  /\ \E pack \in Lists(Chunks), draft \in Drafts, claimed \in SeqOf(1 .. MaxCites, 1) :
       LET answer == Cited(pack, draft, claimed)
       IN \E weak \in BOOLEAN :
            call' = [call EXCEPT ![c].stage = "persist",
                                 ![c].answer = [answer EXCEPT !.weak = weak \/ answer.cites = <<>>]]
  /\ UNCHANGED <<gone, inflight, session, queries, chunks, faults, crashes>>

\* Its query fails: still inside the try block.
AlignFails(c) ==
  /\ At(c, "align") /\ Fault
  /\ IF Aborted(c) THEN Settle(c, Failed) ELSE Goto(c, "search") /\ UNCHANGED <<inflight, gone>>
  /\ UNCHANGED <<session, queries, chunks, crashes>>

\* A line of the fallback: a sentence of the passage, with the numbers that are
\* in it, and the passage's own marker.
Line(copied, i, passage) ==
  Append(Each(copied, LAMBDA n : [n |-> n, means |-> NoChunk]), [n |-> i, means |-> passage])

\* retrieveEvidence and composeCitedAnswer: passages, a line of each.  Sentences
\* are copied as they are and not looked through for numbers.
Search(c) ==
  /\ At(c, "search")
  /\ \E found \in Lists(chunks) \ {<<>>} :
     \E copied \in [DOMAIN found -> SeqOf({t.n : t \in Strays}, 1)] :
       call' = [call EXCEPT ![c].stage = "persist",
                            ![c].answer = [text |-> FlattenSeq([i \in DOMAIN found |-> Line(copied[i], i, found[i])]),
                                           cites |-> found, weak |-> FALSE]]
  /\ UNCHANGED <<gone, inflight, session, queries, chunks, faults, crashes>>

\* persistQuery, first write: the Query row.
CreateQuery(c) ==
  /\ At(c, "persist")
  /\ call[c].answer.cites # <<>> \/ call[c].answer.weak
  /\ queries' = Append(queries, [key |-> call[c].key,
                                 answer |-> [call[c].answer EXCEPT !.cites = <<>>]])
  /\ call' = [call EXCEPT ![c].stage = "cite",
                          ![c].left = call[c].answer.cites, ![c].query = Len(queries) + 1]
  /\ UNCHANGED <<gone, inflight, session, chunks, faults, crashes>>

\* The Citation rows, one write each; the chunk has to exist (foreign key).
CreateCitation(c) ==
  /\ At(c, "cite") /\ call[c].left # <<>>
  /\ LET ch == Head(call[c].left)
     IN /\ ch \in chunks
        /\ queries' = [queries EXCEPT ![call[c].query].answer.cites = Append(@, ch)]
  /\ call' = [call EXCEPT ![c].left = Tail(@)]
  /\ UNCHANGED <<gone, inflight, session, chunks, faults, crashes>>

CitationFails(c) ==
  /\ At(c, "cite") /\ call[c].left # <<>> /\ Head(call[c].left) \notin chunks
  /\ Settle(c, Failed)
  /\ UNCHANGED <<session, queries, chunks, faults, crashes>>

\* Mutant: the citation rows are not awaited.
ReplyEarly(c) ==
  /\ At(c, "cite")
  /\ Settle(c, Answered(call[c].answer, call[c].query, FALSE))
  /\ UNCHANGED <<session, queries, chunks, faults, crashes>>

\* The answer is returned, to every call that waits for it.
Reply(c) ==
  /\ At(c, "cite") /\ call[c].left = <<>>
  /\ Settle(c, Answered(call[c].answer, call[c].query, FALSE))
  /\ UNCHANGED <<session, queries, chunks, faults, crashes>>

\* Any other database call of ask that fails ends it.
DatabaseFails(c) ==
  /\ call[c].stage \in {"replay", "session", "search", "persist", "cite"}
  /\ Fault
  /\ Settle(c, Failed)
  /\ UNCHANGED <<session, queries, chunks, crashes>>

-----------------------------------------------------------------------------
(* Around the calls *)

\* The client of an event stream cancels, times out or loses the connection.
\* (A plain or a joined call never notices that its client is gone.)
Disconnect(c) ==
  /\ call[c].stage \in Working /\ c \notin gone
  /\ gone' = gone \cup {c}
  /\ UNCHANGED <<call, inflight, session, queries, chunks, faults, crashes>>

\* Mutant: the citations stay.
RemoveChunkOnly(ch) ==
  /\ ch \in chunks
  /\ chunks' = chunks \ {ch}
  /\ UNCHANGED <<call, gone, inflight, session, queries, faults, crashes>>

\* A paper is deleted or ingested again: its citations cascade.
RemoveChunk(ch) ==
  /\ ch \in chunks
  /\ chunks' = chunks \ {ch}
  /\ queries' = [i \in DOMAIN queries |->
                   [queries[i] EXCEPT !.answer.cites = Among(@, chunks \ {ch})]]
  /\ UNCHANGED <<call, gone, inflight, session, faults, crashes>>

Crash ==
  /\ crashes < MaxCrashes /\ crashes' = crashes + 1
  /\ call' = [c \in Calls |->
                IF call[c].stage \in Working \cup {"joined"}
                THEN Failed ELSE call[c]]
  /\ inflight' = [k \in Keys |-> NoCall] /\ gone' = {}
  /\ UNCHANGED <<session, queries, chunks, faults>>

CallStep(c) ==
  \/ Replay(c) \/ ResolveSession(c) \/ Refused(c)
  \/ AiAnswers(c) \/ AiFails(c) \/ AiSaysNothing(c)
  \/ Align(c) \/ AlignFails(c) \/ Search(c)
  \/ CreateQuery(c) \/ CreateCitation(c) \/ CitationFails(c) \/ Reply(c)
  \/ DatabaseFails(c)

Next ==
  \/ \E c \in Calls :
       \/ \E k \in Sent : Submit(c, k)
       \/ CallStep(c) \/ Disconnect(c)
  \/ \E ch \in Chunks : RemoveChunk(ch)
  \/ Crash

Spec == Init /\ [][Next]_vars

\* Every await of a call ends: the AI call is bounded by AI_REQUEST_TIMEOUT_MS
\* and database calls return.  Clients owe nothing.
FairSpec == Spec /\ \A c \in Calls : WF_vars(CallStep(c))

-----------------------------------------------------------------------------
(* Properties *)

\* A question asked again and again with one clientRequestId is stored at most
\* once, through failures, disconnects and crashes in any order.
OneRowPerKey ==
  \A i, j \in DOMAIN queries :
    queries[i].key # NoKey /\ queries[i].key = queries[j].key => i = j

\* At most one call works for a key at a time, and none asks the AI service
\* once the key has a stored answer.
NoSecondRun ==
  \A c \in Calls :
    call[c].stage \in Working /\ call[c].key # NoKey =>
      /\ \A b \in Calls : call[b].stage \in Working /\ call[b].key = call[c].key => b = c
      /\ call[c].stage \in {"ai", "align", "search", "persist"} =>
           \A i \in DOMAIN queries : queries[i].key # call[c].key

\* An answer a client was given is in the database, with the citations it was
\* given, except those whose chunk has been removed since.
AnswersAreStored ==
  \A c \in Calls :
    At(c, "answered") =>
      /\ call[c].query \in DOMAIN queries
      /\ LET stored == queries[call[c].query].answer
         IN /\ Among(call[c].answer.cites, chunks) = stored.cites
            /\ call[c].answer.text = stored.text

\* An answer given as resting on insufficient evidence, or without citations,
\* never comes back from the database without that label.
WeakStaysWeak ==
  \A c \in Calls :
    At(c, "answered") =>
      /\ call[c].answer.cites = <<>> => call[c].answer.weak
      /\ call[c].answer.weak => StoredWeak(queries[call[c].query])

\* A marker put there for a chunk opens citation n, and that is the chunk.
Opens(answer) ==
  \A i \in DOMAIN answer.text :
    LET t == answer.text[i]
    IN t.means # NoChunk => t.n \in DOMAIN answer.cites /\ answer.cites[t.n] = t.means

\* In an answer as it is first given every marker the model or the fallback put
\* there for a chunk opens that chunk, also when other citations were dropped on
\* the way, and whatever other numbers the draft or the copied sentences had.
\* (Those are shown as markers too, and open a citation nobody named there.)
\* renumber_markers, remapMarkers, composeCitedAnswer.
MarkersTrue == \A c \in Calls : At(c, "answered") /\ ~call[c].replayed => Opens(call[c].answer)

\* Every call ends, a joined one with the call it waits for.
CallsEnd == \A c \in Calls : call[c].stage \in Working \cup {"joined"} ~> call[c].stage \in Over

\* AskOptions.signal: "Aborted when the client disconnects; nothing is
\* persisted then."
CancelledStoresNothing ==
  [][\A c \in Calls : Aborted(c) => ~CreateQuery(c)]_vars
=============================================================================
