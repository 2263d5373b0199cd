----------------------------- MODULE ChatClient -----------------------------
(***************************************************************************)
(* The chat page of the browser (ChatPage.jsx) with the sessions that the  *)
(* backend stores for it.  Questions are asked over an event stream that   *)
(* the page may abort; old sessions are loaded from the list beside the    *)
(* chat.  Requests that are under way keep going while the user clicks on, *)
(* and their answers arrive in any order.                                  *)
(*                                                                         *)
(* The number requestSeqRef tells the latest request from older ones.      *)
(* Of a message only the question it belongs to is kept.                   *)
(***************************************************************************)
EXTENDS Naturals, Sequences

CONSTANTS
  MaxAsks,     \* bound: questions ever sent
  MaxLoads     \* bound: sessions ever loaded

ASSUME BoundsAssumption == MaxAsks \in Nat \ {0} /\ MaxLoads \in Nat

Asks  == 1 .. MaxAsks
Loads == 1 .. MaxLoads
\* Session rows are named after the question that opened them; 0: no session.
Sessions   == Asks
NoSession  == 0

VARIABLES
  seq,         \* requestSeqRef
  live,        \* abortRef: the question whose stream Cancel aborts, 0: none
  sending,     \* the spinner is shown and the input is closed
  sessionId,   \* the session the next question is asked in
  messages,    \* the chat, without its welcome message
  asks,        \* questions: on the wire, and what the page remembers of them
  loads,       \* sessions on the way from the backend
  stored,      \* Query rows of each session, in the order of createdAt
  crossed      \* history: a session arrived while a question was under way

page == <<seq, live, sending, sessionId, messages>>
vars == <<page, asks, loads, stored, crossed>>

AskStages  == {"new", "sent", "opened", "stored", "over"}
LoadStages == {"new", "sent", "read", "over"}

Message == [ask : Asks, role : {"user", "assistant"}]

TypeOK ==
  /\ seq \in Nat /\ live \in Asks \cup {0} /\ sending \in BOOLEAN
  /\ sessionId \in Sessions \cup {NoSession}
  /\ messages \in Seq(Message)
  /\ asks \in [Asks -> [stage : AskStages, seq : 0 .. seq, session : Sessions \cup {NoSession},
                        closed : BOOLEAN]]
  /\ loads \in [Loads -> [stage : LoadStages, session : Sessions \cup {NoSession},
                          rows : Seq(Asks)]]
  /\ stored \in [Sessions -> Seq(Asks)]
  /\ crossed \in BOOLEAN

Init ==
  /\ seq = 0 /\ live = 0 /\ sending = FALSE
  /\ sessionId = NoSession /\ messages = <<>>
  /\ asks = [a \in Asks |-> [stage |-> "new", seq |-> 0, session |-> NoSession,
                             closed |-> FALSE]]
  /\ loads = [l \in Loads |-> [stage |-> "new", session |-> NoSession, rows |-> <<>>]]
  /\ stored = [s \in Sessions |-> <<>>]
  /\ crossed = FALSE

-----------------------------------------------------------------------------
(* The page *)

User(a)      == [ask |-> a, role |-> "user"]
Assistant(a) == [ask |-> a, role |-> "assistant"]

Pending(a) == asks[a].stage \in {"sent", "opened", "stored"}
IsCurrent(a) == asks[a].seq = seq

\* The page still waits for an answer.  It closes the stream when it aborts, or
\* when it has seen an error or lost patience; the backend may work on.
Waiting(a) == Pending(a) /\ ~asks[a].closed

\* Mutant: the stream is not aborted.
CancelInFlightQuietly ==
  /\ seq' = seq + 1 /\ live' = 0 /\ sending' = FALSE
  /\ UNCHANGED asks

\* Mutant: the input stays closed.
CancelInFlightBusy ==
  /\ seq' = seq + 1 /\ live' = 0
  /\ asks' = [a \in Asks |-> IF a = live THEN [asks[a] EXCEPT !.closed = TRUE] ELSE asks[a]]
  /\ UNCHANGED sending

\* cancelInFlight, as every other click of the user begins with it
CancelInFlight ==
  /\ seq' = seq + 1 /\ live' = 0 /\ sending' = FALSE
  /\ asks' = [a \in Asks |-> IF a = live THEN [asks[a] EXCEPT !.closed = TRUE] ELSE asks[a]]

\* sendMessage up to the request.  Questions are numbered as they are sent.
SendMessage(a) ==
  /\ ~sending
  /\ asks[a].stage = "new" /\ \A b \in Asks : b < a => asks[b].stage # "new"
  /\ seq' = seq + 1 /\ live' = a /\ sending' = TRUE
  /\ messages' = Append(messages, User(a))
  /\ asks' = [asks EXCEPT ![a].stage = "sent", ![a].seq = seq + 1, ![a].session = sessionId]
  /\ UNCHANGED <<sessionId, loads, stored, crossed>>

\* Mutant: the input stays closed.
FinishBusy == live' = 0 /\ UNCHANGED sending

\* The finally block of the latest question.
Finish == live' = 0 /\ sending' = FALSE

\* Mutant: every result is shown.
ShowAnswerAlways(a) ==
  /\ asks[a].stage = "stored"
  /\ asks' = [asks EXCEPT ![a].stage = "over"]
  /\ sessionId' = asks[a].session
  /\ messages' = Append(messages, Assistant(a))
  /\ Finish
  /\ UNCHANGED <<seq, loads, stored, crossed>>

\* The result arrives.  A superseded one is not shown.
ShowAnswer(a) ==
  /\ asks[a].stage = "stored" /\ Waiting(a)
  /\ asks' = [asks EXCEPT ![a].stage = "over"]
  /\ IF IsCurrent(a)
     THEN /\ sessionId' = asks[a].session
          /\ messages' = Append(messages, Assistant(a))
          /\ Finish
     ELSE UNCHANGED <<sessionId, messages, live, sending>>
  /\ UNCHANGED <<seq, loads, stored, crossed>>

\* An error, four minutes without an answer, or the connection is lost.
ShowError(a) ==
  /\ Waiting(a)
  /\ asks' = [asks EXCEPT ![a].closed = TRUE]
  /\ IF IsCurrent(a) THEN Finish ELSE UNCHANGED <<live, sending>>
  /\ UNCHANGED <<seq, sessionId, messages, loads, stored, crossed>>

\* The Cancel button; another collection, which keeps session and messages.
Cancel ==
  /\ sending
  /\ CancelInFlight
  /\ UNCHANGED <<sessionId, messages, loads, stored, crossed>>

ClearSession ==
  /\ messages # <<>>
  /\ CancelInFlight
  /\ messages' = <<>> /\ sessionId' = NoSession /\ crossed' = FALSE
  /\ UNCHANGED <<loads, stored>>

\* The user leaves the page and comes back: nothing of the old page is shown.
Remount ==
  /\ messages # <<>> \/ \E l \in Loads : loads[l].stage \in {"sent", "read"}
  /\ CancelInFlight
  /\ messages' = <<>> /\ sessionId' = NoSession /\ crossed' = FALSE
  /\ loads' = [l \in Loads |->
                 IF loads[l].stage = "new" THEN loads[l] ELSE [loads[l] EXCEPT !.stage = "over"]]
  /\ UNCHANGED stored

\* loadSession up to its await
LoadSession(l, s) ==
  /\ loads[l].stage = "new" /\ \A k \in Loads : k < l => loads[k].stage # "new"
  /\ \E a \in Asks : asks[a].stage \in {"opened", "stored", "over"} /\ asks[a].session = s
  /\ CancelInFlight
  /\ loads' = [loads EXCEPT ![l].stage = "sent", ![l].session = s]
  /\ UNCHANGED <<sessionId, messages, stored, crossed>>

\* ... and after it: whatever the user has done since.
Loaded(l) ==
  /\ loads[l].stage = "read"
  /\ LET rows == loads[l].rows
     IN messages' = [i \in 1 .. 2 * Len(rows) |->
                       IF i % 2 = 1 THEN User(rows[(i + 1) \div 2]) ELSE Assistant(rows[i \div 2])]
  /\ sessionId' = loads[l].session
  /\ crossed' = sending
  /\ loads' = [loads EXCEPT ![l] = [stage |-> "over", session |-> NoSession, rows |-> <<>>]]
  /\ UNCHANGED <<seq, live, sending, asks, stored>>

LoadFails(l) ==
  /\ loads[l].stage \in {"sent", "read"}
  /\ loads' = [loads EXCEPT ![l] = [stage |-> "over", session |-> NoSession, rows |-> <<>>]]
  /\ UNCHANGED <<page, asks, stored, crossed>>

-----------------------------------------------------------------------------
(* The backend, see AskService *)

\* Mutant: always a new session.
OpenSessionAlways(a) ==
  /\ asks[a].stage = "sent"
  /\ asks' = [asks EXCEPT ![a].stage = "opened", ![a].session = a]
  /\ UNCHANGED <<page, loads, stored, crossed>>

\* resolveChatSession: the session that was sent along, or a new one.
OpenSession(a) ==
  /\ asks[a].stage = "sent"
  /\ asks' = [asks EXCEPT ![a].stage = "opened",
                          ![a].session = IF @ = NoSession THEN a ELSE @]
  /\ UNCHANGED <<page, loads, stored, crossed>>

\* persistQuery, for a page that is gone too.
Store(a) ==
  /\ asks[a].stage = "opened"
  /\ stored' = [stored EXCEPT ![asks[a].session] = Append(@, a)]
  /\ asks' = [asks EXCEPT ![a].stage = "stored"]
  /\ UNCHANGED <<page, loads, crossed>>

\* The backend is done with a question whose stream is closed.
Forget(a) ==
  /\ Pending(a) /\ ~Waiting(a)
  /\ asks' = [asks EXCEPT ![a].stage = "over"]
  /\ UNCHANGED <<page, loads, stored, crossed>>

\* getSession
ReadSession(l) ==
  /\ loads[l].stage = "sent"
  /\ loads' = [loads EXCEPT ![l].stage = "read", ![l].rows = stored[loads[l].session]]
  /\ UNCHANGED <<page, asks, stored, crossed>>

-----------------------------------------------------------------------------

Next ==
  \/ \E a \in Asks :
       \/ SendMessage(a) \/ ShowAnswer(a) \/ ShowError(a)
       \/ OpenSession(a) \/ Store(a) \/ Forget(a)
  \/ \E l \in Loads :
       \/ \E s \in Sessions : LoadSession(l, s)
       \/ Loaded(l) \/ LoadFails(l) \/ ReadSession(l)
  \/ Cancel \/ ClearSession \/ Remount

Spec == Init /\ [][Next]_vars

\* The stream of a question ends: with a result, an error, or after
\* ASK_TIMEOUT_MS.  Users owe nothing.
FairSpec == Spec /\ \A a \in Asks : WF_vars(ShowAnswer(a) \/ ShowError(a))

-----------------------------------------------------------------------------
(* Properties *)

\* The input is closed exactly while the latest question is under way: it is
\* neither left closed by a question that was given up nor opened by one.
SendingIsWaiting == sending <=> \E a \in Asks : Waiting(a) /\ IsCurrent(a)

\* A question whose stream is open is the one the Cancel button aborts: no click
\* leaves one behind that works on unseen.
LiveCanBeCancelled ==
  \A a \in Asks : Waiting(a) => live = a

\* As long as no session arrives while a question is under way, an answer stands
\* under its question.
AnswersFollowQuestions ==
  ~crossed =>
    \A i \in DOMAIN messages :
      messages[i].role = "assistant" =>
        i > 1 /\ messages[i - 1] = User(messages[i].ask)

Answers == {i \in DOMAIN messages : messages[i].role = "assistant"}

\* The answer at i is that of row p of the session the next question is asked in.
IsRow(i, p) == stored[sessionId][p] = messages[i].ask

\* Under the same condition the chat shows one session, the one the next question
\* will be asked in, and loading it again brings back every answer, once and in
\* the same order.
ChatIsOneSession ==
  ~crossed =>
    \A i \in Answers :
      /\ sessionId # NoSession
      /\ \E p \in DOMAIN stored[sessionId] : IsRow(i, p)
      /\ \A j \in Answers : \A p, q \in DOMAIN stored[sessionId] :
           IsRow(i, p) /\ IsRow(j, q) => (i < j <=> p < q)

\* The input opens again, whatever becomes of a question.
SendingEnds == sending ~> ~sending
=============================================================================
