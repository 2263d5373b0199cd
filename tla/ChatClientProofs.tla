-------------------------- MODULE ChatClientProofs --------------------------
(***************************************************************************)
(* For any number of questions and loaded sessions: the input of the chat  *)
(* page is closed exactly while its latest question is under way, and that *)
(* is the question the Cancel button aborts.                               *)
(***************************************************************************)
EXTENDS ChatClient, TLAPS

\* The question abortRef points to is the one the page waits for, and it is the
\* latest; when there is none, the page waits for nothing.
LiveAgrees ==
  /\ sending <=> live # 0
  /\ live # 0 => Waiting(live) /\ IsCurrent(live)
  /\ \A a \in Asks : Waiting(a) => live = a

\* A stream is closed only after it was opened.
NewIsOpen == \A a \in Asks : asks[a].stage = "new" => ~asks[a].closed

AskRow == [stage : AskStages, seq : 0 .. seq, session : Sessions \cup {NoSession}, closed : BOOLEAN]

\* A session that is asked for has a name.
LoadsNamed == \A l \in Loads : loads[l].stage = "sent" => loads[l].session \in Sessions

PageInv == TypeOK /\ LiveAgrees /\ NewIsOpen /\ LoadsNamed

-----------------------------------------------------------------------------
(* Lemmas about single steps *)

\* What every click of the user begins with leaves no stream open.
LEMMA CancelInFlightStep ==
  ASSUME PageInv, CancelInFlight
  PROVE  /\ LiveAgrees' /\ NewIsOpen'
         /\ seq' \in Nat /\ live' \in Asks \cup {0} /\ sending' \in BOOLEAN
         /\ asks' \in [Asks -> [stage : AskStages, seq : 0 .. seq',
                                session : Sessions \cup {NoSession}, closed : BOOLEAN]]
<1>1. /\ seq \in Nat /\ seq' = seq + 1 /\ live' = 0 /\ sending' = FALSE
      /\ asks \in [Asks -> [stage : AskStages, seq : 0 .. seq,
                            session : Sessions \cup {NoSession}, closed : BOOLEAN]]
  BY DEF PageInv, TypeOK, CancelInFlight
<1>2. ASSUME NEW a \in Asks
      PROVE  /\ asks'[a] \in [stage : AskStages, seq : 0 .. seq',
                              session : Sessions \cup {NoSession}, closed : BOOLEAN]
             /\ asks'[a].stage = asks[a].stage
             /\ a = live => asks'[a].closed = TRUE
             /\ a # live => asks'[a] = asks[a]
  <2>1. asks'[a] = IF a = live THEN [asks[a] EXCEPT !.closed = TRUE] ELSE asks[a]
    BY DEF CancelInFlight
  <2>2. asks[a] \in [stage : AskStages, seq : 0 .. seq,
                     session : Sessions \cup {NoSession}, closed : BOOLEAN]
    BY <1>1
  <2>3. 0 .. seq \subseteq 0 .. seq'
    BY <1>1
  <2>4. QED BY <2>1, <2>2, <2>3
<1>3. ASSUME NEW a \in Asks PROVE ~Waiting(a)'
  <2>1. a # live => ~Waiting(a)
    BY DEF PageInv, LiveAgrees
  <2>2. QED BY <1>2, <2>1 DEF Waiting, Pending
<1>4. ASSUME NEW a \in Asks PROVE asks'[a].stage = "new" => ~asks'[a].closed
  <2>1. asks[a].stage = "new" => ~asks[a].closed /\ ~Waiting(a)
    BY DEF PageInv, NewIsOpen, Waiting, Pending
  <2>2. a = live => Waiting(a)
    BY DEF PageInv, LiveAgrees, Asks
  <2>3. QED BY <1>2, <2>1, <2>2
<1>5. asks' \in [Asks -> [stage : AskStages, seq : 0 .. seq',
                          session : Sessions \cup {NoSession}, closed : BOOLEAN]]
  BY <1>2 DEF CancelInFlight
<1>6. LiveAgrees'
  <2>1. sending' = FALSE /\ live' = 0
    BY <1>1
  <2>2. (sending <=> live # 0)'
    BY <2>1, Zenon
  <2>3. QED BY <1>3, <2>1, <2>2 DEF LiveAgrees
<1>7. NewIsOpen'
  BY <1>4 DEF NewIsOpen
<1>8. seq' \in Nat /\ live' \in Asks \cup {0}
  BY <1>1
<1>9. sending' \in BOOLEAN
  BY <1>1, Zenon
<1>10. QED BY <1>5, <1>6, <1>7, <1>8, <1>9

\* A loaded session is a sequence of questions and answers.
LEMMA LoadedMessages ==
  ASSUME NEW rows \in Seq(Asks)
  PROVE  [i \in 1 .. 2 * Len(rows) |->
            IF i % 2 = 1 THEN User(rows[(i + 1) \div 2]) ELSE Assistant(rows[i \div 2])] \in Seq(Message)
<1>1. Len(rows) \in Nat /\ 2 * Len(rows) \in Nat
  OBVIOUS
<1>2. ASSUME NEW i \in 1 .. 2 * Len(rows)
      PROVE  (IF i % 2 = 1 THEN User(rows[(i + 1) \div 2]) ELSE Assistant(rows[i \div 2])) \in Message
  <2>1. CASE i % 2 = 1
    <3>1. (i + 1) \div 2 \in 1 .. Len(rows)
      BY <1>1, <2>1
    <3>2. rows[(i + 1) \div 2] \in Asks
      BY <3>1
    <3>3. QED BY <2>1, <3>2 DEF User, Message
  <2>2. CASE i % 2 # 1
    <3>1. i \div 2 \in 1 .. Len(rows)
      BY <1>1, <2>2
    <3>2. rows[i \div 2] \in Asks
      BY <3>1
    <3>3. QED BY <2>2, <3>2 DEF Assistant, Message
  <2>3. QED BY <2>1, <2>2
<1>3. QED BY <1>1, <1>2

\* A step that changes one question, and neither seq nor live, keeps what the
\* other questions and the page agree on.
LEMMA OneAskStep ==
  ASSUME PageInv, NEW a \in Asks, NEW r,
         r \in [stage : AskStages, seq : 0 .. seq, session : Sessions \cup {NoSession},
                closed : BOOLEAN],
         asks' = [asks EXCEPT ![a] = r], UNCHANGED <<seq, live, sending>>,
         r.seq = asks[a].seq,
         (r.stage \in {"sent", "opened", "stored"} /\ ~r.closed) <=> Waiting(a),
         r.stage = "new" => ~r.closed
  PROVE  LiveAgrees' /\ NewIsOpen'
<1>1. asks \in [Asks -> [stage : AskStages, seq : 0 .. seq,
                         session : Sessions \cup {NoSession}, closed : BOOLEAN]]
  BY DEF PageInv, TypeOK
<1>2. asks'[a] = r /\ \A b \in Asks : b # a => asks'[b] = asks[b]
  BY <1>1
<1>3. ASSUME NEW b \in Asks
      PROVE  (Waiting(b)' <=> Waiting(b)) /\ (IsCurrent(b)' <=> IsCurrent(b))
  BY <1>2 DEF Waiting, Pending, IsCurrent
<1>4. live \in Asks \cup {0}
  BY DEF PageInv, TypeOK
<1>5. LiveAgrees'
  <2>1. (sending <=> live # 0)'
    BY Zenon DEF PageInv, LiveAgrees
  <2>2. (live # 0 => Waiting(live) /\ IsCurrent(live))'
    <3>1. CASE live = 0
      BY <3>1
    <3>2. CASE live # 0
      <4>1. live \in Asks /\ Waiting(live) /\ IsCurrent(live)
        BY <1>4, <3>2 DEF PageInv, LiveAgrees
      <4>2. asks'[live].stage \in {"sent", "opened", "stored"} /\ ~asks'[live].closed
              /\ asks'[live].seq = seq
        BY <1>2, <4>1 DEF Waiting, Pending, IsCurrent
      <4>3. QED BY <4>2 DEF Waiting, Pending, IsCurrent
    <3>3. QED BY <3>1, <3>2
  <2>3. (\A b \in Asks : Waiting(b) => live = b)'
    BY <1>3 DEF PageInv, LiveAgrees
  <2>4. QED BY <2>1, <2>2, <2>3 DEF LiveAgrees
<1>6. NewIsOpen'
  BY <1>2 DEF NewIsOpen, PageInv
<1>7. QED BY <1>5, <1>6

\* A step that ends the question the page waits for and opens the input.
LEMMA FinishStep ==
  ASSUME PageInv, NEW a \in Asks, NEW r, Waiting(a), Finish, seq' = seq,
         asks' = [asks EXCEPT ![a] = r], r.stage # "new",
         ~(r.stage \in {"sent", "opened", "stored"} /\ ~r.closed)
  PROVE  LiveAgrees' /\ NewIsOpen'
<1>1. asks \in [Asks -> [stage : AskStages, seq : 0 .. seq,
                         session : Sessions \cup {NoSession}, closed : BOOLEAN]]
  BY DEF PageInv, TypeOK
<1>2. asks'[a] = r /\ \A b \in Asks : b # a => asks'[b] = asks[b]
  BY <1>1
<1>3. ASSUME NEW b \in Asks PROVE ~Waiting(b)'
  <2>1. b # a => ~Waiting(b)
    BY DEF PageInv, LiveAgrees
  <2>2. QED BY <1>2, <2>1 DEF Waiting, Pending
<1>4. (sending <=> live # 0)'
  BY Zenon DEF Finish
<1>5. LiveAgrees'
  BY <1>3, <1>4 DEF LiveAgrees, Finish
<1>6. NewIsOpen'
  BY <1>2 DEF NewIsOpen, PageInv
<1>7. QED BY <1>5, <1>6

\* Only the latest question is waited for.
LEMMA WaitingIsCurrent ==
  ASSUME PageInv, NEW a \in Asks, Waiting(a)
  PROVE  live = a /\ IsCurrent(a)
BY DEF PageInv, LiveAgrees, Asks

-----------------------------------------------------------------------------
(* One lemma per action of a question *)

LEMMA SendMessageStep ==
  ASSUME PageInv, NEW a \in Asks, SendMessage(a)
  PROVE  PageInv'
<1>1. asks[a] \in AskRow /\ seq \in Nat /\ live \in Asks \cup {0} /\ asks \in [Asks -> AskRow]
  BY DEF PageInv, TypeOK, AskRow
<1>2. live = 0 /\ asks[a].closed = FALSE
  BY Zenon, <1>1 DEF PageInv, LiveAgrees, NewIsOpen, SendMessage, AskRow
<1>3. asks'[a] = [asks[a] EXCEPT !.stage = "sent", !.seq = seq + 1, !.session = sessionId]
        /\ \A b \in Asks : b # a => asks'[b] = asks[b]
  BY <1>1 DEF SendMessage
<1>4. seq' = seq + 1 /\ live' = a
  BY DEF SendMessage
<1>5. LiveAgrees'
  <2>1. (sending <=> live # 0)'
    <3>1. a # 0
      BY DEF Asks
    <3>2. QED BY <3>1, <1>4, Zenon DEF SendMessage
  <2>2. Waiting(a)' /\ IsCurrent(a)'
    BY <1>1, <1>2, <1>3, <1>4 DEF Waiting, Pending, IsCurrent, AskRow
  <2>3. ASSUME NEW b \in Asks, b # a PROVE ~Waiting(b)'
    <3>1. ~Waiting(b)
      BY <1>2 DEF PageInv, LiveAgrees, Asks
    <3>2. QED BY <3>1, <1>3, <2>3 DEF Waiting, Pending
  <2>4. (live # 0 => Waiting(live) /\ IsCurrent(live))'
    BY <2>2, <1>4 DEF Waiting, Pending, IsCurrent
  <2>5. QED BY <2>1, <2>3, <2>4, <1>4 DEF LiveAgrees
<1>6. NewIsOpen'
  BY <1>1, <1>3 DEF NewIsOpen, PageInv, AskRow
<1>7. TypeOK'
  <2>1. asks' \in [Asks -> AskRow]'
    <3>1. sessionId \in Sessions \cup {NoSession}
      BY DEF PageInv, TypeOK
    <3>2. seq + 1 \in 0 .. seq' /\ 0 .. seq \subseteq 0 .. seq'
      BY <1>1, <1>4
    <3>3. asks'[a] \in AskRow'
      BY <1>1, <1>3, <3>1, <3>2 DEF AskRow, AskStages
    <3>4. \A b \in Asks : b # a => asks'[b] \in AskRow'
      BY <1>1, <1>3, <3>2 DEF AskRow
    <3>5. QED BY <1>1, <3>3, <3>4 DEF SendMessage
  <2>2. messages' \in Seq(Message)
    BY DEF PageInv, TypeOK, SendMessage, User, Message
  <2>3. seq' \in Nat /\ live' \in Asks \cup {0}
    BY <1>1, <1>4
  <2>4. sending' \in BOOLEAN
    BY Zenon DEF SendMessage
  <2>5. UNCHANGED <<sessionId, loads, stored, crossed>>
    BY DEF SendMessage
  <2>6. QED BY <2>1, <2>2, <2>3, <2>4, <2>5 DEF PageInv, TypeOK, AskRow
<1>8. LoadsNamed'
  BY DEF SendMessage, PageInv, LoadsNamed
<1>9. QED BY <1>5, <1>6, <1>7, <1>8 DEF PageInv

LEMMA ShowAnswerStep ==
  ASSUME PageInv, NEW a \in Asks, ShowAnswer(a)
  PROVE  PageInv'
<1> DEFINE r == [asks[a] EXCEPT !.stage = "over"]
<1>1. asks \in [Asks -> AskRow] /\ asks[a] \in AskRow
  BY DEF PageInv, TypeOK, AskRow
<1>2. IsCurrent(a) /\ Waiting(a)
  BY WaitingIsCurrent DEF ShowAnswer
<1>3. /\ asks' = [asks EXCEPT ![a] = r] /\ sessionId' = asks[a].session
      /\ messages' = Append(messages, Assistant(a)) /\ Finish
      /\ UNCHANGED <<seq, loads, stored, crossed>>
  BY <1>2 DEF ShowAnswer
<1>4. r \in AskRow /\ r.stage = "over"
  BY <1>1 DEF AskRow, AskStages
<1>5. LiveAgrees' /\ NewIsOpen'
  BY <1>2, <1>3, <1>4, FinishStep
<1>6. TypeOK'
  <2>1. asks' \in [Asks -> AskRow]
    BY <1>1, <1>3, <1>4
  <2>2. messages' \in Seq(Message)
    BY <1>3 DEF PageInv, TypeOK, Assistant, Message
  <2>3. sessionId' \in Sessions \cup {NoSession}
    BY <1>1, <1>3 DEF AskRow
  <2>4. sending' \in BOOLEAN /\ live' = 0
    BY <1>3, Zenon DEF Finish
  <2>5. QED BY <1>3, <2>1, <2>2, <2>3, <2>4 DEF PageInv, TypeOK, AskRow
<1>7. QED BY <1>3, <1>5, <1>6 DEF PageInv, LoadsNamed

LEMMA ShowErrorStep ==
  ASSUME PageInv, NEW a \in Asks, ShowError(a)
  PROVE  PageInv'
<1> DEFINE r == [asks[a] EXCEPT !.closed = TRUE]
<1>1. asks \in [Asks -> AskRow] /\ asks[a] \in AskRow
  BY DEF PageInv, TypeOK, AskRow
<1>2. IsCurrent(a) /\ Waiting(a)
  BY WaitingIsCurrent DEF ShowError
<1>3. /\ asks' = [asks EXCEPT ![a] = r] /\ Finish
      /\ UNCHANGED <<seq, sessionId, messages, loads, stored, crossed>>
  BY <1>2 DEF ShowError
<1>4. r \in AskRow /\ r.closed = TRUE /\ r.stage = asks[a].stage /\ r.stage # "new"
  BY <1>1, <1>2 DEF AskRow, Waiting, Pending
<1>5. ~(r.stage \in {"sent", "opened", "stored"} /\ ~r.closed)
  BY <1>4
<1>6. LiveAgrees' /\ NewIsOpen'
  BY <1>2, <1>3, <1>4, <1>5, FinishStep
<1>7. TypeOK'
  <2>1. asks' \in [Asks -> AskRow]
    BY <1>1, <1>3, <1>4
  <2>2. sending' \in BOOLEAN /\ live' = 0
    BY <1>3, Zenon DEF Finish
  <2>3. QED BY <1>3, <2>1, <2>2 DEF PageInv, TypeOK, AskRow
<1>8. QED BY <1>3, <1>6, <1>7 DEF PageInv, LoadsNamed

LEMMA OpenSessionStep ==
  ASSUME PageInv, NEW a \in Asks, OpenSession(a)
  PROVE  PageInv'
<1> DEFINE r == [asks[a] EXCEPT !.stage = "opened",
                                !.session = IF @ = NoSession THEN a ELSE @]
<1>1. asks \in [Asks -> AskRow] /\ asks[a] \in AskRow /\ asks[a].stage = "sent"
  BY DEF PageInv, TypeOK, AskRow, OpenSession
<1>2. asks' = [asks EXCEPT ![a] = r] /\ UNCHANGED <<page, loads, stored, crossed>>
  BY DEF OpenSession
<1>3. /\ r \in AskRow /\ r.stage = "opened"
      /\ r.seq = asks[a].seq /\ r.closed = asks[a].closed
  BY <1>1 DEF AskRow, AskStages, Sessions
<1>4. (r.stage \in {"sent", "opened", "stored"} /\ ~r.closed) <=> Waiting(a)
  BY <1>1, <1>3 DEF Waiting, Pending
<1>5. LiveAgrees' /\ NewIsOpen'
  BY <1>2, <1>3, <1>4, OneAskStep DEF page, AskRow
<1>6. TypeOK'
  BY <1>1, <1>2, <1>3 DEF PageInv, TypeOK, AskRow, page
<1>7. QED BY <1>2, <1>5, <1>6 DEF PageInv, LoadsNamed

LEMMA StoreStep ==
  ASSUME PageInv, NEW a \in Asks, Store(a)
  PROVE  PageInv'
<1> DEFINE r == [asks[a] EXCEPT !.stage = "stored"]
<1>1. asks \in [Asks -> AskRow] /\ asks[a] \in AskRow /\ asks[a].stage = "opened"
  BY DEF PageInv, TypeOK, AskRow, Store
<1>2. asks' = [asks EXCEPT ![a] = r] /\ UNCHANGED <<page, loads, crossed>>
  BY DEF Store
<1>3. /\ r \in AskRow /\ r.stage = "stored"
      /\ r.seq = asks[a].seq /\ r.closed = asks[a].closed
  BY <1>1 DEF AskRow, AskStages
<1>4. (r.stage \in {"sent", "opened", "stored"} /\ ~r.closed) <=> Waiting(a)
  BY <1>1, <1>3 DEF Waiting, Pending
<1>5. LiveAgrees' /\ NewIsOpen'
  BY <1>2, <1>3, <1>4, OneAskStep DEF page, AskRow
<1>6. stored' \in [Sessions -> Seq(Asks)]
  <2>1. stored \in [Sessions -> Seq(Asks)]
    BY DEF PageInv, TypeOK
  <2>2. stored' = [stored EXCEPT ![asks[a].session] = Append(@, a)]
    BY DEF Store
  <2>3. CASE asks[a].session \in Sessions
    <3>1. Append(stored[asks[a].session], a) \in Seq(Asks)
      BY <2>1, <2>3
    <3>2. QED BY <2>1, <2>2, <3>1
  <2>4. CASE asks[a].session \notin Sessions
    BY <2>1, <2>2, <2>4
  <2>5. QED BY <2>3, <2>4
<1>7. TypeOK'
  BY <1>1, <1>2, <1>3, <1>6 DEF PageInv, TypeOK, AskRow, page
<1>8. QED BY <1>2, <1>5, <1>7 DEF PageInv, LoadsNamed

LEMMA ForgetStep ==
  ASSUME PageInv, NEW a \in Asks, Forget(a)
  PROVE  PageInv'
<1> DEFINE r == [asks[a] EXCEPT !.stage = "over"]
<1>1. asks \in [Asks -> AskRow] /\ asks[a] \in AskRow /\ ~Waiting(a)
  BY DEF PageInv, TypeOK, AskRow, Forget
<1>2. asks' = [asks EXCEPT ![a] = r] /\ UNCHANGED <<page, loads, stored, crossed>>
  BY DEF Forget
<1>3. /\ r \in AskRow /\ r.stage = "over"
      /\ r.seq = asks[a].seq /\ r.closed = asks[a].closed
  BY <1>1 DEF AskRow, AskStages
<1>4. (r.stage \in {"sent", "opened", "stored"} /\ ~r.closed) <=> Waiting(a)
  BY <1>1, <1>3
<1>5. LiveAgrees' /\ NewIsOpen'
  BY <1>2, <1>3, <1>4, OneAskStep DEF page, AskRow
<1>6. TypeOK'
  BY <1>1, <1>2, <1>3 DEF PageInv, TypeOK, AskRow, page
<1>7. QED BY <1>2, <1>5, <1>6 DEF PageInv, LoadsNamed

-----------------------------------------------------------------------------
(* The user's other clicks, and the sessions that are loaded *)

LEMMA CancelStep == ASSUME PageInv, Cancel PROVE PageInv'
<1>1. CancelInFlight /\ UNCHANGED <<sessionId, messages, loads, stored, crossed>>
  BY DEF Cancel
<1>2. QED BY <1>1, CancelInFlightStep DEF PageInv, TypeOK, LoadsNamed

LEMMA ClearSessionStep == ASSUME PageInv, ClearSession PROVE PageInv'
<1>1. CancelInFlight /\ messages' = <<>> /\ sessionId' = NoSession /\ UNCHANGED <<loads, stored>>
  BY DEF ClearSession
<1>2. crossed' \in BOOLEAN
  BY Zenon DEF ClearSession
<1>3. QED BY <1>1, <1>2, CancelInFlightStep DEF PageInv, TypeOK, LoadsNamed

LEMMA RemountStep == ASSUME PageInv, Remount PROVE PageInv'
<1>1. CancelInFlight /\ messages' = <<>> /\ sessionId' = NoSession /\ UNCHANGED stored
  BY DEF Remount
<1>2. crossed' \in BOOLEAN
  BY Zenon DEF Remount
<1>3. loads' \in [Loads -> [stage : LoadStages, session : Sessions \cup {NoSession}, rows : Seq(Asks)]]
  BY DEF PageInv, TypeOK, Remount, LoadStages
<1>4. LoadsNamed'
  BY DEF PageInv, TypeOK, LoadsNamed, Remount
<1>5. QED BY <1>1, <1>2, <1>3, <1>4, CancelInFlightStep DEF PageInv, TypeOK

LEMMA LoadSessionStep ==
  ASSUME PageInv, NEW l \in Loads, NEW s \in Sessions, LoadSession(l, s)
  PROVE  PageInv'
<1>1. CancelInFlight /\ UNCHANGED <<sessionId, messages, stored, crossed>>
  BY DEF LoadSession
<1>2. loads' \in [Loads -> [stage : LoadStages, session : Sessions \cup {NoSession}, rows : Seq(Asks)]]
  <2>1. loads' = [loads EXCEPT ![l].stage = "sent", ![l].session = s] /\ "sent" \in LoadStages
    BY DEF LoadSession, LoadStages
  <2>2. QED BY <2>1 DEF PageInv, TypeOK
<1>3. LoadsNamed'
  BY DEF PageInv, TypeOK, LoadsNamed, LoadSession
<1>4. QED BY <1>1, <1>2, <1>3, CancelInFlightStep DEF PageInv, TypeOK

LEMMA LoadedStep == ASSUME PageInv, NEW l \in Loads, Loaded(l) PROVE PageInv'
<1>1. /\ loads[l].rows \in Seq(Asks) /\ loads[l].session \in Sessions \cup {NoSession}
      /\ sending \in BOOLEAN
  BY DEF PageInv, TypeOK
<1>2. messages' \in Seq(Message)
  BY <1>1, LoadedMessages DEF Loaded
<1>3. loads' \in [Loads -> [stage : LoadStages, session : Sessions \cup {NoSession}, rows : Seq(Asks)]]
  BY DEF PageInv, TypeOK, Loaded, LoadStages
<1>4. crossed' \in BOOLEAN
  BY <1>1, Zenon DEF Loaded
<1>5. UNCHANGED <<seq, live, sending, asks, stored>> /\ sessionId' = loads[l].session
  BY DEF Loaded
<1>6. TypeOK'
  BY <1>1, <1>2, <1>3, <1>4, <1>5 DEF PageInv, TypeOK
<1>7. LiveAgrees' /\ NewIsOpen'
  BY <1>5 DEF PageInv, LiveAgrees, NewIsOpen, Waiting, Pending, IsCurrent
<1>8. LoadsNamed'
  BY DEF PageInv, TypeOK, LoadsNamed, Loaded
<1>9. QED BY <1>6, <1>7, <1>8 DEF PageInv

LEMMA LoadFailsStep == ASSUME PageInv, NEW l \in Loads, LoadFails(l) PROVE PageInv'
<1>1. loads' \in [Loads -> [stage : LoadStages, session : Sessions \cup {NoSession}, rows : Seq(Asks)]]
  BY DEF PageInv, TypeOK, LoadFails, LoadStages
<1>2. UNCHANGED <<page, asks, stored, crossed>>
  BY DEF LoadFails
<1>3. LoadsNamed'
  BY DEF PageInv, TypeOK, LoadsNamed, LoadFails
<1>4. QED
  BY <1>1, <1>2, <1>3
  DEF PageInv, TypeOK, page, LiveAgrees, NewIsOpen, Waiting, Pending, IsCurrent

LEMMA ReadSessionStep == ASSUME PageInv, NEW l \in Loads, ReadSession(l) PROVE PageInv'
<1>1. stored[loads[l].session] \in Seq(Asks)
  BY DEF PageInv, TypeOK, LoadsNamed, ReadSession
<1>2. loads' \in [Loads -> [stage : LoadStages, session : Sessions \cup {NoSession}, rows : Seq(Asks)]]
  BY <1>1 DEF PageInv, TypeOK, ReadSession, LoadStages
<1>3. UNCHANGED <<page, asks, stored, crossed>>
  BY DEF ReadSession
<1>4. LoadsNamed'
  BY DEF PageInv, TypeOK, LoadsNamed, ReadSession
<1>5. QED
  BY <1>2, <1>3, <1>4
  DEF PageInv, TypeOK, page, LiveAgrees, NewIsOpen, Waiting, Pending, IsCurrent

-----------------------------------------------------------------------------
(* The theorems *)

\* What the page remembers of the question under way always fits what is under
\* way: an invariant for any number of questions and sessions.
THEOREM PageInvHolds == Spec => []PageInv
<1>1. Init => PageInv
  <2> SUFFICES ASSUME Init PROVE PageInv
    OBVIOUS
  <2>1. TypeOK
    <3>1. asks \in [Asks -> AskRow]
      BY DEF Init, AskStages, AskRow
    <3>2. loads \in [Loads -> [stage : LoadStages, session : Sessions \cup {NoSession},
                               rows : Seq(Asks)]]
      BY DEF Init, LoadStages
    <3>3. messages \in Seq(Message) /\ stored \in [Sessions -> Seq(Asks)]
      BY DEF Init
    <3>4. sending \in BOOLEAN /\ crossed \in BOOLEAN
      BY Zenon DEF Init
    <3>5. seq \in Nat /\ live \in Asks \cup {0} /\ sessionId \in Sessions \cup {NoSession}
      BY DEF Init
    <3>6. QED BY <3>1, <3>2, <3>3, <3>4, <3>5 DEF TypeOK, AskRow
  <2>2. LiveAgrees
    <3>1. sending <=> live # 0
      BY Zenon DEF Init
    <3>2. live = 0 /\ \A a \in Asks : ~Waiting(a)
      BY DEF Init, Waiting, Pending
    <3>3. QED BY <3>1, <3>2 DEF LiveAgrees
  <2>3. NewIsOpen
    BY DEF Init, NewIsOpen
  <2>4. LoadsNamed
    BY DEF Init, LoadsNamed
  <2>5. QED BY <2>1, <2>2, <2>3, <2>4 DEF PageInv
<1>2. PageInv /\ [Next]_vars => PageInv'
  <2> SUFFICES ASSUME PageInv, [Next]_vars PROVE PageInv'
    OBVIOUS
  <2>1. ASSUME NEW a \in Asks,
               SendMessage(a) \/ ShowAnswer(a) \/ ShowError(a) \/ OpenSession(a) \/ Store(a) \/ Forget(a)
        PROVE  PageInv'
    BY <2>1, SendMessageStep, ShowAnswerStep, ShowErrorStep, OpenSessionStep, StoreStep, ForgetStep
  <2>2. ASSUME NEW l \in Loads,
               (\E s \in Sessions : LoadSession(l, s)) \/ Loaded(l) \/ LoadFails(l) \/ ReadSession(l)
        PROVE  PageInv'
    BY <2>2, LoadSessionStep, LoadedStep, LoadFailsStep, ReadSessionStep
  <2>3. CASE Cancel \/ ClearSession \/ Remount
    BY <2>3, CancelStep, ClearSessionStep, RemountStep
  <2>4. CASE UNCHANGED vars
    BY <2>4 DEF vars, page, PageInv, TypeOK, LiveAgrees, NewIsOpen, LoadsNamed, Waiting, Pending, IsCurrent
  <2>5. QED BY <2>1, <2>2, <2>3, <2>4 DEF Next
<1>3. QED BY <1>1, <1>2, PTL DEF Spec

\* Every variable of the page keeps its type, whatever arrives when.
THEOREM PageTyped == Spec => []TypeOK
<1>1. PageInv => TypeOK
  BY DEF PageInv
<1>2. QED BY <1>1, PageInvHolds, PTL

\* The input of ChatPage.jsx is closed exactly while the latest question is
\* under way, for any number of questions, cancels, clears and loaded sessions.
THEOREM SendingAlwaysWaits == Spec => []SendingIsWaiting
<1>1. PageInv => SendingIsWaiting
  <2> SUFFICES ASSUME PageInv PROVE SendingIsWaiting
    OBVIOUS
  <2>1. live # 0 => \E a \in Asks : Waiting(a) /\ IsCurrent(a)
    BY DEF PageInv, TypeOK, LiveAgrees
  <2>2. (\E a \in Asks : Waiting(a) /\ IsCurrent(a)) => live # 0
    BY DEF PageInv, LiveAgrees, Asks
  <2>3. QED BY <2>1, <2>2, Zenon DEF PageInv, LiveAgrees, SendingIsWaiting
<1>2. QED BY <1>1, PageInvHolds, PTL

\* No click of the user leaves an open stream that the Cancel button does not
\* reach.
THEOREM LiveStreamIsCancelled == Spec => []LiveCanBeCancelled
<1>1. PageInv => LiveCanBeCancelled
  BY DEF PageInv, LiveAgrees, LiveCanBeCancelled
<1>2. QED BY <1>1, PageInvHolds, PTL

-----------------------------------------------------------------------------
(* What the chat shows *)

\* A question has one row, in the session it was resolved to, from the moment it
\* is stored.
RowsAgree ==
  /\ \A s \in Sessions : \A p \in DOMAIN stored[s] : asks[stored[s][p]].stage \in {"stored", "over"}
  /\ \A s \in Sessions : \A p, q \in DOMAIN stored[s] : stored[s][p] = stored[s][q] => p = q
  /\ \A a \in Asks : asks[a].stage \in {"opened", "stored"} => asks[a].session \in Sessions
  /\ \A a \in Asks : asks[a].stage = "stored" =>
       \E p \in DOMAIN stored[asks[a].session] : stored[asks[a].session][p] = a

\* What was read of a session is how its rows begin.
LoadsAgree ==
  \A l \in Loads : loads[l].stage = "read" =>
    /\ loads[l].session \in Sessions
    /\ Len(loads[l].rows) <= Len(stored[loads[l].session])
    /\ \A p \in DOMAIN loads[l].rows : loads[l].rows[p] = stored[loads[l].session][p]

\* The question under way is the last message.  It goes to the session of the
\* answers above it, and its row comes after theirs.
LiveComesNext ==
  ~crossed /\ sending =>
    /\ messages # <<>> /\ messages[Len(messages)] = User(live)
    /\ \A i \in Answers :
         /\ asks[live].session = sessionId
         /\ \A p, q \in DOMAIN stored[sessionId] : IsRow(i, p) /\ stored[sessionId][q] = live => p < q

ChatInv == RowsAgree /\ LoadsAgree /\ LiveComesNext /\ AnswersFollowQuestions /\ ChatIsOneSession

\* Rows stay what they are as long as no question is stored and none goes back.
LEMMA RowsKept ==
  ASSUME PageInv, RowsAgree, UNCHANGED stored,
         \A b \in Asks :
           /\ asks[b].stage \in {"stored", "over"} => asks'[b].stage \in {"stored", "over"}
           /\ asks'[b].stage \in {"opened", "stored"} => asks'[b].session \in Sessions
           /\ asks'[b].stage = "stored" => asks[b].stage = "stored" /\ asks'[b].session = asks[b].session
  PROVE  RowsAgree'
<1>1. stored \in [Sessions -> Seq(Asks)]
  BY DEF PageInv, TypeOK
<1>2. \A s \in Sessions : \A p \in DOMAIN stored[s] : stored[s][p] \in Asks
  BY <1>1
<1>3. QED BY <1>2 DEF RowsAgree

\* Sessions that were read stay how the rows begin, as long as rows are only
\* added.
LEMMA LoadsKept ==
  ASSUME PageInv, TypeOK', LoadsAgree,
         \A s \in Sessions : /\ Len(stored[s]) <= Len(stored'[s])
                             /\ \A p \in DOMAIN stored[s] : stored'[s][p] = stored[s][p],
         \A l \in Loads : loads'[l].stage = "read" => loads'[l] = loads[l]
  PROVE  LoadsAgree'
<1> SUFFICES ASSUME NEW l \in Loads, loads'[l].stage = "read"
             PROVE  /\ loads'[l].session \in Sessions
                    /\ Len(loads'[l].rows) <= Len(stored'[loads'[l].session])
                    /\ \A p \in DOMAIN loads'[l].rows : loads'[l].rows[p] = stored'[loads'[l].session][p]
  BY DEF LoadsAgree
<1> DEFINE s == loads[l].session  rows == loads[l].rows
<1>1. loads'[l] = loads[l] /\ loads[l].stage = "read"
  BY Zenon
<1>2. s \in Sessions /\ Len(rows) <= Len(stored[s]) /\ \A p \in DOMAIN rows : rows[p] = stored[s][p]
  BY <1>1 DEF LoadsAgree
<1>3. rows \in Seq(Asks) /\ stored[s] \in Seq(Asks)
  BY <1>2 DEF PageInv, TypeOK
<1>4. Len(stored[s]) <= Len(stored'[s]) /\ \A p \in DOMAIN stored[s] : stored'[s][p] = stored[s][p]
  BY <1>2
<1>5. Len(rows) <= Len(stored'[s])
  <2>1. Len(rows) \in Nat /\ Len(stored[s]) \in Nat /\ Len(stored'[s]) \in Nat
    BY <1>2, <1>3 DEF TypeOK
  <2>2. QED BY <2>1, <1>2, <1>4
<1>6. QED BY <1>1, <1>2, <1>3, <1>4, <1>5

\* The chat keeps what it says while neither it nor the rows change.
LEMMA ShownKept ==
  ASSUME ChatInv, UNCHANGED <<messages, sessionId, stored, crossed>>
  PROVE  AnswersFollowQuestions' /\ ChatIsOneSession'
BY DEF ChatInv, AnswersFollowQuestions, ChatIsOneSession, Answers, IsRow, User

LEMMA LiveKept ==
  ASSUME ChatInv, UNCHANGED <<messages, sessionId, stored, crossed>>,
         sending' => sending /\ live' = live /\ asks'[live].session = asks[live].session
  PROVE  LiveComesNext'
BY DEF ChatInv, LiveComesNext, Answers, IsRow, User

\* What every click of the user begins with changes no row and no chat.
LEMMA CancelKeepsRows ==
  ASSUME PageInv, RowsAgree, CancelInFlight, UNCHANGED stored
  PROVE  RowsAgree' /\ ~sending'
<1>1. asks \in [Asks -> AskRow]
  BY DEF PageInv, TypeOK, AskRow
<1>2. ASSUME NEW b \in Asks PROVE asks'[b].stage = asks[b].stage /\ asks'[b].session = asks[b].session
  BY <1>1 DEF CancelInFlight, AskRow
<1>3. ~sending'
  BY Zenon DEF CancelInFlight
<1>4. QED BY <1>2, <1>3, RowsKept DEF RowsAgree

LEMMA ChatSendMessage ==
  ASSUME PageInv, PageInv', ChatInv, NEW a \in Asks, SendMessage(a)
  PROVE  ChatInv'
<1>1. asks[a].stage = "new" /\ asks \in [Asks -> AskRow] /\ messages \in Seq(Message)
  BY DEF PageInv, TypeOK, AskRow, SendMessage
<1>2. /\ asks'[a].stage = "sent" /\ asks'[a].session = sessionId
      /\ \A b \in Asks : b # a => asks'[b] = asks[b]
  BY <1>1 DEF SendMessage, AskRow
<1>3. messages' = Append(messages, User(a)) /\ live' = a /\ UNCHANGED <<sessionId, loads, stored, crossed>>
  BY DEF SendMessage
<1>4. RowsAgree'
  BY <1>1, <1>2, <1>3, RowsKept DEF ChatInv, RowsAgree
<1>5. LoadsAgree'
  BY <1>3, LoadsKept DEF ChatInv, PageInv, TypeOK
<1>6. /\ Len(messages') = Len(messages) + 1 /\ messages'[Len(messages) + 1] = User(a)
      /\ \A i \in DOMAIN messages : messages'[i] = messages[i]
      /\ DOMAIN messages' = DOMAIN messages \cup {Len(messages) + 1}
      /\ Len(messages) \in Nat /\ DOMAIN messages = 1 .. Len(messages)
  BY <1>1, <1>3 DEF User, Message
<1>7. Answers' = Answers
  BY <1>6 DEF Answers, User
<1>8. \A i \in Answers : messages'[i] = messages[i]
  BY <1>6 DEF Answers
<1>9. AnswersFollowQuestions'
  <2> SUFFICES ASSUME ~crossed, NEW i \in Answers PROVE i > 1 /\ messages'[i - 1] = User(messages'[i].ask)
    BY <1>3, <1>7 DEF AnswersFollowQuestions, Answers
  <2>1. i \in DOMAIN messages /\ i > 1 /\ messages[i - 1] = User(messages[i].ask)
    BY DEF ChatInv, AnswersFollowQuestions, Answers
  <2>2. i - 1 \in DOMAIN messages
    BY <1>6, <2>1
  <2>3. QED BY <1>6, <2>1, <2>2
<1>10. ChatIsOneSession'
  <2>1. ASSUME NEW i \in Answers, NEW p PROVE IsRow(i, p)' <=> IsRow(i, p)
    BY <1>3, <1>8 DEF IsRow
  <2>2. ~crossed' => ~crossed
    BY <1>3
  <2>3. QED BY <1>3, <1>7, <2>1, <2>2 DEF ChatInv, ChatIsOneSession
<1>11. LiveComesNext'
  <2>1. ~crossed' => \A i \in Answers' : sessionId' # NoSession
    BY <1>10 DEF ChatIsOneSession
  <2>2. sessionId \in Sessions \cup {NoSession}
    BY DEF PageInv, TypeOK
  <2>3. ~crossed' => \A i \in Answers' : \A q \in DOMAIN stored[sessionId] : stored[sessionId][q] # a
    BY <1>1, <1>3, <2>1, <2>2 DEF ChatInv, RowsAgree
  <2>4. messages' # <<>> /\ messages'[Len(messages')] = User(live')
    BY <1>3, <1>6
  <2>5. QED BY <1>2, <1>3, <2>3, <2>4 DEF LiveComesNext
<1>12. QED BY <1>4, <1>5, <1>9, <1>10, <1>11 DEF ChatInv

LEMMA ChatShowAnswer ==
  ASSUME PageInv, PageInv', ChatInv, NEW a \in Asks, ShowAnswer(a)
  PROVE  ChatInv'
<1> DEFINE n == Len(messages)  t == asks[a].session
<1>1. asks \in [Asks -> AskRow] /\ messages \in Seq(Message) /\ asks[a].stage = "stored"
  BY DEF PageInv, TypeOK, AskRow, ShowAnswer
<1>2. live = a /\ IsCurrent(a) /\ sending
  <2>1. Waiting(a)
    BY DEF ShowAnswer
  <2>2. live = a /\ IsCurrent(a)
    BY <2>1, WaitingIsCurrent
  <2>3. a # 0
    BY DEF Asks
  <2>4. QED BY <2>2, <2>3, Zenon DEF PageInv, LiveAgrees
<1>3. /\ asks' = [asks EXCEPT ![a].stage = "over"] /\ sessionId' = t
      /\ messages' = Append(messages, Assistant(a)) /\ ~sending'
      /\ UNCHANGED <<seq, loads, stored, crossed>>
  BY <1>2, Zenon DEF ShowAnswer, Finish
<1>4. asks'[a].stage = "over" /\ asks'[a].session = t /\ \A b \in Asks : b # a => asks'[b] = asks[b]
  BY <1>1, <1>3 DEF AskRow
<1>5. RowsAgree'
  BY <1>1, <1>3, <1>4, RowsKept DEF ChatInv, RowsAgree
<1>6. LoadsAgree'
  BY <1>3, LoadsKept DEF ChatInv, PageInv, TypeOK
<1>7. /\ messages'[n + 1] = Assistant(a) /\ \A i \in DOMAIN messages : messages'[i] = messages[i]
      /\ DOMAIN messages' = DOMAIN messages \cup {n + 1} /\ n \in Nat /\ DOMAIN messages = 1 .. n
  BY <1>1, <1>3 DEF Assistant, Message
<1>8. Answers' = Answers \cup {n + 1} /\ \A i \in Answers : i \in 1 .. n /\ messages'[i] = messages[i]
  BY <1>7 DEF Answers, Assistant
<1>9. ~crossed => n > 0 /\ messages[n] = User(a)
  BY <1>1, <1>2 DEF ChatInv, LiveComesNext
<1>10. AnswersFollowQuestions'
  <2> SUFFICES ASSUME ~crossed, NEW i \in Answers' PROVE i > 1 /\ messages'[i - 1] = User(messages'[i].ask)
    BY <1>3 DEF AnswersFollowQuestions, Answers
  <2>1. CASE i = n + 1
    <3>1. messages'[i].ask = a /\ i - 1 = n /\ n \in DOMAIN messages
      BY <1>7, <1>9, <2>1 DEF Assistant
    <3>2. QED BY <1>7, <1>9, <2>1, <3>1
  <2>2. CASE i \in Answers
    <3>1. i > 1 /\ messages[i - 1] = User(messages[i].ask) /\ i \in 1 .. n
      BY <1>8, <2>2 DEF ChatInv, AnswersFollowQuestions, Answers
    <3>2. i - 1 \in DOMAIN messages
      BY <1>7, <3>1
    <3>3. QED BY <1>7, <1>8, <2>2, <3>1, <3>2
  <2>3. QED BY <1>8, <2>1, <2>2
<1>11. t \in Sessions /\ stored[t] \in Seq(Asks) /\ \E p \in DOMAIN stored[t] : stored[t][p] = a
  <2>1. t \in Sessions /\ \E p \in DOMAIN stored[t] : stored[t][p] = a
    BY <1>1 DEF ChatInv, RowsAgree
  <2>2. QED BY <2>1 DEF PageInv, TypeOK
<1>12. ~crossed => \A i \in Answers : t = sessionId
  BY <1>2 DEF ChatInv, LiveComesNext
<1>13. ChatIsOneSession'
  <2>0. ASSUME NEW i, NEW p PROVE IsRow(i, p)' <=> stored[t][p] = messages'[i].ask
    BY <1>3 DEF IsRow
  <2> SUFFICES ASSUME ~crossed, NEW i \in Answers'
               PROVE  /\ t # NoSession
                      /\ \E p \in DOMAIN stored[t] : stored[t][p] = messages'[i].ask
                      /\ \A j \in Answers' : \A p, q \in DOMAIN stored[t] :
                           stored[t][p] = messages'[i].ask /\ stored[t][q] = messages'[j].ask => (i < j <=> p < q)
    BY <1>3, <2>0 DEF ChatIsOneSession
  <2>1. t # NoSession
    BY <1>11 DEF Sessions, Asks, NoSession
  <2>2. messages'[n + 1].ask = a /\ \A k \in Answers : messages'[k].ask = messages[k].ask /\ k < n + 1
    BY <1>7, <1>8 DEF Assistant
  <2>3. \E p \in DOMAIN stored[t] : stored[t][p] = messages'[i].ask
    <3>1. CASE i = n + 1
      BY <1>11, <2>2, <3>1
    <3>2. CASE i \in Answers
      BY <1>12, <2>2, <3>2 DEF ChatInv, ChatIsOneSession, IsRow
    <3>3. QED BY <1>8, <3>1, <3>2
  <2>4. ASSUME NEW j \in Answers', NEW p \in DOMAIN stored[t], NEW q \in DOMAIN stored[t],
               stored[t][p] = messages'[i].ask, stored[t][q] = messages'[j].ask
        PROVE  i < j <=> p < q
    <3>1. p \in Nat /\ q \in Nat /\ (p = q <=> stored[t][p] = stored[t][q])
      BY <1>11 DEF ChatInv, RowsAgree
    <3>2. ASSUME NEW k \in Answers, NEW u \in DOMAIN stored[t], NEW v \in DOMAIN stored[t],
                 stored[t][u] = messages[k].ask, stored[t][v] = a
          PROVE  u < v
      BY <1>2, <1>12, <3>2 DEF ChatInv, LiveComesNext, IsRow
    <3>3. CASE i \in Answers /\ j \in Answers
      BY <1>12, <2>2, <2>4, <3>3 DEF ChatInv, ChatIsOneSession, IsRow
    <3>4. CASE i \in Answers /\ j = n + 1
      BY <2>2, <2>4, <3>2, <3>4
    <3>5. CASE i = n + 1 /\ j \in Answers
      <4>1. q < p /\ j < i
        BY <2>2, <2>4, <3>2, <3>5
      <4>2. j \in Nat /\ i \in Nat
        BY <1>7, <1>8, <3>5
      <4>3. QED BY <3>1, <4>1, <4>2
    <3>6. CASE i = n + 1 /\ j = n + 1
      BY <1>7, <2>4, <3>1, <3>6
    <3>7. QED BY <1>8, <3>3, <3>4, <3>5, <3>6
  <2>5. QED BY <2>1, <2>3, <2>4
<1>14. LiveComesNext'
  BY <1>3 DEF LiveComesNext
<1>15. QED BY <1>5, <1>6, <1>10, <1>13, <1>14 DEF ChatInv

\* A step that changes only what is remembered of one question that is not
\* about to be stored.
LEMMA ChatQuiet ==
  ASSUME PageInv, PageInv', ChatInv, NEW a \in Asks, NEW r \in AskRow,
         asks' = [asks EXCEPT ![a] = r],
         UNCHANGED <<messages, sessionId, loads, stored, crossed>>,
         asks[a].stage \in {"stored", "over"} => r.stage \in {"stored", "over"},
         r.stage \in {"opened", "stored"} => r.session \in Sessions,
         r.stage = "stored" => asks[a].stage = "stored" /\ r.session = asks[a].session,
         sending' => sending /\ live' = live,
         \A i \in Answers : asks[a].session = sessionId /\ a = live /\ ~crossed /\ sending =>
            r.session = sessionId
  PROVE  ChatInv'
<1>1. asks \in [Asks -> AskRow]
  BY DEF PageInv, TypeOK, AskRow
<1>2. asks'[a] = r /\ \A b \in Asks : b # a => asks'[b] = asks[b]
  BY <1>1
<1>3. RowsAgree'
  BY <1>2, RowsKept DEF ChatInv, RowsAgree
<1>4. LoadsAgree'
  BY LoadsKept DEF ChatInv, PageInv, TypeOK
<1>5. AnswersFollowQuestions' /\ ChatIsOneSession'
  BY ShownKept
<1>6. LiveComesNext'
  <2> SUFFICES ASSUME ~crossed, sending' PROVE LiveComesNext'
    BY DEF LiveComesNext
  <2>1. sending /\ live' = live /\ messages # <<>> /\ messages[Len(messages)] = User(live)
    BY DEF ChatInv, LiveComesNext
  <2>2. live \in Asks
    BY <2>1, Zenon DEF PageInv, TypeOK, LiveAgrees
  <2>3. ASSUME NEW i \in Answers
        PROVE  /\ asks'[live].session = sessionId
               /\ \A p, q \in DOMAIN stored[sessionId] : IsRow(i, p) /\ stored[sessionId][q] = live => p < q
    <3>1. /\ asks[live].session = sessionId
          /\ \A p, q \in DOMAIN stored[sessionId] : IsRow(i, p) /\ stored[sessionId][q] = live => p < q
      BY <2>1 DEF ChatInv, LiveComesNext
    <3>2. QED BY <1>2, <2>1, <2>2, <3>1
  <2>4. Answers' = Answers /\ \A i, p : IsRow(i, p)' <=> IsRow(i, p)
    BY DEF Answers, IsRow
  <2>5. messages' # <<>> /\ messages'[Len(messages')] = User(live')
    BY <2>1 DEF User
  <2>6. QED BY <2>1, <2>3, <2>4, <2>5 DEF LiveComesNext
<1>7. QED BY <1>3, <1>4, <1>5, <1>6 DEF ChatInv

LEMMA ChatShowError ==
  ASSUME PageInv, PageInv', ChatInv, NEW a \in Asks, ShowError(a)
  PROVE  ChatInv'
<1> DEFINE r == [asks[a] EXCEPT !.closed = TRUE]
<1>1. asks[a] \in AskRow
  BY DEF PageInv, TypeOK, AskRow
<1>2. r \in AskRow /\ r.stage = asks[a].stage /\ r.session = asks[a].session
  BY <1>1 DEF AskRow
<1>3. /\ asks' = [asks EXCEPT ![a] = r] /\ UNCHANGED <<messages, sessionId, loads, stored, crossed>>
  BY DEF ShowError
<1>4. sending' => sending /\ live' = live
  BY Zenon DEF ShowError, Finish
<1>5. r.stage \in {"opened", "stored"} => r.session \in Sessions
  BY <1>2 DEF ChatInv, RowsAgree
<1> HIDE DEF r
<1>6. QED BY <1>2, <1>3, <1>4, <1>5, ChatQuiet

LEMMA ChatForget ==
  ASSUME PageInv, PageInv', ChatInv, NEW a \in Asks, Forget(a)
  PROVE  ChatInv'
<1> DEFINE r == [asks[a] EXCEPT !.stage = "over"]
<1>1. asks[a] \in AskRow
  BY DEF PageInv, TypeOK, AskRow
<1>2. r \in AskRow /\ r.stage = "over" /\ r.session = asks[a].session
  BY <1>1 DEF AskRow, AskStages
<1>3. /\ asks' = [asks EXCEPT ![a] = r] /\ UNCHANGED <<messages, sessionId, loads, stored, crossed, sending, live>>
  BY DEF Forget, page
<1> HIDE DEF r
<1>4. QED BY <1>2, <1>3, ChatQuiet

LEMMA ChatOpenSession ==
  ASSUME PageInv, PageInv', ChatInv, NEW a \in Asks, OpenSession(a)
  PROVE  ChatInv'
<1> DEFINE r == [asks[a] EXCEPT !.stage = "opened",
                                !.session = IF @ = NoSession THEN a ELSE @]
<1>1. asks[a] \in AskRow /\ asks[a].stage = "sent"
  BY DEF PageInv, TypeOK, AskRow, OpenSession
<1>2. /\ r \in AskRow /\ r.stage = "opened" /\ r.session \in Sessions
      /\ asks[a].session # NoSession => r.session = asks[a].session
  BY <1>1 DEF AskRow, AskStages, Sessions
<1>3. /\ asks' = [asks EXCEPT ![a] = r] /\ UNCHANGED <<messages, sessionId, loads, stored, crossed, sending, live>>
  BY DEF OpenSession, page
<1>4. ~crossed => \A i \in Answers : sessionId # NoSession
  BY DEF ChatInv, ChatIsOneSession
<1> HIDE DEF r
<1>5. QED BY <1>1, <1>2, <1>3, <1>4, ChatQuiet

LEMMA ChatStore ==
  ASSUME PageInv, PageInv', ChatInv, NEW a \in Asks, Store(a)
  PROVE  ChatInv'
<1> DEFINE t == asks[a].session  n == Len(stored[t])
<1>1. asks \in [Asks -> AskRow] /\ asks[a].stage = "opened" /\ stored \in [Sessions -> Seq(Asks)]
  BY DEF PageInv, TypeOK, AskRow, Store
<1>2. t \in Sessions
  BY <1>1 DEF ChatInv, RowsAgree
<1>3. /\ stored' = [stored EXCEPT ![t] = Append(stored[t], a)]
      /\ asks' = [asks EXCEPT ![a].stage = "stored"]
      /\ UNCHANGED <<messages, sessionId, loads, crossed, sending, live>>
  BY DEF Store, page
<1>4. asks'[a].stage = "stored" /\ asks'[a].session = t /\ \A b \in Asks : b # a => asks'[b] = asks[b]
  BY <1>1, <1>3 DEF AskRow
<1>5. /\ \A s \in Sessions : s # t => stored'[s] = stored[s]
      /\ n \in Nat /\ DOMAIN stored[t] = 1 .. n
      /\ stored'[t] \in Seq(Asks) /\ Len(stored'[t]) = n + 1 /\ DOMAIN stored'[t] = 1 .. n + 1
      /\ stored'[t][n + 1] = a /\ \A p \in 1 .. n : stored'[t][p] = stored[t][p]
  BY <1>1, <1>2, <1>3
<1>6. \A s \in Sessions : /\ DOMAIN stored[s] \subseteq DOMAIN stored'[s]
                          /\ \A p \in DOMAIN stored[s] : stored'[s][p] = stored[s][p]
                          /\ \A p \in DOMAIN stored'[s] : p \in DOMAIN stored[s] \/ (s = t /\ p = n + 1)
  <2> SUFFICES ASSUME NEW s \in Sessions
               PROVE  /\ DOMAIN stored[s] \subseteq DOMAIN stored'[s]
                      /\ \A p \in DOMAIN stored[s] : stored'[s][p] = stored[s][p]
                      /\ \A p \in DOMAIN stored'[s] : p \in DOMAIN stored[s] \/ (s = t /\ p = n + 1)
    OBVIOUS
  <2>1. CASE s = t
    BY <1>5, <2>1
  <2>2. CASE s # t
    BY <1>5, <2>2
  <2>3. QED BY <2>1, <2>2
\* The question has no row yet.
<1>7. \A s \in Sessions : \A p \in DOMAIN stored[s] : stored[s][p] \in Asks /\ stored[s][p] # a
  BY <1>1 DEF ChatInv, RowsAgree
<1>8. RowsAgree'
  <2>1. ASSUME NEW s \in Sessions, NEW p \in DOMAIN stored'[s]
        PROVE  asks'[stored'[s][p]].stage \in {"stored", "over"}
    <3>1. CASE p \in DOMAIN stored[s]
      BY <1>4, <1>6, <1>7, <3>1 DEF ChatInv, RowsAgree
    <3>2. CASE s = t /\ p = n + 1
      BY <1>4, <1>5, <3>2
    <3>3. QED BY <1>6, <3>1, <3>2
  <2>2. ASSUME NEW s \in Sessions, NEW p \in DOMAIN stored'[s], NEW q \in DOMAIN stored'[s],
               stored'[s][p] = stored'[s][q]
        PROVE  p = q
    <3>1. CASE p \in DOMAIN stored[s] /\ q \in DOMAIN stored[s]
      BY <1>6, <2>2, <3>1 DEF ChatInv, RowsAgree
    <3>2. CASE p \notin DOMAIN stored[s] \/ q \notin DOMAIN stored[s]
      BY <1>5, <1>6, <1>7, <2>2, <3>2
    <3>3. QED BY <3>1, <3>2
  <2>3. \A b \in Asks : asks'[b].stage \in {"opened", "stored"} => asks'[b].session \in Sessions
    BY <1>2, <1>4 DEF ChatInv, RowsAgree
  <2>4. ASSUME NEW b \in Asks, asks'[b].stage = "stored"
        PROVE  \E p \in DOMAIN stored'[asks'[b].session] : stored'[asks'[b].session][p] = b
    <3>1. CASE b = a
      BY <1>4, <1>5, <3>1
    <3>2. CASE b # a
      <4>1. /\ asks'[b] = asks[b] /\ asks[b].session \in Sessions
            /\ \E p \in DOMAIN stored[asks[b].session] : stored[asks[b].session][p] = b
        BY <1>4, <2>4, <3>2 DEF ChatInv, RowsAgree
      <4>2. QED BY <1>6, <4>1
    <3>3. QED BY <3>1, <3>2
  <2>5. QED BY <2>1, <2>2, <2>3, <2>4 DEF RowsAgree
<1>9. LoadsAgree'
  <2>1. \A s \in Sessions : Len(stored[s]) <= Len(stored'[s])
    BY <1>1, <1>5
  <2>2. QED BY <1>3, <1>6, <2>1, LoadsKept DEF ChatInv, PageInv
<1>10. Answers' = Answers
  BY <1>3 DEF Answers
<1>11. ASSUME ~crossed, NEW i \in Answers
       PROVE  /\ sessionId \in Sessions
              /\ \A p \in DOMAIN stored'[sessionId] :
                   IsRow(i, p)' <=> p \in DOMAIN stored[sessionId] /\ IsRow(i, p)
  <2>1. sessionId \in Sessions /\ \E p \in DOMAIN stored[sessionId] : stored[sessionId][p] = messages[i].ask
    BY <1>11 DEF ChatInv, ChatIsOneSession, IsRow, PageInv, TypeOK
  <2>2. messages[i].ask # a
    BY <1>7, <2>1
  <2>3. ASSUME NEW p \in DOMAIN stored'[sessionId]
        PROVE  stored'[sessionId][p] = messages[i].ask <=> p \in DOMAIN stored[sessionId] /\ IsRow(i, p)
    BY <1>5, <1>6, <2>1, <2>2 DEF IsRow
  <2>4. QED BY <1>3, <2>1, <2>3 DEF IsRow
<1>12. AnswersFollowQuestions'
  BY <1>3 DEF ChatInv, AnswersFollowQuestions, User
<1>13. ChatIsOneSession'
  <2> SUFFICES ASSUME ~crossed, NEW i \in Answers
               PROVE  /\ sessionId # NoSession
                      /\ \E p \in DOMAIN stored'[sessionId] : IsRow(i, p)'
                      /\ \A j \in Answers : \A p, q \in DOMAIN stored'[sessionId] :
                           IsRow(i, p)' /\ IsRow(j, q)' => (i < j <=> p < q)
    BY <1>3, <1>10 DEF ChatIsOneSession
  <2>1. /\ sessionId # NoSession
        /\ \E p \in DOMAIN stored[sessionId] : IsRow(i, p)
        /\ \A j \in Answers : \A p, q \in DOMAIN stored[sessionId] :
             IsRow(i, p) /\ IsRow(j, q) => (i < j <=> p < q)
    BY DEF ChatInv, ChatIsOneSession
  <2>2. QED BY <1>6, <1>11, <2>1
<1>14. LiveComesNext'
  <2> SUFFICES ASSUME ~crossed, sending PROVE LiveComesNext'
    BY <1>3 DEF LiveComesNext
  <2>1. live \in Asks /\ messages # <<>> /\ messages[Len(messages)] = User(live)
    BY Zenon DEF ChatInv, LiveComesNext, PageInv, TypeOK, LiveAgrees
  <2>2. ASSUME NEW i \in Answers PROVE asks'[live].session = sessionId
    BY <1>4, <2>1 DEF ChatInv, LiveComesNext
  <2>3. ASSUME NEW i \in Answers, NEW p \in DOMAIN stored'[sessionId], NEW q \in DOMAIN stored'[sessionId],
               IsRow(i, p)', stored'[sessionId][q] = live
        PROVE  p < q
    <3>1. sessionId \in Sessions /\ p \in DOMAIN stored[sessionId] /\ IsRow(i, p)
      BY <1>11, <2>3
    <3>2. CASE q \in DOMAIN stored[sessionId]
      BY <1>6, <2>3, <3>1, <3>2 DEF ChatInv, LiveComesNext
    <3>3. CASE sessionId = t /\ q = n + 1
      BY <1>5, <3>1, <3>3
    <3>4. QED BY <1>6, <3>1, <3>2, <3>3
  <2>4. messages' # <<>> /\ messages'[Len(messages')] = User(live')
    BY <1>3, <2>1 DEF User
  <2>5. QED BY <1>3, <1>10, <2>2, <2>3, <2>4 DEF LiveComesNext
<1>15. QED BY <1>8, <1>9, <1>12, <1>13, <1>14 DEF ChatInv

\* The user's other clicks open the input.
LEMMA ChatCancel == ASSUME PageInv, PageInv', ChatInv, Cancel PROVE ChatInv'
<1>1. CancelInFlight /\ UNCHANGED <<sessionId, messages, loads, stored, crossed>>
  BY DEF Cancel
<1>2. RowsAgree' /\ ~sending'
  BY <1>1, CancelKeepsRows DEF ChatInv
<1>3. LoadsAgree'
  BY <1>1, LoadsKept DEF ChatInv, PageInv, TypeOK
<1>4. QED BY <1>1, <1>2, <1>3, ShownKept DEF ChatInv, LiveComesNext

LEMMA ChatEmptied ==
  ASSUME PageInv, PageInv', ChatInv, ClearSession \/ Remount
  PROVE  ChatInv'
<1>1. CancelInFlight /\ messages' = <<>> /\ UNCHANGED stored
  BY DEF ClearSession, Remount
<1>2. RowsAgree' /\ ~sending'
  BY <1>1, CancelKeepsRows DEF ChatInv
<1>3. \A l \in Loads : loads'[l].stage = "read" => loads'[l] = loads[l]
  <2>1. CASE ClearSession
    BY <2>1 DEF ClearSession
  <2>2. CASE Remount
    BY <2>2 DEF Remount, PageInv, TypeOK
  <2>3. QED BY <2>1, <2>2
<1>4. LoadsAgree'
  BY <1>1, <1>3, LoadsKept DEF ChatInv, PageInv, TypeOK
<1>5. DOMAIN messages' = {}
  BY <1>1
<1>6. QED BY <1>2, <1>4, <1>5 DEF ChatInv, AnswersFollowQuestions, ChatIsOneSession, Answers, LiveComesNext

LEMMA ChatLoadSession ==
  ASSUME PageInv, PageInv', ChatInv, NEW l \in Loads, NEW s \in Sessions, LoadSession(l, s)
  PROVE  ChatInv'
<1>1. CancelInFlight /\ UNCHANGED <<sessionId, messages, stored, crossed>>
  BY DEF LoadSession
<1>2. RowsAgree' /\ ~sending'
  BY <1>1, CancelKeepsRows DEF ChatInv
<1>3. \A k \in Loads : loads'[k].stage = "read" => loads'[k] = loads[k]
  BY DEF LoadSession, PageInv, TypeOK
<1>4. LoadsAgree'
  BY <1>1, <1>3, LoadsKept DEF ChatInv, PageInv, TypeOK
<1>5. QED BY <1>1, <1>2, <1>4, ShownKept DEF ChatInv, LiveComesNext

\* A question and an answer for every row, in turn.
ChatOf(rows) ==
  [i \in 1 .. 2 * Len(rows) |->
     IF i % 2 = 1 THEN User(rows[(i + 1) \div 2]) ELSE Assistant(rows[i \div 2])]

\* An answer of a loaded session stands at an even place, under its question.
LEMMA LoadedAt ==
  ASSUME NEW rows \in Seq(Asks), NEW chat, chat = ChatOf(rows),
         NEW i \in DOMAIN chat, chat[i].role = "assistant"
  PROVE  \E k \in DOMAIN rows : /\ i = 2 * k /\ chat[i].ask = rows[k]
                                 /\ chat[i - 1] = User(rows[k])
<1>1. Len(rows) \in Nat /\ 2 * Len(rows) \in Nat /\ i \in 1 .. 2 * Len(rows) /\ DOMAIN rows = 1 .. Len(rows)
  BY DEF ChatOf
<1>2. i % 2 # 1
  <2>1. i % 2 = 1 => chat[i] = User(rows[(i + 1) \div 2])
    BY <1>1 DEF ChatOf
  <2>2. QED BY <2>1 DEF User
<1>3. chat[i] = Assistant(rows[i \div 2])
  BY <1>1, <1>2 DEF ChatOf
<1>4. PICK k \in Nat : i = 2 * k /\ i \div 2 = k /\ k \in 1 .. Len(rows)
  <2>1. i = 2 * (i \div 2) /\ i \div 2 \in 1 .. Len(rows)
    BY <1>1, <1>2
  <2>2. QED BY <2>1
<1>5. i - 1 \in 1 .. 2 * Len(rows) /\ (i - 1) % 2 = 1 /\ ((i - 1) + 1) \div 2 = k
  BY <1>1, <1>4
<1>6. chat[i - 1] = User(rows[k])
  <2>1. chat[i - 1] = User(rows[((i - 1) + 1) \div 2])
    BY <1>5 DEF ChatOf
  <2>2. QED BY <1>5, <2>1
<1>7. QED BY <1>1, <1>3, <1>4, <1>6 DEF Assistant

LEMMA ChatLoaded ==
  ASSUME PageInv, PageInv', ChatInv, NEW l \in Loads, Loaded(l)
  PROVE  ChatInv'
<1> DEFINE rows == loads[l].rows  s == loads[l].session
<1>1. /\ rows \in Seq(Asks) /\ loads[l].stage = "read" /\ s \in Sessions /\ stored[s] \in Seq(Asks)
      /\ Len(rows) <= Len(stored[s]) /\ \A p \in DOMAIN rows : rows[p] = stored[s][p]
  <2>1. loads[l].stage = "read"
    BY DEF Loaded
  <2>2. s \in Sessions
    BY <2>1 DEF ChatInv, LoadsAgree
  <2>3. QED BY <2>1, <2>2 DEF ChatInv, LoadsAgree, PageInv, TypeOK
<1>2. /\ messages' = ChatOf(rows)
      /\ sessionId' = s /\ UNCHANGED <<seq, live, sending, asks, stored>>
  BY DEF Loaded, ChatOf
<1>3. ~crossed' => ~sending'
  <2>1. crossed' = sending
    BY DEF Loaded
  <2>2. sending' = sending
    BY <1>2
  <2>3. QED BY <2>1, <2>2, Zenon
<1>4. \A k \in Loads : loads'[k].stage = "read" => loads'[k] = loads[k]
  BY DEF Loaded, PageInv, TypeOK
<1>5. RowsAgree' /\ LoadsAgree'
  <2>1. LoadsAgree'
    BY <1>2, <1>4, LoadsKept DEF ChatInv, PageInv, TypeOK
  <2>2. RowsAgree'
    BY <1>2, RowsKept DEF ChatInv, RowsAgree
  <2>3. QED BY <2>1, <2>2
<1>6. ASSUME NEW i \in Answers'
      PROVE  \E k \in DOMAIN rows : /\ i = 2 * k /\ messages'[i].ask = rows[k]
                                     /\ messages'[i - 1] = User(rows[k])
  <2>1. i \in DOMAIN messages' /\ messages'[i].role = "assistant"
    BY DEF Answers
  <2>2. rows \in Seq(Asks) /\ messages' = ChatOf(rows)
    BY <1>1, <1>2
  <2> HIDE DEF rows, s
  <2>3. ASSUME NEW chat, chat = ChatOf(rows), i \in DOMAIN chat, chat[i].role = "assistant"
        PROVE  \E k \in DOMAIN rows : /\ i = 2 * k /\ chat[i].ask = rows[k]
                                       /\ chat[i - 1] = User(rows[k])
    BY <2>2, <2>3, LoadedAt, Zenon
  <2>4. QED BY <2>1, <2>2, <2>3, Zenon
<1>7. AnswersFollowQuestions'
  <2>1. ASSUME NEW i \in Answers' PROVE i > 1 /\ messages'[i - 1] = User(messages'[i].ask)
    <3>1. PICK k \in DOMAIN rows : i = 2 * k /\ messages'[i].ask = rows[k] /\ messages'[i - 1] = User(rows[k])
      BY <1>6
    <3>2. k \in Nat /\ k >= 1
      BY <1>1
    <3>3. QED BY <3>1, <3>2
  <2>2. QED BY <2>1 DEF AnswersFollowQuestions, Answers
<1>8. ASSUME NEW i \in Answers'
      PROVE  \E k \in DOMAIN stored[s] : i = 2 * k /\ \A p \in DOMAIN stored[s] : IsRow(i, p)' <=> p = k
  <2>1. PICK k \in DOMAIN rows : i = 2 * k /\ messages'[i].ask = rows[k]
    BY <1>6
  <2>2. k \in DOMAIN stored[s] /\ rows[k] = stored[s][k]
    BY <1>1
  <2>3. \A p \in DOMAIN stored[s] : stored[s][p] = stored[s][k] <=> p = k
    BY <1>1, <2>2 DEF ChatInv, RowsAgree
  <2>4. QED BY <1>2, <2>1, <2>2, <2>3 DEF IsRow
<1>9. ChatIsOneSession'
  <2> SUFFICES ASSUME NEW i \in Answers'
               PROVE  /\ s # NoSession
                      /\ \E p \in DOMAIN stored[s] : IsRow(i, p)'
                      /\ \A j \in Answers' : \A p, q \in DOMAIN stored[s] :
                           IsRow(i, p)' /\ IsRow(j, q)' => (i < j <=> p < q)
    BY <1>2 DEF ChatIsOneSession
  <2>1. s # NoSession
    BY <1>1 DEF Sessions, Asks, NoSession
  <2>2. \E p \in DOMAIN stored[s] : IsRow(i, p)'
    BY <1>8
  <2>3. ASSUME NEW j \in Answers', NEW p \in DOMAIN stored[s], NEW q \in DOMAIN stored[s],
               IsRow(i, p)', IsRow(j, q)'
        PROVE  i < j <=> p < q
    <3>1. i = 2 * p /\ j = 2 * q
      BY <1>8, <2>3
    <3>2. p \in Nat /\ q \in Nat
      BY <1>1
    <3>3. QED BY <3>1, <3>2
  <2>4. QED BY <2>1, <2>2, <2>3
<1>10. QED BY <1>3, <1>5, <1>7, <1>9 DEF ChatInv, LiveComesNext

LEMMA ChatLoadFails ==
  ASSUME PageInv, PageInv', ChatInv, NEW l \in Loads, LoadFails(l)
  PROVE  ChatInv'
<1>1. UNCHANGED <<messages, sessionId, sending, live, asks, stored, crossed>>
  BY DEF LoadFails, page
<1>2. \A k \in Loads : loads'[k].stage = "read" => loads'[k] = loads[k]
  BY DEF LoadFails, PageInv, TypeOK
<1>3. LoadsAgree'
  BY <1>1, <1>2, LoadsKept DEF ChatInv, PageInv, TypeOK
<1>4. RowsAgree'
  BY <1>1, RowsKept DEF ChatInv, RowsAgree
<1>5. QED BY <1>1, <1>3, <1>4, ShownKept, LiveKept DEF ChatInv

LEMMA ChatReadSession ==
  ASSUME PageInv, PageInv', ChatInv, NEW l \in Loads, ReadSession(l)
  PROVE  ChatInv'
<1>1. UNCHANGED <<messages, sessionId, sending, live, asks, stored, crossed>>
  BY DEF ReadSession, page
<1>2. loads[l].session \in Sessions
  BY DEF ReadSession, PageInv, LoadsNamed
<1>3. /\ loads'[l].rows = stored[loads[l].session] /\ loads'[l].session = loads[l].session
      /\ \A k \in Loads : k # l => loads'[k] = loads[k]
  BY DEF ReadSession, PageInv, TypeOK
<1>4. stored[loads[l].session] \in Seq(Asks)
  BY <1>2 DEF PageInv, TypeOK
<1>5. LoadsAgree'
  <2> SUFFICES ASSUME NEW k \in Loads, loads'[k].stage = "read"
               PROVE  /\ loads'[k].session \in Sessions
                      /\ Len(loads'[k].rows) <= Len(stored[loads'[k].session])
                      /\ \A p \in DOMAIN loads'[k].rows : loads'[k].rows[p] = stored[loads'[k].session][p]
    BY <1>1 DEF LoadsAgree
  <2>1. CASE k = l
    BY <1>2, <1>3, <1>4, <2>1
  <2>2. CASE k # l
    BY <1>3, <2>2 DEF ChatInv, LoadsAgree
  <2>3. QED BY <2>1, <2>2
<1>6. RowsAgree'
  BY <1>1, RowsKept DEF ChatInv, RowsAgree
<1>7. QED BY <1>1, <1>5, <1>6, ShownKept, LiveKept DEF ChatInv

\* What the chat shows fits the rows of its session as long as no session was
\* loaded over a question under way: an invariant for any number of questions
\* and sessions, of both sides of the wire.
THEOREM ChatInvHolds == Spec => []ChatInv
<1>1. Init => ChatInv
  <2> SUFFICES ASSUME Init PROVE ChatInv
    OBVIOUS
  <2>1. \A s \in Sessions : DOMAIN stored[s] = {}
    BY DEF Init
  <2>2. DOMAIN messages = {} /\ \A a \in Asks : asks[a].stage = "new"
    BY DEF Init
  <2>3. \A l \in Loads : loads[l].stage = "new"
    BY DEF Init
  <2>4. ~sending
    BY Zenon DEF Init
  <2>5. QED
    BY <2>1, <2>2, <2>3, <2>4
    DEF ChatInv, RowsAgree, LoadsAgree, LiveComesNext, AnswersFollowQuestions, ChatIsOneSession, Answers
<1>2. PageInv /\ PageInv' /\ ChatInv /\ [Next]_vars => ChatInv'
  <2> SUFFICES ASSUME PageInv, PageInv', ChatInv, [Next]_vars PROVE ChatInv'
    OBVIOUS
  <2>1. ASSUME NEW a \in Asks,
               SendMessage(a) \/ ShowAnswer(a) \/ ShowError(a) \/ OpenSession(a) \/ Store(a) \/ Forget(a)
        PROVE  ChatInv'
    BY <2>1, ChatSendMessage, ChatShowAnswer, ChatShowError, ChatOpenSession, ChatStore, ChatForget
  <2>2. ASSUME NEW l \in Loads,
               (\E s \in Sessions : LoadSession(l, s)) \/ Loaded(l) \/ LoadFails(l) \/ ReadSession(l)
        PROVE  ChatInv'
    BY <2>2, ChatLoadSession, ChatLoaded, ChatLoadFails, ChatReadSession
  <2>3. CASE Cancel \/ ClearSession \/ Remount
    BY <2>3, ChatCancel, ChatEmptied
  <2>4. CASE UNCHANGED vars
    <3>1. UNCHANGED <<messages, sessionId, sending, live, asks, loads, stored, crossed>>
      BY <2>4 DEF vars, page
    <3>2. RowsAgree' /\ LoadsAgree'
      BY <3>1 DEF ChatInv, RowsAgree, LoadsAgree
    <3>3. QED BY <3>1, <3>2, ShownKept, LiveKept DEF ChatInv
  <2>5. QED BY <2>1, <2>2, <2>3, <2>4 DEF Next
<1>3. QED BY <1>1, <1>2, PageInvHolds, PTL DEF Spec

\* As long as no session arrives while a question is under way, every answer in
\* the chat of ChatPage.jsx stands under its own question.
THEOREM AnswersStandUnderQuestions == Spec => []AnswersFollowQuestions
<1>1. ChatInv => AnswersFollowQuestions
  BY DEF ChatInv
<1>2. QED BY <1>1, ChatInvHolds, PTL

\* Under the same condition the answers shown are rows of the session the next
\* question is asked in, each once and in the order they would be loaded again.
THEOREM ChatShowsOneSession == Spec => []ChatIsOneSession
<1>1. ChatInv => ChatIsOneSession
  BY DEF ChatInv
<1>2. QED BY <1>1, ChatInvHolds, PTL
=============================================================================
