----------------------------- MODULE LiveCorpus -----------------------------
(***************************************************************************)
(* The list of papers on the screen (useResearchCorpus.js), kept up to     *)
(* date by events of the backend (events.gateway.ts): a change of a paper  *)
(* is written and then announced to the room of its collection; the page   *)
(* hears it, waits a little, and loads everything again.                   *)
(*                                                                         *)
(* Of the papers of a collection only their version is kept.  lost is      *)
(* history: the collections of which a change will not be noticed.         *)
(***************************************************************************)
EXTENDS Integers, SequencesExt

CONSTANTS
  Collections,
  MaxChanges,    \* bound: changes of a collection's papers
  MaxRefreshes,  \* bound: loads asked for by the user
  MaxDrops,      \* bound: lost connections
  MaxFaults,     \* bound: list calls that fail
  Unread, Nothing

ASSUME CollectionsAssumption == IsFiniteSet(Collections)
ASSUME BoundsAssumption == {MaxChanges, MaxRefreshes, MaxDrops, MaxFaults} \subseteq Nat
ASSUME NothingAssumption == Unread \notin Nat /\ Nothing \notin [Collections -> Nat]

VARIABLES
  stored,     \* [collection -> version]
  written,    \* changes written and not yet announced
  room,       \* the rooms the page's socket is in
  checking,   \* joins that await their access check
  up, down,   \* on the wire: requests to join and leave, number of events
  connected,
  loads,      \* of each load under way what it has read
  shown,      \* what the list shows, Nothing before the first load and after an error
  timer,      \* a refresh is due
  lost,
  refreshes, drops, faults

wire == <<room, checking, up, down, connected>>
vars == <<stored, written, wire, loads, shown, timer, lost, refreshes, drops, faults>>

Each(x) == [c \in Collections |-> x]

Init ==
  /\ stored = Each(0) /\ written = Each(0)
  /\ room = {} /\ checking = Each(0) /\ up = <<>> /\ down = 0 /\ connected \in BOOLEAN
  /\ loads = <<Each(Unread)>> /\ shown = Nothing /\ timer = FALSE /\ lost = {}
  /\ refreshes = 0 /\ drops = 0 /\ faults = 0

-----------------------------------------------------------------------------
(* The backend *)

Change(c) ==
  /\ stored[c] < MaxChanges
  /\ stored' = [stored EXCEPT ![c] = @ + 1] /\ written' = [written EXCEPT ![c] = @ + 1]
  /\ UNCHANGED <<wire, loads, shown, timer, lost, refreshes, drops, faults>>

\* emitStatusChanged and the like, after the await of the write.
Emit(c) ==
  /\ written[c] > 0
  /\ written' = [written EXCEPT ![c] = @ - 1]
  /\ IF c \in room THEN down' = down + 1 /\ UNCHANGED lost ELSE lost' = lost \cup {c} /\ UNCHANGED down
  /\ UNCHANGED <<stored, room, checking, up, connected, loads, shown, timer, refreshes, drops, faults>>

\* handleLeaveCollection leaves at once, handleJoinCollection awaits the check.
Handle ==
  /\ up # <<>> /\ up' = Tail(up)
  /\ LET c == Head(up).of
     IN  IF Head(up).do = "leave"
         THEN room' = room \ {c} /\ UNCHANGED checking
         ELSE checking' = [checking EXCEPT ![c] = @ + 1] /\ UNCHANGED room
  /\ UNCHANGED <<stored, written, down, connected, loads, shown, timer, lost, refreshes, drops, faults>>

Join(c) ==
  /\ checking[c] > 0
  /\ checking' = [checking EXCEPT ![c] = @ - 1] /\ room' = room \cup {c}
  /\ UNCHANGED <<stored, written, up, down, connected, loads, shown, timer, lost, refreshes, drops, faults>>

-----------------------------------------------------------------------------
(* The page *)

Asking(what) == SetToSeq({[do |-> what, of |-> c] : c \in Collections})

Subscribed == connected /\ shown # Nothing

\* The effect runs anew whenever a load sets the data.
ResubscribeSwapped == (IF connected THEN Asking("join") ELSE <<>>) \o (IF Subscribed THEN Asking("leave") ELSE <<>>)
Resubscribe == (IF Subscribed THEN Asking("leave") ELSE <<>>) \o (IF connected THEN Asking("join") ELSE <<>>)

\* A load asks for the papers of one collection after another, in no order.
Read(i, c) ==
  /\ loads[i][c] = Unread
  /\ loads' = [loads EXCEPT ![i][c] = stored[c]]
  /\ UNCHANGED <<stored, written, wire, shown, timer, lost, refreshes, drops, faults>>

\* What it has read is shown whatever was shown before; the cleanup of the
\* effect clears the timer.
Arrive(i) ==
  /\ \A c \in Collections : loads[i][c] # Unread
  /\ loads' = RemoveAt(loads, i)
  /\ shown' = loads[i]
  /\ up' = up \o Resubscribe
  /\ timer' = FALSE
  /\ LET dropped   == IF timer THEN Collections ELSE {}
         overtaken == IF shown = Nothing THEN {} ELSE {c \in Collections : loads[i][c] < shown[c]}
     IN  lost' = {c \in lost \cup dropped \cup overtaken : loads[i][c] # stored[c]}
  /\ UNCHANGED <<stored, written, room, checking, down, connected, refreshes, drops, faults>>

\* An error empties the list, and with it the rooms.
LoadFails(i) ==
  /\ faults < MaxFaults /\ faults' = faults + 1
  /\ loads' = RemoveAt(loads, i)
  /\ shown' = Nothing
  /\ up' = up \o (IF Subscribed THEN Asking("leave") ELSE <<>>)
  /\ timer' = FALSE
  /\ lost' = Collections
  /\ UNCHANGED <<stored, written, room, checking, down, connected, refreshes, drops>>

\* scheduleRefresh, if its handlers are on.
Hear ==
  /\ down > 0 /\ down' = down - 1
  /\ IF Subscribed THEN timer' = TRUE /\ UNCHANGED lost ELSE lost' = Collections /\ UNCHANGED timer
  /\ UNCHANGED <<stored, written, room, checking, up, connected, loads, shown, refreshes, drops, faults>>

TickUnlessLoading ==
  /\ timer /\ timer' = FALSE
  /\ loads' = IF loads = <<>> THEN <<Each(Unread)>> ELSE loads
  /\ UNCHANGED <<stored, written, wire, shown, lost, refreshes, drops, faults>>
Tick ==
  /\ timer /\ timer' = FALSE
  /\ loads' = Append(loads, Each(Unread))
  /\ UNCHANGED <<stored, written, wire, shown, lost, refreshes, drops, faults>>

\* After an upload, a retry or a delete.
Refresh ==
  /\ refreshes < MaxRefreshes /\ refreshes' = refreshes + 1
  /\ loads' = Append(loads, Each(Unread))
  /\ UNCHANGED <<stored, written, wire, shown, timer, lost, drops, faults>>

\* What is on the wire is gone, and the server forgets the rooms of the socket.
Disconnect ==
  /\ connected /\ drops < MaxDrops /\ drops' = drops + 1
  /\ connected' = FALSE
  /\ room' = {} /\ checking' = Each(0) /\ up' = <<>> /\ down' = 0
  /\ timer' = FALSE
  /\ lost' = IF timer \/ down > 0 THEN Collections ELSE lost
  /\ UNCHANGED <<stored, written, loads, shown, refreshes, faults>>

\* The rooms are joined again; nothing is loaded.
Connect ==
  /\ ~connected
  /\ connected' = TRUE
  /\ up' = IF shown = Nothing THEN up ELSE up \o Asking("join")
  /\ UNCHANGED <<stored, written, room, checking, down, loads, shown, timer, lost, refreshes, drops, faults>>

Backend == Handle \/ \E c \in Collections : Change(c) \/ Emit(c) \/ Join(c)
Loading == \E i \in DOMAIN loads : Arrive(i) \/ LoadFails(i) \/ \E c \in Collections : Read(i, c)
Next == Backend \/ Loading \/ Hear \/ Tick \/ Refresh \/ Disconnect \/ Connect

Spec == Init /\ [][Next]_vars

-----------------------------------------------------------------------------
AtRest ==
  /\ loads = <<>> /\ ~timer
  /\ up = <<>> /\ down = 0 /\ checking = Each(0) /\ written = Each(0)

\* Once everything has settled the list shows what is stored, however loads
\* overlap, events come in bursts and rooms are left and joined: but for a
\* collection of which an event was emitted while the page was out of its room,
\* a refresh that was due was cleared, or an older load arrived last.
\* useResearchCorpus: load, scheduleRefresh and the cleanup of its effect.
StaleHasCause ==
  AtRest /\ shown # Nothing => \A c \in Collections : shown[c] = stored[c] \/ c \in lost

\* Once everything has settled a page that shows a list is in all its rooms,
\* however often it left and joined them, and however long the access checks
\* took.  useResearchCorpus: the effect; handleJoinCollection.
InItsRooms ==
  AtRest /\ Subscribed => room = Collections
=============================================================================
