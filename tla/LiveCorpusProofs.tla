-------------------------- MODULE LiveCorpusProofs --------------------------
(***************************************************************************)
(* For any number of collections, changes, loads, lost connections and     *)
(* failing calls: the list of papers is stale at rest only where LiveCorpus*)
(* records a cause, and a page at rest that shows a list is in all its     *)
(* rooms.                                                                  *)
(***************************************************************************)
EXTENDS LiveCorpus, TLAPS, FiniteSetTheorems, SequenceTheorems

Request == [do : {"join", "leave"}, of : Collections]
JoinOf(c)  == [do |-> "join", of |-> c]
LeaveOf(c) == [do |-> "leave", of |-> c]

Load == [Collections -> Nat \cup {Unread}]

Typed ==
  /\ stored \in [Collections -> Nat] /\ written \in [Collections -> Nat]
  /\ room \subseteq Collections /\ checking \in [Collections -> Nat]
  /\ up \in Seq(Request) /\ down \in Nat
  /\ loads \in Seq(Load)
  /\ shown \in [Collections -> Nat] \cup {Nothing}

\* No load has read what is not yet stored.
ReadsAgree ==
  \A i \in DOMAIN loads : \A c \in Collections : loads[i][c] # Unread => loads[i][c] <= stored[c]

\* The last request about c is to join it.
LastIsJoin(requests, c) ==
  \E k \in DOMAIN requests :
    /\ requests[k] = JoinOf(c)
    /\ \A m \in DOMAIN requests : m > k => requests[m] # LeaveOf(c)

\* The page will be in the room of c once its requests are handled: the last one
\* about c is a join, or none is a leave and it is in the room or being let in.
WillBeIn(c) ==
  \/ LastIsJoin(up, c)
  \/ /\ \A m \in DOMAIN up : up[m] # LeaveOf(c)
     /\ c \in room \/ checking[c] > 0

RoomsInv == Subscribed => \A c \in Collections : WillBeIn(c)

\* Something is under way after which the list may show what is stored of c: an
\* event, a refresh that is due, or a load that reads it or has read it.
Fresh(c)   == \E i \in DOMAIN loads : loads[i][c] \in {Unread, stored[c]}
Pending(c) == written[c] > 0 \/ down > 0 \/ timer \/ Fresh(c)

\* What the list shows of c is current or will be made so, and so is what a load
\* has read, unless it is older than what is shown.
Followed(c) ==
  /\ shown # Nothing => shown[c] = stored[c] \/ Pending(c)
  /\ \A i \in DOMAIN loads :
       \/ loads[i][c] \in {Unread, stored[c]} \/ Pending(c)
       \/ shown # Nothing /\ loads[i][c] < shown[c]

ListInv == \A c \in Collections \ lost : Followed(c)

CorpusInv == Typed /\ ReadsAgree /\ RoomsInv /\ ListInv

-----------------------------------------------------------------------------
(* Sequences of requests and of loads *)

\* A function on the first numbers is a sequence.
LEMMA FunctionIsSeq ==
  ASSUME NEW T, NEW n \in Nat, NEW f \in [1 .. n -> T]
  PROVE  f \in Seq(T)
OBVIOUS

\* Asking lists one request for every collection.
LEMMA AskingAll ==
  ASSUME NEW what \in {"join", "leave"}
  PROVE  /\ Asking(what) \in Seq(Request)
         /\ \A c \in Collections : \E k \in DOMAIN Asking(what) : Asking(what)[k] = [do |-> what, of |-> c]
         /\ \A k \in DOMAIN Asking(what) : Asking(what)[k].do = what
<1> DEFINE S == {[do |-> what, of |-> c] : c \in Collections}
           f == [c \in Collections |-> [do |-> what, of |-> c]]
           n == Cardinality(S)
<1>1. IsFiniteSet(S)
  <2>1. f \in Surjection(Collections, S)
    BY DEF Surjection
  <2>2. QED BY <2>1, CollectionsAssumption, FS_Surjection
<1>2. n \in Nat /\ IsFiniteSet(1 .. n) /\ Cardinality(1 .. n) = n
  BY <1>1, FS_CardinalityType, FS_Interval
<1>3. \E g \in [1 .. n -> S] : IsInjective(g)
  <2>1. ExistsBijection(1 .. n, S)
    BY <1>1, <1>2, FS_SameCardinalityBij
  <2>2. QED BY <2>1 DEF ExistsBijection, Bijection, Injection
<1>4. Asking(what) \in [1 .. n -> S] /\ IsInjective(Asking(what))
  BY <1>3 DEF Asking, SetToSeq
<1>5. Asking(what) \in Surjection(1 .. n, S)
  <2>1. Asking(what) \in Injection(1 .. n, S)
    BY <1>4 DEF Injection
  <2>2. QED BY <1>1, <1>2, <2>1, FS_Injection
<1>6. S \subseteq Request
  BY DEF Request
<1>7. Asking(what) \in Seq(Request)
  <2>1. Asking(what) \in [1 .. n -> Request]
    BY <1>4, <1>6
  <2> HIDE DEF n
  <2>2. QED BY <1>2, <2>1, FunctionIsSeq
<1>8. \A c \in Collections : \E k \in DOMAIN Asking(what) : Asking(what)[k] = [do |-> what, of |-> c]
  BY <1>4, <1>5 DEF Surjection
<1>9. \A k \in DOMAIN Asking(what) : Asking(what)[k].do = what
  BY <1>4
<1>10. QED BY <1>7, <1>8, <1>9

\* Whatever is asked before, a join of everything makes the last request a join.
LEMMA JoinsLast ==
  ASSUME NEW x \in Seq(Request), NEW c \in Collections
  PROVE  x \o Asking("join") \in Seq(Request) /\ LastIsJoin(x \o Asking("join"), c)
<1> DEFINE y == Asking("join")
<1>1. y \in Seq(Request) /\ \A k \in DOMAIN y : y[k].do = "join"
  BY AskingAll
<1>2. PICK k \in DOMAIN y : y[k] = JoinOf(c)
  BY AskingAll DEF JoinOf
<1> HIDE DEF y
<1>3. /\ Len(x) + k \in DOMAIN (x \o y) /\ (x \o y)[Len(x) + k] = JoinOf(c)
      /\ Len(x) \in Nat /\ k \in 1 .. Len(y) /\ Len(y) \in Nat
      /\ DOMAIN (x \o y) = 1 .. Len(x) + Len(y)
  BY <1>1, <1>2
<1>4. ASSUME NEW m \in DOMAIN (x \o y), m > Len(x) + k PROVE (x \o y)[m] # LeaveOf(c)
  <2>1. m - Len(x) \in DOMAIN y /\ (x \o y)[m] = y[m - Len(x)]
    BY <1>1, <1>3, <1>4
  <2>2. (x \o y)[m].do = "join"
    BY <1>1, <2>1
  <2>3. QED BY <2>2 DEF LeaveOf
<1>5. LastIsJoin(x \o y, c)
  BY <1>3, <1>4 DEF LastIsJoin
<1>6. QED BY <1>1, <1>5 DEF y

LEMMA JoinStaysLast ==
  ASSUME NEW x \in Seq(Request), NEW y \in Seq(Request), NEW c \in Collections, LastIsJoin(y, c)
  PROVE  LastIsJoin(x \o y, c)
<1>1. PICK k \in DOMAIN y : y[k] = JoinOf(c) /\ \A m \in DOMAIN y : m > k => y[m] # LeaveOf(c)
  BY DEF LastIsJoin
<1>2. /\ Len(x) + k \in DOMAIN (x \o y) /\ (x \o y)[Len(x) + k] = JoinOf(c)
      /\ Len(x) \in Nat /\ k \in 1 .. Len(y) /\ Len(y) \in Nat
      /\ DOMAIN (x \o y) = 1 .. Len(x) + Len(y)
  BY <1>1
<1>3. ASSUME NEW m \in DOMAIN (x \o y), m > Len(x) + k PROVE (x \o y)[m] # LeaveOf(c)
  <2>1. m - Len(x) \in DOMAIN y /\ (x \o y)[m] = y[m - Len(x)] /\ m - Len(x) > k
    BY <1>2, <1>3
  <2>2. QED BY <1>1, <2>1
<1>4. QED BY <1>2, <1>3 DEF LastIsJoin

\* The other elements are those that are left.
LEMMA RemoveAtIs ==
  ASSUME NEW T, NEW s \in Seq(T), NEW i \in DOMAIN s
  PROVE  /\ RemoveAt(s, i) \in Seq(T)
         /\ \A k \in DOMAIN RemoveAt(s, i) : \E j \in DOMAIN s : j # i /\ RemoveAt(s, i)[k] = s[j]
         /\ \A j \in DOMAIN s : j # i => \E k \in DOMAIN RemoveAt(s, i) : RemoveAt(s, i)[k] = s[j]
<1> DEFINE n == Len(s)  x == SubSeq(s, 1, i - 1)  y == SubSeq(s, i + 1, n)
<1>1. n \in Nat /\ i \in 1 .. n /\ DOMAIN s = 1 .. n
  OBVIOUS
<1>2. /\ x \in Seq(T) /\ Len(x) = i - 1 /\ \A k \in 1 .. i - 1 : x[k] = s[k]
      /\ y \in Seq(T) /\ Len(y) = n - i /\ \A k \in 1 .. n - i : y[k] = s[i + k]
  BY <1>1
<1>3. RemoveAt(s, i) = x \o y
  BY DEF RemoveAt
<1> HIDE DEF x, y, n
<1>4. /\ x \o y \in Seq(T) /\ DOMAIN (x \o y) = 1 .. n - 1
      /\ \A k \in 1 .. n - 1 : (x \o y)[k] = IF k < i THEN s[k] ELSE s[k + 1]
  <2>1. x \o y \in Seq(T) /\ Len(x \o y) = n - 1 /\ DOMAIN (x \o y) = 1 .. n - 1
    <3>1. x \o y \in Seq(T) /\ Len(x \o y) = Len(x) + Len(y)
      BY <1>2, ConcatProperties, Zenon
    <3>2. Len(x) + Len(y) = n - 1
      BY <1>1, <1>2
    <3>3. QED BY <3>1, <3>2
  <2>2. ASSUME NEW k \in 1 .. n - 1 PROVE (x \o y)[k] = IF k < i THEN s[k] ELSE s[k + 1]
    <3>1. CASE k < i
      <4>1. (x \o y)[k] = x[k]
        BY <1>1, <1>2, <3>1
      <4>2. QED BY <1>1, <1>2, <3>1, <4>1
    <3>2. CASE ~(k < i)
      <4>1. (x \o y)[k] = y[k - (i - 1)] /\ k - (i - 1) \in 1 .. n - i /\ i + (k - (i - 1)) = k + 1
        BY <1>1, <1>2, <3>2
      <4>2. QED BY <1>2, <3>2, <4>1
    <3>3. QED BY <3>1, <3>2
  <2>3. QED BY <2>1, <2>2
<1>5. ASSUME NEW k \in 1 .. n - 1
      PROVE  \E j \in DOMAIN s : j # i /\ (x \o y)[k] = s[j]
  <2>1. CASE k < i
    <3>1. k \in DOMAIN s /\ k # i
      BY <1>1, <2>1
    <3>2. QED BY <1>4, <2>1, <3>1
  <2>2. CASE ~(k < i)
    <3>1. k + 1 \in DOMAIN s /\ k + 1 # i
      BY <1>1, <2>2
    <3>2. QED BY <1>4, <2>2, <3>1
  <2>3. QED BY <2>1, <2>2
<1>6. ASSUME NEW j \in DOMAIN s, j # i
      PROVE  \E k \in 1 .. n - 1 : (x \o y)[k] = s[j]
  <2>1. CASE j < i
    <3>1. j \in 1 .. n - 1
      BY <1>1, <2>1
    <3>2. QED BY <1>4, <2>1, <3>1
  <2>2. CASE ~(j < i)
    <3>1. j - 1 \in 1 .. n - 1 /\ ~(j - 1 < i) /\ (j - 1) + 1 = j
      BY <1>1, <1>6, <2>2
    <3>2. QED BY <1>4, <3>1
  <2>3. QED BY <2>1, <2>2
<1>7. QED BY <1>3, <1>4, <1>5, <1>6

-----------------------------------------------------------------------------
(* Rooms *)

\* Steps that touch neither requests nor rooms.
LEMMA RoomsQuiet ==
  ASSUME RoomsInv, UNCHANGED <<room, checking, up, connected>>, shown' = shown
  PROVE  RoomsInv'
<1>1. ASSUME NEW c, WillBeIn(c) PROVE WillBeIn(c)'
  BY <1>1 DEF WillBeIn
<1>2. QED BY <1>1 DEF RoomsInv, Subscribed

LEMMA RoomsHandle == ASSUME Typed, RoomsInv, Handle PROVE RoomsInv'
<1>1. /\ up \in Seq(Request) /\ up # <<>> /\ up' = Tail(up) /\ UNCHANGED <<connected, shown>>
      /\ checking \in [Collections -> Nat]
  BY DEF Typed, Handle
<1>2. /\ Len(up) \in Nat /\ Len(up) > 0 /\ DOMAIN up = 1 .. Len(up) /\ Head(up) = up[1] /\ up[1] \in Request
      /\ DOMAIN up' = 1 .. Len(up) - 1 /\ \A k \in 1 .. Len(up) - 1 : up'[k] = up[k + 1]
  BY <1>1
<1>3. ASSUME NEW c \in Collections, WillBeIn(c) PROVE WillBeIn(c)'
  <2>1. ASSUME NEW k \in DOMAIN up, k > 1, up[k] = JoinOf(c),
               \A m \in DOMAIN up : m > k => up[m] # LeaveOf(c)
        PROVE  LastIsJoin(up', c)
    <3>1. k - 1 \in DOMAIN up' /\ up'[k - 1] = JoinOf(c)
      BY <1>2, <2>1
    <3>2. ASSUME NEW m \in DOMAIN up', m > k - 1 PROVE up'[m] # LeaveOf(c)
      <4>1. m + 1 \in DOMAIN up /\ m + 1 > k /\ up'[m] = up[m + 1]
        BY <1>2, <3>2
      <4>2. QED BY <2>1, <4>1
    <3>3. QED BY <3>1, <3>2 DEF LastIsJoin
  <2>2. CASE \A m \in DOMAIN up : m > 1 => up[m] # LeaveOf(c)
    <3>1. \A m \in DOMAIN up' : up'[m] # LeaveOf(c)
      BY <1>2, <2>2
    <3>2. CASE up[1] = JoinOf(c)
      <4>1. checking' = [checking EXCEPT ![c] = @ + 1]
        BY <1>2, <3>2 DEF Handle, JoinOf
      <4>2. checking'[c] > 0
        BY <1>1, <4>1
      <4>3. QED BY <3>1, <4>2 DEF WillBeIn
    <3>3. CASE up[1] # JoinOf(c)
      <4>1. CASE LastIsJoin(up, c)
        <5>1. PICK k \in DOMAIN up : up[k] = JoinOf(c) /\ \A m \in DOMAIN up : m > k => up[m] # LeaveOf(c)
          BY <4>1 DEF LastIsJoin
        <5>2. k > 1
          BY <1>2, <3>3, <5>1
        <5>3. QED BY <2>1, <5>1, <5>2 DEF WillBeIn
      <4>2. CASE ~LastIsJoin(up, c)
        <5>1. up[1] # LeaveOf(c) /\ (c \in room \/ checking[c] > 0)
          BY <1>2, <1>3, <4>2 DEF WillBeIn
        <5>2. up[1].of # c
          BY <1>2, <3>3, <5>1 DEF JoinOf, LeaveOf, Request
        <5>3. (c \in room => c \in room') /\ (checking[c] > 0 => checking'[c] > 0)
          BY <1>1, <1>2, <5>2 DEF Handle, Request
        <5>4. QED BY <3>1, <5>1, <5>3 DEF WillBeIn
      <4>3. QED BY <4>1, <4>2
    <3>4. QED BY <3>2, <3>3
  <2>3. CASE \E m \in DOMAIN up : m > 1 /\ up[m] = LeaveOf(c)
    <3>1. PICK k \in DOMAIN up : up[k] = JoinOf(c) /\ \A m \in DOMAIN up : m > k => up[m] # LeaveOf(c)
      BY <1>3, <2>3 DEF WillBeIn, LastIsJoin
    <3>2. PICK m \in DOMAIN up : m > 1 /\ up[m] = LeaveOf(c)
      BY <2>3
    <3>3. k > 1
      BY <1>2, <3>1, <3>2
    <3>4. QED BY <2>1, <3>1, <3>3 DEF WillBeIn
  <2>4. QED BY <2>2, <2>3
<1>4. QED BY <1>1, <1>3 DEF RoomsInv, Subscribed

LEMMA RoomsJoin == ASSUME NEW c \in Collections, Typed, RoomsInv, Join(c) PROVE RoomsInv'
<1>1. /\ checking \in [Collections -> Nat] /\ checking' = [checking EXCEPT ![c] = @ - 1] /\ room' = room \cup {c}
      /\ UNCHANGED <<up, connected, shown>>
  BY DEF Typed, Join
<1>2. ASSUME NEW d \in Collections, WillBeIn(d) PROVE WillBeIn(d)'
  <2>1. (d \in room \/ checking[d] > 0) => (d \in room' \/ checking'[d] > 0)
    BY <1>1
  <2>2. QED BY <1>1, <1>2, <2>1 DEF WillBeIn
<1>3. QED BY <1>1, <1>2 DEF RoomsInv, Subscribed

\* Subscribing anew asks to join everything last.
LEMMA ResubscribeJoins ==
  ASSUME Typed
  PROVE  /\ Resubscribe \in Seq(Request)
         /\ connected => \A c \in Collections : LastIsJoin(up \o Resubscribe, c)
<1>1. Asking("leave") \in Seq(Request) /\ Asking("join") \in Seq(Request) /\ up \in Seq(Request)
  BY AskingAll DEF Typed
<1>2. PICK x \in Seq(Request) : x = IF Subscribed THEN Asking("leave") ELSE <<>>
  <2>1. <<>> \in Seq(Request)
    OBVIOUS
  <2>2. CASE Subscribed
    BY <1>1, <2>2, Zenon
  <2>3. CASE ~Subscribed
    BY <2>1, <2>3, Zenon
  <2>4. QED BY <2>2, <2>3
<1>3. PICK y \in Seq(Request) : y = IF connected THEN Asking("join") ELSE <<>>
  <2>1. <<>> \in Seq(Request)
    OBVIOUS
  <2>2. CASE connected
    BY <1>1, <2>2, Zenon
  <2>3. CASE ~connected
    BY <2>1, <2>3, Zenon
  <2>4. QED BY <2>2, <2>3
<1>4. Resubscribe = x \o y
  BY <1>2, <1>3, Zenon DEF Resubscribe
<1>5. x \o y \in Seq(Request)
  BY <1>2, <1>3
<1>6. ASSUME connected, NEW c \in Collections PROVE LastIsJoin(up \o Resubscribe, c)
  <2>1. y = Asking("join")
    BY <1>3, <1>6, Zenon
  <2>2. LastIsJoin(x \o y, c)
    BY <1>2, <2>1, JoinsLast
  <2>3. QED BY <1>1, <1>4, <1>5, <2>2, JoinStaysLast
<1>7. QED BY <1>4, <1>5, <1>6

LEMMA RoomsArrive == ASSUME NEW i \in DOMAIN loads, Typed, RoomsInv, Arrive(i) PROVE RoomsInv'
<1>1. up' = up \o Resubscribe /\ connected' = connected
  BY DEF Arrive
<1>2. connected => \A c \in Collections : LastIsJoin(up', c)
  BY <1>1, ResubscribeJoins
<1>3. QED BY <1>1, <1>2, Zenon DEF RoomsInv, Subscribed, WillBeIn

LEMMA RoomsConnect == ASSUME Typed, RoomsInv, Connect PROVE RoomsInv'
<1>1. shown # Nothing => up' = up \o Asking("join")
  BY DEF Connect
<1>2. shown' = shown
  BY DEF Connect
<1>3. up \in Seq(Request)
  BY DEF Typed
<1>4. shown # Nothing => \A c \in Collections : LastIsJoin(up', c)
  BY <1>1, <1>3, JoinsLast
<1>5. QED BY <1>2, <1>4, Zenon DEF RoomsInv, Subscribed, WillBeIn

-----------------------------------------------------------------------------
(* The list *)

\* Steps that leave stored, loads and shown alone keep what follows.
LEMMA ListQuiet ==
  ASSUME Typed, ReadsAgree, ListInv, UNCHANGED <<stored, loads, shown>>, lost \subseteq lost',
         \A c \in Collections \ lost' : Pending(c) => Pending(c)'
  PROVE  ReadsAgree' /\ ListInv'
<1>1. ReadsAgree'
  BY DEF ReadsAgree
<1>2. ASSUME NEW c \in Collections \ lost' PROVE Followed(c)'
  <2>1. Followed(c) /\ (Pending(c) => Pending(c)')
    BY DEF ListInv
  <2>2. QED BY <2>1 DEF Followed
<1>3. QED BY <1>1, <1>2 DEF ListInv

\* A step after which something is under way for every collection it may touch.
LEMMA AllPending ==
  ASSUME NEW c \in Collections, Pending(c)'
  PROVE  Followed(c)'
BY DEF Followed

LEMMA ListChange ==
  ASSUME NEW c \in Collections, Typed, ReadsAgree, ListInv, Change(c)
  PROVE  ReadsAgree' /\ ListInv'
<1>1. /\ stored \in [Collections -> Nat] /\ written \in [Collections -> Nat]
      /\ stored' = [stored EXCEPT ![c] = @ + 1] /\ written' = [written EXCEPT ![c] = @ + 1]
      /\ UNCHANGED <<loads, shown, timer, lost, down>>
      /\ loads \in Seq(Load)
  BY DEF Typed, Change, wire
<1>2. ReadsAgree'
  <2> SUFFICES ASSUME NEW i \in DOMAIN loads, NEW d \in Collections, loads[i][d] # Unread
               PROVE  loads[i][d] <= stored'[d]
    BY <1>1 DEF ReadsAgree
  <2>1. loads[i][d] <= stored[d] /\ loads[i] \in Load
    BY <1>1 DEF ReadsAgree
  <2>2. loads[i][d] \in Nat /\ stored[d] \in Nat /\ stored'[d] \in Nat /\ stored[d] <= stored'[d]
    <3>1. loads[i][d] \in Nat
      BY <2>1 DEF Load
    <3>2. stored[d] \in Nat /\ stored'[d] = IF d = c THEN stored[d] + 1 ELSE stored[d]
      BY <1>1
    <3>3. QED BY <3>1, <3>2
  <2>3. QED BY <2>1, <2>2
<1>3. ASSUME NEW d \in Collections \ lost PROVE Followed(d)'
  <2>1. CASE d = c
    <3>1. written'[c] > 0
      BY <1>1
    <3>2. QED BY <2>1, <3>1, AllPending DEF Pending
  <2>2. CASE d # c
    <3>1. stored'[d] = stored[d] /\ written'[d] = written[d]
      BY <1>1, <2>2
    <3>2. Pending(d) => Pending(d)'
      BY <1>1, <3>1 DEF Pending, Fresh
    <3>3. Followed(d)
      BY DEF ListInv
    <3>4. QED BY <1>1, <3>1, <3>2, <3>3 DEF Followed
  <2>3. QED BY <2>1, <2>2
<1>4. QED BY <1>1, <1>2, <1>3 DEF ListInv

LEMMA ListRead ==
  ASSUME NEW i \in DOMAIN loads, NEW c \in Collections, Typed, ReadsAgree, ListInv, Read(i, c)
  PROVE  ReadsAgree' /\ ListInv'
<1>1. /\ loads[i][c] = Unread /\ loads' = [loads EXCEPT ![i][c] = stored[c]]
      /\ UNCHANGED <<stored, written, shown, timer, lost, down>>
      /\ loads \in Seq(Load) /\ stored \in [Collections -> Nat]
  BY DEF Typed, Read, wire
<1>2. /\ DOMAIN loads' = DOMAIN loads
      /\ \A j \in DOMAIN loads : loads[j] \in [Collections -> Nat \cup {Unread}]
      /\ \A j \in DOMAIN loads : j # i => loads'[j] = loads[j]
      /\ loads'[i][c] = stored[c]
      /\ \A d \in Collections : d # c => loads'[i][d] = loads[i][d]
  BY <1>1 DEF Load
<1>3. \A j \in DOMAIN loads : \A d \in Collections :
        loads'[j][d] = loads[j][d] \/ (d = c /\ loads'[j][d] = stored[d])
  BY <1>2
<1>4. ReadsAgree'
  <2> SUFFICES ASSUME NEW j \in DOMAIN loads, NEW d \in Collections, loads'[j][d] # Unread
               PROVE  loads'[j][d] <= stored[d]
    BY <1>1, <1>2 DEF ReadsAgree
  <2>1. stored[d] \in Nat
    BY <1>1
  <2>2. QED BY <1>3, <2>1 DEF ReadsAgree
<1>5. ASSUME NEW d \in Collections \ lost PROVE Followed(d)'
  <2>1. Followed(d)
    BY DEF ListInv
  <2>2. Fresh(d) => Fresh(d)'
    BY <1>1, <1>2, <1>3 DEF Fresh
  <2>3. Pending(d) => Pending(d)'
    BY <1>1, <2>2 DEF Pending
  <2>4. QED BY <1>1, <1>2, <1>3, <2>1, <2>3 DEF Followed
<1>6. QED BY <1>1, <1>4, <1>5 DEF ListInv

\* A load that has yet to read everything will show what is stored.
LEMMA ListAppend ==
  ASSUME Typed, ReadsAgree, ListInv, loads' = Append(loads, Each(Unread)),
         UNCHANGED <<stored, shown, lost>>
  PROVE  ReadsAgree' /\ ListInv'
<1>1. loads \in Seq(Load) /\ Each(Unread) \in Load /\ \A c \in Collections : Each(Unread)[c] = Unread
  BY DEF Typed, Each, Load
<1>2. /\ Len(loads) \in Nat /\ DOMAIN loads' = 1 .. Len(loads) + 1 /\ DOMAIN loads = 1 .. Len(loads)
      /\ loads'[Len(loads) + 1] = Each(Unread) /\ \A i \in DOMAIN loads : loads'[i] = loads[i]
  BY <1>1
<1>3. ReadsAgree'
  BY <1>1, <1>2 DEF ReadsAgree
<1>4. ASSUME NEW c \in Collections PROVE Pending(c)'
  BY <1>1, <1>2 DEF Pending, Fresh
<1>5. QED BY <1>3, <1>4, AllPending DEF ListInv

LEMMA ListArrive ==
  ASSUME NEW i \in DOMAIN loads, Typed, ReadsAgree, ListInv, Arrive(i)
  PROVE  ReadsAgree' /\ ListInv' /\ loads' \in Seq(Load) /\ shown' \in [Collections -> Nat]
<1> DEFINE v == loads[i]
<1>1. /\ \A c \in Collections : v[c] # Unread
      /\ loads' = RemoveAt(loads, i) /\ shown' = v /\ ~timer'
      /\ UNCHANGED <<stored, written, down>>
      /\ loads \in Seq(Load) /\ stored \in [Collections -> Nat]
      /\ shown \in [Collections -> Nat] \cup {Nothing}
  <2>1. ~timer'
    BY Zenon DEF Arrive
  <2>2. QED BY <2>1 DEF Arrive, Typed
<1>2. v \in Load
  BY <1>1
<1>3. v \in [Collections -> Nat]
  BY <1>1, <1>2 DEF Load
<1>4. v # Nothing
  BY <1>3, NothingAssumption
<1>5. \A c \in Collections :
        c \notin lost' => \/ v[c] = stored[c]
                          \/ c \notin lost /\ ~timer /\ (shown # Nothing => ~(v[c] < shown[c]))
  <2>1. ASSUME NEW c \in Collections, c \notin lost', v[c] # stored[c]
        PROVE  c \notin lost /\ ~timer /\ (shown # Nothing => ~(v[c] < shown[c]))
    <3>1. /\ c \notin lost
          /\ c \notin (IF timer THEN Collections ELSE {})
          /\ c \notin (IF shown = Nothing THEN {} ELSE {d \in Collections : v[d] < shown[d]})
      BY <2>1 DEF Arrive
    <3>2. QED BY <3>1
  <2>2. QED BY <2>1
<1>6. /\ loads' \in Seq(Load)
      /\ \A k \in DOMAIN loads' : \E j \in DOMAIN loads : j # i /\ loads'[k] = loads[j]
      /\ \A j \in DOMAIN loads : j # i => \E k \in DOMAIN loads' : loads'[k] = loads[j]
  BY <1>1, RemoveAtIs
<1>7. ReadsAgree'
  BY <1>1, <1>6 DEF ReadsAgree
<1>8. ASSUME NEW c \in Collections \ lost' PROVE Followed(c)'
  <2>1. CASE v[c] = stored[c]
    <3>1. ASSUME NEW k \in DOMAIN loads', loads'[k][c] \notin {Unread, stored[c]}
          PROVE  loads'[k][c] < stored[c]
      <4>1. PICK j \in DOMAIN loads : loads'[k] = loads[j]
        BY <1>6
      <4>2. loads[j][c] <= stored[c] /\ loads[j][c] # stored[c] /\ loads[j] \in Load
        BY <1>1, <3>1, <4>1 DEF ReadsAgree
      <4>3. loads[j][c] \in Nat /\ stored[c] \in Nat
        BY <1>1, <3>1, <4>1, <4>2 DEF Load
      <4>4. QED BY <4>1, <4>2, <4>3
    <3>2. QED BY <1>1, <1>4, <2>1, <3>1 DEF Followed
  <2>2. CASE v[c] # stored[c]
    <3>1. c \notin lost /\ ~timer /\ (shown # Nothing => ~(v[c] < shown[c]))
      BY <1>5, <2>2
    <3>2. Followed(c)
      BY <3>1 DEF ListInv
    <3>3. Pending(c)
      BY <1>1, <2>2, <3>1, <3>2 DEF Followed
    <3>4. Fresh(c) => Fresh(c)'
      <4>1. ASSUME NEW j \in DOMAIN loads, loads[j][c] \in {Unread, stored[c]} PROVE Fresh(c)'
        <5>1. j # i
          BY <1>1, <2>2, <4>1
        <5>2. QED BY <1>1, <1>6, <4>1, <5>1 DEF Fresh
      <4>2. QED BY <4>1 DEF Fresh
    <3>5. Pending(c)'
      BY <1>1, <3>1, <3>3, <3>4 DEF Pending
    <3>6. QED BY <3>5, AllPending
  <2>3. QED BY <2>1, <2>2
<1>9. QED BY <1>1, <1>3, <1>6, <1>7, <1>8 DEF ListInv


-----------------------------------------------------------------------------
(* Every action keeps the invariant *)

LEMMA TypedStep == ASSUME CorpusInv, Next PROVE Typed'
<1>1. Typed
  BY DEF CorpusInv
<1>2. ASSUME Handle PROVE Typed'
  <2>1. up \in Seq(Request) /\ up # <<>> /\ Head(up) \in Request /\ Tail(up) \in Seq(Request)
    BY <1>1, <1>2 DEF Typed, Handle
  <2>2. room' \subseteq Collections /\ checking' \in [Collections -> Nat]
    <3>1. PICK c : c = Head(up).of
      OBVIOUS
    <3>2. c \in Collections
      BY <2>1, <3>1 DEF Request
    <3>3. \/ room' = room \ {c} /\ UNCHANGED checking
          \/ checking' = [checking EXCEPT ![c] = @ + 1] /\ UNCHANGED room
      BY <1>2, <3>1 DEF Handle
    <3>4. room \subseteq Collections /\ checking \in [Collections -> Nat]
      BY <1>1 DEF Typed
    <3>5. [checking EXCEPT ![c] = @ + 1] \in [Collections -> Nat]
      BY <3>2, <3>4
    <3>6. QED BY <3>3, <3>4, <3>5, Zenon
  <2>3. QED BY <1>1, <1>2, <2>1, <2>2 DEF Typed, Handle
<1>3. ASSUME NEW c \in Collections, Change(c) PROVE Typed'
  BY <1>1, <1>3 DEF Typed, Change, wire
<1>4. ASSUME NEW c \in Collections, Emit(c) PROVE Typed'
  BY <1>1, <1>4 DEF Typed, Emit
<1>5. ASSUME NEW c \in Collections, Join(c) PROVE Typed'
  BY <1>1, <1>5 DEF Typed, Join
<1>6. ASSUME NEW i \in DOMAIN loads, Arrive(i) PROVE Typed'
  <2>1. loads' \in Seq(Load) /\ shown' \in [Collections -> Nat]
    BY <1>1, <1>6, ListArrive DEF CorpusInv
  <2>2. up' = up \o Resubscribe /\ UNCHANGED <<stored, written, room, checking, down>>
    BY <1>6 DEF Arrive
  <2>3. up' \in Seq(Request)
    BY <1>1, <2>2, ResubscribeJoins DEF Typed
  <2>4. QED BY <1>1, <2>1, <2>2, <2>3 DEF Typed
<1>7. ASSUME NEW i \in DOMAIN loads, LoadFails(i) PROVE Typed'
  <2>1. loads' \in Seq(Load)
    BY <1>1, <1>7, RemoveAtIs DEF Typed, LoadFails
  <2>2. up' \in Seq(Request)
    <3>1. Asking("leave") \in Seq(Request) /\ <<>> \in Seq(Request) /\ up \in Seq(Request)
      BY <1>1, AskingAll DEF Typed
    <3>2. PICK x \in Seq(Request) : up' = up \o x
      <4>1. up' = up \o (IF Subscribed THEN Asking("leave") ELSE <<>>)
        BY <1>7 DEF LoadFails
      <4>2. QED BY <3>1, <4>1, Zenon
    <3>3. QED BY <3>1, <3>2
  <2>3. QED BY <1>1, <1>7, <2>1, <2>2 DEF Typed, LoadFails
<1>8. ASSUME NEW i \in DOMAIN loads, NEW c \in Collections, Read(i, c) PROVE Typed'
  <2>1. loads' \in Seq(Load)
    <3>1. loads \in Seq(Load) /\ loads[i] \in Load /\ stored[c] \in Nat
      BY <1>1 DEF Typed
    <3>2. [loads[i] EXCEPT ![c] = stored[c]] \in Load
      BY <3>1 DEF Load
    <3>3. loads' = [loads EXCEPT ![i] = [loads[i] EXCEPT ![c] = stored[c]]]
      BY <1>8 DEF Read
    <3>4. QED BY <3>1, <3>2, <3>3
  <2>2. QED BY <1>1, <1>8, <2>1 DEF Typed, Read, wire
<1>9. ASSUME Tick \/ Refresh PROVE Typed'
  <2>1. loads' = Append(loads, Each(Unread)) /\ Each(Unread) \in Load
    BY <1>9 DEF Tick, Refresh, Each, Load
  <2>2. loads' \in Seq(Load)
    BY <1>1, <2>1 DEF Typed
  <2>3. UNCHANGED <<stored, written, wire, shown>>
    BY <1>9 DEF Tick, Refresh
  <2>4. QED BY <1>1, <2>2, <2>3 DEF Typed, wire
<1>10. ASSUME Hear PROVE Typed'
  BY <1>1, <1>10 DEF Typed, Hear
<1>11. ASSUME Disconnect PROVE Typed'
  BY <1>1, <1>11 DEF Typed, Disconnect, Each
<1>12. ASSUME Connect PROVE Typed'
  <2>1. Asking("join") \in Seq(Request)
    BY AskingAll
  <2>2. up' \in Seq(Request)
    BY <1>1, <1>12, <2>1 DEF Typed, Connect
  <2>3. QED BY <1>1, <1>12, <2>2 DEF Typed, Connect
<1>13. QED
  BY <1>2, <1>3, <1>4, <1>5, <1>6, <1>7, <1>8, <1>9, <1>10, <1>11, <1>12
  DEF Next, Backend, Loading

LEMMA RoomsStep == ASSUME CorpusInv, Next PROVE RoomsInv'
<1>1. Typed /\ RoomsInv
  BY DEF CorpusInv
<1>2. ASSUME \/ \E c \in Collections : Change(c) \/ Emit(c)
             \/ \E i \in DOMAIN loads : \E c \in Collections : Read(i, c)
             \/ Hear \/ Tick \/ Refresh
      PROVE  RoomsInv'
  <2>1. UNCHANGED <<room, checking, up, connected>> /\ shown' = shown
    BY <1>2 DEF Change, Emit, Read, Hear, Tick, Refresh, wire
  <2>2. QED BY <1>1, <2>1, RoomsQuiet
<1>3. ASSUME NEW i \in DOMAIN loads, LoadFails(i) PROVE RoomsInv'
  <2>1. shown' = Nothing
    BY <1>3 DEF LoadFails
  <2>2. QED BY <2>1, Zenon DEF RoomsInv, Subscribed
<1>4. ASSUME Disconnect PROVE RoomsInv'
  <2>1. ~connected'
    BY <1>4, Zenon DEF Disconnect
  <2>2. QED BY <2>1, Zenon DEF RoomsInv, Subscribed
<1>5. QED
  BY <1>1, <1>2, <1>3, <1>4, RoomsHandle, RoomsJoin, RoomsArrive, RoomsConnect
  DEF Next, Backend, Loading

LEMMA ListStep == ASSUME CorpusInv, Next PROVE ReadsAgree' /\ ListInv'
<1>1. Typed /\ ReadsAgree /\ ListInv
  BY DEF CorpusInv
<1>2. ASSUME NEW c \in Collections, Emit(c) PROVE ReadsAgree' /\ ListInv'
  <2>1. /\ UNCHANGED <<stored, loads, shown, timer>> /\ written' = [written EXCEPT ![c] = @ - 1]
        /\ written \in [Collections -> Nat] /\ down \in Nat
        /\ \/ down' = down + 1 /\ lost' = lost
           \/ down' = down /\ lost' = lost \cup {c}
    BY <1>1, <1>2 DEF Emit, Typed
  <2>2. ASSUME NEW d \in Collections \ lost', Pending(d) PROVE Pending(d)'
    <3>1. CASE down' = down + 1
      BY <2>1, <3>1 DEF Pending
    <3>2. CASE down' = down /\ d # c
      <4>1. written'[d] = written[d]
        BY <2>1, <3>2
      <4>2. QED BY <2>1, <2>2, <3>2, <4>1 DEF Pending, Fresh
    <3>3. QED BY <2>1, <2>2, <3>1, <3>2
  <2>3. QED BY <1>1, <2>1, <2>2, ListQuiet
<1>3. ASSUME Handle \/ (\E c \in Collections : Join(c)) \/ Connect PROVE ReadsAgree' /\ ListInv'
  <2>1. UNCHANGED <<stored, written, down, loads, shown, timer, lost>>
    BY <1>3 DEF Handle, Join, Connect
  <2>2. \A c : Pending(c) => Pending(c)'
    BY <2>1 DEF Pending, Fresh
  <2>3. QED BY <1>1, <2>1, <2>2, ListQuiet
<1>4. ASSUME NEW i \in DOMAIN loads, LoadFails(i) PROVE ReadsAgree' /\ ListInv'
  <2>1. lost' = Collections /\ loads' = RemoveAt(loads, i) /\ UNCHANGED stored /\ loads \in Seq(Load)
    BY <1>1, <1>4 DEF LoadFails, Typed
  <2>2. \A k \in DOMAIN loads' : \E j \in DOMAIN loads : loads'[k] = loads[j]
    BY <2>1, RemoveAtIs
  <2>3. QED BY <1>1, <2>1, <2>2 DEF ReadsAgree, ListInv
<1>5. ASSUME Hear PROVE ReadsAgree' /\ ListInv'
  <2>1. /\ UNCHANGED <<stored, written, loads, shown>>
        /\ lost' = Collections \/ (timer' /\ lost' = lost)
    <3>1. CASE Subscribed
      <4>1. timer' = TRUE /\ lost' = lost
        BY <1>5, <3>1, Zenon DEF Hear
      <4>2. QED BY <1>5, <4>1 DEF Hear
    <3>2. CASE ~Subscribed
      BY <1>5, <3>2 DEF Hear
    <3>3. QED BY <3>1, <3>2
  <2>2. ReadsAgree'
    BY <1>1, <2>1 DEF ReadsAgree
  <2>3. CASE lost' = Collections
    BY <2>2, <2>3 DEF ListInv
  <2>4. CASE timer' /\ lost' = lost
    BY <2>2, <2>4, AllPending DEF ListInv, Pending
  <2>5. QED BY <2>1, <2>3, <2>4
<1>6. ASSUME Disconnect PROVE ReadsAgree' /\ ListInv'
  <2>1. /\ UNCHANGED <<stored, written, loads, shown>>
        /\ lost' = IF timer \/ down > 0 THEN Collections ELSE lost
    BY <1>6 DEF Disconnect
  <2>2. ReadsAgree'
    BY <1>1, <2>1 DEF ReadsAgree
  <2>3. CASE timer \/ down > 0
    BY <2>1, <2>2, <2>3 DEF ListInv
  <2>4. CASE ~timer /\ ~(down > 0)
    <3>1. \A c : Pending(c) => Pending(c)'
      BY <2>1, <2>4 DEF Pending, Fresh
    <3>2. QED BY <1>1, <2>1, <2>4, <3>1, ListQuiet
  <2>5. QED BY <2>3, <2>4
<1>7. ASSUME Tick \/ Refresh PROVE ReadsAgree' /\ ListInv'
  <2>1. loads' = Append(loads, Each(Unread)) /\ UNCHANGED <<stored, shown, lost>>
    BY <1>7 DEF Tick, Refresh
  <2>2. QED BY <1>1, <2>1, ListAppend
<1>8. QED
  BY <1>1, <1>2, <1>3, <1>4, <1>5, <1>6, <1>7, ListChange, ListRead, ListArrive
  DEF Next, Backend, Loading

\* The rooms of the page and what is under way for its list always fit, for any
\* number of collections and any order of events, loads and connections.
THEOREM CorpusInvHolds == Spec => []CorpusInv
<1>1. Init => CorpusInv
  <2> SUFFICES ASSUME Init PROVE CorpusInv
    OBVIOUS
  <2>1. /\ loads = <<Each(Unread)>> /\ Each(Unread) \in Load /\ shown = Nothing
        /\ \A c \in Collections : Each(Unread)[c] = Unread
    BY DEF Init, Each, Load
  <2>2. loads \in Seq(Load) /\ DOMAIN loads = {1} /\ loads[1] = Each(Unread)
    BY <2>1
  <2>3. Typed
    BY <2>1, <2>2 DEF Init, Each, Typed
  <2>4. ReadsAgree /\ ListInv
    BY <2>1, <2>2 DEF ReadsAgree, ListInv, Followed
  <2>5. RoomsInv
    BY <2>1, Zenon DEF RoomsInv, Subscribed
  <2>6. QED BY <2>3, <2>4, <2>5 DEF CorpusInv
<1>2. CorpusInv /\ [Next]_vars => CorpusInv'
  <2> SUFFICES ASSUME CorpusInv, [Next]_vars PROVE CorpusInv'
    OBVIOUS
  <2>1. CASE Next
    BY <2>1, TypedStep, RoomsStep, ListStep DEF CorpusInv
  <2>2. CASE UNCHANGED vars
    <3>1. UNCHANGED <<stored, written, room, checking, up, down, connected, loads, shown, timer, lost>>
      BY <2>2 DEF vars, wire
    <3>2. Typed' /\ ReadsAgree'
      BY <3>1 DEF CorpusInv, Typed, ReadsAgree
    <3>3. RoomsInv'
      BY <3>1, RoomsQuiet DEF CorpusInv
    <3>4. ListInv'
      BY <3>1 DEF CorpusInv, ListInv, Followed, Pending, Fresh
    <3>5. QED BY <3>2, <3>3, <3>4 DEF CorpusInv
  <2>3. QED BY <2>1, <2>2
<1>3. QED BY <1>1, <1>2, PTL DEF Spec

\* Once all is at rest the list of useResearchCorpus.js is current but for the
\* causes lost records.
THEOREM ListIsCurrent == Spec => []StaleHasCause
<1>1. CorpusInv => StaleHasCause
  <2> SUFFICES ASSUME CorpusInv, AtRest, shown # Nothing, NEW c \in Collections
               PROVE  shown[c] = stored[c] \/ c \in lost
    BY DEF StaleHasCause
  <2>1. loads = <<>> /\ ~timer /\ down = 0 /\ written[c] = 0
    BY DEF AtRest, Each
  <2>2. ~Pending(c)
    BY <2>1 DEF Pending, Fresh
  <2>3. QED BY <2>2 DEF CorpusInv, ListInv, Followed
<1>2. QED BY <1>1, CorpusInvHolds, PTL

\* Once all is at rest a page that shows a list is in the room of each of its
\* collections, whatever it left and joined and however long checks took.
THEOREM RoomsAreJoined == Spec => []InItsRooms
<1>1. CorpusInv => InItsRooms
  <2> SUFFICES ASSUME CorpusInv, AtRest, Subscribed PROVE room = Collections
    BY DEF InItsRooms
  <2>1. up = <<>> /\ \A c \in Collections : checking[c] = 0
    BY DEF AtRest, Each
  <2>2. \A c \in Collections : WillBeIn(c)
    BY DEF CorpusInv, RoomsInv
  <2>3. Collections \subseteq room
    BY <2>1, <2>2 DEF WillBeIn, LastIsJoin
  <2>4. QED BY <2>3 DEF CorpusInv, Typed
<1>2. QED BY <1>1, CorpusInvHolds, PTL
=============================================================================
