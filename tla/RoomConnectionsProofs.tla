----------------------- MODULE RoomConnectionsProofs -----------------------
(***************************************************************************)
(* For any elements, objects, failures and connections: the room's lock    *)
(* keeps subscribers out of a room that is being closed; every variable    *)
(* has its type; and as long as calls and callbacks do not overlap and     *)
(* nothing fails, a room has one connection, which lasts as long as its    *)
(* subscribers, nothing is left behind, and publishers are in their rooms. *)
(***************************************************************************)
EXTENDS RoomConnections, SequenceTheorems, TLAPS

\* Room objects are records with a lock and subscribers; what else is in them
\* does not matter here.
Shaped == /\ DOMAIN room = Rooms
          /\ \A r \in Rooms : {"lock", "subs"} \subseteq DOMAIN room[r]

CInv == Shaped /\ ClosesEmptyRoom

\* What a step may do to a room: leave lock and subscribers alone, or let
\* subscribers go, or change the subscribers of a room that nobody has locked,
\* or take the lock of an empty room, or release a lock.
Allowed(old, new) ==
    /\ {"lock", "subs"} \subseteq DOMAIN new
    /\ \/ new.lock = old.lock /\ ((old.subs = <<>> => new.subs = <<>>) \/ old.lock = Nil)
       \/ old.subs = <<>> /\ new.subs = <<>>
       \/ new.lock = Nil

LEMMA AllowedKeeps ==
    ASSUME CInv, DOMAIN room' = Rooms,
           \A r \in Rooms : Allowed(room[r], room'[r])
    PROVE  CInv'
<1>1. Shaped'
  BY DEF Allowed, Shaped
<1>2. ASSUME NEW t \in Threads, NEW r \in Rooms, room'[r].lock = t
      PROVE  room'[r].subs = <<>>
  <2>1. t # Nil
    BY NilIsNothing DEF Threads
  <2>2. room[r].lock = t => room[r].subs = <<>>
    BY DEF CInv, ClosesEmptyRoom
  <2> QED
    BY <1>2, <2>1, <2>2 DEF Allowed
<1> QED
  BY <1>1, <1>2 DEF CInv, ClosesEmptyRoom

\* The steps that change one room object.
LEMMA OneRoomKeeps ==
    ASSUME CInv, NEW x, NEW new, room' = [room EXCEPT ![x] = new],
           x \in Rooms => Allowed(room[x], new)
    PROVE  CInv'
<1>1. DOMAIN room' = Rooms
  BY DEF CInv, Shaped
<1>2. \A r \in Rooms : Allowed(room[r], room'[r])
  BY DEF CInv, Shaped, Allowed
<1> QED
  BY <1>1, <1>2, AllowedKeeps

LEMMA SameRoomsKeep ==
    ASSUME CInv, UNCHANGED room
    PROVE  CInv'
BY DEF CInv, Shaped, ClosesEmptyRoom

LEMMA InitCloses == Init => CInv
<1> SUFFICES ASSUME Init
             PROVE  CInv
  OBVIOUS
<1>1. \A r \in Rooms : room[r] = NewRoom(Nil, Nil)
  BY DEF Init
<1>2. Shaped
  BY DEF Init, Shaped, NewRoom
<1>3. ClosesEmptyRoom
  BY <1>1 DEF ClosesEmptyRoom, NewRoom
<1> QED
  BY <1>2, <1>3 DEF CInv

LEMMA RecordSubs ==
    ASSUME NEW old, {"lock", "subs"} \subseteq DOMAIN old, NEW x
    PROVE  /\ DOMAIN [old EXCEPT !.subs = x] = DOMAIN old
           /\ [old EXCEPT !.subs = x].lock = old.lock
           /\ [old EXCEPT !.subs = x].subs = x
OBVIOUS

\* Whoever has a subscriber to remove, the room is not empty.
LEMMA RemovalKeeps ==
    ASSUME CInv, NEW r, NEW k \in DOMAIN room[r].subs,
           room' = [room EXCEPT ![r].subs = RemoveAt(@, k)]
    PROVE  CInv'
<1> DEFINE old == room[r]
           new == [old EXCEPT !.subs = RemoveAt(old.subs, k)]
<1>1. room' = [room EXCEPT ![r] = new]
  OBVIOUS
<1>2. old.subs # <<>>
  OBVIOUS
<1>3. r \in Rooms => Allowed(old, new)
  BY <1>2, RecordSubs DEF CInv, Shaped, Allowed
<1> QED
  BY <1>1, <1>3, OneRoomKeeps

\* Subscribers come and go.
LEMMA SubscribersKeep ==
    ASSUME CInv, NEW e, SubscriberSteps(e)
    PROVE  CInv'
<1>1. CASE MakeRoomConnection(e)
  <2>1. PICK c : room' = [room EXCEPT ![loc[e].room].conn = c]
    BY <1>1 DEF MakeRoomConnection
  <2>2. room' = [room EXCEPT ![loc[e].room] = [room[loc[e].room] EXCEPT !.conn = c]]
    BY <2>1
  <2>3. loc[e].room \in Rooms =>
           Allowed(room[loc[e].room], [room[loc[e].room] EXCEPT !.conn = c])
    BY DEF CInv, Shaped, Allowed
  <2> QED
    BY <2>2, <2>3, OneRoomKeeps
<1>2. CASE SetEgressId(e)
  <2>1. room' = [room EXCEPT ![loc[e].room] =
                    [room[loc[e].room] EXCEPT !.egressId = loc[e].id]]
    BY <1>2 DEF SetEgressId
  <2>2. loc[e].room \in Rooms =>
           Allowed(room[loc[e].room], [room[loc[e].room] EXCEPT !.egressId = loc[e].id])
    BY DEF CInv, Shaped, Allowed
  <2> QED
    BY <2>1, <2>2, OneRoomKeeps
<1>3. CASE AddSubscriber(e)
  <2> DEFINE old == room[loc[e].room]
             new == [old EXCEPT !.subs = Append(old.subs, e)]
  <2>1. room' = [room EXCEPT ![loc[e].room] = new]
    BY <1>3 DEF AddSubscriber
  <2>2. old.lock = Nil
    BY <1>3 DEF AddSubscriber
  <2>3. loc[e].room \in Rooms => Allowed(old, new)
    BY <2>2, RecordSubs DEF CInv, Shaped, Allowed
  <2> QED
    BY <2>1, <2>3, OneRoomKeeps
<1>4. CASE Unsubscribe(e)
  <2>1. PICK k \in DOMAIN room[at[e]].subs :
             room' = [room EXCEPT ![at[e]].subs = RemoveAt(@, k)]
    BY <1>4 DEF Unsubscribe
  <2> QED
    BY <2>1, RemovalKeeps
<1>5. CASE TestEgress(e) \/ JoinWithToken(e) \/ AddEgress(e) \/ Answer(e) \/ Subscribe(e)
  BY <1>5, SameRoomsKeep DEF TestEgress, JoinWithToken, AddEgress, Answer, Subscribe
<1> QED
  BY <1>1, <1>2, <1>3, <1>4, <1>5 DEF SubscriberSteps

\* A new room is not locked.
LEMMA ConnectsKeep ==
    ASSUME CInv, NEW e, ConnectSteps(e)
    PROVE  CInv'
<1>1. CASE AddRoom(e)
  <2>1. PICK r : room' = [room EXCEPT ![r] = NewRoom(RoomName[e], loc[e].svc)]
    BY <1>1 DEF AddRoom
  <2>2. r \in Rooms => Allowed(room[r], NewRoom(RoomName[e], loc[e].svc))
    BY DEF Allowed, NewRoom
  <2> QED
    BY <2>1, <2>2, OneRoomKeeps
<1>2. CASE Connect(e) \/ AddService(e) \/ GetRoom(e)
  BY <1>2, SameRoomsKeep DEF Connect, AddService, GetRoom
<1> QED
  BY <1>1, <1>2 DEF ConnectSteps

LEMMA PublishersKeep ==
    ASSUME CInv, NEW e, PublisherSteps(e)
    PROVE  CInv'
<1>1. CASE AddIngress(e)
  <2> DEFINE old == room[loc[e].room]
             new == [old EXCEPT !.ingress = [old.ingress EXCEPT ![loc[e].id] = loc[e].ing]]
  <2>1. room' = [room EXCEPT ![loc[e].room] = new]
    BY <1>1 DEF AddIngress
  <2>2. loc[e].room \in Rooms => Allowed(old, new)
    BY DEF CInv, Shaped, Allowed
  <2> QED
    BY <2>1, <2>2, OneRoomKeeps
<1>2. CASE DeleteIngress(e)
  <2> DEFINE old == room[loc[e].room]
             new == [old EXCEPT !.ingress = [old.ingress EXCEPT ![loc[e].id] = Nil]]
  <2>1. room' = [room EXCEPT ![loc[e].room] = new]
    BY <1>2 DEF DeleteIngress
  <2>2. loc[e].room \in Rooms => Allowed(old, new)
    BY DEF CInv, Shaped, Allowed
  <2> QED
    BY <2>1, <2>2, OneRoomKeeps
<1>3. CASE GetIngressByParticipant(e) \/ JoinIngress(e) \/ TestPublish(e) \/ CreatePublisher(e)
  BY <1>3, SameRoomsKeep
     DEF GetIngressByParticipant, JoinIngress, TestPublish, CreatePublisher
<1>4. CASE Unpublish(e) \/ LeaveIngress(e) \/ TestRoom(e) \/ HangUp(e)
  BY <1>4, SameRoomsKeep DEF Unpublish, LeaveIngress, TestRoom, HangUp
<1> QED
  BY <1>1, <1>2, <1>3, <1>4 DEF PublisherSteps

\* The lock is taken of an empty room only.
LEMMA LeavingKeeps ==
    ASSUME CInv, NEW t, LeaveSteps(t)
    PROVE  CInv'
<1> DEFINE r == loc[t].room
<1>1. CASE LeaveEgress(t)
  <2>1. CASE UNCHANGED room
    BY <2>1, SameRoomsKeep
  <2>2. CASE /\ room[r].subs = <<>>
             /\ room' = [room EXCEPT ![r].lock = t, ![r].egressId = Nil]
    <3> DEFINE new == [room[r] EXCEPT !.lock = t, !.egressId = Nil]
    <3>1. room' = [room EXCEPT ![r] = new]
      BY <2>2
    <3>2. r \in Rooms => Allowed(room[r], new)
      BY <2>2 DEF CInv, Shaped, Allowed
    <3> QED
      BY <3>1, <3>2, OneRoomKeeps
  <2> QED
    BY <1>1, <2>1, <2>2 DEF LeaveEgress
<1>2. ASSUME room' = [room EXCEPT ![r] = Unlocked(t, room[r])]
      PROVE  CInv'
  <2>1. r \in Rooms => Allowed(room[r], Unlocked(t, room[r]))
    BY DEF CInv, Shaped, Allowed, Unlocked
  <2> QED
    BY <1>2, <2>1, OneRoomKeeps
<1>3. CASE RemoveEgress(t)
  BY <1>2, <1>3 DEF RemoveEgress
<1>4. CASE TestService(t)
  BY <1>2, <1>4, SameRoomsKeep DEF TestService
<1>5. CASE DeleteService(t)
  BY <1>2, <1>5 DEF DeleteService
<1>6. CASE GetEgress(t) \/ Disconnect(t) \/ DeleteRoom(t)
  BY <1>6, SameRoomsKeep DEF GetEgress, Disconnect, DeleteRoom
<1> QED
  BY <1>1, <1>3, <1>4, <1>5, <1>6 DEF LeaveSteps

LEMMA CallbacksKeep ==
    ASSUME CInv, NEW c, Drop(c) \/ LkDisconnected(c) \/ Shed(c) \/ Evict(c)
    PROVE  CInv'
<1>1. CASE Evict(c)
  <2>1. CASE UNCHANGED room
    BY <2>1, SameRoomsKeep
  <2>2. CASE \E k \in DOMAIN room[loc[c].room].subs :
                 room' = [room EXCEPT ![loc[c].room].subs = RemoveAt(@, k)]
    BY <2>2, RemovalKeeps
  <2> QED
    BY <1>1, <2>1, <2>2 DEF Evict
<1>2. CASE Drop(c) \/ LkDisconnected(c) \/ Shed(c)
  BY <1>2, SameRoomsKeep DEF Drop, LkDisconnected, Shed
<1> QED
  BY <1>1, <1>2

LEMMA NextCloses ==
    ASSUME CInv, [Next]_vars
    PROVE  CInv'
<1>1. CASE Next
  BY <1>1, ConnectsKeep, SubscribersKeep, PublishersKeep, LeavingKeeps, CallbacksKeep
     DEF Next
<1>2. CASE UNCHANGED vars
  BY <1>2, SameRoomsKeep DEF vars
<1> QED
  BY <1>1, <1>2

\* While a subscriber, or the callback of a lost connection, closes or leaves
\* a room, nobody gets into it (disconnectFromRoomEgressImpl and addSubscriber
\* hold the same lock).
THEOREM ClosedEmpty == Spec => []ClosesEmptyRoom
<1>1. Init => CInv
  BY InitCloses
<1>2. CInv /\ [Next]_vars => CInv'
  BY NextCloses
<1>3. CInv => ClosesEmptyRoom
  BY DEF CInv
<1> QED
  BY <1>1, <1>2, <1>3, PTL DEF Spec

----------------------------------------------------------------------------
\* The slice of a subscription: taking out the k-th subscriber moves the
\* others down.
LEMMA RemoveAtProperties ==
    ASSUME NEW S, NEW s \in Seq(S), NEW k \in DOMAIN s
    PROVE  /\ RemoveAt(s, k) \in Seq(S)
           /\ Len(RemoveAt(s, k)) = Len(s) - 1
           /\ \A j \in 1..(Len(s) - 1) :
                 RemoveAt(s, k)[j] = IF j < k THEN s[j] ELSE s[j + 1]
<1> DEFINE a == SubSeq(s, 1, k - 1)
           b == SubSeq(s, k + 1, Len(s))
<1>1. Len(s) \in Nat /\ k \in 1..Len(s) /\ \A i \in 1..Len(s) : s[i] \in S
  BY LenProperties, ElementOfSeq
<1>2. \A i \in 1..(k - 1) : s[i] \in S
  BY <1>1
<1>3. \A i \in (k + 1)..Len(s) : s[i] \in S
  BY <1>1
<1>4. /\ a \in Seq(S) /\ Len(a) = k - 1
      /\ \A i \in 1..(k - 1) : a[i] = s[i]
  <2>1. /\ a \in Seq(S) /\ Len(a) = IF 1 <= k - 1 THEN k - 1 - 1 + 1 ELSE 0
        /\ \A i \in 1..(k - 1 - 1 + 1) : a[i] = s[1 + i - 1]
    BY <1>1, <1>2, SubSeqProperties
  <2> QED
    BY <1>1, <2>1
<1>5. /\ b \in Seq(S) /\ Len(b) = Len(s) - k
      /\ \A i \in 1..(Len(s) - k) : b[i] = s[k + i]
  <2>1. /\ b \in Seq(S) /\ Len(b) = IF k + 1 <= Len(s) THEN Len(s) - (k + 1) + 1 ELSE 0
        /\ \A i \in 1..(Len(s) - (k + 1) + 1) : b[i] = s[k + 1 + i - 1]
    BY <1>1, <1>3, SubSeqProperties
  <2> QED
    BY <1>1, <2>1
<1> HIDE DEF a, b
<1>6. /\ a \o b \in Seq(S)
      /\ Len(a \o b) = Len(a) + Len(b)
      /\ \A i \in 1..(Len(a) + Len(b)) :
            (a \o b)[i] = IF i <= Len(a) THEN a[i] ELSE b[i - Len(a)]
  BY <1>4, <1>5, ConcatProperties
<1>7. RemoveAt(s, k) = a \o b
  BY DEF RemoveAt, a, b
<1>8. Len(a \o b) = Len(s) - 1
  BY <1>1, <1>4, <1>5, <1>6
<1>9. ASSUME NEW j \in 1..(Len(s) - 1)
      PROVE  (a \o b)[j] = IF j < k THEN s[j] ELSE s[j + 1]
  <2> j \in 1..(Len(a) + Len(b))
    BY <1>1, <1>4, <1>5
  <2>0. (a \o b)[j] = IF j <= Len(a) THEN a[j] ELSE b[j - Len(a)]
    BY <1>6
  <2>1. (a \o b)[j] = IF j <= k - 1 THEN a[j] ELSE b[j - (k - 1)]
    BY <1>4, <2>0
  <2>2. CASE j < k
    BY <1>1, <1>4, <2>1, <2>2
  <2>3. CASE ~(j < k)
    <3>1. j - (k - 1) \in 1..(Len(s) - k) /\ k + (j - (k - 1)) = j + 1
      BY <1>1, <2>3
    <3>2. b[j - (k - 1)] = s[k + (j - (k - 1))]
      BY <1>5, <3>1
    <3> QED
      BY <1>1, <2>1, <2>3, <3>1, <3>2
  <2> QED
    BY <2>2, <2>3
<1> QED
  BY <1>6, <1>7, <1>8, <1>9

----------------------------------------------------------------------------
(* Types.  TypeOK is not inductive: what a thread has found, and which      *)
(* thread is where, decides what its next step looks up.                    *)

SubscriberLabels == {"egress", "join", "joining", "joined", "register", "answer",
                     "subscribe", "attach"}
PublisherLabels  == {"ingress", "joinIngress", "addIngress", "publish", "create",
                     "leaveIngress", "deleteIngress", "testRoom", "hangUp"}
LeaveLabels      == {"leave", "lock", "close"}
CallbackLabels   == {"dropped", "shed", "evict"}
ClosingLabels    == {"deleteRoom", "testService", "deleteService"}

\* Where a thread has a room in its locals.
RoomLabels == {"egress", "join", "joining", "joined", "register", "answer", "attach",
               "ingress", "joinIngress", "addIngress", "lock", "close", "deleteIngress",
               "testRoom", "hangUp"} \cup ClosingLabels \cup CallbackLabels

\* What a thread has found when it is where it is.
Point(t) ==
    /\ pc[t] \in {"newService", "findRoom", "newRoom"} => t \in Elements
    /\ pc[t] \in {"findRoom", "newRoom"} => loc[t].svc # Nil
    /\ pc[t] \in SubscriberLabels => t \in Subscribers
    /\ pc[t] \in PublisherLabels => t \in Publishers
    /\ pc[t] \in LeaveLabels => t \in Subscribers \cup EgressIds
    /\ pc[t] \in CallbackLabels => t \in EgressIds
    /\ pc[t] \in RoomLabels => loc[t].room # Nil
    /\ pc[t] \in {"joining", "joined", "register", "leave"} => loc[t].id \in EgressIds
    /\ pc[t] \in {"shed", "evict"} => loc[t].id \in Maybe(EgressIds)
    /\ pc[t] \in {"addIngress", "leaveIngress", "deleteIngress"} => loc[t].id \in IngressIds
    /\ pc[t] \in {"subscribe", "attach"} => id[t] \in EgressIds
    /\ pc[t] \in {"publish", "create"} => id[t] \in IngressIds
    /\ pc[t] \in {"addIngress", "create"} => loc[t].ing # Nil

Points == \A t \in Threads : Point(t)

\* What an element is connected to; none is while it is called.
Attached(e) ==
    /\ pc[e] # "idle" => at[e] = Nil
    /\ e \in Subscribers /\ at[e] # Nil => at[e] \in Rooms /\ id[e] \in EgressIds
    /\ e \in Publishers /\ at[e] # Nil => at[e] \in Ingresses /\ id[e] \in IngressIds

\* A connection knows its room from before it is joined until it is closed;
\* nobody else joins with its id.
Opening(t) ==
    pc[t] = "joining" =>
        LET c == loc[t].id
        IN  /\ c \notin live /\ pc[c] = "idle" /\ loc[c].room # Nil
            /\ \A u \in Threads : pc[u] = "joining" /\ loc[u].id = c => u = t

Opened == /\ \A t \in Threads : Opening(t)
          /\ \A c \in live : pc[c] = "idle" /\ loc[c].room # Nil

\* Ingresses that are in the tables, or get there, have their room.
Housed == /\ \A x \in IngressIds : ingress[x] # Nil => ing[ingress[x]].room # Nil
          /\ \A t \in Threads : pc[t] = "addIngress" => ing[loc[t].ing].room # Nil

TInv == TypeOK /\ Points /\ (\A e \in Elements : Attached(e)) /\ Opened /\ Housed

Labels ==
    {"idle", "newService", "findRoom", "newRoom", "egress", "join", "joining",
     "joined", "register", "answer", "subscribe", "attach",
     "ingress", "joinIngress", "addIngress", "publish", "create",
     "leave", "lock", "close", "deleteRoom", "testService", "deleteService",
     "leaveIngress", "deleteIngress", "testRoom", "hangUp", "dropped", "shed", "evict"}

\* The parts of TypeOK.
ThreadTypes  == pc \in [Threads -> Labels] /\ loc \in [Threads -> LocalsType]
TableTypes   == /\ services \in Maybe(Services)
                /\ egress \in [EgressIds -> Maybe(Rooms)]
                /\ ingress \in [IngressIds -> Maybe(Ingresses)]
                /\ rooms \in [Services -> [Names -> Maybe(Rooms)]]
ObjectTypes  == /\ room \in [Rooms -> RoomType] /\ ing \in [Ingresses -> IngressType]
                /\ live \subseteq EgressIds
ElementTypes == /\ id \in [Elements -> Maybe(EgressIds \cup IngressIds)]
                /\ at \in [Elements -> Maybe(Rooms \cup Ingresses)]
HistoryTypes == apart \in BOOLEAN /\ faults \in 0..MaxFaults

LEMMA TypeParts ==
    TypeOK <=> ThreadTypes /\ TableTypes /\ ObjectTypes /\ ElementTypes /\ HistoryTypes
BY DEF TypeOK, ThreadTypes, TableTypes, ObjectTypes, ElementTypes, HistoryTypes, Labels

LEMMA TypePartsNext ==
    TypeOK' <=> ThreadTypes' /\ TableTypes' /\ ObjectTypes' /\ ElementTypes' /\ HistoryTypes'
BY DEF TypeOK, ThreadTypes, TableTypes, ObjectTypes, ElementTypes, HistoryTypes, Labels

LEMMA Who ==
    /\ Elements \subseteq Threads /\ EgressIds \subseteq Threads
    /\ Subscribers \subseteq Elements /\ Publishers \subseteq Elements
    /\ \A e \in Elements : e \notin EgressIds /\ RoomName[e] \in Names
    /\ \A e \in Subscribers : e \notin Publishers
    /\ Nil \notin Threads /\ Nil \notin Rooms /\ Nil \notin Ingresses /\ Nil \notin Services
    /\ Nil \notin IngressIds /\ Nil \notin EgressIds /\ Nil \notin Names
BY ElementsAssumption, NilIsNothing DEF Threads, Elements, Names, IngressIds

\* A thread that a step leaves where it is, with what it has found.
Still(u) == /\ pc'[u] = pc[u]
            /\ loc'[u].svc = loc[u].svc /\ loc'[u].room = loc[u].room
            /\ loc'[u].id = loc[u].id /\ loc'[u].ing = loc[u].ing

LEMMA PointStill ==
    ASSUME NEW u \in Threads, Point(u), Still(u), u \in Elements => id'[u] = id[u]
    PROVE  Point(u)'
<1>1. u \in Subscribers \cup Publishers <=> u \in Elements
  BY DEF Elements
<1>2. pc[u] \in {"subscribe", "attach", "publish", "create"} => u \in Elements
  BY <1>1 DEF Point, SubscriberLabels, PublisherLabels
<1>3. pc[u] \in {"subscribe", "attach", "publish", "create"} => id'[u] = id[u]
  BY <1>2
<1> QED
  BY <1>3 DEF Point, Still

LEMMA AttachedStill ==
    ASSUME NEW e \in Elements, Attached(e), pc'[e] = pc[e], id'[e] = id[e], at'[e] = at[e]
    PROVE  Attached(e)'
BY DEF Attached

\* A thread that a step moves: it does not start to join, and if it is a
\* connection that does nothing, it has been closed.
Moves(u) == /\ Point(u)' /\ (u \in Elements => Attached(u)')
            /\ pc'[u] \notin {"joining", "addIngress"}
            /\ u \in Elements \/ pc[u] # "idle" \/ u \in live \ live'

\* A thread that a step leaves alone.
Stays(u) == Still(u) /\ (u \in Elements => id'[u] = id[u] /\ at'[u] = at[u])

LEMMA OpenedStill ==
    ASSUME TInv, live' \subseteq live, \A u \in Threads : Stays(u) \/ Moves(u)
    PROVE  Opened'
<1>1. ASSUME NEW u \in Threads, pc'[u] = "joining"
      PROVE  Opening(u)'
  <2> DEFINE c == loc[u].id
  <2>1. Still(u) /\ pc[u] = "joining" /\ loc'[u].id = c
    BY <1>1 DEF Moves, Stays, Still
  <2>2. c \in EgressIds
    BY <2>1 DEF TInv, Points, Point
  <2>3. /\ c \notin live /\ pc[c] = "idle" /\ loc[c].room # Nil
        /\ \A v \in Threads : pc[v] = "joining" /\ loc[v].id = c => v = u
    BY <2>1 DEF TInv, Opened, Opening
  <2>4. c \in Threads /\ Still(c)
    BY <2>2, <2>3, Who DEF Moves, Stays
  <2>5. pc'[c] = "idle" /\ loc'[c].room # Nil
    BY <2>3, <2>4 DEF Still
  <2>6. ASSUME NEW v \in Threads, pc'[v] = "joining", loc'[v].id = c
        PROVE  v = u
    BY <2>3, <2>6 DEF Moves, Stays, Still
  <2> HIDE DEF c
  <2> QED
    BY <2>1, <2>3, <2>5, <2>6 DEF Opening
<1>2. ASSUME NEW c \in live'
      PROVE  pc'[c] = "idle" /\ loc'[c].room # Nil
  <2>1. c \in EgressIds /\ c \in Threads /\ c \in live
    BY Who DEF TInv, TypeOK
  <2>2. pc[c] = "idle" /\ loc[c].room # Nil
    BY <2>1 DEF TInv, Opened
  <2>3. Still(c)
    BY <2>1, <2>2, Who DEF Moves, Stays
  <2> QED
    BY <2>2, <2>3 DEF Still
<1>3. \A u \in Threads : Opening(u)'
  BY <1>1 DEF Opening
<1> QED
  BY <1>2, <1>3 DEF Opened

LEMMA HousedStill ==
    ASSUME TInv, \A u \in Threads : Still(u) \/ pc'[u] # "addIngress",
           \A x \in IngressIds : ingress'[x] \in {ingress[x], Nil},
           \A i \in Ingresses : ing'[i].room = ing[i].room
    PROVE  Housed'
<1>1. ASSUME NEW x \in IngressIds, ingress'[x] # Nil
      PROVE  ing'[ingress'[x]].room # Nil
  <2>1. ingress'[x] = ingress[x] /\ ingress[x] \in Ingresses
    BY <1>1 DEF TInv, TypeOK, Maybe
  <2> QED
    BY <1>1, <2>1 DEF TInv, Housed
<1>2. ASSUME NEW u \in Threads, pc'[u] = "addIngress"
      PROVE  ing'[loc'[u].ing].room # Nil
  <2>1. pc[u] = "addIngress" /\ loc'[u].ing = loc[u].ing
    BY <1>2 DEF Still
  <2>2. loc[u].ing \in Ingresses
    BY <2>1 DEF TInv, Points, Point, TypeOK, LocalsType, Maybe
  <2> QED
    BY <2>1, <2>2 DEF TInv, Housed
<1> QED
  BY <1>1, <1>2 DEF Housed

LEMMA PointsAttachedStill ==
    ASSUME TInv, \A u \in Threads : Stays(u) \/ Moves(u)
    PROVE  Points' /\ \A e \in Elements : Attached(e)'
<1>1. Points'
  BY PointStill DEF TInv, Points, Moves, Stays
<1>2. \A e \in Elements : Attached(e)'
  BY AttachedStill, Who DEF TInv, Moves, Stays, Still
<1> QED
  BY <1>1, <1>2

\* Most steps open no connection and make no ingress.
LEMMA StepsKeep ==
    ASSUME TInv, TypeOK', live' \subseteq live, \A u \in Threads : Stays(u) \/ Moves(u),
           \A x \in IngressIds : ingress'[x] \in {ingress[x], Nil},
           \A i \in Ingresses : ing'[i].room = ing[i].room
    PROVE  TInv'
<1>1. Housed'
  BY HousedStill DEF Moves, Stays
<1> QED
  BY <1>1, PointsAttachedStill, OpenedStill DEF TInv


LEMMA BlankType == Blank \in LocalsType
BY EmptySeq DEF Blank, LocalsType, Maybe

LEMMA SetsSvc ==
    ASSUME NEW l \in LocalsType, NEW x \in Maybe(Services)
    PROVE  /\ [l EXCEPT !.svc = x] \in LocalsType /\ [l EXCEPT !.svc = x].svc = x
           /\ [l EXCEPT !.svc = x].room = l.room
           /\ [l EXCEPT !.svc = x].id = l.id
           /\ [l EXCEPT !.svc = x].ing = l.ing
BY DEF LocalsType

LEMMA SetsRoom ==
    ASSUME NEW l \in LocalsType, NEW x \in Maybe(Rooms)
    PROVE  /\ [l EXCEPT !.room = x] \in LocalsType /\ [l EXCEPT !.room = x].room = x
           /\ [l EXCEPT !.room = x].svc = l.svc
           /\ [l EXCEPT !.room = x].id = l.id
           /\ [l EXCEPT !.room = x].ing = l.ing
BY DEF LocalsType

LEMMA SetsIng ==
    ASSUME NEW l \in LocalsType, NEW x \in Maybe(Ingresses)
    PROVE  /\ [l EXCEPT !.ing = x] \in LocalsType /\ [l EXCEPT !.ing = x].ing = x
           /\ [l EXCEPT !.ing = x].svc = l.svc
           /\ [l EXCEPT !.ing = x].room = l.room
           /\ [l EXCEPT !.ing = x].id = l.id
BY DEF LocalsType

LEMMA SetsId ==
    ASSUME NEW l \in LocalsType, NEW x \in Maybe(EgressIds \cup IngressIds)
    PROVE  /\ [l EXCEPT !.id = x] \in LocalsType /\ [l EXCEPT !.id = x].id = x
           /\ [l EXCEPT !.id = x].svc = l.svc
           /\ [l EXCEPT !.id = x].room = l.room
           /\ [l EXCEPT !.id = x].ing = l.ing
BY DEF LocalsType

LEMMA MovesThread ==
    ASSUME ThreadTypes, NEW t \in Threads, NEW label \in Labels, NEW l \in LocalsType,
           pc' = [pc EXCEPT ![t] = label], loc' = [loc EXCEPT ![t] = l]
    PROVE  /\ ThreadTypes' /\ pc'[t] = label /\ loc'[t] = l
           /\ \A u \in Threads : u # t => Still(u)
BY DEF ThreadTypes, Still

LEMMA MovesOn ==
    ASSUME ThreadTypes, NEW t \in Threads, NEW label \in Labels,
           pc' = [pc EXCEPT ![t] = label], loc' = loc
    PROVE  /\ ThreadTypes' /\ pc'[t] = label
           /\ \A u \in Threads : u # t => Still(u)
BY DEF ThreadTypes, Still

LEMMA SetsObject ==
    ASSUME ObjectTypes, NEW r \in Rooms, NEW o \in RoomType, room' = [room EXCEPT ![r] = o],
           ing' = ing, live' = live
    PROVE  /\ ObjectTypes' /\ room'[r] = o
           /\ \A q \in Rooms : q # r => room'[q] = room[q]
BY DEF ObjectTypes

LEMMA RoomFields ==
    ASSUME NEW o \in RoomType
    PROVE  /\ \A x \in Maybe(EgressIds) : /\ [o EXCEPT !.egressId = x] \in RoomType
                                          /\ [o EXCEPT !.conn = x] \in RoomType
           /\ \A x \in Seq(Subscribers) : [o EXCEPT !.subs = x] \in RoomType
           /\ \A x \in Maybe(Threads) : [o EXCEPT !.lock = x] \in RoomType
           /\ \A x \in IngressIds, i \in Maybe(Ingresses) :
                 [o EXCEPT !.ingress = [o.ingress EXCEPT ![x] = i]] \in RoomType
<1>1. ASSUME NEW x \in IngressIds, NEW i \in Maybe(Ingresses)
      PROVE  [o EXCEPT !.ingress = [o.ingress EXCEPT ![x] = i]] \in RoomType
  <2> DEFINE f == [o.ingress EXCEPT ![x] = i]
  <2>1. f \in [IngressIds -> Maybe(Ingresses)]
    BY DEF RoomType
  <2> HIDE DEF f
  <2> QED
    BY <2>1 DEF RoomType
<1>2. \A x \in Maybe(EgressIds) : /\ [o EXCEPT !.egressId = x] \in RoomType
                                  /\ [o EXCEPT !.conn = x] \in RoomType
  BY DEF RoomType
<1>3. \A x \in Seq(Subscribers) : [o EXCEPT !.subs = x] \in RoomType
  BY DEF RoomType
<1>4. \A x \in Maybe(Threads) : [o EXCEPT !.lock = x] \in RoomType
  BY DEF RoomType
<1> QED
  BY <1>1, <1>2, <1>3, <1>4

LEMMA NewRoomType ==
    ASSUME NEW n \in Maybe(Names), NEW s \in Maybe(Services)
    PROVE  NewRoom(n, s) \in RoomType
BY EmptySeq DEF NewRoom, NoIngress, RoomType, Maybe

\* What a thread knows of its locals from TypeOK and where it is.
LEMMA Locals ==
    ASSUME TInv, NEW t \in Threads
    PROVE  /\ loc[t] \in LocalsType /\ pc[t] \in Labels
           /\ loc[t].svc \in Maybe(Services) /\ loc[t].room \in Maybe(Rooms)
           /\ loc[t].ing \in Maybe(Ingresses)
           /\ loc[t].id \in Maybe(EgressIds \cup IngressIds)
           /\ pc[t] \in {"findRoom", "newRoom"} => loc[t].svc \in Services
           /\ pc[t] \in RoomLabels => loc[t].room \in Rooms
           /\ pc[t] \in {"addIngress", "create"} => loc[t].ing \in Ingresses
<1>1. loc[t] \in LocalsType /\ pc[t] \in Labels
  BY TypeParts DEF TInv, ThreadTypes
<1>2. Point(t)
  BY DEF TInv, Points
<1> QED
  BY <1>1, <1>2 DEF LocalsType, Point, Maybe

LEMMA Unattached ==
    ASSUME TInv, NEW e \in Elements, pc[e] # "idle"
    PROVE  at[e] = Nil
BY DEF TInv, Attached

\* A step of one thread, from what it looks up to where it goes.
LEMMA ThreadStep ==
    ASSUME TInv, NEW t \in Threads, t \in Elements \/ pc[t] # "idle",
           NEW label \in Labels, NEW l \in LocalsType,
           pc' = [pc EXCEPT ![t] = label], loc' = [loc EXCEPT ![t] = l],
           TableTypes', ObjectTypes', ElementTypes', HistoryTypes',
           \A e \in Elements : e # t => id'[e] = id[e] /\ at'[e] = at[e],
           live' = live, label \notin {"joining", "addIngress"},
           \A x \in IngressIds : ingress'[x] \in {ingress[x], Nil},
           \A i \in Ingresses : ing'[i].room = ing[i].room,
           pc'[t] = label /\ loc'[t] = l => Point(t)',
           pc'[t] = label /\ loc'[t] = l /\ t \in Elements => at'[t] = Nil \/ Attached(t)'
    PROVE  TInv'
<1>1. ThreadTypes' /\ pc'[t] = label /\ loc'[t] = l /\ \A u \in Threads : u # t => Still(u)
  BY TypeParts, MovesThread DEF TInv
<1>2. TypeOK'
  BY <1>1, TypePartsNext
<1>3. t \in Elements => Attached(t)'
  BY <1>1 DEF Attached
<1>4. Moves(t)
  BY <1>1, <1>3 DEF Moves
<1>5. \A u \in Threads : Stays(u) \/ Moves(u)
  BY <1>1, <1>4, Who DEF Stays
<1> QED
  BY <1>2, <1>5, StepsKeep

LEMMA SameLocals ==
    ASSUME TInv, NEW t \in Threads, loc' = loc
    PROVE  loc' = [loc EXCEPT ![t] = loc[t]]
BY DEF TInv, TypeOK

LEMMA ConnectTypes ==
    ASSUME TInv, NEW e \in Elements, Connect(e)
    PROVE  TInv'
<1> e \in Threads /\ loc[e] \in LocalsType /\ services \in Maybe(Services)
  BY Who, Locals DEF TInv, TypeOK
<1> DEFINE label == IF services = Nil THEN "newService" ELSE "findRoom"
           l == [loc[e] EXCEPT !.svc = services]
<1>1. l \in LocalsType /\ l.svc = services
  BY SetsSvc
<1>2. pc' = [pc EXCEPT ![e] = label] /\ loc' = [loc EXCEPT ![e] = l]
  BY DEF Connect, Begin, Goto
<1>3. label \in Labels /\ (label = "newService" \/ (label = "findRoom" /\ services # Nil))
  BY DEF Labels
<1> HIDE DEF label, l
<1>4. UNCHANGED <<tables, rooms, room, ing, live, id, at, faults>> /\ apart' \in BOOLEAN
      /\ at[e] = Nil
  BY DEF Connect, Begin, IsConnected
<1>5. TableTypes' /\ ObjectTypes' /\ ElementTypes' /\ HistoryTypes'
  BY <1>4, TypeParts DEF TInv, tables, TableTypes, ObjectTypes, ElementTypes, HistoryTypes
<1>6. pc'[e] = label /\ loc'[e] = l => Point(e)'
  BY <1>1, <1>3 DEF Point, SubscriberLabels, PublisherLabels, LeaveLabels, CallbackLabels,
     RoomLabels, ClosingLabels
<1> QED
  BY <1>1, <1>2, <1>3, <1>4, <1>5, <1>6, ThreadStep DEF tables

LEMMA AddServiceTypes ==
    ASSUME TInv, NEW e \in Elements, AddService(e)
    PROVE  TInv'
<1> e \in Threads /\ loc[e] \in LocalsType /\ pc[e] # "idle"
  BY Who, Locals DEF AddService
<1>1. PICK s \in Services : services' = s /\ loc' = [loc EXCEPT ![e].svc = s]
  BY DEF AddService
<1> s \in Maybe(Services) /\ s # Nil
  BY Who DEF Maybe
<1> DEFINE l == [loc[e] EXCEPT !.svc = s]
<1>2. l \in LocalsType /\ l.svc = s
  BY SetsSvc
<1>3. pc' = [pc EXCEPT ![e] = "findRoom"] /\ loc' = [loc EXCEPT ![e] = l]
  BY <1>1 DEF AddService, Goto
<1> HIDE DEF l
<1>4. UNCHANGED <<egress, ingress, rooms, room, ing, live, id, at, apart, faults>>
  BY DEF AddService
<1>5. TableTypes' /\ ObjectTypes' /\ ElementTypes' /\ HistoryTypes'
  BY <1>1, <1>4, TypeParts DEF TInv, TableTypes, ObjectTypes, ElementTypes, HistoryTypes
<1>6. pc'[e] = "findRoom" /\ loc'[e] = l => Point(e)'
  BY <1>2 DEF Point, SubscriberLabels, PublisherLabels, LeaveLabels, CallbackLabels,
     RoomLabels, ClosingLabels
<1> QED
  BY <1>2, <1>3, <1>4, <1>5, <1>6, Unattached, ThreadStep DEF Labels

LEMMA PurposeLabel ==
    ASSUME NEW e \in Elements
    PROVE  \/ Purpose(e) = "egress" /\ e \in Subscribers
           \/ Purpose(e) = "ingress" /\ e \in Publishers
BY DEF Purpose, Elements

LEMMA GetRoomTypes ==
    ASSUME TInv, NEW e \in Elements, GetRoom(e)
    PROVE  TInv'
<1> e \in Threads /\ loc[e] \in LocalsType /\ pc[e] # "idle" /\ loc[e].svc \in Services
  BY Who, Locals DEF GetRoom
<1> DEFINE r == rooms[loc[e].svc][RoomName[e]]
           label == IF r = Nil THEN "newRoom" ELSE Purpose(e)
           l == [loc[e] EXCEPT !.room = r]
<1>1. r \in Maybe(Rooms)
  BY Who DEF TInv, TypeOK
<1>2. pc' = [pc EXCEPT ![e] = label] /\ loc' = [loc EXCEPT ![e] = l]
  BY DEF GetRoom, Goto
<1>3. \/ label = "newRoom"
      \/ r # Nil /\ label = "egress" /\ e \in Subscribers
      \/ r # Nil /\ label = "ingress" /\ e \in Publishers
  BY PurposeLabel
<1> HIDE DEF r, label
<1>4. l \in LocalsType /\ l.room = r /\ l.svc = loc[e].svc
  BY <1>1, SetsRoom
<1> HIDE DEF l
<1>5. UNCHANGED <<tables, rooms, room, ing, live, id, at, apart, faults>>
  BY DEF GetRoom
<1>6. TableTypes' /\ ObjectTypes' /\ ElementTypes' /\ HistoryTypes'
  BY <1>5, TypeParts DEF TInv, tables, TableTypes, ObjectTypes, ElementTypes, HistoryTypes
<1>7. pc'[e] = label /\ loc'[e] = l => Point(e)'
  BY <1>3, <1>4, Who DEF Point, SubscriberLabels, PublisherLabels, LeaveLabels, CallbackLabels,
     RoomLabels, ClosingLabels
<1>8. label \in Labels /\ label \notin {"joining", "addIngress"}
  BY <1>3 DEF Labels
<1> QED
  BY <1>2, <1>4, <1>5, <1>6, <1>7, <1>8, Unattached, ThreadStep DEF tables

LEMMA AddRoomTypes ==
    ASSUME TInv, NEW e \in Elements, AddRoom(e)
    PROVE  TInv'
<1> /\ e \in Threads /\ loc[e] \in LocalsType /\ pc[e] # "idle" /\ loc[e].svc \in Services
    /\ RoomName[e] \in Names
  BY Who, Locals DEF AddRoom
<1>1. PICK r \in Rooms : /\ room' = [room EXCEPT ![r] = NewRoom(RoomName[e], loc[e].svc)]
                         /\ rooms' = [rooms EXCEPT ![loc[e].svc][RoomName[e]] = r]
                         /\ loc' = [loc EXCEPT ![e].room = r]
  BY DEF AddRoom
<1> r \in Maybe(Rooms) /\ r # Nil
  BY Who DEF Maybe
<1> DEFINE l == [loc[e] EXCEPT !.room = r]
           o == NewRoom(RoomName[e], loc[e].svc)
<1>2. pc' = [pc EXCEPT ![e] = Purpose(e)] /\ loc' = [loc EXCEPT ![e] = l]
  BY <1>1 DEF AddRoom, Goto
<1>3. l \in LocalsType /\ l.room = r
  BY SetsRoom
<1>4. o \in RoomType
  BY NewRoomType DEF Maybe
<1> HIDE DEF l, o
<1>5. UNCHANGED <<tables, ing, live, id, at, apart, faults>>
  BY DEF AddRoom
<1>6. ObjectTypes'
  BY <1>1, <1>4, <1>5, TypeParts, SetsObject DEF TInv, o
<1>7. TableTypes' /\ ElementTypes' /\ HistoryTypes'
  BY <1>1, <1>5, TypeParts DEF TInv, tables, TableTypes, ElementTypes, HistoryTypes
<1>8. pc'[e] = Purpose(e) /\ loc'[e] = l => Point(e)'
  BY <1>3, PurposeLabel, Who DEF Point, SubscriberLabels, PublisherLabels, LeaveLabels,
     CallbackLabels, RoomLabels, ClosingLabels
<1>9. Purpose(e) \in Labels /\ Purpose(e) \notin {"joining", "addIngress"}
  BY PurposeLabel DEF Labels
<1> QED
  BY <1>2, <1>3, <1>5, <1>6, <1>7, <1>8, <1>9, Unattached, ThreadStep DEF tables


\* The steps that only look.
LEMMA LookTypes ==
    ASSUME TInv, UNCHANGED <<tables, rooms, room, ing, live, apart, faults>>
    PROVE  TableTypes' /\ ObjectTypes' /\ HistoryTypes'
BY TypeParts DEF TInv, tables, TableTypes, ObjectTypes, HistoryTypes

LEMMA TestEgressTypes ==
    ASSUME TInv, NEW e \in Subscribers, TestEgress(e)
    PROVE  TInv'
<1> /\ e \in Threads /\ e \in Elements /\ loc[e] \in LocalsType /\ pc[e] = "egress"
    /\ loc[e].room # Nil
  BY Who, Locals DEF TestEgress, TInv, Points, Point, RoomLabels
<1> DEFINE label == IF room[loc[e].room].egressId = Nil THEN "join" ELSE "answer"
<1>1. pc' = [pc EXCEPT ![e] = label] /\ loc' = [loc EXCEPT ![e] = loc[e]]
  BY SameLocals DEF TestEgress, Goto
<1>2. label \in {"join", "answer"}
  OBVIOUS
<1> HIDE DEF label
<1>3. UNCHANGED <<tables, rooms, room, ing, live, id, at, apart, faults>>
  BY DEF TestEgress
<1>4. ElementTypes'
  BY <1>3, TypeParts DEF TInv, ElementTypes
<1>5. pc'[e] = label /\ loc'[e] = loc[e] => Point(e)'
  BY <1>2 DEF Point, SubscriberLabels, PublisherLabels, LeaveLabels, CallbackLabels,
     RoomLabels, ClosingLabels
<1>6. label \in Labels /\ label \notin {"joining", "addIngress"}
  BY <1>2 DEF Labels
<1> QED
  BY <1>1, <1>3, <1>4, <1>5, <1>6, LookTypes, Unattached, ThreadStep DEF tables

LEMMA SetEgressIdTypes ==
    ASSUME TInv, NEW e \in Subscribers, SetEgressId(e)
    PROVE  TInv'
<1> /\ e \in Threads /\ e \in Elements /\ loc[e] \in LocalsType /\ pc[e] = "joined"
    /\ loc[e].room \in Rooms /\ loc[e].room # Nil
  BY Who, Locals DEF SetEgressId, TInv, RoomLabels
<1> loc[e].id \in EgressIds
  BY DEF TInv, Points, Point
<1> DEFINE o == [room[loc[e].room] EXCEPT !.egressId = loc[e].id]
<1>1. pc' = [pc EXCEPT ![e] = "register"] /\ loc' = [loc EXCEPT ![e] = loc[e]]
  BY SameLocals DEF SetEgressId, Goto
<1>2. room' = [room EXCEPT ![loc[e].room] = o]
  BY DEF SetEgressId
<1>3. o \in RoomType
  BY RoomFields, TypeParts DEF TInv, ObjectTypes, Maybe
<1> HIDE DEF o
<1>4. UNCHANGED <<tables, rooms, ing, live, id, at, apart, faults>>
  BY DEF SetEgressId
<1>5. ObjectTypes'
  BY <1>2, <1>3, <1>4, TypeParts, SetsObject DEF TInv
<1>6. TableTypes' /\ ElementTypes' /\ HistoryTypes'
  BY <1>4, TypeParts DEF TInv, tables, TableTypes, ElementTypes, HistoryTypes
<1>7. pc'[e] = "register" /\ loc'[e] = loc[e] => Point(e)'
  BY DEF Point, SubscriberLabels, PublisherLabels, LeaveLabels, CallbackLabels,
     RoomLabels, ClosingLabels
<1> QED
  BY <1>1, <1>4, <1>5, <1>6, <1>7, Unattached, ThreadStep DEF tables, Labels

LEMMA AddEgressTypes ==
    ASSUME TInv, NEW e \in Subscribers, AddEgress(e)
    PROVE  TInv'
<1> /\ e \in Threads /\ e \in Elements /\ loc[e] \in LocalsType /\ pc[e] = "register"
    /\ loc[e].room \in Rooms /\ loc[e].room # Nil
  BY Who, Locals DEF AddEgress, TInv, RoomLabels
<1>1. pc' = [pc EXCEPT ![e] = "answer"] /\ loc' = [loc EXCEPT ![e] = loc[e]]
  BY SameLocals DEF AddEgress, Goto
<1>2. /\ egress' = [egress EXCEPT ![loc[e].id] = loc[e].room]
      /\ UNCHANGED <<services, ingress, rooms, room, ing, live, id, at, apart, faults>>
  BY DEF AddEgress
<1>3. TableTypes' /\ ObjectTypes' /\ ElementTypes' /\ HistoryTypes'
  BY <1>2, TypeParts DEF TInv, TableTypes, ObjectTypes, ElementTypes, HistoryTypes, Maybe
<1>4. pc'[e] = "answer" /\ loc'[e] = loc[e] => Point(e)'
  BY DEF Point, SubscriberLabels, PublisherLabels, LeaveLabels, CallbackLabels,
     RoomLabels, ClosingLabels
<1> QED
  BY <1>1, <1>2, <1>3, <1>4, Unattached, ThreadStep DEF Labels

LEMMA BlankFields ==
    /\ Blank.svc = Nil /\ Blank.room = Nil /\ Blank.id = Nil /\ Blank.ing = Nil
    /\ Blank.view = <<>> /\ Blank.array = "none" /\ Blank.next = 1
BY DEF Blank

\* Whoever has nothing to do has nothing to find.
LEMMA IdlePoint ==
    ASSUME NEW t \in Threads, pc'[t] = "idle"
    PROVE  Point(t)'
BY DEF Point, SubscriberLabels, PublisherLabels, LeaveLabels, CallbackLabels,
   RoomLabels, ClosingLabels

LEMMA AnswerTypes ==
    ASSUME TInv, NEW e \in Subscribers, Answer(e)
    PROVE  TInv'
<1> /\ e \in Threads /\ e \in Elements /\ pc[e] = "answer" /\ loc[e].room \in Rooms
  BY Who, Locals DEF Answer, TInv, RoomLabels
<1> DEFINE c == room[loc[e].room].egressId
           label == IF c = Nil THEN "idle" ELSE "subscribe"
           l == IF c = Nil THEN Blank ELSE [Blank EXCEPT !.id = c]
<1>1. c \in Maybe(EgressIds) /\ c \in Maybe(EgressIds \cup IngressIds)
  BY TypeParts DEF TInv, ObjectTypes, RoomType, Maybe
<1>2. /\ pc' = [pc EXCEPT ![e] = label] /\ loc' = [loc EXCEPT ![e] = l]
      /\ id' = [id EXCEPT ![e] = c]
  BY DEF Answer, Goto, Return
<1>3. label = "idle" \/ (label = "subscribe" /\ c \in EgressIds)
  BY <1>1 DEF Maybe
<1> HIDE DEF c, label
<1>4. l \in LocalsType
  BY <1>1, SetsId, BlankType
<1> HIDE DEF l
<1>5. UNCHANGED <<tables, rooms, room, ing, live, at, apart, faults>>
  BY DEF Answer
<1>6. ElementTypes' /\ id'[e] = c /\ \A f \in Elements : f # e => id'[f] = id[f]
  BY <1>1, <1>2, <1>5, TypeParts DEF TInv, ElementTypes
<1>7. pc'[e] = label => Point(e)'
  BY <1>3, <1>6, IdlePoint DEF Point, SubscriberLabels, PublisherLabels, LeaveLabels,
     CallbackLabels, RoomLabels, ClosingLabels
<1>8. label \in Labels /\ label \notin {"joining", "addIngress"}
  BY <1>3 DEF Labels
<1> QED
  BY <1>2, <1>4, <1>5, <1>6, <1>7, <1>8, LookTypes, Unattached, ThreadStep DEF tables

LEMMA SubscribeTypes ==
    ASSUME TInv, NEW e \in Subscribers, Subscribe(e)
    PROVE  TInv'
<1> /\ e \in Threads /\ e \in Elements /\ loc[e] \in LocalsType /\ pc[e] = "subscribe"
    /\ id[e] \in EgressIds
  BY Who, Locals DEF Subscribe, TInv, Points, Point
<1> DEFINE r == egress[id[e]]
           label == IF r = Nil THEN "idle" ELSE "attach"
           l == IF r = Nil THEN Blank ELSE [loc[e] EXCEPT !.room = r]
<1>1. r \in Maybe(Rooms)
  BY TypeParts DEF TInv, TableTypes
<1>2. /\ pc' = [pc EXCEPT ![e] = label] /\ loc' = [loc EXCEPT ![e] = l]
      /\ id' = IF r = Nil THEN [id EXCEPT ![e] = Nil] ELSE id
  BY DEF Subscribe, Goto, Return
<1>3. label = "idle" \/ (label = "attach" /\ r # Nil)
  OBVIOUS
<1>4. l \in LocalsType /\ (r # Nil => l.room = r)
  BY <1>1, SetsRoom, BlankType
<1>5. UNCHANGED <<tables, rooms, room, ing, live, at, apart, faults>>
  BY DEF Subscribe
<1>6. ElementTypes' /\ (r # Nil => id'[e] = id[e]) /\ \A f \in Elements : f # e => id'[f] = id[f]
  BY <1>2, <1>5, TypeParts DEF TInv, ElementTypes, Maybe
<1> HIDE DEF r, label, l
<1>7. pc'[e] = label /\ loc'[e] = l => Point(e)'
  BY <1>3, <1>4, <1>6, IdlePoint DEF Point, SubscriberLabels, PublisherLabels, LeaveLabels,
     CallbackLabels, RoomLabels, ClosingLabels
<1>8. label \in Labels /\ label \notin {"joining", "addIngress"}
  BY <1>3 DEF Labels
<1> QED
  BY <1>2, <1>4, <1>5, <1>6, <1>7, <1>8, LookTypes, Unattached, ThreadStep DEF tables


\* Steps that leave the elements as they are, of a thread that is under way.
LEMMA BusyStep ==
    ASSUME TInv, NEW t \in Threads, pc[t] # "idle",
           NEW label \in Labels, NEW l \in LocalsType,
           pc' = [pc EXCEPT ![t] = label], loc' = [loc EXCEPT ![t] = l],
           TableTypes', ObjectTypes', HistoryTypes',
           id' = id, at' = at, live' = live, label \notin {"joining", "addIngress"},
           \A x \in IngressIds : ingress'[x] \in {ingress[x], Nil},
           \A i \in Ingresses : ing'[i].room = ing[i].room,
           pc'[t] = label /\ loc'[t] = l => Point(t)'
    PROVE  TInv'
<1>1. ElementTypes'
  BY TypeParts DEF TInv, ElementTypes
<1>2. t \in Elements => at'[t] = Nil
  BY Unattached
<1> QED
  BY <1>1, <1>2, ThreadStep

LEMMA GetEgressTypes ==
    ASSUME TInv, NEW t \in Threads, GetEgress(t)
    PROVE  TInv'
<1> /\ loc[t] \in LocalsType /\ pc[t] = "leave" /\ loc[t].id \in EgressIds
    /\ t \in Subscribers \cup EgressIds
  BY Locals DEF GetEgress, TInv, Points, Point, LeaveLabels
<1> DEFINE r == egress[loc[t].id]
           label == IF r = Nil THEN "idle" ELSE "lock"
           l == IF r = Nil THEN Blank ELSE [loc[t] EXCEPT !.room = r]
<1>1. r \in Maybe(Rooms)
  BY TypeParts DEF TInv, TableTypes
<1>2. pc' = [pc EXCEPT ![t] = label] /\ loc' = [loc EXCEPT ![t] = l]
  BY DEF GetEgress, Goto, Return
<1>3. label = "idle" \/ (label = "lock" /\ r # Nil)
  OBVIOUS
<1>4. l \in LocalsType /\ (r # Nil => l.room = r)
  BY <1>1, SetsRoom, BlankType
<1> HIDE DEF r, label, l
<1>5. UNCHANGED <<tables, rooms, room, ing, live, id, at, apart, faults>>
  BY DEF GetEgress
<1>6. pc'[t] = label /\ loc'[t] = l => Point(t)'
  BY <1>3, <1>4, IdlePoint DEF Point, SubscriberLabels, PublisherLabels, LeaveLabels,
     CallbackLabels, RoomLabels, ClosingLabels
<1>7. label \in Labels /\ label \notin {"joining", "addIngress"}
  BY <1>3 DEF Labels
<1> QED
  BY <1>2, <1>4, <1>5, <1>6, <1>7, LookTypes, BusyStep DEF tables

LEMMA LeaveEgressTypes ==
    ASSUME TInv, NEW t \in Threads, LeaveEgress(t)
    PROVE  TInv'
<1> /\ loc[t] \in LocalsType /\ pc[t] = "lock" /\ loc[t].room \in Rooms /\ loc[t].room # Nil
    /\ t \in Subscribers \cup EgressIds
  BY Locals DEF LeaveEgress, TInv, Points, Point, LeaveLabels, RoomLabels
<1> DEFINE r == loc[t].room
<1>1. UNCHANGED <<services, ingress, rooms, ing, live, id, at, apart, faults>>
  BY DEF LeaveEgress
<1>2. CASE Return(t) /\ UNCHANGED <<room, egress>>
  <2>1. pc' = [pc EXCEPT ![t] = "idle"] /\ loc' = [loc EXCEPT ![t] = Blank]
    BY <1>2 DEF Return, Goto
  <2> QED
    BY <1>1, <1>2, <2>1, LookTypes, IdlePoint, BlankType, BusyStep DEF tables, Labels
<1>3. CASE /\ Goto(t, "close") /\ UNCHANGED loc
           /\ room' = [room EXCEPT ![r].lock = t, ![r].egressId = Nil]
           /\ egress' = [x \in EgressIds |-> IF x = room[r].egressId THEN Nil ELSE egress[x]]
  <2> DEFINE o == [room[r] EXCEPT !.lock = t]
             q == [o EXCEPT !.egressId = Nil]
  <2>1. pc' = [pc EXCEPT ![t] = "close"] /\ loc' = [loc EXCEPT ![t] = loc[t]]
    BY <1>3, SameLocals DEF Goto
  <2>2. room' = [room EXCEPT ![r] = q]
    BY <1>3
  <2>3. o \in RoomType
    BY RoomFields, TypeParts DEF TInv, ObjectTypes, Maybe
  <2> HIDE DEF o
  <2>4. q \in RoomType
    BY <2>3, RoomFields DEF Maybe
  <2> HIDE DEF q
  <2>5. ObjectTypes'
    BY <1>1, <2>2, <2>4, TypeParts, SetsObject DEF TInv
  <2>6. TableTypes' /\ HistoryTypes'
    BY <1>1, <1>3, TypeParts DEF TInv, TableTypes, HistoryTypes, Maybe
  <2>7. pc'[t] = "close" /\ loc'[t] = loc[t] => Point(t)'
    BY DEF Point, SubscriberLabels, PublisherLabels, LeaveLabels, CallbackLabels,
       RoomLabels, ClosingLabels
  <2> QED
    BY <1>1, <2>1, <2>5, <2>6, <2>7, BusyStep DEF Labels
<1> QED
  BY <1>2, <1>3 DEF LeaveEgress

LEMMA UnlockedType ==
    ASSUME NEW t, NEW o \in RoomType
    PROVE  Unlocked(t, o) \in RoomType
<1>1. (IF o.lock = t THEN Nil ELSE o.lock) \in Maybe(Threads)
  BY DEF RoomType, Maybe
<1> QED
  BY <1>1, RoomFields DEF Unlocked

LEMMA UnlocksObject ==
    ASSUME TInv, NEW t \in Threads, NEW r \in Rooms,
           room' = [room EXCEPT ![r] = Unlocked(t, room[r])], UNCHANGED <<ing, live>>
    PROVE  ObjectTypes'
<1>1. room[r] \in RoomType
  BY TypeParts DEF TInv, ObjectTypes
<1> QED
  BY <1>1, TypeParts, UnlockedType, SetsObject DEF TInv

LEMMA DeleteRoomTypes ==
    ASSUME TInv, NEW t \in Threads, DeleteRoom(t)
    PROVE  TInv'
<1> loc[t] \in LocalsType /\ pc[t] = "deleteRoom" /\ loc[t].room \in Rooms /\ loc[t].room # Nil
  BY Locals DEF DeleteRoom, TInv, Points, Point, RoomLabels, ClosingLabels
<1> DEFINE o == room[loc[t].room]
<1>1. pc' = [pc EXCEPT ![t] = "testService"] /\ loc' = [loc EXCEPT ![t] = loc[t]]
  BY SameLocals DEF DeleteRoom, Goto
<1>2. rooms' = [rooms EXCEPT ![o.service][o.name] = Nil]
  BY DEF DeleteRoom
<1> HIDE DEF o
<1>3. UNCHANGED <<tables, room, ing, live, id, at, loc, apart, faults>>
  BY DEF DeleteRoom
<1>4. rooms' \in [Services -> [Names -> Maybe(Rooms)]]
  BY <1>2, TypeParts DEF TInv, TableTypes, Maybe
<1>5. TableTypes' /\ ObjectTypes' /\ HistoryTypes'
  BY <1>3, <1>4, TypeParts DEF TInv, tables, TableTypes, ObjectTypes, HistoryTypes
<1>6. pc'[t] = "testService" /\ loc'[t] = loc[t] => Point(t)'
  BY DEF Point, SubscriberLabels, PublisherLabels, LeaveLabels, CallbackLabels,
     RoomLabels, ClosingLabels
<1> QED
  BY <1>1, <1>3, <1>5, <1>6, BusyStep DEF Labels, tables

LEMMA TestServiceTypes ==
    ASSUME TInv, NEW t \in Threads, TestService(t)
    PROVE  TInv'
<1> loc[t] \in LocalsType /\ pc[t] = "testService" /\ loc[t].room \in Rooms /\ loc[t].room # Nil
  BY Locals DEF TestService, TInv, Points, Point, RoomLabels, ClosingLabels
<1>1. UNCHANGED <<tables, rooms, ing, live, id, at, apart, faults>>
  BY DEF TestService
<1>2. CASE Goto(t, "deleteService") /\ UNCHANGED <<room, loc>>
  <2>1. pc' = [pc EXCEPT ![t] = "deleteService"] /\ loc' = [loc EXCEPT ![t] = loc[t]]
    BY <1>2, SameLocals DEF Goto
  <2>2. pc'[t] = "deleteService" /\ loc'[t] = loc[t] => Point(t)'
    BY DEF Point, SubscriberLabels, PublisherLabels, LeaveLabels, CallbackLabels,
       RoomLabels, ClosingLabels
  <2> QED
    BY <1>1, <1>2, <2>1, <2>2, LookTypes, BusyStep DEF tables, Labels
<1>3. CASE Return(t) /\ room' = [room EXCEPT ![loc[t].room] = Unlocked(t, @)]
  <2>1. pc' = [pc EXCEPT ![t] = "idle"] /\ loc' = [loc EXCEPT ![t] = Blank]
    BY <1>3 DEF Return, Goto
  <2>2. ObjectTypes'
    BY <1>1, <1>3, UnlocksObject
  <2>3. TableTypes' /\ HistoryTypes'
    BY <1>1, TypeParts DEF TInv, tables, TableTypes, HistoryTypes
  <2> QED
    BY <1>1, <2>1, <2>2, <2>3, IdlePoint, BlankType, BusyStep DEF tables, Labels
<1> QED
  BY <1>2, <1>3 DEF TestService

LEMMA DeleteServiceTypes ==
    ASSUME TInv, NEW t \in Threads, DeleteService(t)
    PROVE  TInv'
<1> pc[t] = "deleteService" /\ loc[t].room \in Rooms
  BY Locals DEF DeleteService, RoomLabels, ClosingLabels
<1>1. /\ UNCHANGED <<egress, ingress, rooms, ing, live, id, at, apart, faults>>
      /\ services' = Nil /\ room' = [room EXCEPT ![loc[t].room] = Unlocked(t, @)]
  BY DEF DeleteService
<1>2. pc' = [pc EXCEPT ![t] = "idle"] /\ loc' = [loc EXCEPT ![t] = Blank]
  BY DEF DeleteService, Return, Goto
<1>3. ObjectTypes'
  BY <1>1, UnlocksObject
<1>4. TableTypes' /\ HistoryTypes'
  BY <1>1, TypeParts DEF TInv, TableTypes, HistoryTypes, Maybe
<1> QED
  BY <1>1, <1>2, <1>3, <1>4, IdlePoint, BlankType, BusyStep DEF Labels

LEMMA RangingType ==
    ASSUME NEW l \in LocalsType, TypeOK, NEW r \in Rooms
    PROVE  /\ Ranging(l, r) \in LocalsType
           /\ Ranging(l, r).room = l.room /\ Ranging(l, r).id = l.id
<1> DEFINE s == room[r].subs
           a == IF s = <<>> THEN "none" ELSE "shared"
<1>1. s \in Seq(Subscribers) /\ a \in {"none", "shared", "moved", "dropped"}
  BY DEF TypeOK, RoomType
<1>2. Ranging(l, r) = [l EXCEPT !.view = s, !.next = 1, !.array = a]
  BY DEF Ranging
<1> HIDE DEF s, a
<1>3. /\ [l EXCEPT !.view = s] \in LocalsType
      /\ [l EXCEPT !.view = s].room = l.room /\ [l EXCEPT !.view = s].id = l.id
  BY <1>1 DEF LocalsType
<1>4. ASSUME NEW m \in LocalsType
      PROVE  /\ [m EXCEPT !.next = 1, !.array = a] \in LocalsType
             /\ [m EXCEPT !.next = 1, !.array = a].room = m.room
             /\ [m EXCEPT !.next = 1, !.array = a].id = m.id
  BY <1>1 DEF LocalsType
<1> QED
  BY <1>2, <1>3, <1>4

LEMMA LkDisconnectedTypes ==
    ASSUME TInv, NEW c \in EgressIds, LkDisconnected(c)
    PROVE  TInv'
<1> /\ c \in Threads /\ loc[c] \in LocalsType /\ pc[c] = "dropped"
    /\ loc[c].room \in Rooms /\ loc[c].room # Nil
  BY Who, Locals DEF LkDisconnected, TInv, RoomLabels, CallbackLabels
<1> DEFINE r == loc[c].room
           m == [loc[c] EXCEPT !.id = room[r].egressId]
           l == Ranging(m, r)
<1>1. m \in LocalsType /\ m.room = r /\ m.id \in Maybe(EgressIds)
  <2>1. /\ room[r].egressId \in Maybe(EgressIds \cup IngressIds)
        /\ room[r].egressId \in Maybe(EgressIds)
    BY DEF TInv, TypeOK, RoomType, Maybe
  <2> QED
    BY <2>1, SetsId
<1>2. pc' = [pc EXCEPT ![c] = "shed"] /\ loc' = [loc EXCEPT ![c] = l]
  BY DEF LkDisconnected, Goto
<1> HIDE DEF m
<1>3. l \in LocalsType /\ l.room = r /\ l.id \in Maybe(EgressIds)
  BY <1>1, RangingType DEF TInv
<1> HIDE DEF l
<1>4. UNCHANGED <<tables, rooms, room, ing, live, id, at, apart, faults>>
  BY DEF LkDisconnected
<1>5. pc'[c] = "shed" /\ loc'[c] = l => Point(c)'
  BY <1>3 DEF Point, SubscriberLabels, PublisherLabels, LeaveLabels, CallbackLabels,
     RoomLabels, ClosingLabels
<1> QED
  BY <1>2, <1>3, <1>4, <1>5, LookTypes, BusyStep DEF tables, Labels

LEMMA ShedTypes ==
    ASSUME TInv, NEW c \in EgressIds, Shed(c)
    PROVE  TInv'
<1> /\ c \in Threads /\ loc[c] \in LocalsType /\ pc[c] = "shed"
    /\ loc[c].room \in Rooms /\ loc[c].room # Nil
  BY Who, Locals DEF Shed, TInv, RoomLabels, CallbackLabels
<1> loc[c].id \in Maybe(EgressIds)
  BY DEF TInv, Points, Point
<1> DEFINE r == loc[c].room
<1>1. UNCHANGED <<tables, rooms, room, ing, live, id, at, apart, faults>>
  BY DEF Shed
<1>2. CASE /\ loc[c].next \in DOMAIN loc[c].view /\ Goto(c, "evict")
           /\ loc' = [loc EXCEPT ![c].subscriber = loc[c].view[loc[c].next], ![c].next = @ + 1]
  <2> DEFINE e == loc[c].view[loc[c].next]
             n == loc[c].next + 1
             l == [loc[c] EXCEPT !.subscriber = e, !.next = n]
  <2>1. e \in Maybe(Subscribers) /\ n \in Nat
    BY <1>2, LenProperties, ElementOfSeq DEF LocalsType, Maybe
  <2>2. pc' = [pc EXCEPT ![c] = "evict"] /\ loc' = [loc EXCEPT ![c] = l]
    BY <1>2 DEF Goto
  <2> HIDE DEF e, n
  <2>3. l \in LocalsType /\ l.room = r /\ l.id = loc[c].id
    BY <2>1 DEF LocalsType
  <2> HIDE DEF l
  <2>4. pc'[c] = "evict" /\ loc'[c] = l => Point(c)'
    BY <2>3 DEF Point, SubscriberLabels, PublisherLabels, LeaveLabels, CallbackLabels,
       RoomLabels, ClosingLabels
  <2> QED
    BY <1>1, <2>2, <2>3, <2>4, LookTypes, BusyStep DEF tables, Labels
<1>3. CASE Return(c)
  <2>1. pc' = [pc EXCEPT ![c] = "idle"] /\ loc' = [loc EXCEPT ![c] = Blank]
    BY <1>3 DEF Return, Goto
  <2> QED
    BY <1>1, <2>1, LookTypes, IdlePoint, BlankType, BusyStep DEF tables, Labels
<1>4. CASE /\ loc[c].id # Nil /\ Goto(c, "leave")
           /\ loc' = [loc EXCEPT ![c] = [Blank EXCEPT !.room = r, !.id = loc[c].id]]
  <2> DEFINE l == [Blank EXCEPT !.room = r, !.id = loc[c].id]
  <2>1. pc' = [pc EXCEPT ![c] = "leave"] /\ loc' = [loc EXCEPT ![c] = l]
    BY <1>4 DEF Goto
  <2>2. l \in LocalsType /\ l.room = r /\ l.id = loc[c].id
    BY BlankType, BlankFields DEF LocalsType, Maybe
  <2> HIDE DEF l
  <2>3. pc'[c] = "leave" /\ loc'[c] = l => Point(c)'
    BY <1>4, <2>2 DEF Point, SubscriberLabels, PublisherLabels, LeaveLabels, CallbackLabels,
       RoomLabels, ClosingLabels, Maybe
  <2> QED
    BY <1>1, <2>1, <2>2, <2>3, LookTypes, BusyStep DEF tables, Labels
<1>5. CASE loc' = [loc EXCEPT ![c] = Ranging(@, r)] /\ UNCHANGED pc
  <2>1. pc' = [pc EXCEPT ![c] = "shed"] /\ loc' = [loc EXCEPT ![c] = Ranging(loc[c], r)]
    BY <1>5 DEF TInv, TypeOK
  <2>2. /\ Ranging(loc[c], r) \in LocalsType
        /\ Ranging(loc[c], r).room = r /\ Ranging(loc[c], r).id = loc[c].id
    BY RangingType DEF TInv
  <2>3. pc'[c] = "shed" /\ loc'[c] = Ranging(loc[c], r) => Point(c)'
    BY <2>2 DEF Point, SubscriberLabels, PublisherLabels, LeaveLabels, CallbackLabels,
       RoomLabels, ClosingLabels
  <2> QED
    BY <1>1, <2>1, <2>2, <2>3, LookTypes, BusyStep DEF tables, Labels
<1> QED
  BY <1>2, <1>3, <1>4, <1>5 DEF Shed


LEMMA SlotName == \A e : Slot(e) \in {"main", "screen"}
BY DEF Slot

LEMMA GetIngressTypes ==
    ASSUME TInv, NEW e \in Publishers, GetIngressByParticipant(e)
    PROVE  TInv'
<1> /\ e \in Threads /\ e \in Elements /\ loc[e] \in LocalsType /\ pc[e] = "ingress"
    /\ loc[e].room \in Rooms /\ loc[e].room # Nil
  BY Who, Locals DEF GetIngressByParticipant, TInv, RoomLabels
<1> DEFINE x == Participant[e]
           known == x # Nil /\ room[loc[e].room].ingress[x] # Nil
           label == IF known THEN "publish" ELSE "joinIngress"
<1>1. x \in Maybe(GivenIds)
  BY ElementsAssumption
<1>2. known => x \in IngressIds
  BY <1>1 DEF Maybe, IngressIds
<1>3. /\ pc' = [pc EXCEPT ![e] = label] /\ loc' = [loc EXCEPT ![e] = loc[e]]
      /\ id' = IF known THEN [id EXCEPT ![e] = x] ELSE id
  BY SameLocals DEF GetIngressByParticipant, Goto
<1>4. (label = "publish" /\ known) \/ (label = "joinIngress" /\ ~known)
  OBVIOUS
<1> HIDE DEF x, known, label
<1>5. UNCHANGED <<tables, rooms, room, ing, live, at, apart, faults>>
  BY DEF GetIngressByParticipant
<1>6. ElementTypes' /\ (known => id'[e] = x) /\ \A f \in Elements : f # e => id'[f] = id[f]
  BY <1>2, <1>3, <1>5, TypeParts DEF TInv, ElementTypes, Maybe
<1>7. pc'[e] = label /\ loc'[e] = loc[e] => Point(e)'
  BY <1>2, <1>4, <1>6 DEF Point, SubscriberLabels, PublisherLabels, LeaveLabels,
     CallbackLabels, RoomLabels, ClosingLabels
<1>8. label \in Labels /\ label \notin {"joining", "addIngress"}
  BY <1>4 DEF Labels
<1> QED
  BY <1>3, <1>5, <1>6, <1>7, <1>8, LookTypes, Unattached, ThreadStep DEF tables

LEMMA NewIngressType ==
    ASSUME NEW x \in IngressIds, NEW r \in Rooms
    PROVE  NewIngress(x, r) \in IngressType /\ NewIngress(x, r).room = r
BY DEF NewIngress, IngressType, Maybe

\* The steps that make an ingress, or put it into the tables.
LEMMA MakesIngress ==
    ASSUME TInv, TypeOK', live' = live, NEW e \in Elements,
           \A u \in Threads : u # e => Stays(u),
           pc'[e] # "joining", Point(e)', Attached(e)', Housed'
    PROVE  TInv'
<1>1. Points'
  BY PointStill DEF TInv, Points, Stays
<1>2. \A f \in Elements : Attached(f)'
  BY AttachedStill, Who DEF TInv, Stays, Still
<1>3. Opened'
  <2>1. ASSUME NEW u \in Threads, pc'[u] = "joining"
        PROVE  Opening(u)'
    <3> DEFINE c == loc[u].id
    <3>1. Still(u) /\ pc[u] = "joining" /\ loc'[u].id = c
      BY <2>1 DEF Stays, Still
    <3>2. c \in EgressIds
      BY <3>1 DEF TInv, Points, Point
    <3>3. /\ c \notin live /\ pc[c] = "idle" /\ loc[c].room # Nil
          /\ \A v \in Threads : pc[v] = "joining" /\ loc[v].id = c => v = u
      BY <3>1 DEF TInv, Opened, Opening
    <3>4. c \in Threads /\ Still(c)
      BY <3>2, Who DEF Stays
    <3>5. pc'[c] = "idle" /\ loc'[c].room # Nil
      BY <3>3, <3>4 DEF Still
    <3>6. ASSUME NEW v \in Threads, pc'[v] = "joining", loc'[v].id = c
          PROVE  v = u
      BY <3>3, <3>6 DEF Stays, Still
    <3> HIDE DEF c
    <3> QED
      BY <3>1, <3>3, <3>5, <3>6 DEF Opening
  <2>2. ASSUME NEW c \in live'
        PROVE  pc'[c] = "idle" /\ loc'[c].room # Nil
    <3>1. c \in EgressIds /\ c \in Threads /\ c \in live /\ c # e
      BY Who DEF TInv, TypeOK
    <3> QED
      BY <3>1 DEF TInv, Opened, Stays, Still
  <2> QED
    BY <2>1, <2>2 DEF Opened, Opening
<1> QED
  BY <1>1, <1>2, <1>3 DEF TInv

\* An ingress object gets its room when it is made, and is in no table before.
LEMMA JoinIngressTypes ==
    ASSUME TInv, NEW e \in Publishers, JoinIngress(e)
    PROVE  TInv'
<1> /\ e \in Threads /\ e \in Elements /\ loc[e] \in LocalsType /\ pc[e] = "joinIngress"
    /\ loc[e].room \in Rooms /\ loc[e].room # Nil
  BY Who, Locals DEF JoinIngress, TInv, RoomLabels
<1>1. UNCHANGED <<tables, rooms, room, live, id, at, apart, faults>>
  BY DEF JoinIngress
<1>2. CASE Return(e) /\ UNCHANGED ing
  <2>1. pc' = [pc EXCEPT ![e] = "idle"] /\ loc' = [loc EXCEPT ![e] = Blank]
    BY <1>2 DEF Return, Goto
  <2> QED
    BY <1>1, <1>2, <2>1, LookTypes, IdlePoint, BlankType, BusyStep DEF tables, Labels
<1>3. ASSUME NEW i \in Ingresses, NEW x \in IngressIds, ~UsedIngress(i),
             ing' = [ing EXCEPT ![i] = NewIngress(x, loc[e].room)],
             loc' = [loc EXCEPT ![e].ing = i, ![e].id = x],
             Goto(e, "addIngress")
      PROVE  TInv'
  <2> DEFINE l == [loc[e] EXCEPT !.ing = i, !.id = x]
             o == NewIngress(x, loc[e].room)
  <2>1. pc' = [pc EXCEPT ![e] = "addIngress"] /\ loc' = [loc EXCEPT ![e] = l]
    BY <1>3 DEF Goto, TInv, TypeOK
  <2>2. l \in LocalsType /\ l.room = loc[e].room /\ l.ing = i /\ l.id = x
    BY DEF LocalsType, Maybe
  <2>3. o \in IngressType /\ o.room = loc[e].room
    BY NewIngressType
  <2> HIDE DEF l, o
  <2>4. ThreadTypes' /\ pc'[e] = "addIngress" /\ loc'[e] = l /\ \A u \in Threads : u # e => Still(u)
    BY <2>1, <2>2, TypeParts, MovesThread DEF TInv, Labels
  <2>5. /\ ing' \in [Ingresses -> IngressType]
        /\ ing'[i].room = loc[e].room /\ \A j \in Ingresses : j # i => ing'[j] = ing[j]
    <3>1. ing \in [Ingresses -> IngressType] /\ ing' = [ing EXCEPT ![i] = o]
      BY <1>3, TypeParts DEF TInv, ObjectTypes, o
    <3> QED
      BY <2>3, <3>1
  <2>6. TypeOK'
    BY <1>1, <2>4, <2>5, TypeParts, TypePartsNext
       DEF TInv, tables, TableTypes, ObjectTypes, ElementTypes, HistoryTypes
  <2>7. Point(e)'
    BY <2>2, <2>4, Who DEF Point, SubscriberLabels, PublisherLabels, LeaveLabels, CallbackLabels,
       RoomLabels, ClosingLabels
  <2>8. Attached(e)' /\ \A u \in Threads : u # e => Stays(u)
    BY <1>1, <2>4, Unattached DEF Attached, Stays
  <2>9. Housed'
    <3>1. ASSUME NEW y \in IngressIds, ingress'[y] # Nil
          PROVE  ing'[ingress'[y]].room # Nil
      <4>1. ingress'[y] = ingress[y] /\ ingress[y] \in Ingresses
        BY <1>1, <3>1 DEF tables, TInv, TypeOK, Maybe
      <4>2. ingress[y] # i
        BY <1>3 DEF UsedIngress, InTable
      <4> QED
        BY <2>5, <3>1, <4>1, <4>2 DEF TInv, Housed
    <3>2. ASSUME NEW u \in Threads, pc'[u] = "addIngress"
          PROVE  ing'[loc'[u].ing].room # Nil
      <4>1. CASE u = e
        BY <2>2, <2>4, <2>5, <4>1
      <4>2. CASE u # e
        <5>1. pc[u] = "addIngress" /\ loc'[u].ing = loc[u].ing /\ loc[u].ing \in Ingresses
          BY <2>4, <3>2, <4>2, Locals DEF Still
        <5>2. loc[u].ing # i
          BY <1>3 DEF UsedIngress, Located
        <5> QED
          BY <2>5, <5>1, <5>2 DEF TInv, Housed
      <4> QED
        BY <4>1, <4>2
    <3> QED
      BY <3>1, <3>2 DEF Housed
  <2> QED
    BY <1>1, <2>4, <2>6, <2>7, <2>8, <2>9, MakesIngress DEF Stays
<1> QED
  BY <1>2, <1>3 DEF JoinIngress

LEMMA AddIngressTypes ==
    ASSUME TInv, NEW e \in Publishers, AddIngress(e)
    PROVE  TInv'
<1> /\ e \in Threads /\ e \in Elements /\ loc[e] \in LocalsType /\ pc[e] = "addIngress"
    /\ loc[e].room \in Rooms /\ loc[e].room # Nil /\ loc[e].ing \in Ingresses
  BY Who, Locals DEF AddIngress, TInv, RoomLabels
<1> DEFINE x == loc[e].id
           i == loc[e].ing
           o == [room[loc[e].room] EXCEPT !.ingress = [@ EXCEPT ![x] = i]]
<1>1. x \in IngressIds /\ ing[i].room # Nil
  BY DEF TInv, Points, Point, Housed
<1>2. pc' = [pc EXCEPT ![e] = "publish"] /\ loc' = [loc EXCEPT ![e] = loc[e]]
  BY SameLocals DEF AddIngress, Goto
<1>3. /\ room' = [room EXCEPT ![loc[e].room] = o]
      /\ ingress' = [ingress EXCEPT ![x] = i] /\ id' = [id EXCEPT ![e] = x]
      /\ UNCHANGED <<services, egress, rooms, ing, live, at, loc, apart, faults>>
  BY DEF AddIngress
<1>4. o \in RoomType
  BY <1>1, RoomFields, TypeParts DEF TInv, ObjectTypes, Maybe
<1> HIDE DEF o
<1>5. ThreadTypes' /\ pc'[e] = "publish" /\ loc'[e] = loc[e] /\ \A u \in Threads : u # e => Still(u)
  BY <1>2, TypeParts, MovesThread DEF TInv, Labels
<1>6. ObjectTypes'
  BY <1>3, <1>4, TypeParts, SetsObject DEF TInv
<1>7. TableTypes' /\ HistoryTypes'
  BY <1>1, <1>3, TypeParts DEF TInv, TableTypes, HistoryTypes, Maybe
<1>8. ElementTypes' /\ id'[e] = x /\ \A f \in Elements : f # e => id'[f] = id[f]
  BY <1>1, <1>3, TypeParts DEF TInv, ElementTypes, Maybe
<1>9. TypeOK'
  BY <1>5, <1>6, <1>7, <1>8, TypePartsNext
<1>10. Point(e)'
  BY <1>1, <1>5, <1>8 DEF Point, SubscriberLabels, PublisherLabels, LeaveLabels,
     CallbackLabels, RoomLabels, ClosingLabels
<1>11. Attached(e)'
  BY <1>3, Unattached DEF Attached
<1>12. Housed'
  <2>1. ASSUME NEW y \in IngressIds, ingress'[y] # Nil
        PROVE  ing'[ingress'[y]].room # Nil
    <3>1. ingress'[y] = IF y = x THEN i ELSE ingress[y]
      BY <1>1, <1>3, TypeParts DEF TInv, TableTypes
    <3> QED
      BY <1>1, <1>3, <2>1, <3>1 DEF TInv, Housed
  <2>2. ASSUME NEW u \in Threads, pc'[u] = "addIngress"
        PROVE  ing'[loc'[u].ing].room # Nil
    <3>1. u # e /\ pc[u] = "addIngress"
      BY <1>5, <2>2 DEF Still
    <3> QED
      BY <1>3, <3>1 DEF TInv, Housed
  <2> QED
    BY <2>1, <2>2 DEF Housed
<1> QED
  BY <1>3, <1>5, <1>8, <1>9, <1>10, <1>11, <1>12, MakesIngress DEF Stays

LEMMA TestPublishTypes ==
    ASSUME TInv, NEW e \in Publishers, TestPublish(e)
    PROVE  TInv'
<1> /\ e \in Threads /\ e \in Elements /\ pc[e] = "publish" /\ id[e] \in IngressIds
  BY Who DEF TestPublish, TInv, Points, Point
<1> DEFINE i == ingress[id[e]]
           no == i = Nil \/ (i # Nil /\ ing[i][Slot(e)] # Nil)
           label == IF no THEN "idle" ELSE "create"
           l == IF no THEN Blank ELSE [Blank EXCEPT !.ing = i]
<1>1. i \in Maybe(Ingresses)
  BY TypeParts DEF TInv, TableTypes
<1>2. /\ pc' = [pc EXCEPT ![e] = label] /\ loc' = [loc EXCEPT ![e] = l]
      /\ id' = IF no THEN [id EXCEPT ![e] = Nil] ELSE id
  BY DEF TestPublish, Goto, Return
<1>3. (label = "idle" /\ no) \/ (label = "create" /\ i # Nil /\ ~no)
  OBVIOUS
<1>4. l \in LocalsType /\ (~no => l.ing = i)
  BY <1>1, SetsIng, BlankType
<1>5. UNCHANGED <<tables, rooms, room, ing, live, at, apart, faults>>
  BY DEF TestPublish
<1> HIDE DEF no, label, l
<1>6. ElementTypes' /\ (~no => id'[e] = id[e]) /\ \A f \in Elements : f # e => id'[f] = id[f]
  BY <1>2, <1>5, TypeParts DEF TInv, ElementTypes, Maybe
<1> HIDE DEF i
<1>7. pc'[e] = label /\ loc'[e] = l => Point(e)'
  BY <1>3, <1>4, <1>6, IdlePoint DEF Point, SubscriberLabels, PublisherLabels, LeaveLabels,
     CallbackLabels, RoomLabels, ClosingLabels
<1>8. label \in Labels /\ label \notin {"joining", "addIngress"}
  BY <1>3 DEF Labels
<1> QED
  BY <1>2, <1>4, <1>5, <1>6, <1>7, <1>8, LookTypes, Unattached, ThreadStep DEF tables

\* A slot of an ingress is written.
LEMMA SlotSet ==
    ASSUME TInv, NEW i \in Ingresses, NEW e, NEW p \in Maybe(Publishers),
           ing' = [ing EXCEPT ![i][Slot(e)] = p]
    PROVE  /\ ing' \in [Ingresses -> IngressType]
           /\ \A j \in Ingresses : ing'[j].room = ing[j].room
<1>1. ing \in [Ingresses -> IngressType]
  BY TypeParts DEF TInv, ObjectTypes
<1> DEFINE o == [ing[i] EXCEPT ![Slot(e)] = p]
<1>2. o \in IngressType /\ o.room = ing[i].room
  <2>1. CASE Slot(e) = "main"
    <3>1. o = [ing[i] EXCEPT !.main = p]
      BY <2>1
    <3> QED
      BY <1>1, <3>1 DEF IngressType
  <2>2. CASE Slot(e) = "screen"
    <3>1. o = [ing[i] EXCEPT !.screen = p]
      BY <2>2
    <3> QED
      BY <1>1, <3>1 DEF IngressType
  <2> QED
    BY <2>1, <2>2, SlotName
<1>3. ing' = [ing EXCEPT ![i] = o]
  OBVIOUS
<1> HIDE DEF o
<1> QED
  BY <1>1, <1>2, <1>3

LEMMA CreatePublisherTypes ==
    ASSUME TInv, NEW e \in Publishers, CreatePublisher(e)
    PROVE  TInv'
<1> /\ e \in Threads /\ e \in Elements /\ pc[e] = "create" /\ loc[e].ing \in Ingresses
    /\ id[e] \in IngressIds
  BY Who, Locals DEF CreatePublisher, TInv, Points, Point
<1>1. /\ pc' = [pc EXCEPT ![e] = "idle"] /\ loc' = [loc EXCEPT ![e] = Blank]
      /\ ing' = [ing EXCEPT ![loc[e].ing][Slot(e)] = e]
      /\ at' = [at EXCEPT ![e] = loc[e].ing]
      /\ UNCHANGED <<tables, rooms, room, live, id, apart, faults>>
  BY DEF CreatePublisher, Return, Goto
<1>2. /\ ing' \in [Ingresses -> IngressType]
      /\ \A j \in Ingresses : ing'[j].room = ing[j].room
  BY <1>1, SlotSet DEF Maybe
<1>3. TableTypes' /\ ObjectTypes' /\ HistoryTypes'
  BY <1>1, <1>2, TypeParts DEF TInv, tables, TableTypes, ObjectTypes, HistoryTypes
<1>4. ElementTypes' /\ at'[e] = loc[e].ing /\ \A f \in Elements : f # e => at'[f] = at[f]
  BY <1>1, TypeParts DEF TInv, ElementTypes, Maybe
<1>5. pc'[e] = "idle" => Attached(e)'
  BY <1>1, <1>4, Who DEF Attached
<1> QED
  BY <1>1, <1>2, <1>3, <1>4, <1>5, IdlePoint, BlankType, ThreadStep DEF tables, Labels

LEMMA UnpublishTypes ==
    ASSUME TInv, NEW e \in Publishers, Unpublish(e)
    PROVE  TInv'
<1> e \in Threads /\ e \in Elements /\ loc[e] \in LocalsType /\ at[e] # Nil
  BY Who, Locals DEF Unpublish, IsConnected
<1> at[e] \in Ingresses /\ id[e] \in IngressIds
  BY DEF TInv, Attached
<1> DEFINE l == [loc[e] EXCEPT !.id = id[e]]
<1>1. /\ pc' = [pc EXCEPT ![e] = "leaveIngress"] /\ loc' = [loc EXCEPT ![e] = l]
      /\ ing' = [ing EXCEPT ![at[e]][Slot(e)] = Nil]
      /\ at' = [at EXCEPT ![e] = Nil] /\ id' = [id EXCEPT ![e] = Nil]
      /\ UNCHANGED <<tables, rooms, room, live, faults>> /\ apart' \in BOOLEAN
  BY DEF Unpublish, Begin, Goto
<1>2. l \in LocalsType /\ l.id = id[e]
  <2>1. id[e] \in Maybe(EgressIds \cup IngressIds)
    BY DEF Maybe
  <2> QED
    BY <2>1, SetsId
<1> HIDE DEF l
<1>3. /\ ing' \in [Ingresses -> IngressType]
      /\ \A j \in Ingresses : ing'[j].room = ing[j].room
  BY <1>1, SlotSet DEF Maybe
<1>4. TableTypes' /\ ObjectTypes' /\ HistoryTypes'
  BY <1>1, <1>3, TypeParts DEF TInv, tables, TableTypes, ObjectTypes, HistoryTypes
<1>5. /\ ElementTypes' /\ at'[e] = Nil
      /\ \A f \in Elements : f # e => at'[f] = at[f] /\ id'[f] = id[f]
  BY <1>1, TypeParts DEF TInv, ElementTypes, Maybe
<1>6. pc'[e] = "leaveIngress" /\ loc'[e] = l => Point(e)'
  BY <1>2 DEF Point, SubscriberLabels, PublisherLabels, LeaveLabels, CallbackLabels,
     RoomLabels, ClosingLabels
<1> QED
  BY <1>1, <1>2, <1>3, <1>4, <1>5, <1>6, ThreadStep DEF tables, Labels

\* A removal that fails is counted, up to the bound.
LEMMA RemovalType ==
    ASSUME TInv, NEW done, Removal(done), apart' = apart
    PROVE  HistoryTypes'
BY BoundsAssumption, TypeParts DEF TInv, HistoryTypes, Removal, Fault

LEMMA LeaveIngressTypes ==
    ASSUME TInv, NEW e \in Publishers, LeaveIngress(e)
    PROVE  TInv'
<1> /\ e \in Threads /\ e \in Elements /\ loc[e] \in LocalsType /\ pc[e] = "leaveIngress"
    /\ loc[e].id \in IngressIds
  BY Who, Locals DEF LeaveIngress, TInv, Points, Point
<1> DEFINE i == ingress[loc[e].id]
<1>1. UNCHANGED <<tables, rooms, room, ing, live, id, at, apart>>
  BY DEF LeaveIngress
<1>2. TableTypes' /\ ObjectTypes'
  BY <1>1, TypeParts DEF TInv, tables, TableTypes, ObjectTypes
<1>3. HistoryTypes'
  BY <1>1, RemovalType, TypeParts DEF LeaveIngress, TInv, HistoryTypes
<1>4. CASE Return(e)
  <2>1. pc' = [pc EXCEPT ![e] = "idle"] /\ loc' = [loc EXCEPT ![e] = Blank]
    BY <1>4 DEF Return, Goto
  <2> QED
    BY <1>1, <1>2, <1>3, <2>1, IdlePoint, BlankType, BusyStep DEF tables, Labels
<1>5. CASE /\ i # Nil /\ Goto(e, "deleteIngress")
           /\ loc' = [loc EXCEPT ![e].ing = i, ![e].room = ing[i].room]
  <2> DEFINE l == [loc[e] EXCEPT !.ing = i, !.room = ing[i].room]
  <2>1. pc' = [pc EXCEPT ![e] = "deleteIngress"] /\ loc' = [loc EXCEPT ![e] = l]
    BY <1>5 DEF Goto, TInv, TypeOK
  <2>2. i \in Ingresses /\ ing[i].room \in Rooms /\ ing[i].room # Nil
    BY <1>5 DEF TInv, TypeOK, Housed, IngressType, Maybe
  <2> HIDE DEF i
  <2>3. l \in LocalsType /\ l.room = ing[i].room /\ l.id = loc[e].id
    BY <2>2 DEF LocalsType, Maybe
  <2> HIDE DEF l
  <2>4. pc'[e] = "deleteIngress" /\ loc'[e] = l => Point(e)'
    BY <2>2, <2>3 DEF Point, SubscriberLabels, PublisherLabels, LeaveLabels, CallbackLabels,
       RoomLabels, ClosingLabels
  <2> QED
    BY <1>1, <1>2, <1>3, <2>1, <2>3, <2>4, BusyStep DEF tables, Labels
<1> QED
  BY <1>4, <1>5 DEF LeaveIngress

LEMMA DeleteIngressTypes ==
    ASSUME TInv, NEW e \in Publishers, DeleteIngress(e)
    PROVE  TInv'
<1> /\ e \in Threads /\ e \in Elements /\ loc[e] \in LocalsType /\ pc[e] = "deleteIngress"
    /\ loc[e].room \in Rooms /\ loc[e].room # Nil
  BY Who, Locals DEF DeleteIngress, TInv, RoomLabels
<1> DEFINE x == loc[e].id
           o == [room[loc[e].room] EXCEPT !.ingress = [@ EXCEPT ![x] = Nil]]
           l == [loc[e] EXCEPT !.ing = Nil]
<1>1. x \in IngressIds
  BY DEF TInv, Points, Point
<1>2. /\ pc' = [pc EXCEPT ![e] = "testRoom"] /\ loc' = [loc EXCEPT ![e] = l]
      /\ room' = [room EXCEPT ![loc[e].room] = o]
      /\ ingress' = [ingress EXCEPT ![x] = Nil]
      /\ UNCHANGED <<services, egress, rooms, ing, live, id, at, apart, faults>>
  BY DEF DeleteIngress, Goto
<1>3. o \in RoomType
  BY <1>1, RoomFields, TypeParts DEF TInv, ObjectTypes, Maybe
<1>4. l \in LocalsType /\ l.room = loc[e].room
  BY SetsIng DEF Maybe
<1> HIDE DEF o, l
<1>5. ObjectTypes'
  BY <1>2, <1>3, TypeParts, SetsObject DEF TInv
<1>6. TableTypes' /\ HistoryTypes' /\ \A y \in IngressIds : ingress'[y] \in {ingress[y], Nil}
  BY <1>1, <1>2, TypeParts DEF TInv, TableTypes, HistoryTypes, Maybe
<1>7. pc'[e] = "testRoom" /\ loc'[e] = l => Point(e)'
  BY <1>4 DEF Point, SubscriberLabels, PublisherLabels, LeaveLabels, CallbackLabels,
     RoomLabels, ClosingLabels
<1> QED
  BY <1>2, <1>4, <1>5, <1>6, <1>7, BusyStep DEF Labels

LEMMA TestRoomTypes ==
    ASSUME TInv, NEW e \in Publishers, TestRoom(e)
    PROVE  TInv'
<1> /\ e \in Threads /\ e \in Elements /\ loc[e] \in LocalsType /\ pc[e] = "testRoom"
    /\ loc[e].room \in Rooms /\ loc[e].room # Nil
  BY Who, Locals DEF TestRoom, TInv, RoomLabels
<1>1. UNCHANGED <<tables, rooms, room, ing, live, id, at, apart, faults>>
  BY DEF TestRoom
<1>2. CASE Goto(e, "hangUp") /\ UNCHANGED loc
  <2>1. pc' = [pc EXCEPT ![e] = "hangUp"] /\ loc' = [loc EXCEPT ![e] = loc[e]]
    BY <1>2, SameLocals DEF Goto
  <2>2. pc'[e] = "hangUp" /\ loc'[e] = loc[e] => Point(e)'
    BY DEF Point, SubscriberLabels, PublisherLabels, LeaveLabels, CallbackLabels,
       RoomLabels, ClosingLabels
  <2> QED
    BY <1>1, <2>1, <2>2, LookTypes, BusyStep DEF tables, Labels
<1>3. CASE Return(e)
  <2>1. pc' = [pc EXCEPT ![e] = "idle"] /\ loc' = [loc EXCEPT ![e] = Blank]
    BY <1>3 DEF Return, Goto
  <2> QED
    BY <1>1, <2>1, LookTypes, IdlePoint, BlankType, BusyStep DEF tables, Labels
<1> QED
  BY <1>2, <1>3 DEF TestRoom


\* What a callback ranges over changes under it; where it is does not.
LEMMA AppendedType ==
    ASSUME NEW t \in Threads, loc[t] \in LocalsType, NEW r \in Rooms, NEW e \in Subscribers,
           NEW moves
    PROVE  LET l == Appended(t, r, e, moves)
           IN  /\ l \in LocalsType /\ l.svc = loc[t].svc /\ l.room = loc[t].room
               /\ l.id = loc[t].id /\ l.ing = loc[t].ing
<1> DEFINE k == Len(room[r].subs) + 1
           v == [loc[t].view EXCEPT ![k] = e]
<1>1. CASE Sees(t, r, k)
  <2>1. v \in Seq(Subscribers)
    BY <1>1, LenProperties, ExceptSeq DEF Sees, LocalsType
  <2>2. Appended(t, r, e, moves) = [loc[t] EXCEPT !.view = v]
    BY <1>1 DEF Appended
  <2> HIDE DEF v
  <2> QED
    BY <2>1, <2>2 DEF LocalsType
<1>2. CASE ~Sees(t, r, k) /\ Shares(t, r) /\ moves
  <2>1. Appended(t, r, e, moves) = [loc[t] EXCEPT !.array = "moved"]
    BY <1>2 DEF Appended
  <2> QED
    BY <2>1 DEF LocalsType
<1>3. CASE ~Sees(t, r, k) /\ ~(Shares(t, r) /\ moves)
  BY <1>3 DEF Appended, LocalsType
<1> QED
  BY <1>1, <1>2, <1>3

LEMMA RemovedType ==
    ASSUME NEW t \in Threads, loc[t] \in LocalsType, NEW r \in Rooms,
           room[r].subs \in Seq(Subscribers), NEW k \in DOMAIN room[r].subs
    PROVE  LET l == Removed(t, r, k)
           IN  /\ l \in LocalsType /\ l.svc = loc[t].svc /\ l.room = loc[t].room
               /\ l.id = loc[t].id /\ l.ing = loc[t].ing
<1> DEFINE s == room[r].subs
           w == loc[t].view
           v == [j \in DOMAIN w |-> IF j \in k..(Len(s) - 1) THEN s[j + 1] ELSE w[j]]
<1>1. CASE ~Shares(t, r)
  BY <1>1 DEF Removed, LocalsType
<1>2. CASE Shares(t, r) /\ Len(s) = 1
  <2>1. Removed(t, r, k) = [loc[t] EXCEPT !.array = "dropped"]
    BY <1>2 DEF Removed
  <2> QED
    BY <2>1 DEF LocalsType
<1>3. CASE Shares(t, r) /\ Len(s) # 1
  <2>1. w \in Seq(Subscribers)
    BY DEF LocalsType
  <2>2. Len(w) \in Nat /\ DOMAIN w = 1..Len(w) /\ \A j \in 1..Len(w) : w[j] \in Subscribers
    BY <2>1, LenProperties, ElementOfSeq
  <2>3. k \in Nat /\ 1 <= k /\ Len(s) \in Nat /\ \A j \in 1..Len(s) : s[j] \in Subscribers
    BY LenProperties, ElementOfSeq
  <2> DEFINE b == Len(s)
  <2>4. \A j \in k..(b - 1) : j + 1 \in 1..b
    BY <2>3
  <2>5. v \in [1..Len(w) -> Subscribers]
    <3>1. ASSUME NEW j \in 1..Len(w)
          PROVE  v[j] \in Subscribers
      BY <2>2, <2>3, <2>4
    <3> QED
      BY <2>2, <3>1
  <2>6. v \in Seq(Subscribers)
    BY <2>2, <2>5, SeqDef
  <2>7. Removed(t, r, k) = [loc[t] EXCEPT !.view = v]
    BY <1>3 DEF Removed
  <2> HIDE DEF v, w
  <2> QED
    BY <2>6, <2>7 DEF LocalsType
<1> QED
  BY <1>1, <1>2, <1>3

\* Subscribers come and go: the slice of one room changes.
LEMMA SetsSubs ==
    ASSUME TInv, NEW r \in Rooms, NEW s \in Seq(Subscribers),
           room' = [room EXCEPT ![r].subs = s], UNCHANGED <<ing, live>>
    PROVE  ObjectTypes'
<1>1. [room[r] EXCEPT !.subs = s] \in RoomType
  BY RoomFields, TypeParts DEF TInv, ObjectTypes
<1> QED
  BY <1>1, TypeParts, SetsObject DEF TInv

\* The locals of threads change, of which one moves.
LEMMA LocalsChange ==
    ASSUME TInv, NEW e \in Threads, NEW label \in Labels, pc' = [pc EXCEPT ![e] = label],
           DOMAIN loc' = Threads, loc' = [t \in Threads |-> loc'[t]],
           \A t \in Threads : loc'[t] \in LocalsType,
           \A t \in Threads : t # e => /\ loc'[t].svc = loc[t].svc /\ loc'[t].room = loc[t].room
                                       /\ loc'[t].id = loc[t].id /\ loc'[t].ing = loc[t].ing
    PROVE  ThreadTypes' /\ pc'[e] = label /\ \A u \in Threads : u # e => Still(u)
<1>1. pc \in [Threads -> Labels]
  BY TypeParts DEF TInv, ThreadTypes
<1>2. loc' \in [Threads -> LocalsType]
  OBVIOUS
<1> QED
  BY <1>1, <1>2 DEF ThreadTypes, Still

LEMMA AddSubscriberTypes ==
    ASSUME TInv, NEW e \in Subscribers, AddSubscriber(e)
    PROVE  TInv'
<1> /\ e \in Threads /\ e \in Elements /\ pc[e] = "attach"
    /\ loc[e].room \in Rooms /\ id[e] \in EgressIds
  BY Who, Locals DEF AddSubscriber, TInv, Points, Point, RoomLabels
<1> DEFINE r == loc[e].room
           s == Append(room[r].subs, e)
<1>1. PICK moves \in BOOLEAN :
         loc' = [t \in Threads |-> IF t = e THEN Blank ELSE Appended(t, r, e, moves)]
  BY DEF AddSubscriber
<1>2. \A t \in Threads : loc[t] \in LocalsType
  BY TypeParts DEF TInv, ThreadTypes
<1>3. \A t \in Threads : LET l == Appended(t, r, e, moves)
                         IN  /\ l \in LocalsType /\ l.svc = loc[t].svc /\ l.room = loc[t].room
                             /\ l.id = loc[t].id /\ l.ing = loc[t].ing
  BY <1>2, AppendedType
<1>4. /\ \A t \in Threads : loc'[t] \in LocalsType
      /\ \A t \in Threads : t # e => /\ loc'[t].svc = loc[t].svc /\ loc'[t].room = loc[t].room
                                     /\ loc'[t].id = loc[t].id /\ loc'[t].ing = loc[t].ing
  BY <1>1, <1>3, BlankType
<1>5. pc' = [pc EXCEPT ![e] = "idle"] /\ DOMAIN loc' = Threads /\ loc' = [t \in Threads |-> loc'[t]]
  BY <1>1 DEF AddSubscriber, Goto
<1>6. ThreadTypes' /\ pc'[e] = "idle" /\ \A u \in Threads : u # e => Still(u)
  BY <1>4, <1>5, LocalsChange DEF Labels
<1>7. /\ room' = [room EXCEPT ![r].subs = s] /\ at' = [at EXCEPT ![e] = r]
      /\ UNCHANGED <<tables, rooms, ing, live, id, apart, faults>>
  BY DEF AddSubscriber
<1>8. s \in Seq(Subscribers)
  BY AppendProperties DEF TInv, TypeOK, RoomType
<1>9. ObjectTypes'
  BY <1>7, <1>8, SetsSubs
<1>10. TableTypes' /\ HistoryTypes'
  BY <1>7, TypeParts DEF TInv, tables, TableTypes, HistoryTypes
<1>11. ElementTypes' /\ at'[e] = r /\ \A f \in Elements : f # e => at'[f] = at[f]
  BY <1>7, TypeParts DEF TInv, ElementTypes, Maybe
<1>12. Moves(e)
  <2>1. Attached(e)'
    BY <1>6, <1>7, <1>11, Who DEF Attached
  <2> QED
    BY <1>6, <2>1, IdlePoint DEF Moves
<1>13. \A u \in Threads : Stays(u) \/ Moves(u)
  BY <1>6, <1>7, <1>11, <1>12 DEF Stays
<1>14. TypeOK'
  BY <1>6, <1>9, <1>10, <1>11, TypePartsNext
<1> QED
  BY <1>7, <1>13, <1>14, StepsKeep DEF tables

LEMMA UnsubscribeTypes ==
    ASSUME TInv, NEW e \in Subscribers, Unsubscribe(e)
    PROVE  TInv'
<1> e \in Threads /\ e \in Elements /\ at[e] \in Rooms /\ id[e] \in EgressIds
  BY Who DEF Unsubscribe, IsConnected, TInv, Attached
<1> DEFINE r == at[e]
           l == [Blank EXCEPT !.id = id[e]]
<1>1. PICK k \in DOMAIN room[r].subs :
         /\ room' = [room EXCEPT ![r].subs = RemoveAt(room[r].subs, k)]
         /\ loc' = [t \in Threads |-> IF t = e THEN l ELSE Removed(t, r, k)]
  BY DEF Unsubscribe
<1>2. (\A t \in Threads : loc[t] \in LocalsType) /\ room[r].subs \in Seq(Subscribers)
  BY TypeParts DEF TInv, ThreadTypes, ObjectTypes, RoomType
<1>3. \A t \in Threads : LET q == Removed(t, r, k)
                         IN  /\ q \in LocalsType /\ q.svc = loc[t].svc /\ q.room = loc[t].room
                             /\ q.id = loc[t].id /\ q.ing = loc[t].ing
  BY <1>2, RemovedType
<1>4. l \in LocalsType /\ l.id = id[e]
  BY BlankType, SetsId DEF Maybe
<1>5. loc'[e] = l
  BY <1>1
<1>6. /\ \A t \in Threads : loc'[t] \in LocalsType
      /\ \A t \in Threads : t # e => /\ loc'[t].svc = loc[t].svc /\ loc'[t].room = loc[t].room
                                     /\ loc'[t].id = loc[t].id /\ loc'[t].ing = loc[t].ing
  BY <1>1, <1>3, <1>4
<1>7. /\ pc' = [pc EXCEPT ![e] = "leave"] /\ DOMAIN loc' = Threads
      /\ loc' = [t \in Threads |-> loc'[t]]
  BY <1>1 DEF Unsubscribe, Begin, Goto
<1> HIDE DEF l
<1>8. ThreadTypes' /\ pc'[e] = "leave" /\ \A u \in Threads : u # e => Still(u)
  BY <1>6, <1>7, LocalsChange DEF Labels
<1>9. /\ at' = [at EXCEPT ![e] = Nil] /\ id' = [id EXCEPT ![e] = Nil]
      /\ UNCHANGED <<tables, rooms, ing, live, faults>> /\ apart' \in BOOLEAN
  BY DEF Unsubscribe, Begin
<1>10. ObjectTypes'
  BY <1>1, <1>2, <1>9, RemoveAtProperties, SetsSubs
<1>11. TableTypes' /\ HistoryTypes'
  BY <1>9, TypeParts DEF TInv, tables, TableTypes, HistoryTypes
<1>12. /\ ElementTypes' /\ at'[e] = Nil
       /\ \A f \in Elements : f # e => at'[f] = at[f] /\ id'[f] = id[f]
  BY <1>9, TypeParts DEF TInv, ElementTypes, Maybe
<1>13. Moves(e)
  <2>1. Attached(e)'
    BY <1>12 DEF Attached
  <2>2. Point(e)'
    BY <1>4, <1>5, <1>8 DEF Point, SubscriberLabels, PublisherLabels, LeaveLabels,
       CallbackLabels, RoomLabels, ClosingLabels
  <2> QED
    BY <1>8, <2>1, <2>2 DEF Moves
<1>14. \A u \in Threads : Stays(u) \/ Moves(u)
  BY <1>8, <1>12, <1>13 DEF Stays
<1>15. TypeOK'
  BY <1>8, <1>10, <1>11, <1>12, TypePartsNext
<1> QED
  BY <1>9, <1>14, <1>15, StepsKeep DEF tables

LEMMA EvictTypes ==
    ASSUME TInv, NEW c \in EgressIds, Evict(c)
    PROVE  TInv'
<1> /\ c \in Threads /\ loc[c] \in LocalsType /\ pc[c] = "evict"
    /\ loc[c].room \in Rooms /\ loc[c].room # Nil /\ loc[c].id \in Maybe(EgressIds)
  BY Who, Locals DEF Evict, TInv, Points, Point, RoomLabels, CallbackLabels
<1> DEFINE r == loc[c].room
<1>1. UNCHANGED <<tables, rooms, ing, live, id, at, apart, faults>> /\ Goto(c, "shed")
  BY DEF Evict
<1> pc' = [pc EXCEPT ![c] = "shed"]
  BY <1>1 DEF Goto
<1>2. CASE loc' = [loc EXCEPT ![c].subscriber = Nil] /\ UNCHANGED room
  <2> DEFINE l == [loc[c] EXCEPT !.subscriber = Nil]
  <2>1. loc' = [loc EXCEPT ![c] = l]
    BY <1>2
  <2>2. l \in LocalsType /\ l.room = r /\ l.id = loc[c].id
    BY DEF LocalsType, Maybe
  <2> HIDE DEF l
  <2>3. pc'[c] = "shed" /\ loc'[c] = l => Point(c)'
    BY <2>2 DEF Point, SubscriberLabels, PublisherLabels, LeaveLabels, CallbackLabels,
       RoomLabels, ClosingLabels
  <2> QED
    BY <1>1, <1>2, <2>1, <2>2, <2>3, LookTypes, BusyStep DEF tables, Labels
<1>3. ASSUME NEW k \in DOMAIN room[r].subs,
             room' = [room EXCEPT ![r].subs = RemoveAt(room[r].subs, k)],
             loc' = [t \in Threads |-> IF t = c THEN [Removed(t, r, k) EXCEPT !.subscriber = Nil]
                                       ELSE Removed(t, r, k)]
      PROVE  TInv'
  <2> DEFINE l == [Removed(c, r, k) EXCEPT !.subscriber = Nil]
  <2>1. (\A t \in Threads : loc[t] \in LocalsType) /\ room[r].subs \in Seq(Subscribers)
    BY TypeParts DEF TInv, ThreadTypes, ObjectTypes, RoomType
  <2>2. \A t \in Threads : LET q == Removed(t, r, k)
                           IN  /\ q \in LocalsType /\ q.svc = loc[t].svc /\ q.room = loc[t].room
                               /\ q.id = loc[t].id /\ q.ing = loc[t].ing
    BY <2>1, RemovedType
  <2>3. \A q \in LocalsType : /\ [q EXCEPT !.subscriber = Nil] \in LocalsType
                              /\ [q EXCEPT !.subscriber = Nil].room = q.room
                              /\ [q EXCEPT !.subscriber = Nil].id = q.id
    BY DEF LocalsType, Maybe
  <2>4. l \in LocalsType /\ l.room = r /\ l.id = loc[c].id
    BY <2>2, <2>3
  <2>5. loc'[c] = l
    BY <1>3
  <2>6. /\ \A t \in Threads : loc'[t] \in LocalsType
        /\ \A t \in Threads : t # c => /\ loc'[t].svc = loc[t].svc /\ loc'[t].room = loc[t].room
                                       /\ loc'[t].id = loc[t].id /\ loc'[t].ing = loc[t].ing
    BY <1>3, <2>2, <2>4
  <2>7. DOMAIN loc' = Threads /\ loc' = [t \in Threads |-> loc'[t]]
    BY <1>3
  <2> HIDE DEF l
  <2>8. ThreadTypes' /\ pc'[c] = "shed" /\ \A u \in Threads : u # c => Still(u)
    BY <2>6, <2>7, LocalsChange DEF Labels
  <2>9. ObjectTypes'
    BY <1>1, <1>3, <2>1, RemoveAtProperties, SetsSubs
  <2>10. TableTypes' /\ ElementTypes' /\ HistoryTypes'
    BY <1>1, TypeParts DEF TInv, tables, TableTypes, ElementTypes, HistoryTypes
  <2>11. Moves(c)
    <3>1. Point(c)'
      BY <2>4, <2>5, <2>8 DEF Point, SubscriberLabels, PublisherLabels, LeaveLabels,
         CallbackLabels, RoomLabels, ClosingLabels
    <3> QED
      BY <2>8, <3>1, Who DEF Moves
  <2>12. \A u \in Threads : Stays(u) \/ Moves(u)
    BY <1>1, <2>8, <2>11 DEF Stays
  <2>13. TypeOK'
    BY <2>8, <2>9, <2>10, TypePartsNext
  <2> QED
    BY <1>1, <2>12, <2>13, StepsKeep DEF tables
<1> QED
  BY <1>2, <1>3 DEF Evict


\* A connection that is made knows its room; its id is nobody else's.
LEMMA MakeRoomConnectionTypes ==
    ASSUME TInv, NEW e \in Subscribers, MakeRoomConnection(e)
    PROVE  TInv'
<1> /\ e \in Threads /\ e \in Elements /\ loc[e] \in LocalsType /\ pc[e] = "join"
    /\ loc[e].room \in Rooms /\ loc[e].room # Nil
  BY Who, Locals DEF MakeRoomConnection, TInv, RoomLabels
<1> DEFINE r == loc[e].room
<1>1. PICK c \in EgressIds :
         /\ ~UsedEgressId(c)
         /\ room' = [room EXCEPT ![r].conn = c]
         /\ loc' = [loc EXCEPT ![e].id = c, ![c].room = r]
  BY DEF MakeRoomConnection
<1> c \in Threads /\ c # e /\ c \notin Elements /\ loc[c] \in LocalsType
  BY Who, Locals
<1>2. /\ c \notin live /\ pc[c] = "idle"
      /\ \A u \in Threads : loc[u].id # c
  BY <1>1 DEF UsedEgressId, Located
<1> DEFINE l == [loc[e] EXCEPT !.id = c]
           m == [loc[c] EXCEPT !.room = r]
           o == [room[r] EXCEPT !.conn = c]
<1>3. c \in Maybe(EgressIds) /\ c \in Maybe(EgressIds \cup IngressIds) /\ r \in Maybe(Rooms)
  BY DEF Maybe
<1>4. l \in LocalsType /\ l.id = c /\ l.room = r
  BY <1>3, SetsId
<1>5. m \in LocalsType /\ m.room = r
  BY <1>3, SetsRoom
<1>6. loc' = [[loc EXCEPT ![e] = l] EXCEPT ![c] = m]
  BY <1>1
<1>7. room' = [room EXCEPT ![r] = o]
  BY <1>1
<1>8. o \in RoomType
  BY <1>3, RoomFields, TypeParts DEF TInv, ObjectTypes
<1> HIDE DEF l, m, o
<1>9. pc' = [pc EXCEPT ![e] = "joining"] /\ UNCHANGED <<tables, rooms, ing, live, id, at, apart, faults>>
  BY DEF MakeRoomConnection, Goto
<1>10. /\ ThreadTypes' /\ pc'[e] = "joining" /\ loc'[e] = l /\ loc'[c] = m /\ pc'[c] = "idle"
       /\ \A u \in Threads : u # e /\ u # c => Still(u)
  <2>1. loc \in [Threads -> LocalsType] /\ pc \in [Threads -> Labels]
    BY TypeParts DEF TInv, ThreadTypes
  <2>2. loc' \in [Threads -> LocalsType] /\ loc'[e] = l /\ loc'[c] = m
    BY <1>4, <1>5, <1>6, <2>1
  <2>3. pc' \in [Threads -> Labels] /\ pc'[e] = "joining" /\ pc'[c] = "idle"
    BY <1>2, <1>9, <2>1 DEF Labels
  <2>4. \A u \in Threads : u # e /\ u # c => Still(u)
    BY <1>6, <1>9, <2>1 DEF Still
  <2> QED
    BY <2>2, <2>3, <2>4 DEF ThreadTypes
<1>11. TypeOK'
  <2>1. ObjectTypes'
    BY <1>7, <1>8, <1>9, TypeParts, SetsObject DEF TInv
  <2>2. TableTypes' /\ ElementTypes' /\ HistoryTypes'
    BY <1>9, TypeParts DEF TInv, tables, TableTypes, ElementTypes, HistoryTypes
  <2> QED
    BY <1>10, <2>1, <2>2, TypePartsNext
<1>12. Points'
  <2>1. Point(e)'
    BY <1>4, <1>10 DEF Point, SubscriberLabels, PublisherLabels, LeaveLabels, CallbackLabels,
       RoomLabels, ClosingLabels
  <2>2. Point(c)'
    BY <1>10, IdlePoint
  <2> QED
    BY <1>9, <1>10, <2>1, <2>2, PointStill DEF TInv, Points
<1>13. \A f \in Elements : Attached(f)'
  <2>1. Attached(e)'
    BY <1>9, Unattached DEF Attached
  <2>2. ASSUME NEW f \in Elements, f # e
        PROVE  Attached(f)'
    BY <1>9, <1>10, <2>2, AttachedStill, Who DEF TInv, Still
  <2> QED
    BY <2>1, <2>2
<1>14. Opened'
  <2>1. ASSUME NEW u \in Threads, pc'[u] = "joining"
        PROVE  Opening(u)'
    <3>1. CASE u = e
      <4>1. \A v \in Threads : pc'[v] = "joining" /\ loc'[v].id = c => v = e
        BY <1>2, <1>10 DEF Still
      <4> QED
        BY <1>2, <1>4, <1>5, <1>9, <1>10, <3>1, <4>1 DEF Opening
    <3>2. CASE u # e
      <4> DEFINE d == loc[u].id
      <4>1. u # c /\ Still(u) /\ pc[u] = "joining" /\ loc'[u].id = d
        BY <1>10, <2>1, <3>2 DEF Still
      <4>2. d \in EgressIds /\ d # c /\ d # e
        BY <1>2, <4>1, Who DEF TInv, Points, Point
      <4>3. /\ d \notin live /\ pc[d] = "idle" /\ loc[d].room # Nil
            /\ \A v \in Threads : pc[v] = "joining" /\ loc[v].id = d => v = u
        BY <4>1 DEF TInv, Opened, Opening
      <4>4. pc'[d] = "idle" /\ loc'[d].room # Nil
        BY <1>10, <4>2, <4>3, Who DEF Still
      <4>5. ASSUME NEW v \in Threads, pc'[v] = "joining", loc'[v].id = d
            PROVE  v = u
        <5>1. v # c /\ v # e
          BY <1>4, <1>10, <4>2, <4>5
        <5> QED
          BY <1>10, <4>3, <4>5, <5>1 DEF Still
      <4> HIDE DEF d
      <4> QED
        BY <1>9, <4>1, <4>3, <4>4, <4>5 DEF Opening
    <3> QED
      BY <3>1, <3>2
  <2>2. ASSUME NEW d \in live'
        PROVE  pc'[d] = "idle" /\ loc'[d].room # Nil
    <3>1. d \in EgressIds /\ d \in Threads /\ d \in live /\ d # e /\ d # c
      BY <1>2, <1>9, Who DEF TInv, TypeOK
    <3> QED
      BY <1>10, <3>1 DEF TInv, Opened, Still
  <2> QED
    BY <2>1, <2>2 DEF Opened, Opening
<1>15. Housed'
  <2>1. \A u \in Threads : Still(u) \/ pc'[u] # "addIngress"
    BY <1>10
  <2> QED
    BY <1>9, <2>1, HousedStill DEF tables
<1> QED
  BY <1>11, <1>12, <1>13, <1>14, <1>15 DEF TInv

LEMMA JoinWithTokenTypes ==
    ASSUME TInv, NEW e \in Subscribers, JoinWithToken(e)
    PROVE  TInv'
<1> /\ e \in Threads /\ e \in Elements /\ loc[e] \in LocalsType /\ pc[e] = "joining"
    /\ loc[e].room \in Rooms /\ loc[e].room # Nil
  BY Who, Locals DEF JoinWithToken, TInv, RoomLabels
<1> DEFINE c == loc[e].id
<1>1. c \in EgressIds /\ c \in Threads /\ c # e /\ c \notin Elements
  BY Who DEF TInv, Points, Point
<1>2. /\ c \notin live /\ pc[c] = "idle" /\ loc[c].room # Nil
      /\ \A u \in Threads : pc[u] = "joining" /\ loc[u].id = c => u = e
  BY DEF TInv, Opened, Opening
<1>3. UNCHANGED <<tables, rooms, room, ing, id, at, apart, faults>>
  BY DEF JoinWithToken
<1>4. TableTypes' /\ ElementTypes' /\ HistoryTypes'
  BY <1>3, TypeParts DEF TInv, tables, TableTypes, ElementTypes, HistoryTypes
<1>5. CASE /\ live' = live \cup {c} /\ Goto(e, "joined") /\ UNCHANGED loc
  <2>1. pc' = [pc EXCEPT ![e] = "joined"] /\ loc' = [loc EXCEPT ![e] = loc[e]]
    BY <1>5, SameLocals DEF Goto
  <2>2. ThreadTypes' /\ pc'[e] = "joined" /\ loc'[e] = loc[e] /\ \A u \in Threads : u # e => Still(u)
    BY <2>1, TypeParts, MovesThread DEF TInv, Labels
  <2>3. ObjectTypes'
    BY <1>1, <1>3, <1>5, TypeParts DEF TInv, ObjectTypes
  <2>4. Moves(e)
    <3>1. Point(e)'
      BY <1>1, <2>2 DEF Point, SubscriberLabels, PublisherLabels, LeaveLabels, CallbackLabels,
         RoomLabels, ClosingLabels
    <3>2. Attached(e)'
      BY <1>3, Unattached DEF Attached
    <3> QED
      BY <2>2, <3>1, <3>2 DEF Moves
  <2>5. \A u \in Threads : Stays(u) \/ Moves(u)
    BY <1>3, <2>2, <2>4 DEF Stays
  <2>6. Opened'
    <3>1. ASSUME NEW u \in Threads, pc'[u] = "joining"
          PROVE  Opening(u)'
      <4> DEFINE d == loc[u].id
      <4>1. u # e /\ pc[u] = "joining" /\ loc'[u].id = d
        BY <2>2, <3>1 DEF Still
      <4>2. d \in EgressIds /\ d # c /\ d # e
        BY <1>2, <4>1, Who DEF TInv, Points, Point
      <4>3. /\ d \notin live /\ pc[d] = "idle" /\ loc[d].room # Nil
            /\ \A v \in Threads : pc[v] = "joining" /\ loc[v].id = d => v = u
        BY <4>1 DEF TInv, Opened, Opening
      <4>4. pc'[d] = "idle" /\ loc'[d].room # Nil /\ d \notin live'
        BY <1>5, <2>2, <4>2, <4>3, Who DEF Still
      <4>5. \A v \in Threads : pc'[v] = "joining" /\ loc'[v].id = d => v = u
        BY <2>2, <4>3 DEF Still
      <4> HIDE DEF d
      <4> QED
        BY <4>1, <4>4, <4>5 DEF Opening
    <3>2. ASSUME NEW d \in live'
          PROVE  pc'[d] = "idle" /\ loc'[d].room # Nil
      <4>1. d \in EgressIds /\ d # e /\ pc[d] = "idle" /\ loc[d].room # Nil
        BY <1>1, <1>2, <1>5, Who DEF TInv, TypeOK, Opened
      <4> QED
        BY <2>2, <4>1, Who DEF Still
    <3> QED
      BY <3>1, <3>2 DEF Opened, Opening
  <2>7. Housed'
    BY <1>3, <2>5, HousedStill DEF Moves, Stays, tables
  <2> QED
    BY <1>4, <2>2, <2>3, <2>5, <2>6, <2>7, PointsAttachedStill, TypePartsNext DEF TInv
<1>6. CASE /\ Goto(e, "idle") /\ loc' = [loc EXCEPT ![e] = Blank, ![c] = Blank] /\ UNCHANGED live
  <2>1. loc \in [Threads -> LocalsType] /\ pc \in [Threads -> Labels]
    BY TypeParts DEF TInv, ThreadTypes
  <2>2. /\ loc' \in [Threads -> LocalsType]
        /\ \A u \in Threads : u # e /\ u # c => loc'[u] = loc[u]
    BY <1>6, <2>1, BlankType
  <2>3. /\ pc' \in [Threads -> Labels] /\ pc'[e] = "idle" /\ pc'[c] = "idle"
        /\ \A u \in Threads : u # e => pc'[u] = pc[u]
    BY <1>1, <1>2, <1>6, <2>1 DEF Goto, Labels
  <2>4. TypeOK'
    BY <1>3, <1>4, <1>6, <2>2, <2>3, TypeParts, TypePartsNext DEF TInv, ThreadTypes, ObjectTypes
  <2>5. Points'
    BY <1>3, <2>2, <2>3, PointStill, IdlePoint DEF TInv, Points, Still
  <2>6. \A f \in Elements : Attached(f)'
    <3>1. Attached(e)'
      BY <1>3, Unattached DEF Attached
    <3>2. ASSUME NEW f \in Elements, f # e
          PROVE  Attached(f)'
      BY <1>3, <2>3, <3>2, AttachedStill, Who DEF TInv
    <3> QED
      BY <3>1, <3>2
  <2>7. Opened'
    <3>1. ASSUME NEW u \in Threads, pc'[u] = "joining"
          PROVE  Opening(u)'
      <4> DEFINE d == loc[u].id
      <4>1. u # e /\ u # c /\ pc[u] = "joining" /\ loc'[u] = loc[u]
        BY <1>2, <2>2, <2>3, <3>1
      <4>2. d \in EgressIds /\ d # c /\ d # e
        BY <1>2, <4>1, Who DEF TInv, Points, Point
      <4>3. /\ d \notin live /\ pc[d] = "idle" /\ loc[d].room # Nil
            /\ \A v \in Threads : pc[v] = "joining" /\ loc[v].id = d => v = u
        BY <4>1 DEF TInv, Opened, Opening
      <4>4. pc'[d] = "idle" /\ loc'[d].room # Nil /\ d \notin live'
        BY <1>6, <2>2, <2>3, <4>2, <4>3, Who
      <4>5. ASSUME NEW v \in Threads, pc'[v] = "joining", loc'[v].id = d
            PROVE  v = u
        <5>1. v # e /\ v # c
          BY <2>3, <4>5
        <5> QED
          BY <2>2, <2>3, <4>3, <4>5, <5>1
      <4>6. loc'[u].id = d
        BY <4>1
      <4> HIDE DEF d
      <4> QED
        BY <4>4, <4>5, <4>6 DEF Opening
    <3>2. ASSUME NEW d \in live'
          PROVE  pc'[d] = "idle" /\ loc'[d].room # Nil
      <4>1. d \in EgressIds /\ d # e /\ d # c /\ pc[d] = "idle" /\ loc[d].room # Nil
        BY <1>2, <1>6, Who DEF TInv, TypeOK, Opened
      <4> QED
        BY <2>2, <2>3, <4>1, Who
    <3> QED
      BY <3>1, <3>2 DEF Opened, Opening
  <2>8. Housed'
    <3>1. \A u \in Threads : Still(u) \/ pc'[u] # "addIngress"
      BY <2>2, <2>3 DEF Still
    <3> QED
      BY <1>3, <3>1, HousedStill DEF tables
  <2> QED
    BY <2>4, <2>5, <2>6, <2>7, <2>8 DEF TInv
<1> QED
  BY <1>5, <1>6 DEF JoinWithToken


\* A call that closes a connection: the connection forgets its room.
LEMMA HangsUpKeeps ==
    ASSUME TInv, NEW t \in Threads, pc[t] # "idle", NEW c, HangsUp(c),
           Goto(t, "deleteRoom"), loc[t].room # Nil,
           UNCHANGED <<tables, rooms, room, ing, id, at, apart, faults>>
    PROVE  TInv'
<1>1. loc \in [Threads -> LocalsType] /\ pc \in [Threads -> Labels]
  BY TypeParts DEF TInv, ThreadTypes
<1>2. /\ pc' \in [Threads -> Labels] /\ pc'[t] = "deleteRoom"
      /\ \A u \in Threads : u # t => pc'[u] = pc[u]
  BY <1>1 DEF Goto, Labels
<1>3. /\ loc' \in [Threads -> LocalsType]
      /\ \A u \in Threads : loc'[u] = loc[u] \/ (u = c /\ c \in live /\ pc[u] = "idle")
  BY <1>1, BlankType DEF HangsUp
<1>4. live' = live \ {c}
  BY DEF HangsUp
<1>5. TypeOK'
  BY <1>2, <1>3, <1>4, TypeParts, TypePartsNext
     DEF TInv, ThreadTypes, tables, TableTypes, ObjectTypes, ElementTypes, HistoryTypes
<1>6. Moves(t)
  <2>1. loc'[t] = loc[t]
    BY <1>3
  <2>2. Point(t)'
    BY <1>2, <2>1 DEF Point, SubscriberLabels, PublisherLabels, LeaveLabels, CallbackLabels,
       RoomLabels, ClosingLabels
  <2>3. t \in Elements => Attached(t)'
    BY Unattached DEF Attached
  <2> QED
    BY <1>2, <2>2, <2>3 DEF Moves
<1>7. ASSUME NEW u \in Threads, u # t
      PROVE  Stays(u) \/ Moves(u)
  <2>1. CASE loc'[u] = loc[u]
    BY <1>2, <1>7, <2>1 DEF Stays, Still
  <2>2. CASE u = c /\ c \in live /\ pc[u] = "idle"
    <3>1. u \in live \ live' /\ pc'[u] = "idle" /\ u \notin Elements
      BY <1>2, <1>4, <1>7, <2>2, Who DEF TInv, TypeOK
    <3> QED
      BY <3>1, IdlePoint DEF Moves
  <2> QED
    BY <1>3, <2>1, <2>2
<1> QED
  BY <1>4, <1>5, <1>6, <1>7, StepsKeep DEF tables

LEMMA DisconnectTypes ==
    ASSUME TInv, NEW t \in Threads, Disconnect(t)
    PROVE  TInv'
<1>1. pc[t] = "close" /\ loc[t].room # Nil
  BY DEF Disconnect, TInv, Points, Point, RoomLabels
<1> QED
  BY <1>1, HangsUpKeeps DEF Disconnect

LEMMA HangUpTypes ==
    ASSUME TInv, NEW e \in Publishers, HangUp(e)
    PROVE  TInv'
<1>1. e \in Threads /\ pc[e] = "hangUp"
  BY Who DEF HangUp
<1>2. loc[e].room # Nil
  BY <1>1 DEF TInv, Points, Point, RoomLabels
<1>3. CASE Return(e) /\ UNCHANGED live
  <2>1. pc' = [pc EXCEPT ![e] = "idle"] /\ loc' = [loc EXCEPT ![e] = Blank]
    BY <1>3 DEF Return, Goto
  <2>2. UNCHANGED <<tables, rooms, room, ing, id, at, apart, faults>>
    BY DEF HangUp
  <2> QED
    BY <1>1, <1>3, <2>1, <2>2, LookTypes, IdlePoint, BlankType, BusyStep DEF tables, Labels
<1>4. CASE Goto(e, "deleteRoom") /\ HangsUp(room[loc[e].room].conn)
  BY <1>1, <1>2, <1>4, HangsUpKeeps DEF HangUp
<1> QED
  BY <1>3, <1>4 DEF HangUp

\* LiveKit closes a connection: it calls back, and knows its room then.
LEMMA RemoveEgressTypes ==
    ASSUME TInv, NEW t \in Threads, RemoveEgress(t)
    PROVE  TInv'
<1>1. pc[t] = "close" /\ loc[t].room \in Rooms
  BY Locals DEF RemoveEgress, RoomLabels
<1> DEFINE c == loc[t].id
<1>2. PICK done \in BOOLEAN :
         /\ Removal(done)
         /\ live' = IF done THEN live \ {c} ELSE live
         /\ pc' = [x \in Threads |-> IF x = t THEN "idle"
                      ELSE IF done /\ x = c /\ c \in live THEN "dropped" ELSE pc[x]]
  BY DEF RemoveEgress
<1>3. /\ loc' = [loc EXCEPT ![t] = Blank]
      /\ room' = [room EXCEPT ![loc[t].room] = Unlocked(t, room[loc[t].room])]
      /\ UNCHANGED <<tables, rooms, ing, id, at, apart>>
  BY DEF RemoveEgress
<1>4. loc \in [Threads -> LocalsType] /\ pc \in [Threads -> Labels]
  BY TypeParts DEF TInv, ThreadTypes
<1>5. /\ pc' \in [Threads -> Labels] /\ pc'[t] = "idle"
      /\ \A u \in Threads : u # t => \/ pc'[u] = pc[u]
                                     \/ pc'[u] = "dropped" /\ u \in live \ live'
  BY <1>2, <1>4 DEF Labels
<1>6. loc' \in [Threads -> LocalsType] /\ \A u \in Threads : u # t => loc'[u] = loc[u]
  BY <1>3, <1>4, BlankType
<1>7. TypeOK'
  <2>1. room' \in [Rooms -> RoomType]
    <3>1. room \in [Rooms -> RoomType]
      BY TypeParts DEF TInv, ObjectTypes
    <3>2. Unlocked(t, room[loc[t].room]) \in RoomType
      BY <1>1, <3>1, UnlockedType
    <3> QED
      BY <1>1, <1>3, <3>1, <3>2
  <2>2. ObjectTypes'
    BY <1>2, <1>3, <2>1, TypeParts DEF TInv, ObjectTypes
  <2>3. HistoryTypes'
    BY <1>2, <1>3, RemovalType
  <2>4. TableTypes' /\ ElementTypes'
    BY <1>3, TypeParts DEF TInv, tables, TableTypes, ElementTypes
  <2> QED
    BY <1>5, <1>6, <2>2, <2>3, <2>4, TypePartsNext DEF ThreadTypes
<1>8. Moves(t)
  <2>1. t \in Elements => Attached(t)'
    BY <1>1, <1>3, Unattached DEF Attached
  <2> QED
    BY <1>1, <1>5, <2>1, IdlePoint DEF Moves
<1>9. ASSUME NEW u \in Threads, u # t
      PROVE  Stays(u) \/ Moves(u)
  <2>1. CASE pc'[u] = pc[u]
    BY <1>3, <1>6, <1>9, <2>1 DEF Stays, Still
  <2>2. CASE pc'[u] = "dropped" /\ u \in live \ live'
    <3>1. u \in EgressIds /\ u \notin Elements /\ loc'[u] = loc[u] /\ loc[u].room # Nil
      BY <1>6, <1>9, <2>2, Who DEF TInv, TypeOK, Opened
    <3>2. Point(u)'
      BY <2>2, <3>1 DEF Point, SubscriberLabels, PublisherLabels, LeaveLabels, CallbackLabels,
         RoomLabels, ClosingLabels
    <3> QED
      BY <2>2, <3>1, <3>2 DEF Moves
  <2> QED
    BY <1>5, <1>9, <2>1, <2>2
<1> QED
  BY <1>2, <1>3, <1>7, <1>8, <1>9, StepsKeep DEF tables

LEMMA DropTypes ==
    ASSUME TInv, NEW c \in EgressIds, Drop(c)
    PROVE  TInv'
<1>1. c \in Threads /\ c \notin Elements /\ c \in live /\ loc[c].room # Nil
  BY Who DEF Drop, TInv, Opened
<1>2. /\ pc' = [pc EXCEPT ![c] = "dropped"] /\ live' = live \ {c}
      /\ UNCHANGED <<tables, rooms, room, ing, id, at, loc>>
      /\ apart' \in BOOLEAN /\ faults < MaxFaults /\ faults' = faults + 1
  BY DEF Drop, Goto, Fault
<1>3. ThreadTypes' /\ pc'[c] = "dropped" /\ \A u \in Threads : u # c => Still(u)
  BY <1>1, <1>2, TypeParts, MovesOn DEF TInv, Labels
<1>4. TypeOK'
  <2>1. HistoryTypes'
    BY <1>2, BoundsAssumption, TypeParts DEF TInv, HistoryTypes
  <2>2. TableTypes' /\ ObjectTypes' /\ ElementTypes'
    BY <1>2, TypeParts DEF TInv, tables, TableTypes, ObjectTypes, ElementTypes
  <2> QED
    BY <1>3, <2>1, <2>2, TypePartsNext
<1>5. Moves(c)
  <2>1. Point(c)'
    BY <1>1, <1>2, <1>3 DEF Point, SubscriberLabels, PublisherLabels, LeaveLabels, CallbackLabels,
       RoomLabels, ClosingLabels
  <2> QED
    BY <1>1, <1>2, <1>3, <2>1 DEF Moves
<1>6. \A u \in Threads : Stays(u) \/ Moves(u)
  BY <1>2, <1>3, <1>5 DEF Stays
<1> QED
  BY <1>2, <1>4, <1>6, StepsKeep DEF tables

LEMMA NextTypes ==
    ASSUME TInv, [Next]_vars
    PROVE  TInv'
<1>1. CASE UNCHANGED vars
  <2>1. /\ TypeOK' = TypeOK /\ Points' = Points /\ Opened' = Opened /\ Housed' = Housed
        /\ \A e \in Elements : Attached(e)' = Attached(e)
    BY <1>1 DEF vars, tables, TypeOK, Points, Point, Opened, Opening, Housed, Attached
  <2> QED
    BY <2>1 DEF TInv
<1>2. ASSUME NEW e \in Elements, ConnectSteps(e)
      PROVE  TInv'
  BY <1>2, ConnectTypes, AddServiceTypes, GetRoomTypes, AddRoomTypes DEF ConnectSteps
<1>3. ASSUME NEW e \in Subscribers, SubscriberSteps(e)
      PROVE  TInv'
  BY <1>3, TestEgressTypes, MakeRoomConnectionTypes, JoinWithTokenTypes, SetEgressIdTypes,
     AddEgressTypes, AnswerTypes, SubscribeTypes, AddSubscriberTypes, UnsubscribeTypes
     DEF SubscriberSteps
<1>4. ASSUME NEW e \in Publishers, PublisherSteps(e)
      PROVE  TInv'
  BY <1>4, GetIngressTypes, JoinIngressTypes, AddIngressTypes, TestPublishTypes,
     CreatePublisherTypes, UnpublishTypes, LeaveIngressTypes, DeleteIngressTypes,
     TestRoomTypes, HangUpTypes
     DEF PublisherSteps
<1>5. ASSUME NEW t \in Threads, LeaveSteps(t)
      PROVE  TInv'
  BY <1>5, GetEgressTypes, LeaveEgressTypes, DisconnectTypes, RemoveEgressTypes,
     DeleteRoomTypes, TestServiceTypes, DeleteServiceTypes
     DEF LeaveSteps
<1>6. ASSUME NEW c \in EgressIds, Drop(c) \/ LkDisconnected(c) \/ Shed(c) \/ Evict(c)
      PROVE  TInv'
  BY <1>6, DropTypes, LkDisconnectedTypes, ShedTypes, EvictTypes
<1> QED
  BY <1>1, <1>2, <1>3, <1>4, <1>5, <1>6 DEF Next

LEMMA InitTypes ==
    ASSUME Init
    PROVE  TInv
<1>1. TypeOK
  <2>1. NewRoom(Nil, Nil) \in RoomType
    BY NewRoomType DEF Maybe
  <2>2. ThreadTypes
    BY BlankType DEF Init, ThreadTypes, Labels
  <2>3. TableTypes
    BY DEF Init, TableTypes, NoIngress, NoRooms, Maybe
  <2>4. ObjectTypes
    BY <2>1 DEF Init, ObjectTypes, NewIngress, IngressType, Maybe
  <2>5. ElementTypes /\ HistoryTypes
    BY BoundsAssumption DEF Init, ElementTypes, HistoryTypes, Maybe
  <2> QED
    BY <2>2, <2>3, <2>4, <2>5, TypeParts
<1>2. Points
  BY DEF Init, Points, Point, SubscriberLabels, PublisherLabels, LeaveLabels, CallbackLabels,
     RoomLabels, ClosingLabels
<1>3. (\A e \in Elements : Attached(e)) /\ Opened
  BY DEF Init, Attached, Opened, Opening
<1>4. Housed
  BY DEF Init, Housed, NoIngress
<1> QED
  BY <1>1, <1>2, <1>3, <1>4 DEF TInv

\* Every table, object and local variable has its type; in particular no step
\* looks up a service, room, connection or ingress that is not there, however
\* calls and callbacks overlap (ov3root.go, ov3endpoint.go, ov3room.go).
THEOREM TypesThroughout == Spec => []TInv
<1>1. Init => TInv
  BY InitTypes
<1>2. TInv /\ [Next]_vars => TInv'
  BY NextTypes
<1> QED
  BY <1>1, <1>2, PTL DEF Spec

\* In particular every variable has its type, in every interleaving.
THEOREM TypeCorrect == Spec => []TypeOK
<1>1. TInv => TypeOK
  BY DEF TInv
<1> QED
  BY <1>1, TypesThroughout, PTL

----------------------------------------------------------------------------
(* One call at a time.  While calls and callbacks do not overlap and no     *)
(* removal fails, the tables agree with each other but for what the one     *)
(* call that is under way has begun: that call is t below.                  *)

Alone(t) == \A u \in Threads : u # t => pc[u] = "idle"

\* The room of the service's table that has this object's name is this object.
Listed(r) == /\ services # Nil /\ room[r].name # Nil
             /\ rooms[services][room[r].name] = r

\* The room that a thread is to work in is its element's.
Found(t) == services # Nil /\ rooms[services][RoomName[t]] = loc[t].room

\* Nobody is in the room, and it has no connection.
Empty(r) == room[r].subs = <<>> /\ room[r].egressId = Nil

\* A room is found under its own name and in its own service.
Rostered == \A s \in Services, n \in Names :
               rooms[s][n] # Nil => /\ services = s
                                    /\ room[rooms[s][n]].service = s
                                    /\ room[rooms[s][n]].name = n

\* No callback ranges over a slice that may change.
Unshared == \A u \in Threads : loc[u].array = "none"

\* What a call knows, by where it is: the steps that all elements have,
Walk(t) ==
    /\ pc[t] = "newService" => services = Nil
    /\ pc[t] \in {"findRoom", "newRoom"} => loc[t].svc = services
    /\ pc[t] = "newRoom" => rooms[services][RoomName[t]] = Nil
    /\ pc[t] \in {"egress", "join", "joining", "joined", "register", "answer", "attach",
                  "ingress", "joinIngress", "addIngress"} => Found(t)
    /\ pc[t] \in {"close", "deleteRoom", "testRoom", "hangUp"} => Listed(loc[t].room)
    /\ pc[t] = "deleteRoom" => Empty(loc[t].room)
    /\ pc[t] \in {"deleteRoom", "hangUp"} => room[loc[t].room].ingress = NoIngress
    /\ pc[t] \in {"testService", "deleteService"} =>
          services # Nil /\ room[loc[t].room].service = services
    /\ pc[t] = "deleteService" => rooms[services] = NoRooms

\* those of subscribers, and of the callback of a connection,
EgressWalk(t) ==
    LET r == loc[t].room  o == room[loc[t].room]  c == loc[t].id
    IN  /\ pc[t] \in {"join", "joining", "joined"} => o.egressId = Nil
        /\ pc[t] = "joining" => o.conn = c /\ loc[c].room = r
        /\ pc[t] = "joined" => c \in live /\ loc[c].room = r
        /\ pc[t] = "register" => o.egressId = c /\ o.subs = <<>>
        /\ pc[t] = "answer" => o.egressId # Nil /\ egress[o.egressId] = r
        /\ pc[t] = "subscribe" => /\ egress[id[t]] # Nil
                                  /\ room[egress[id[t]]].name = RoomName[t]
        /\ pc[t] = "attach" => o.egressId = id[t] /\ egress[id[t]] = r
        /\ pc[t] = "leave" => t \in Subscribers /\ egress[c] # Nil
        /\ pc[t] = "lock" => c \in EgressIds /\ o.egressId = c
        /\ pc[t] = "close" => Empty(r) /\ c \in live /\ loc[c].room = r
        /\ pc[t] = "hangUp" => o.subs = <<>>
        /\ pc[t] = "dropped" => Empty(r)
        /\ pc[t] = "shed" => c = Nil /\ loc[t].view = <<>>
        /\ pc[t] # "evict"

\* and those of publishers.
IngressWalk(t) ==
    LET i == loc[t].ing
    IN  /\ pc[t] = "addIngress" => ing[i] = NewIngress(loc[t].id, loc[t].room)
        /\ pc[t] = "create" => ingress[id[t]] = i /\ ing[i][Slot(t)] = Nil
        /\ pc[t] = "deleteIngress" => /\ ingress[loc[t].id] # Nil
                                      /\ ing[ingress[loc[t].id]].room = loc[t].room

\* The call is why a room has an egress connection and nobody in it,
Attends(t, r) == \/ pc[t] \in {"register", "answer", "attach", "lock"} /\ loc[t].room = r
                 \/ pc[t] = "subscribe" /\ egress[id[t]] = r
                 \/ pc[t] = "leave" /\ egress[loc[t].id] = r

\* or why an ingress has no publisher.
Feeds(t, x) == \/ pc[t] \in {"publish", "create"} /\ id[t] = x
               \/ pc[t] \in {"leaveIngress", "deleteIngress"} /\ loc[t].id = x

\* The egress id of a room names an open connection, is registered, and goes
\* with the last subscriber.
Served(t, r) ==
    LET c == room[r].egressId
    IN  /\ c # Nil => /\ c \in live /\ loc[c].room = r
                      /\ egress[c] = r \/ (pc[t] = "register" /\ loc[t].room = r)
                      /\ room[r].subs # <<>> \/ Attends(t, r)
        /\ room[r].subs # <<>> => c # Nil

\* An open connection is that of a room in the table, and is the room's
\* egress unless the call opens or closes it.
Held(t, c) ==
    /\ egress[c] # Nil => room[egress[c]].egressId = c
    /\ c \in live =>
          /\ pc[c] = "idle"
          /\ room[loc[c].room].conn = c /\ Listed(loc[c].room)
          /\ room[loc[c].room].egressId = c \/ (pc[t] \in {"joined", "close"} /\ loc[t].id = c)

\* Subscribers and slices agree; nobody is in one twice.
Seated ==
    /\ \A r \in Rooms, e \in Subscribers : e \in Range(room[r].subs) => at[e] = r
    /\ \A r \in Rooms : \A j, k \in DOMAIN room[r].subs :
          room[r].subs[j] = room[r].subs[k] => j = k
    /\ \A e \in Subscribers : at[e] # Nil =>
          /\ e \in Range(room[at[e]].subs)
          /\ room[at[e]].egressId = id[e] /\ room[at[e]].name = RoomName[e]

\* An ingress of root is in its room's table, with its id, and somebody
\* publishes into it; rooms with ingresses are in the service's table.
Fed(t) ==
    /\ \A x \in IngressIds : ingress[x] # Nil =>
          /\ ing[ingress[x]].id = x
          /\ room[ing[ingress[x]].room].ingress[x] = ingress[x]
          /\ Busy(ingress[x]) \/ Feeds(t, x)
    /\ \A r \in Rooms : room[r].ingress # NoIngress => Listed(r)

\* No two rooms of the table have the same connection.
Single == \A r, q \in Rooms : room[r].conn # Nil /\ room[q].conn = room[r].conn
                                /\ Listed(r) /\ Listed(q) => r = q

\* Publishers and the slots of ingresses agree.
Slotted ==
    /\ \A e \in Publishers : at[e] # Nil => /\ ing[at[e]][Slot(e)] = e
                                            /\ ing[at[e]].id = id[e]
    /\ \A i \in Ingresses :
          /\ ing[i].main # Nil => at[ing[i].main] = i /\ Slot(ing[i].main) = "main"
          /\ ing[i].screen # Nil => at[ing[i].screen] = i /\ Slot(ing[i].screen) = "screen"

QBy(t) == /\ Rostered /\ Single /\ Unshared /\ Seated /\ Slotted
          /\ Walk(t) /\ EgressWalk(t) /\ IngressWalk(t)
          /\ \A r \in Rooms : Served(t, r)
          /\ \A c \in EgressIds : Held(t, c)
          /\ Fed(t)

QInv == \A t \in Threads : Alone(t) => QBy(t)

\* One thread at most is under way.
Solo == \A t, u \in Threads : pc[t] # "idle" /\ pc[u] # "idle" => t = u

QuietInv == quiet => Solo /\ QInv

\* The call under way, with all that holds while it is.
One(t) == Alone(t) /\ QBy(t)

\* What a step of the call does not change.
SameSeats(r) == LET o == room[r] n == room'[r]
                IN  /\ n.name = o.name /\ n.service = o.service /\ n.subs = o.subs
                    /\ n.egressId = o.egressId /\ n.conn = o.conn
SameRoom(r) == SameSeats(r) /\ room'[r].ingress = room[r].ingress

\* The step leaves no room, and no ingress, without what it is there for.
AttendsOn(t) == \A r \in Rooms :
                   Attends(t, r) => Attends(t, r)' \/ room[r].subs # <<>> \/ room[r].egressId = Nil
FeedsOn(t) == \A x \in IngressIds :
                   Feeds(t, x) => \/ Feeds(t, x)' \/ ingress[x] = Nil
                                  \/ (ingress[x] # Nil /\ Busy(ingress[x]))

LEMMA Goes ==
    ASSUME TInv, NEW t \in Threads, NEW label, pc' = [pc EXCEPT ![t] = label]
    PROVE  pc'[t] = label /\ \A u \in Threads : u # t => pc'[u] = pc[u]
BY TypeParts DEF TInv, ThreadTypes

LEMMA Takes ==
    ASSUME TInv, NEW t \in Threads, NEW l, loc' = [loc EXCEPT ![t] = l]
    PROVE  loc'[t] = l /\ \A u \in Threads : u # t => loc'[u] = loc[u]
BY TypeParts DEF TInv, ThreadTypes

LEMMA AloneStays ==
    ASSUME NEW t \in Threads, Alone(t), \A u \in Threads : u # t => pc'[u] = pc[u]
    PROVE  Alone(t)'
BY DEF Alone

LEMMA NotLive ==
    ASSUME TInv, NEW t \in Threads, t \in Elements \/ pc[t] # "idle"
    PROVE  t \notin live
BY Who DEF TInv, Opened, TypeOK

\* The room of the service's table under a name.
LEMMA Place ==
    ASSUME TInv, Rostered, NEW n \in Names, services # Nil, rooms[services][n] # Nil
    PROVE  LET r == rooms[services][n]
           IN  /\ r \in Rooms /\ Listed(r)
               /\ room[r].service = services /\ room[r].name = n
<1> DEFINE r == rooms[services][n]
<1>1. services \in Services /\ r \in Rooms
  BY TypeParts DEF TInv, TableTypes, Maybe
<1>2. room[r].service = services /\ room[r].name = n
  BY <1>1 DEF Rostered
<1> QED
  BY <1>1, <1>2, Who DEF Listed

LEMMA FoundPlace ==
    ASSUME TInv, Rostered, NEW t \in Elements, Found(t), loc[t].room # Nil
    PROVE  /\ Listed(loc[t].room) /\ room[loc[t].room].service = services
           /\ room[loc[t].room].name = RoomName[t]
BY Place, Who DEF Found

LEMMA ListedRoom ==
    ASSUME TInv, Rostered, NEW r \in Rooms, Listed(r)
    PROVE  /\ services \in Services /\ room[r].service = services
           /\ room[r].name \in Names
<1>1. services \in Services /\ room[r].name \in Names
  BY TypeParts DEF TInv, TableTypes, ObjectTypes, RoomType, Listed, Maybe
<1> QED
  BY <1>1, Place, Who DEF Listed

LEMMA ListedSame ==
    ASSUME NEW r \in Rooms, SameSeats(r), services' = services, rooms' = rooms
    PROVE  Listed(r)' = Listed(r)
BY DEF Listed, SameSeats

LEMMA RosterStays ==
    ASSUME TInv, Rostered, services' = services, rooms' = rooms, \A r \in Rooms : SameSeats(r)
    PROVE  Rostered'
<1> SUFFICES ASSUME NEW s \in Services, NEW n \in Names, rooms[s][n] # Nil
             PROVE  /\ services' = s
                    /\ room'[rooms[s][n]].service = s /\ room'[rooms[s][n]].name = n
  BY DEF Rostered
<1>1. rooms[s][n] \in Rooms
  BY TypeParts DEF TInv, TableTypes, Maybe
<1> QED
  BY <1>1 DEF Rostered, SameSeats

LEMMA SingleStays ==
    ASSUME Single, \A r \in Rooms : Listed(r)' => Listed(r) /\ room'[r].conn = room[r].conn
    PROVE  Single'
BY DEF Single

LEMMA SeatsStay ==
    ASSUME Seated, TInv,
           \A r \in Rooms : room'[r].subs = room[r].subs,
           \A e \in Subscribers : /\ at'[e] = at[e]
                                  /\ at[e] # Nil => /\ id'[e] = id[e]
                                                    /\ room'[at[e]].egressId = room[at[e]].egressId
                                                    /\ room'[at[e]].name = room[at[e]].name
    PROVE  Seated'
<1>1. \A e \in Subscribers : at[e] # Nil => at[e] \in Rooms
  BY Who DEF TInv, Attached
<1> QED
  BY <1>1 DEF Seated

\* A step that leaves the connections of subscribers as they are.
LEMMA EgressStays ==
    ASSUME TInv, NEW t \in Threads, QBy(t),
           UNCHANGED <<services, egress, rooms, live>>, \A r \in Rooms : SameSeats(r),
           \A c \in live : pc'[c] = pc[c] /\ loc'[c].room = loc[c].room,
           pc[t] \notin {"register", "joined", "close"}, AttendsOn(t),
           \A e \in Subscribers : at'[e] = at[e] /\ (at[e] # Nil => id'[e] = id[e])
    PROVE  /\ Rostered' /\ Single' /\ Seated'
           /\ \A r \in Rooms : Served(t, r)'
           /\ \A c \in EgressIds : Held(t, c)'
<1>1. Rostered'
  BY RosterStays DEF QBy
<1>2. Single'
  BY ListedSame, SingleStays DEF QBy, SameSeats
<1>3. Seated'
  <2>1. \A e \in Subscribers : at[e] # Nil => at[e] \in Rooms
    BY Who DEF TInv, Attached
  <2> QED
    BY <2>1, SeatsStay DEF QBy, SameSeats
<1>4. ASSUME NEW r \in Rooms
      PROVE  Served(t, r)'
  <2>1. Served(t, r) /\ SameSeats(r)
    BY DEF QBy
  <2> QED
    BY <2>1 DEF Served, SameSeats, AttendsOn
<1>5. ASSUME NEW c \in EgressIds
      PROVE  Held(t, c)'
  <2>1. Held(t, c) /\ egress[c] \in Maybe(Rooms)
    BY TypeParts DEF QBy, TInv, TableTypes
  <2>2. egress'[c] # Nil => room'[egress'[c]].egressId = c
    BY <2>1 DEF Held, SameSeats, Maybe
  <2>3. ASSUME c \in live
        PROVE  /\ pc'[c] = "idle"
               /\ room'[loc'[c].room].conn = c /\ Listed(loc[c].room)'
               /\ room'[loc'[c].room].egressId = c
    <3>1. loc[c].room \in Rooms /\ loc'[c].room = loc[c].room
      BY <2>3, Locals, Who DEF TInv, Opened, Maybe
    <3> QED
      BY <2>1, <2>3, <3>1, ListedSame DEF Held, SameSeats
  <2>4. loc'[c].room = loc[c].room \/ c \notin live
    OBVIOUS
  <2> QED
    BY <2>2, <2>3, <2>4 DEF Held, Listed
<1> QED
  BY <1>1, <1>2, <1>3, <1>4, <1>5

\* A step that leaves ingresses and publishers as they are.
LEMMA IngressStays ==
    ASSUME TInv, NEW t \in Threads, QBy(t), UNCHANGED <<ingress, ing>>,
           \A r \in Rooms : /\ room'[r].ingress = room[r].ingress
                            /\ room[r].ingress # NoIngress => Listed(r)',
           \A e \in Publishers : at'[e] = at[e] /\ (at[e] # Nil => id'[e] = id[e]),
           FeedsOn(t)
    PROVE  Fed(t)' /\ Slotted'
<1>1. Slotted'
  <2>1. \A e \in Publishers : at[e] # Nil => at[e] \in Ingresses
    BY Who DEF TInv, Attached
  <2>2. \A e \in Publishers : Slot(e)' = Slot(e)
    BY DEF Slot
  <2>3. \A e \in Publishers : at[e] # Nil => ing[at[e]][Slot(e)] = e /\ ing[at[e]].id = id[e]
    BY DEF QBy, Slotted
  <2>4. \A i \in Ingresses :
           /\ ing[i].main # Nil => at[ing[i].main] = i /\ Slot(ing[i].main) = "main"
           /\ ing[i].screen # Nil => at[ing[i].screen] = i /\ Slot(ing[i].screen) = "screen"
    BY DEF QBy, Slotted
  <2>5. \A i \in Ingresses : ing[i].main \in Maybe(Publishers) /\ ing[i].screen \in Maybe(Publishers)
    BY TypeParts DEF TInv, ObjectTypes, IngressType
  <2> QED
    BY <2>1, <2>2, <2>3, <2>4, <2>5 DEF Slotted, Maybe
<1>2. ASSUME NEW x \in IngressIds, ingress'[x] # Nil
      PROVE  /\ ing'[ingress'[x]].id = x
             /\ room'[ing'[ingress'[x]].room].ingress[x] = ingress'[x]
             /\ Busy(ingress[x])' \/ Feeds(t, x)'
  <2>1. ingress[x] \in Ingresses
    BY <1>2, TypeParts DEF TInv, TableTypes, Maybe
  <2>2. ing[ingress[x]].room \in Rooms
    BY <1>2, <2>1 DEF TInv, Housed, TypeOK, IngressType, Maybe
  <2>3. /\ ing[ingress[x]].id = x
        /\ room[ing[ingress[x]].room].ingress[x] = ingress[x]
        /\ Busy(ingress[x]) \/ Feeds(t, x)
    BY <1>2 DEF QBy, Fed
  <2> QED
    BY <1>2, <2>2, <2>3 DEF FeedsOn, Busy
<1>3. \A r \in Rooms : room'[r].ingress # NoIngress => Listed(r)'
  OBVIOUS
<1> QED
  BY <1>1, <1>2, <1>3 DEF Fed, Busy

\* A step that only moves the thread, or changes its locals or its id.
LEMMA LocalStep ==
    ASSUME TInv, NEW t \in Threads, One(t), t \in Elements \/ pc[t] # "idle",
           NEW label, NEW l, l.array = "none",
           pc' = [pc EXCEPT ![t] = label], loc' = [loc EXCEPT ![t] = l],
           UNCHANGED <<tables, rooms, ing, live, at>>, \A r \in Rooms : SameRoom(r),
           \A e \in Elements : at[e] # Nil => id'[e] = id[e],
           pc[t] \notin {"register", "joined", "close"}, AttendsOn(t), FeedsOn(t),
           pc'[t] = label /\ loc'[t] = l => Walk(t)' /\ EgressWalk(t)' /\ IngressWalk(t)'
    PROVE  One(t)'
<1>1. pc'[t] = label /\ \A u \in Threads : u # t => pc'[u] = pc[u]
  BY Goes
<1>2. loc'[t] = l /\ \A u \in Threads : u # t => loc'[u] = loc[u]
  BY Takes
<1>3. \A c \in live : pc'[c] = pc[c] /\ loc'[c].room = loc[c].room
  BY <1>1, <1>2, NotLive, Who DEF TInv, TypeOK
<1>4. QBy(t)
  BY DEF One
<1>5. /\ Rostered' /\ Single' /\ Seated'
      /\ \A r \in Rooms : Served(t, r)'
      /\ \A c \in EgressIds : Held(t, c)'
  BY <1>3, <1>4, Who, EgressStays DEF tables, SameRoom
<1>6. Fed(t)' /\ Slotted'
  <2>1. \A r \in Rooms : room[r].ingress # NoIngress => Listed(r)'
    BY <1>4, ListedSame DEF QBy, Fed, tables, SameRoom
  <2> QED
    BY <1>4, <2>1, Who, IngressStays DEF tables, SameRoom
<1>7. Unshared'
  BY <1>2, <1>4 DEF QBy, Unshared
<1>8. Alone(t)'
  BY <1>1, AloneStays DEF One
<1> QED
  BY <1>1, <1>2, <1>5, <1>6, <1>7, <1>8 DEF One, QBy

\* A call or callback that has ended knows nothing.
LEMMA IdleWalk ==
    ASSUME NEW t \in Threads, pc'[t] = "idle"
    PROVE  Walk(t)' /\ EgressWalk(t)' /\ IngressWalk(t)'
BY DEF Walk, EgressWalk, IngressWalk

LEMMA NoArray ==
    ASSUME TInv, NEW t \in Threads, One(t)
    PROVE  /\ loc[t].array = "none"
           /\ \A x : /\ [loc[t] EXCEPT !.svc = x].array = "none"
                     /\ [loc[t] EXCEPT !.room = x].array = "none"
                     /\ [loc[t] EXCEPT !.id = x].array = "none"
                     /\ [loc[t] EXCEPT !.ing = x].array = "none"
<1>1. loc[t].array = "none" /\ loc[t] \in LocalsType
  BY Locals DEF One, QBy, Unshared
<1> QED
  BY <1>1 DEF LocalsType

\* The call that starts is the only one.
LEMMA BeginsAlone ==
    ASSUME NEW t \in Threads, NEW label, Begin(t, label), apart'
    PROVE  \A u \in Threads : pc[u] = "idle"
BY DEF Begin

LEMMA ConnectKeeps ==
    ASSUME TInv, NEW e \in Elements, One(e), Connect(e)
    PROVE  One(e)'
<1> e \in Threads /\ loc[e] \in LocalsType /\ services \in Maybe(Services)
  BY Who, Locals DEF TInv, TypeOK
<1> DEFINE label == IF services = Nil THEN "newService" ELSE "findRoom"
           l == [loc[e] EXCEPT !.svc = services]
<1>1. l.svc = services /\ l.array = "none"
  BY SetsSvc, NoArray
<1>2. pc' = [pc EXCEPT ![e] = label] /\ loc' = [loc EXCEPT ![e] = l] /\ pc[e] = "idle"
  BY DEF Connect, Begin, Goto
<1>3. (label = "newService" /\ services = Nil) \/ label = "findRoom"
  OBVIOUS
<1> HIDE DEF label, l
<1>4. UNCHANGED <<tables, rooms, room, ing, live, id, at, faults>>
  BY DEF Connect
<1>5. pc'[e] = label /\ loc'[e] = l => Walk(e)' /\ EgressWalk(e)' /\ IngressWalk(e)'
  BY <1>1, <1>3, <1>4 DEF Walk, EgressWalk, IngressWalk, tables
<1>6. AttendsOn(e) /\ FeedsOn(e)
  BY <1>2 DEF AttendsOn, Attends, FeedsOn, Feeds
<1> QED
  BY <1>1, <1>2, <1>4, <1>5, <1>6, LocalStep DEF SameRoom, SameSeats

LEMMA GetRoomKeeps ==
    ASSUME TInv, NEW e \in Elements, One(e), GetRoom(e)
    PROVE  One(e)'
<1> /\ e \in Threads /\ loc[e] \in LocalsType /\ pc[e] = "findRoom" /\ loc[e].svc = services
    /\ services # Nil /\ services \in Services
  BY Who, Locals DEF GetRoom, One, QBy, Walk, TInv, TypeOK, Points, Point, Maybe
<1> DEFINE r == rooms[services][RoomName[e]]
           label == IF r = Nil THEN "newRoom" ELSE Purpose(e)
           l == [loc[e] EXCEPT !.room = r]
<1>1. r \in Maybe(Rooms)
  BY Who DEF TInv, TypeOK
<1>2. pc' = [pc EXCEPT ![e] = label] /\ loc' = [loc EXCEPT ![e] = l]
  BY DEF GetRoom, Goto
<1>3. (label = "newRoom" /\ r = Nil) \/ label = "egress" \/ label = "ingress"
  BY PurposeLabel
<1>4. l.room = r /\ l.svc = services /\ l.array = "none"
  BY <1>1, SetsRoom, NoArray
<1> HIDE DEF label, l
<1>5. UNCHANGED <<tables, rooms, room, ing, live, id, at, apart, faults>>
  BY DEF GetRoom
<1>6. pc'[e] = label /\ loc'[e] = l => Walk(e)' /\ EgressWalk(e)' /\ IngressWalk(e)'
  BY <1>3, <1>4, <1>5 DEF Walk, EgressWalk, IngressWalk, tables, Found
<1>7. AttendsOn(e) /\ FeedsOn(e)
  BY DEF AttendsOn, Attends, FeedsOn, Feeds
<1> QED
  BY <1>2, <1>4, <1>5, <1>6, <1>7, LocalStep DEF SameRoom, SameSeats

\* The connection of a room that has an egress id.
LEMMA OfRoom ==
    ASSUME TInv, NEW t \in Threads, QBy(t), NEW r \in Rooms, room[r].egressId # Nil
    PROVE  LET c == room[r].egressId
           IN  /\ c \in EgressIds /\ c \in live /\ loc[c].room = r
               /\ room[r].conn = c /\ Listed(r)
               /\ egress[c] = r \/ (pc[t] = "register" /\ loc[t].room = r)
               /\ room[r].subs # <<>> \/ Attends(t, r)
<1>1. /\ room[r].egressId \in EgressIds /\ room[r].egressId \in live
      /\ loc[room[r].egressId].room = r
  BY TypeParts DEF QBy, Served, TInv, ObjectTypes, RoomType, Maybe
<1>2. Held(t, room[r].egressId) /\ Served(t, r)
  BY <1>1 DEF QBy
<1> QED
  BY <1>1, <1>2 DEF Held, Served

LEMMA TestEgressKeeps ==
    ASSUME TInv, NEW e \in Subscribers, One(e), TestEgress(e)
    PROVE  One(e)'
<1> /\ e \in Threads /\ e \in Elements /\ loc[e] \in LocalsType /\ pc[e] = "egress"
    /\ loc[e].room \in Rooms /\ QBy(e)
  BY Who, Locals DEF TestEgress, RoomLabels, One
<1> DEFINE r == loc[e].room
           label == IF room[r].egressId = Nil THEN "join" ELSE "answer"
<1>1. pc' = [pc EXCEPT ![e] = label] /\ loc' = [loc EXCEPT ![e] = loc[e]]
  BY SameLocals DEF TestEgress, Goto
<1>2. \/ label = "join" /\ room[r].egressId = Nil
      \/ label = "answer" /\ room[r].egressId # Nil /\ egress[room[r].egressId] = r
  BY OfRoom
<1>3. Found(e)
  BY DEF QBy, Walk
<1> HIDE DEF label
<1>4. UNCHANGED <<tables, rooms, room, ing, live, id, at, apart, faults>>
  BY DEF TestEgress
<1>5. pc'[e] = label /\ loc'[e] = loc[e] => Walk(e)' /\ EgressWalk(e)' /\ IngressWalk(e)'
  BY <1>2, <1>3, <1>4 DEF Walk, EgressWalk, IngressWalk, tables, Found
<1>6. AttendsOn(e) /\ FeedsOn(e)
  BY DEF AttendsOn, Attends, FeedsOn, Feeds
<1> QED
  BY <1>1, <1>4, <1>5, <1>6, NoArray, LocalStep DEF SameRoom, SameSeats

LEMMA AnswerKeeps ==
    ASSUME TInv, NEW e \in Subscribers, One(e), Answer(e)
    PROVE  One(e)'
<1> /\ e \in Threads /\ e \in Elements /\ pc[e] = "answer" /\ loc[e].room \in Rooms /\ QBy(e)
    /\ loc[e].room # Nil
  BY Who, Locals DEF Answer, RoomLabels, One
<1> DEFINE r == loc[e].room
           c == room[r].egressId
           l == [Blank EXCEPT !.id = c]
<1>1. c # Nil /\ egress[c] = r /\ Found(e)
  BY DEF QBy, EgressWalk, Walk
<1>2. room[r].name = RoomName[e]
  BY <1>1, FoundPlace DEF QBy
<1>3. pc' = [pc EXCEPT ![e] = "subscribe"] /\ loc' = [loc EXCEPT ![e] = l]
      /\ id' = [id EXCEPT ![e] = c]
  BY <1>1 DEF Answer, Goto
<1>4. l.array = "none" /\ l.id = c
  BY DEF Blank
<1> HIDE DEF l, c
<1>5. UNCHANGED <<tables, rooms, room, ing, live, at, apart, faults>>
  BY DEF Answer
<1>6. id'[e] = c /\ \A f \in Elements : f # e => id'[f] = id[f]
  BY <1>3, TypeParts DEF TInv, ElementTypes
<1>7. pc'[e] = "subscribe" /\ loc'[e] = l => Walk(e)' /\ EgressWalk(e)' /\ IngressWalk(e)'
  BY <1>1, <1>2, <1>5, <1>6 DEF Walk, EgressWalk, IngressWalk, tables
<1>8. AttendsOn(e) /\ FeedsOn(e)
  <2>1. pc'[e] = "subscribe"
    BY <1>3, Goes
  <2> QED
    BY <1>1, <1>5, <1>6, <2>1 DEF AttendsOn, Attends, FeedsOn, Feeds, tables
<1>9. at[e] = Nil
  BY Unattached
<1> QED
  BY <1>3, <1>4, <1>5, <1>6, <1>7, <1>8, <1>9, LocalStep DEF SameRoom, SameSeats

LEMMA SubscribeKeeps ==
    ASSUME TInv, NEW e \in Subscribers, One(e), Subscribe(e)
    PROVE  One(e)'
<1> /\ e \in Threads /\ e \in Elements /\ loc[e] \in LocalsType /\ pc[e] = "subscribe"
    /\ id[e] \in EgressIds /\ QBy(e)
  BY Who, Locals DEF Subscribe, TInv, Points, Point, One
<1> DEFINE r == egress[id[e]]
           l == [loc[e] EXCEPT !.room = r]
<1>1. r \in Rooms /\ r # Nil /\ room[r].name = RoomName[e]
  BY TypeParts DEF TInv, TableTypes, QBy, EgressWalk, Maybe
<1>2. pc' = [pc EXCEPT ![e] = "attach"] /\ loc' = [loc EXCEPT ![e] = l] /\ id' = id
  BY <1>1 DEF Subscribe, Goto
<1>3. l.room = r /\ l.array = "none"
  BY <1>1, SetsRoom, NoArray DEF Maybe
<1>4. room[r].egressId = id[e] /\ Listed(r)
  <2>1. room[r].egressId = id[e]
    BY <1>1 DEF QBy, Held
  <2> QED
    BY <1>1, <2>1, Who, OfRoom
<1>5. services # Nil /\ rooms[services][RoomName[e]] = r
  BY <1>1, <1>4 DEF Listed
<1> HIDE DEF r, l
<1>6. UNCHANGED <<tables, rooms, room, ing, live, at, apart, faults>>
  BY DEF Subscribe
<1>7. pc'[e] = "attach" /\ loc'[e] = l => Walk(e)' /\ EgressWalk(e)' /\ IngressWalk(e)'
  BY <1>2, <1>3, <1>4, <1>5, <1>6 DEF Walk, EgressWalk, IngressWalk, tables, Found, r
<1>8. AttendsOn(e) /\ FeedsOn(e)
  <2>1. pc'[e] = "attach" /\ loc'[e] = l
    BY <1>2, Goes, Takes
  <2> QED
    BY <1>3, <2>1 DEF AttendsOn, Attends, FeedsOn, Feeds, r
<1> QED
  BY <1>2, <1>3, <1>6, <1>7, <1>8, LocalStep DEF SameRoom, SameSeats

LEMMA GetEgressKeeps ==
    ASSUME TInv, NEW t \in Threads, One(t), GetEgress(t)
    PROVE  One(t)'
<1> /\ loc[t] \in LocalsType /\ pc[t] = "leave" /\ loc[t].id \in EgressIds /\ QBy(t)
  BY Locals DEF GetEgress, TInv, Points, Point, One
<1> DEFINE c == loc[t].id
           r == egress[c]
           l == [loc[t] EXCEPT !.room = r]
<1>1. r \in Rooms /\ r # Nil
  BY TypeParts DEF TInv, TableTypes, QBy, EgressWalk, Maybe
<1>2. pc' = [pc EXCEPT ![t] = "lock"] /\ loc' = [loc EXCEPT ![t] = l]
  BY <1>1 DEF GetEgress, Goto
<1>3. l.room = r /\ l.id = c /\ l.array = "none"
  BY <1>1, SetsRoom, NoArray DEF Maybe
<1>4. room[r].egressId = c
  BY <1>1 DEF QBy, Held
<1> HIDE DEF l, r
<1>5. UNCHANGED <<tables, rooms, room, ing, live, id, at, apart, faults>>
  BY DEF GetEgress
<1>6. pc'[t] = "lock" /\ loc'[t] = l => Walk(t)' /\ EgressWalk(t)' /\ IngressWalk(t)'
  BY <1>3, <1>4, <1>5 DEF Walk, EgressWalk, IngressWalk
<1>7. AttendsOn(t) /\ FeedsOn(t)
  <2>1. pc'[t] = "lock" /\ loc'[t] = l
    BY <1>2, Goes, Takes
  <2> QED
    BY <1>3, <2>1 DEF AttendsOn, Attends, FeedsOn, Feeds, r
<1> QED
  BY <1>2, <1>3, <1>5, <1>6, <1>7, LocalStep DEF SameRoom, SameSeats

LEMMA BlankArray == Blank.array = "none"
BY DEF Blank

\* A call that ends, with nobody left to attend to.
LEMMA Returns ==
    ASSUME TInv, NEW t \in Threads, One(t), pc[t] # "idle", Return(t),
           UNCHANGED <<tables, rooms, ing, live, at>>, \A r \in Rooms : SameRoom(r),
           \A e \in Elements : at[e] # Nil => id'[e] = id[e],
           pc[t] \notin {"register", "joined", "close"}, AttendsOn(t), FeedsOn(t)
    PROVE  One(t)'
<1>1. pc' = [pc EXCEPT ![t] = "idle"] /\ loc' = [loc EXCEPT ![t] = Blank]
  BY DEF Return, Goto
<1>2. pc'[t] = "idle" => Walk(t)' /\ EgressWalk(t)' /\ IngressWalk(t)'
  BY IdleWalk
<1> QED
  BY <1>1, <1>2, BlankArray, LocalStep

LEMMA LeaveEgressRefused ==
    ASSUME TInv, NEW t \in Threads, One(t), LeaveEgress(t), room[loc[t].room].subs # <<>>
    PROVE  One(t)'
<1>1. /\ Return(t) /\ pc[t] = "lock"
      /\ UNCHANGED <<tables, rooms, room, ing, live, id, at>>
  BY DEF LeaveEgress, tables
<1>2. AttendsOn(t) /\ FeedsOn(t)
  BY <1>1 DEF AttendsOn, Attends, FeedsOn, Feeds
<1> QED
  BY <1>1, <1>2, Returns DEF SameRoom, SameSeats

LEMMA UnlockSame ==
    ASSUME TInv, NEW t, NEW r \in Rooms, room' = [room EXCEPT ![r] = Unlocked(t, room[r])]
    PROVE  \A q \in Rooms : SameRoom(q)
<1>1. room \in [Rooms -> RoomType]
  BY TypeParts DEF TInv, ObjectTypes
<1> SUFFICES ASSUME NEW q \in Rooms
             PROVE  SameRoom(q)
  OBVIOUS
<1>2. CASE q = r
  <2>1. room'[q] = Unlocked(t, room[q]) /\ room[q] \in RoomType
    BY <1>1, <1>2
  <2> QED
    BY <2>1 DEF Unlocked, SameRoom, SameSeats, RoomType
<1>3. CASE q # r
  BY <1>1, <1>3 DEF SameRoom, SameSeats
<1> QED
  BY <1>2, <1>3

LEMMA TestServiceKeeps ==
    ASSUME TInv, NEW t \in Threads, One(t), TestService(t)
    PROVE  One(t)'
<1> /\ loc[t] \in LocalsType /\ pc[t] = "testService" /\ loc[t].room \in Rooms /\ QBy(t)
  BY Locals DEF TestService, RoomLabels, ClosingLabels, One
<1> DEFINE r == loc[t].room
<1>1. UNCHANGED <<tables, rooms, ing, live, id, at, apart, faults>>
  BY DEF TestService
<1>2. AttendsOn(t) /\ FeedsOn(t)
  BY DEF AttendsOn, Attends, FeedsOn, Feeds
<1>3. CASE rooms[room[r].service] = NoRooms /\ Goto(t, "deleteService") /\ UNCHANGED <<room, loc>>
  <2>1. pc' = [pc EXCEPT ![t] = "deleteService"] /\ loc' = [loc EXCEPT ![t] = loc[t]]
    BY <1>3, SameLocals DEF Goto
  <2>2. services # Nil /\ room[r].service = services
    BY DEF QBy, Walk
  <2>3. pc'[t] = "deleteService" /\ loc'[t] = loc[t] => Walk(t)' /\ EgressWalk(t)' /\ IngressWalk(t)'
    BY <1>1, <1>3, <2>2 DEF Walk, EgressWalk, IngressWalk, tables, NoRooms
  <2> QED
    BY <1>1, <1>2, <1>3, <2>1, <2>3, NoArray, LocalStep DEF SameRoom, SameSeats
<1>4. CASE Return(t) /\ room' = [room EXCEPT ![r] = Unlocked(t, @)]
  BY <1>1, <1>2, <1>4, UnlockSame, Returns
<1> QED
  BY <1>3, <1>4 DEF TestService

LEMMA LkDisconnectedKeeps ==
    ASSUME TInv, NEW c \in EgressIds, One(c), LkDisconnected(c)
    PROVE  One(c)'
<1> /\ c \in Threads /\ loc[c] \in LocalsType /\ pc[c] = "dropped"
    /\ loc[c].room \in Rooms /\ QBy(c)
  BY Who, Locals DEF LkDisconnected, RoomLabels, CallbackLabels, One
<1> DEFINE r == loc[c].room
           m == [loc[c] EXCEPT !.id = room[r].egressId]
           l == Ranging(m, r)
<1>1. room[r].egressId = Nil /\ room[r].subs = <<>>
  BY DEF QBy, EgressWalk, Empty
<1>2. m \in LocalsType /\ m.id = Nil /\ m.room = r
  BY <1>1, SetsId DEF Maybe
<1>3. pc' = [pc EXCEPT ![c] = "shed"] /\ loc' = [loc EXCEPT ![c] = l]
  BY DEF LkDisconnected, Goto
<1> HIDE DEF m
<1>4. l.id = Nil /\ l.view = <<>> /\ l.array = "none"
  BY <1>1, <1>2 DEF Ranging, LocalsType
<1> HIDE DEF l
<1>5. UNCHANGED <<tables, rooms, room, ing, live, id, at, apart, faults>>
  BY DEF LkDisconnected
<1>6. pc'[c] = "shed" /\ loc'[c] = l => Walk(c)' /\ EgressWalk(c)' /\ IngressWalk(c)'
  BY <1>4 DEF Walk, EgressWalk, IngressWalk
<1>7. AttendsOn(c) /\ FeedsOn(c)
  BY DEF AttendsOn, Attends, FeedsOn, Feeds
<1> QED
  BY <1>3, <1>4, <1>5, <1>6, <1>7, LocalStep DEF SameRoom, SameSeats

LEMMA ShedKeeps ==
    ASSUME TInv, NEW c \in EgressIds, One(c), Shed(c)
    PROVE  One(c)'
<1> c \in Threads /\ pc[c] = "shed" /\ QBy(c)
  BY Who DEF Shed, One
<1>1. loc[c].id = Nil /\ loc[c].view = <<>> /\ loc[c].array = "none"
  BY DEF QBy, EgressWalk, Unshared
<1>2. Return(c)
  <2>1. loc[c].next \notin DOMAIN <<>>
    BY EmptySeq
  <2> QED
    BY <1>1, <2>1 DEF Shed
<1>3. UNCHANGED <<tables, rooms, room, ing, live, id, at, apart, faults>>
  BY DEF Shed
<1>4. AttendsOn(c) /\ FeedsOn(c)
  BY DEF AttendsOn, Attends, FeedsOn, Feeds
<1> QED
  BY <1>2, <1>3, <1>4, Returns DEF SameRoom, SameSeats

\* No callback finds a subscriber to take out.
LEMMA NoEvict ==
    ASSUME NEW c \in EgressIds, One(c)
    PROVE  ~Evict(c)
BY DEF One, QBy, EgressWalk, Evict

LEMMA GetIngressKeeps ==
    ASSUME TInv, NEW e \in Publishers, One(e), GetIngressByParticipant(e)
    PROVE  One(e)'
<1> /\ e \in Threads /\ e \in Elements /\ loc[e] \in LocalsType /\ pc[e] = "ingress" /\ QBy(e)
  BY Who, Locals DEF GetIngressByParticipant, One
<1>1. /\ pc' = [pc EXCEPT ![e] = "publish"] \/ pc' = [pc EXCEPT ![e] = "joinIngress"]
      /\ id' = id \/ id' = [id EXCEPT ![e] = Participant[e]]
      /\ UNCHANGED <<tables, rooms, room, ing, live, at, loc, apart, faults>>
  BY DEF GetIngressByParticipant, Goto
<1>2. loc' = [loc EXCEPT ![e] = loc[e]]
  BY <1>1, SameLocals
<1>3. at[e] = Nil /\ Found(e) /\ loc[e].array = "none"
  BY Unattached, NoArray DEF QBy, Walk
<1>4. \A f \in Elements : at[f] # Nil => id'[f] = id[f]
  BY <1>1, <1>3, TypeParts DEF TInv, ElementTypes
<1>5. AttendsOn(e) /\ FeedsOn(e)
  BY DEF AttendsOn, Attends, FeedsOn, Feeds
<1>6. ASSUME NEW label \in {"publish", "joinIngress"}, pc'[e] = label, loc'[e] = loc[e]
      PROVE  Walk(e)' /\ EgressWalk(e)' /\ IngressWalk(e)'
  BY <1>1, <1>3, <1>6 DEF Walk, EgressWalk, IngressWalk, Found, tables
<1> QED
  BY <1>1, <1>2, <1>3, <1>4, <1>5, <1>6, LocalStep DEF SameRoom, SameSeats

LEMMA TestPublishKeeps ==
    ASSUME TInv, NEW e \in Publishers, One(e), TestPublish(e)
    PROVE  One(e)'
<1> /\ e \in Threads /\ e \in Elements /\ pc[e] = "publish" /\ id[e] \in IngressIds /\ QBy(e)
  BY Who DEF TestPublish, TInv, Points, Point, One
<1> DEFINE i == ingress[id[e]]
           l == [Blank EXCEPT !.ing = i]
<1>1. UNCHANGED <<tables, rooms, room, ing, live, at, apart, faults>>
  BY DEF TestPublish
<1>2. at[e] = Nil
  BY Unattached
<1>3. AttendsOn(e)
  BY DEF AttendsOn, Attends
<1>4. CASE i = Nil \/ (i # Nil /\ ing[i][Slot(e)] # Nil)
  <2>1. Return(e) /\ id' = [id EXCEPT ![e] = Nil]
    BY <1>4 DEF TestPublish
  <2>2. \A f \in Elements : at[f] # Nil => id'[f] = id[f]
    BY <1>2, <2>1, TypeParts DEF TInv, ElementTypes
  <2>3. i = Nil \/ (i # Nil /\ Busy(i))
    BY <1>4, SlotName DEF Busy
  <2>4. FeedsOn(e)
    BY <2>3 DEF FeedsOn, Feeds
  <2> QED
    BY <1>1, <1>3, <2>1, <2>2, <2>4, Returns DEF SameRoom, SameSeats
<1>5. CASE ~(i = Nil \/ (i # Nil /\ ing[i][Slot(e)] # Nil))
  <2>1. /\ pc' = [pc EXCEPT ![e] = "create"] /\ loc' = [loc EXCEPT ![e] = l] /\ id' = id
        /\ ing[i][Slot(e)] = Nil
    BY <1>5 DEF TestPublish, Goto
  <2>2. l.ing = i /\ l.array = "none"
    BY DEF Blank
  <2> HIDE DEF l
  <2>3. pc'[e] = "create" /\ loc'[e] = l => Walk(e)' /\ EgressWalk(e)' /\ IngressWalk(e)'
    BY <1>1, <2>1, <2>2 DEF Walk, EgressWalk, IngressWalk, tables, Slot
  <2>4. FeedsOn(e)
    <3>1. pc'[e] = "create"
      BY <2>1, Goes
    <3> QED
      BY <2>1, <3>1 DEF FeedsOn, Feeds
  <2> QED
    BY <1>1, <1>3, <2>1, <2>2, <2>3, <2>4, LocalStep DEF SameRoom, SameSeats
<1> QED
  BY <1>4, <1>5

LEMMA LeaveIngressKeeps ==
    ASSUME TInv, NEW e \in Publishers, One(e), LeaveIngress(e), faults' = 0
    PROVE  One(e)'
<1> /\ e \in Threads /\ e \in Elements /\ loc[e] \in LocalsType /\ pc[e] = "leaveIngress"
    /\ loc[e].id \in IngressIds /\ QBy(e)
  BY Who, Locals DEF LeaveIngress, TInv, Points, Point, One
<1> DEFINE x == loc[e].id
           i == ingress[x]
           l == [loc[e] EXCEPT !.ing = i, !.room = ing[i].room]
<1>1. UNCHANGED <<tables, rooms, room, ing, live, id, at, apart>>
  BY DEF LeaveIngress
<1>2. AttendsOn(e)
  BY DEF AttendsOn, Attends
<1>3. CASE (i = Nil \/ (i # Nil /\ Busy(i))) /\ Return(e)
  <2>1. FeedsOn(e)
    BY <1>3 DEF FeedsOn, Feeds
  <2> QED
    BY <1>1, <1>2, <1>3, <2>1, Returns DEF SameRoom, SameSeats
<1>4. ASSUME i # Nil, NEW done \in BOOLEAN, Removal(done),
             IF done
             THEN /\ Goto(e, "deleteIngress")
                  /\ loc' = [loc EXCEPT ![e].ing = i, ![e].room = ing[i].room]
             ELSE Return(e)
      PROVE  One(e)'
  <2>1. done
    BY <1>4, TypeParts DEF Removal, Fault, TInv, HistoryTypes
  <2>2. pc' = [pc EXCEPT ![e] = "deleteIngress"] /\ loc' = [loc EXCEPT ![e] = l]
    BY <1>4, <2>1 DEF Goto, TInv, TypeOK
  <2>3. l.room = ing[i].room /\ l.id = x /\ l.array = "none"
    BY NoArray DEF LocalsType
  <2> HIDE DEF l
  <2>4. pc'[e] = "deleteIngress" /\ loc'[e] = l => Walk(e)' /\ EgressWalk(e)' /\ IngressWalk(e)'
    BY <1>1, <1>4, <2>3 DEF Walk, EgressWalk, IngressWalk, tables
  <2>5. FeedsOn(e)
    <3>1. pc'[e] = "deleteIngress" /\ loc'[e].id = x
      BY <2>2, <2>3, Goes, Takes
    <3> QED
      BY <3>1 DEF FeedsOn, Feeds
  <2> QED
    BY <1>1, <1>2, <2>2, <2>3, <2>4, <2>5, LocalStep DEF SameRoom, SameSeats
<1> QED
  BY <1>3, <1>4 DEF LeaveIngress

LEMMA TestRoomKeeps ==
    ASSUME TInv, NEW e \in Publishers, One(e), TestRoom(e)
    PROVE  One(e)'
<1> /\ e \in Threads /\ e \in Elements /\ loc[e] \in LocalsType /\ pc[e] = "testRoom" /\ QBy(e)
    /\ loc[e].room \in Rooms
  BY Who, Locals DEF TestRoom, RoomLabels, One
<1>1. UNCHANGED <<tables, rooms, room, ing, live, id, at, apart, faults>>
  BY DEF TestRoom
<1>2. AttendsOn(e) /\ FeedsOn(e)
  BY DEF AttendsOn, Attends, FeedsOn, Feeds
<1>3. CASE /\ room[loc[e].room].ingress = NoIngress /\ room[loc[e].room].subs = <<>>
           /\ Goto(e, "hangUp") /\ UNCHANGED loc
  <2>1. pc' = [pc EXCEPT ![e] = "hangUp"] /\ loc' = [loc EXCEPT ![e] = loc[e]]
    BY <1>3, SameLocals DEF Goto
  <2>2. Listed(loc[e].room)
    BY DEF QBy, Walk
  <2>3. pc'[e] = "hangUp" /\ loc'[e] = loc[e] => Walk(e)' /\ EgressWalk(e)' /\ IngressWalk(e)'
    BY <1>1, <1>3, <2>2 DEF Walk, EgressWalk, IngressWalk, tables, Listed, NoIngress
  <2> QED
    BY <1>1, <1>2, <2>1, <2>3, NoArray, LocalStep DEF SameRoom, SameSeats
<1>4. CASE Return(e)
  BY <1>1, <1>2, <1>4, Returns DEF SameRoom, SameSeats
<1> QED
  BY <1>3, <1>4 DEF TestRoom

\* A join of a connection or of an ingress that fails.
LEMMA JoinIngressFails ==
    ASSUME TInv, NEW e \in Publishers, One(e), JoinIngress(e), Return(e), UNCHANGED ing
    PROVE  One(e)'
<1> e \in Threads /\ pc[e] = "joinIngress"
  BY Who DEF JoinIngress
<1>1. UNCHANGED <<tables, rooms, room, ing, live, id, at, apart, faults>>
  BY DEF JoinIngress
<1>2. AttendsOn(e) /\ FeedsOn(e)
  BY DEF AttendsOn, Attends, FeedsOn, Feeds
<1> QED
  BY <1>1, <1>2, Returns DEF SameRoom, SameSeats

\* A step of a publisher that changes ingresses or publishers only.
LEMMA IngressStep ==
    ASSUME TInv, NEW t \in Publishers, One(t),
           NEW label, NEW l, l.array = "none",
           pc' = [pc EXCEPT ![t] = label], loc' = [loc EXCEPT ![t] = l],
           UNCHANGED <<services, egress, rooms, live>>, \A r \in Rooms : SameSeats(r),
           \A e \in Elements : e # t => at'[e] = at[e] /\ id'[e] = id[e],
           pc[t] \notin SubscriberLabels \cup LeaveLabels,
           pc'[t] = label /\ loc'[t] = l =>
              Walk(t)' /\ EgressWalk(t)' /\ IngressWalk(t)' /\ Fed(t)' /\ Slotted'
    PROVE  One(t)'
<1>1. pc'[t] = label /\ \A u \in Threads : u # t => pc'[u] = pc[u]
  BY Goes, Who
<1>2. loc'[t] = l /\ \A u \in Threads : u # t => loc'[u] = loc[u]
  BY Takes, Who
<1>3. \A c \in live : pc'[c] = pc[c] /\ loc'[c].room = loc[c].room
  BY <1>1, <1>2, NotLive, Who DEF TInv, TypeOK
<1>4. QBy(t) /\ t \in Threads
  BY Who DEF One
<1>5. AttendsOn(t)
  BY DEF AttendsOn, Attends, SubscriberLabels, LeaveLabels
<1>6. \A e \in Subscribers : at'[e] = at[e] /\ id'[e] = id[e]
  BY Who
<1>7. /\ Rostered' /\ Single' /\ Seated'
      /\ \A r \in Rooms : Served(t, r)'
      /\ \A c \in EgressIds : Held(t, c)'
  BY <1>3, <1>4, <1>5, <1>6, EgressStays DEF SubscriberLabels, LeaveLabels
<1>8. Unshared'
  BY <1>2, <1>4 DEF QBy, Unshared
<1>9. Alone(t)'
  BY <1>1, <1>4, AloneStays DEF One
<1> QED
  BY <1>1, <1>2, <1>7, <1>8, <1>9 DEF One, QBy

LEMMA IngressTypes ==
    ASSUME TInv
    PROVE  /\ \A i \in Ingresses : /\ ing[i].id \in Maybe(IngressIds) /\ ing[i].room \in Maybe(Rooms)
                                   /\ ing[i].main \in Maybe(Publishers)
                                   /\ ing[i].screen \in Maybe(Publishers)
           /\ \A x \in IngressIds : ingress[x] # Nil => /\ ingress[x] \in Ingresses
                                                        /\ ing[ingress[x]].room \in Rooms
           /\ \A e \in Publishers : at[e] # Nil => at[e] \in Ingresses /\ id[e] \in IngressIds
           /\ \A r \in Rooms : /\ room[r].ingress \in [IngressIds -> Maybe(Ingresses)]
                               /\ room[r].ingress # NoIngress
                                     => \E x \in IngressIds : room[r].ingress[x] # Nil
<1>1. \A i \in Ingresses : /\ ing[i].id \in Maybe(IngressIds) /\ ing[i].room \in Maybe(Rooms)
                           /\ ing[i].main \in Maybe(Publishers)
                           /\ ing[i].screen \in Maybe(Publishers)
  BY TypeParts DEF TInv, ObjectTypes, IngressType
<1>2. \A x \in IngressIds : ingress[x] # Nil => ingress[x] \in Ingresses
  BY TypeParts DEF TInv, TableTypes, Maybe
<1>3. \A x \in IngressIds : ingress[x] # Nil => ing[ingress[x]].room \in Rooms
  BY <1>1, <1>2 DEF TInv, Housed, Maybe
<1>4. \A e \in Publishers : at[e] # Nil => at[e] \in Ingresses /\ id[e] \in IngressIds
  BY Who DEF TInv, Attached
<1>5. \A r \in Rooms : room[r].ingress \in [IngressIds -> Maybe(Ingresses)]
  BY TypeParts DEF TInv, ObjectTypes, RoomType
<1>6. \A r \in Rooms : room[r].ingress # NoIngress => \E x \in IngressIds : room[r].ingress[x] # Nil
  BY <1>5 DEF NoIngress
<1> QED
  BY <1>1, <1>2, <1>3, <1>4, <1>5, <1>6

LEMMA SlotFields ==
    ASSUME TInv, NEW i \in Ingresses, NEW e, NEW p,
           ing' = [ing EXCEPT ![i][Slot(e)] = p]
    PROVE  /\ \A j \in Ingresses : /\ ing'[j].id = ing[j].id /\ ing'[j].room = ing[j].room
                                   /\ j # i => ing'[j] = ing[j]
           /\ ing'[i][Slot(e)] = p
           /\ Slot(e) = "main" => ing'[i].main = p /\ ing'[i].screen = ing[i].screen
           /\ Slot(e) = "screen" => ing'[i].screen = p /\ ing'[i].main = ing[i].main
<1> ing \in [Ingresses -> IngressType]
  BY TypeParts DEF TInv, ObjectTypes
<1> DEFINE o == [ing[i] EXCEPT ![Slot(e)] = p]
<1>1. /\ o.id = ing[i].id /\ o.room = ing[i].room /\ o[Slot(e)] = p
      /\ Slot(e) = "main" => o.main = p /\ o.screen = ing[i].screen
      /\ Slot(e) = "screen" => o.screen = p /\ o.main = ing[i].main
  <2>1. CASE Slot(e) = "main"
    BY <2>1 DEF IngressType
  <2>2. CASE Slot(e) = "screen"
    BY <2>2 DEF IngressType
  <2> QED
    BY <2>1, <2>2, SlotName
<1>2. ing' = [ing EXCEPT ![i] = o]
  OBVIOUS
<1> HIDE DEF o
<1> QED
  BY <1>1, <1>2

LEMMA JoinIngressMakes ==
    ASSUME TInv, NEW e \in Publishers, One(e), JoinIngress(e),
           NEW i \in Ingresses, NEW x \in IngressIds, ~UsedIngress(i),
           ing' = [ing EXCEPT ![i] = NewIngress(x, loc[e].room)],
           loc' = [loc EXCEPT ![e].ing = i, ![e].id = x],
           Goto(e, "addIngress")
    PROVE  One(e)'
<1> /\ e \in Threads /\ e \in Elements /\ loc[e] \in LocalsType /\ pc[e] = "joinIngress" /\ QBy(e)
    /\ loc[e].room \in Rooms
  BY Who, Locals DEF JoinIngress, RoomLabels, One
<1> DEFINE r == loc[e].room
           l == [loc[e] EXCEPT !.ing = i, !.id = x]
<1>1. UNCHANGED <<tables, rooms, room, live, id, at, apart, faults>>
  BY DEF JoinIngress
<1>2. pc' = [pc EXCEPT ![e] = "addIngress"] /\ loc' = [loc EXCEPT ![e] = l]
  BY DEF Goto, TInv, TypeOK
<1>3. l.room = r /\ l.ing = i /\ l.id = x /\ l.array = "none"
  BY NoArray DEF LocalsType
<1> HIDE DEF l
<1>4. ing'[i] = NewIngress(x, r) /\ \A j \in Ingresses : j # i => ing'[j] = ing[j]
  BY TypeParts DEF TInv, ObjectTypes
<1>5. /\ \A y \in IngressIds : ingress[y] # i
      /\ \A f \in Publishers : at[f] # i
  BY DEF UsedIngress, InTable
<1>6. Found(e)
  BY DEF QBy, Walk
<1>7. pc'[e] = "addIngress" /\ loc'[e] = l => Walk(e)' /\ EgressWalk(e)' /\ IngressWalk(e)'
  BY <1>1, <1>3, <1>4, <1>6 DEF Walk, EgressWalk, IngressWalk, tables, Found, NewIngress
<1>8. Fed(e)'
  <2>1. ASSUME NEW y \in IngressIds, ingress[y] # Nil
        PROVE  /\ ing'[ingress[y]] = ing[ingress[y]]
               /\ ing[ingress[y]].id = y
               /\ room[ing[ingress[y]].room].ingress[y] = ingress[y]
               /\ Busy(ingress[y])
    BY <1>4, <1>5, <2>1, IngressTypes DEF QBy, Fed, Feeds
  <2>2. \A q \in Rooms : room'[q].ingress # NoIngress => Listed(q)'
    BY <1>1 DEF QBy, Fed, Listed, tables
  <2> QED
    BY <1>1, <2>1, <2>2 DEF Fed, Busy, tables
<1>9. Slotted'
  <2>1. \A f \in Publishers : at[f] # Nil => ing'[at[f]] = ing[at[f]]
    BY <1>4, <1>5, IngressTypes
  <2>2. \A j \in Ingresses :
           /\ ing'[j].main # Nil => at[ing'[j].main] = j /\ Slot(ing'[j].main) = "main"
           /\ ing'[j].screen # Nil => at[ing'[j].screen] = j /\ Slot(ing'[j].screen) = "screen"
    BY <1>4 DEF QBy, Slotted, NewIngress
  <2> QED
    BY <1>1, <2>1, <2>2 DEF QBy, Slotted, Slot
<1> QED
  BY <1>1, <1>2, <1>3, <1>7, <1>8, <1>9, IngressStep
     DEF SameSeats, SubscriberLabels, LeaveLabels, tables

LEMMA AddIngressKeeps ==
    ASSUME TInv, NEW e \in Publishers, One(e), AddIngress(e)
    PROVE  One(e)'
<1> /\ e \in Threads /\ e \in Elements /\ loc[e] \in LocalsType /\ pc[e] = "addIngress" /\ QBy(e)
    /\ loc[e].room \in Rooms /\ loc[e].room # Nil /\ loc[e].ing \in Ingresses
    /\ loc[e].id \in IngressIds
  BY Who, Locals DEF AddIngress, RoomLabels, One, TInv, Points, Point
<1> DEFINE r == loc[e].room
           x == loc[e].id
           i == loc[e].ing
<1>1. /\ room' = [room EXCEPT ![r].ingress[x] = i]
      /\ ingress' = [ingress EXCEPT ![x] = i] /\ id' = [id EXCEPT ![e] = x]
      /\ UNCHANGED <<services, egress, rooms, ing, live, at, loc, apart, faults>>
      /\ pc' = [pc EXCEPT ![e] = "publish"] /\ loc' = [loc EXCEPT ![e] = loc[e]]
  BY SameLocals DEF AddIngress, Goto
<1>2. /\ room'[r].ingress = [room[r].ingress EXCEPT ![x] = i]
      /\ \A q \in Rooms : q # r => room'[q] = room[q]
      /\ \A q \in Rooms : SameSeats(q)
  <2>1. room \in [Rooms -> RoomType]
    BY TypeParts DEF TInv, ObjectTypes
  <2>2. room[r] \in RoomType /\ room'[r] = [room[r] EXCEPT !.ingress = [room[r].ingress EXCEPT ![x] = i]]
        /\ \A q \in Rooms : q # r => room'[q] = room[q]
    BY <1>1, <2>1
  <2> QED
    BY <2>2 DEF RoomType, SameSeats
<1>3. ingress'[x] = i /\ \A y \in IngressIds : y # x => ingress'[y] = ingress[y]
  BY <1>1, TypeParts DEF TInv, TableTypes
<1>4. id'[e] = x /\ \A f \in Elements : f # e => id'[f] = id[f]
  BY <1>1, TypeParts DEF TInv, ElementTypes
<1>5. ing[i].id = x /\ ing[i].room = r /\ Found(e)
  BY DEF QBy, Walk, IngressWalk, NewIngress
<1>6. Listed(r)
  BY <1>5, FoundPlace DEF QBy
<1>7. pc'[e] = "publish" => Walk(e)' /\ EgressWalk(e)' /\ IngressWalk(e)'
  BY DEF Walk, EgressWalk, IngressWalk
<1>8. ASSUME pc'[e] = "publish"
      PROVE  Fed(e)'
  <2>1. ASSUME NEW y \in IngressIds, y # x, ingress[y] # Nil
        PROVE  /\ ing[ingress[y]].id = y
               /\ room'[ing[ingress[y]].room].ingress[y] = ingress[y]
               /\ Busy(ingress[y])
    <3>1. /\ ing[ingress[y]].id = y /\ ing[ingress[y]].room \in Rooms
          /\ room[ing[ingress[y]].room].ingress[y] = ingress[y]
          /\ Busy(ingress[y])
      BY <2>1, IngressTypes DEF QBy, Fed, Feeds
    <3>2. room[r].ingress \in [IngressIds -> Maybe(Ingresses)]
      BY IngressTypes
    <3> QED
      BY <1>2, <2>1, <3>1, <3>2
  <2>2. room'[r].ingress[x] = i
    BY <1>2, IngressTypes
  <2>3. \A y \in IngressIds : y = x => Feeds(e, y)'
    BY <1>4, <1>8 DEF Feeds
  <2>4. \A q \in Rooms : room'[q].ingress # NoIngress => Listed(q)'
    <3>1. \A q \in Rooms : Listed(q) => Listed(q)'
      BY <1>1, <1>2, ListedSame
    <3> QED
      BY <1>2, <1>6, <3>1 DEF QBy, Fed
  <2>5. ASSUME NEW y \in IngressIds, ingress'[y] # Nil
        PROVE  /\ ing'[ingress'[y]].id = y
               /\ room'[ing'[ingress'[y]].room].ingress[y] = ingress'[y]
               /\ Busy(ingress[y])' \/ Feeds(e, y)'
    <3>1. CASE y = x
      BY <1>1, <1>3, <1>5, <2>2, <2>3, <3>1
    <3>2. CASE y # x
      BY <1>1, <1>3, <2>1, <2>5, <3>2 DEF Busy
    <3> QED
      BY <3>1, <3>2
  <2> QED
    BY <2>4, <2>5 DEF Fed, Busy
<1>9. Slotted'
  <2>1. at[e] = Nil
    BY Unattached
  <2> QED
    BY <1>1, <1>4, <2>1, Who DEF QBy, Slotted, Slot
<1> QED
  BY <1>1, <1>2, <1>4, <1>7, <1>8, <1>9, NoArray, IngressStep
     DEF SubscriberLabels, LeaveLabels

LEMMA CreatePublisherKeeps ==
    ASSUME TInv, NEW e \in Publishers, One(e), CreatePublisher(e)
    PROVE  One(e)'
<1> /\ e \in Threads /\ e \in Elements /\ pc[e] = "create" /\ QBy(e)
    /\ loc[e].ing \in Ingresses /\ id[e] \in IngressIds /\ e # Nil
  BY Who, Locals DEF CreatePublisher, One, TInv, Points, Point
<1> DEFINE i == loc[e].ing
<1>1. /\ pc' = [pc EXCEPT ![e] = "idle"] /\ loc' = [loc EXCEPT ![e] = Blank]
      /\ ing' = [ing EXCEPT ![i][Slot(e)] = e] /\ at' = [at EXCEPT ![e] = i]
      /\ UNCHANGED <<tables, rooms, room, live, id, apart, faults>>
  BY DEF CreatePublisher, Return, Goto
<1>2. ingress[id[e]] = i /\ ing[i][Slot(e)] = Nil
  BY DEF QBy, IngressWalk
<1>3. at'[e] = i /\ \A f \in Elements : f # e => at'[f] = at[f]
  BY <1>1, TypeParts DEF TInv, ElementTypes
<1>4. /\ \A j \in Ingresses : /\ ing'[j].id = ing[j].id /\ ing'[j].room = ing[j].room
                              /\ j # i => ing'[j] = ing[j]
      /\ ing'[i][Slot(e)] = e
      /\ Slot(e) = "main" => ing'[i].main = e /\ ing'[i].screen = ing[i].screen
      /\ Slot(e) = "screen" => ing'[i].screen = e /\ ing'[i].main = ing[i].main
  BY <1>1, SlotFields
<1>5. i # Nil /\ ing[i].id = id[e] /\ i \in Ingresses
  BY <1>2, Who DEF QBy, Fed
<1> HIDE DEF i
<1>6. Fed(e)'
  <2>1. ASSUME NEW y \in IngressIds, ingress[y] # Nil
        PROVE  /\ ing'[ingress[y]].id = y
               /\ room[ing'[ingress[y]].room].ingress[y] = ingress[y]
               /\ ing'[ingress[y]].main # Nil \/ ing'[ingress[y]].screen # Nil
    <3>1. ingress[y] \in Ingresses
      BY <2>1, IngressTypes
    <3>2. /\ ing[ingress[y]].id = y
          /\ room[ing[ingress[y]].room].ingress[y] = ingress[y]
          /\ Busy(ingress[y]) \/ id[e] = y
      BY <2>1 DEF QBy, Fed, Feeds
    <3>3. CASE ingress[y] = i
      BY <1>4, <3>1, <3>2, <3>3, SlotName
    <3>4. CASE ingress[y] # i
      BY <1>2, <1>4, <3>1, <3>2, <3>4 DEF Busy
    <3> QED
      BY <3>3, <3>4
  <2>2. \A q \in Rooms : room'[q].ingress # NoIngress => Listed(q)'
    BY <1>1 DEF QBy, Fed, Listed, tables
  <2> QED
    BY <1>1, <2>1, <2>2 DEF Fed, Busy, tables
<1>7. Slotted'
  <2>1. ASSUME NEW f \in Publishers, at'[f] # Nil
        PROVE  ing'[at'[f]][Slot(f)] = f /\ ing'[at'[f]].id = id'[f]
    <3>1. CASE f = e
      BY <1>1, <1>3, <1>4, <1>5, <3>1
    <3>2. CASE f # e /\ at[f] # i
      BY <1>1, <1>3, <1>4, <2>1, <3>2, Who, IngressTypes DEF QBy, Slotted
    <3>3. CASE f # e /\ at[f] = i
      <4>1. at'[f] = i /\ ing[i][Slot(f)] = f /\ ing[i].id = id[f] /\ f # Nil
        BY <1>3, <2>1, <3>3, Who DEF QBy, Slotted
      <4>2. Slot(f) # Slot(e)
        BY <1>2, <4>1
      <4>3. ing'[i][Slot(f)] = ing[i][Slot(f)]
        BY <1>4, <4>2, SlotName
      <4> QED
        BY <1>1, <1>4, <1>5, <4>1, <4>3
    <3> QED
      BY <3>1, <3>2, <3>3
  <2>2. ASSUME NEW j \in Ingresses
        PROVE  /\ ing'[j].main # Nil => at'[ing'[j].main] = j /\ Slot(ing'[j].main) = "main"
               /\ ing'[j].screen # Nil => at'[ing'[j].screen] = j /\ Slot(ing'[j].screen) = "screen"
    <3>1. /\ ing[j].main # Nil => /\ at[ing[j].main] = j /\ ing[j].main \in Elements
                                  /\ Slot(ing[j].main) = "main"
          /\ ing[j].screen # Nil => /\ at[ing[j].screen] = j /\ ing[j].screen \in Elements
                                    /\ Slot(ing[j].screen) = "screen"
      BY IngressTypes, Who DEF QBy, Slotted, Maybe
    <3>2. at[e] = Nil /\ j # Nil
      BY Unattached, Who
    <3> QED
      BY <1>3, <1>4, <3>1, <3>2, SlotName
  <2>3. \A f \in Publishers : Slot(f)' = Slot(f)
    BY DEF Slot
  <2> QED
    BY <2>1, <2>2, <2>3 DEF Slotted
<1>8. pc'[e] = "idle" => Walk(e)' /\ EgressWalk(e)' /\ IngressWalk(e)'
  BY IdleWalk
<1> QED
  BY <1>1, <1>3, <1>6, <1>7, <1>8, BlankArray, IngressStep
     DEF SameSeats, SubscriberLabels, LeaveLabels, tables

LEMMA UnpublishKeeps ==
    ASSUME TInv, NEW e \in Publishers, One(e), Unpublish(e)
    PROVE  One(e)'
<1> e \in Threads /\ e \in Elements /\ loc[e] \in LocalsType /\ at[e] # Nil /\ QBy(e) /\ e # Nil
  BY Who, Locals DEF Unpublish, IsConnected, One
<1> at[e] \in Ingresses /\ id[e] \in IngressIds
  BY DEF TInv, Attached
<1> DEFINE i == at[e]
           x == id[e]
           l == [loc[e] EXCEPT !.id = x]
<1>1. /\ pc' = [pc EXCEPT ![e] = "leaveIngress"] /\ loc' = [loc EXCEPT ![e] = l]
      /\ ing' = [ing EXCEPT ![i][Slot(e)] = Nil]
      /\ at' = [at EXCEPT ![e] = Nil] /\ id' = [id EXCEPT ![e] = Nil]
      /\ UNCHANGED <<tables, rooms, room, live, faults>> /\ pc[e] = "idle"
  BY DEF Unpublish, Begin, Goto
<1>2. l.id = x /\ l.array = "none"
  <2>1. x \in Maybe(EgressIds \cup IngressIds)
    BY DEF Maybe
  <2> QED
    BY <2>1, SetsId, NoArray
<1> HIDE DEF l
<1>3. /\ at'[e] = Nil
      /\ \A f \in Elements : f # e => at'[f] = at[f] /\ id'[f] = id[f]
  BY <1>1, TypeParts DEF TInv, ElementTypes
<1>4. /\ \A j \in Ingresses : /\ ing'[j].id = ing[j].id /\ ing'[j].room = ing[j].room
                              /\ j # i => ing'[j] = ing[j]
      /\ Slot(e) = "main" => ing'[i].main = Nil /\ ing'[i].screen = ing[i].screen
      /\ Slot(e) = "screen" => ing'[i].screen = Nil /\ ing'[i].main = ing[i].main
  BY <1>1, SlotFields
<1>5. ing[i][Slot(e)] = e /\ ing[i].id = x
  BY DEF QBy, Slotted
<1>6. ASSUME pc'[e] = "leaveIngress", loc'[e] = l
      PROVE  Fed(e)'
  <2>1. ASSUME NEW y \in IngressIds, ingress[y] # Nil
        PROVE  /\ ing'[ingress[y]].id = y
               /\ room[ing'[ingress[y]].room].ingress[y] = ingress[y]
               /\ Busy(ingress[y])' \/ Feeds(e, y)'
    <3>1. ingress[y] \in Ingresses
      BY <2>1, IngressTypes
    <3>2. /\ ing[ingress[y]].id = y
          /\ room[ing[ingress[y]].room].ingress[y] = ingress[y]
          /\ Busy(ingress[y])
      BY <1>1, <2>1 DEF QBy, Fed, Feeds
    <3>3. CASE ingress[y] = i
      BY <1>2, <1>4, <1>5, <1>6, <3>2, <3>3 DEF Feeds
    <3>4. CASE ingress[y] # i
      BY <1>1, <1>4, <3>1, <3>2, <3>4 DEF Busy, tables
    <3> QED
      BY <3>3, <3>4, <1>4, <3>1, <3>2
  <2>2. \A q \in Rooms : room'[q].ingress # NoIngress => Listed(q)'
    BY <1>1 DEF QBy, Fed, Listed, tables
  <2> QED
    BY <1>1, <2>1, <2>2 DEF Fed, Busy, tables
<1>7. Slotted'
  <2>1. ASSUME NEW f \in Publishers, at'[f] # Nil
        PROVE  ing'[at'[f]][Slot(f)] = f /\ ing'[at'[f]].id = id'[f]
    <3>1. f # e /\ at'[f] = at[f] /\ id'[f] = id[f] /\ at[f] \in Ingresses
      BY <1>3, <2>1, Who, IngressTypes
    <3>2. ing[at[f]][Slot(f)] = f /\ ing[at[f]].id = id[f]
      BY <2>1, <3>1 DEF QBy, Slotted
    <3>3. CASE at[f] # i
      BY <1>4, <3>1, <3>2, <3>3
    <3>4. CASE at[f] = i
      <4>1. Slot(f) # Slot(e)
        BY <1>5, <3>1, <3>2, <3>4
      <4> QED
        BY <1>4, <3>1, <3>2, <3>4, <4>1, SlotName
    <3> QED
      BY <3>3, <3>4
  <2>2. ASSUME NEW j \in Ingresses
        PROVE  /\ ing'[j].main # Nil => at'[ing'[j].main] = j /\ Slot(ing'[j].main) = "main"
               /\ ing'[j].screen # Nil => at'[ing'[j].screen] = j /\ Slot(ing'[j].screen) = "screen"
    <3>1. /\ ing[j].main # Nil => /\ at[ing[j].main] = j /\ ing[j].main \in Publishers
                                  /\ Slot(ing[j].main) = "main"
          /\ ing[j].screen # Nil => /\ at[ing[j].screen] = j /\ ing[j].screen \in Publishers
                                    /\ Slot(ing[j].screen) = "screen"
      BY IngressTypes DEF QBy, Slotted, Maybe
    <3>2. CASE j # i
      BY <1>3, <1>4, <3>1, <3>2, Who
    <3>3. CASE j = i
      <4>1. Slot(e) = "main" => ing[i].screen # e
        BY <3>1, <3>3
      <4>2. Slot(e) = "screen" => ing[i].main # e
        BY <3>1, <3>3
      <4> QED
        BY <1>3, <1>4, <3>1, <3>3, <4>1, <4>2, SlotName, Who
    <3> QED
      BY <3>2, <3>3
  <2>3. \A f \in Publishers : Slot(f)' = Slot(f)
    BY DEF Slot
  <2> QED
    BY <2>1, <2>2, <2>3 DEF Slotted
<1>8. pc'[e] = "leaveIngress" => Walk(e)' /\ EgressWalk(e)' /\ IngressWalk(e)'
  BY DEF Walk, EgressWalk, IngressWalk
<1> QED
  BY <1>1, <1>2, <1>3, <1>6, <1>7, <1>8, IngressStep
     DEF SameSeats, SubscriberLabels, LeaveLabels, tables

LEMMA DeleteIngressKeeps ==
    ASSUME TInv, NEW e \in Publishers, One(e), DeleteIngress(e)
    PROVE  One(e)'
<1> /\ e \in Threads /\ e \in Elements /\ loc[e] \in LocalsType /\ pc[e] = "deleteIngress" /\ QBy(e)
    /\ loc[e].room \in Rooms /\ loc[e].id \in IngressIds
  BY Who, Locals DEF DeleteIngress, RoomLabels, One, TInv, Points, Point
<1> DEFINE r == loc[e].room
           x == loc[e].id
           l == [loc[e] EXCEPT !.ing = Nil]
<1>1. /\ room' = [room EXCEPT ![r].ingress[x] = Nil]
      /\ ingress' = [ingress EXCEPT ![x] = Nil]
      /\ UNCHANGED <<services, egress, rooms, ing, live, id, at, apart, faults>>
      /\ pc' = [pc EXCEPT ![e] = "testRoom"] /\ loc' = [loc EXCEPT ![e] = l]
  BY DEF DeleteIngress, Goto
<1>2. l.room = r /\ l.array = "none"
  BY SetsIng, NoArray DEF Maybe
<1> HIDE DEF l
<1>3. /\ room'[r].ingress = [room[r].ingress EXCEPT ![x] = Nil]
      /\ \A q \in Rooms : q # r => room'[q] = room[q]
      /\ \A q \in Rooms : SameSeats(q)
  <2>1. room \in [Rooms -> RoomType]
    BY TypeParts DEF TInv, ObjectTypes
  <2>2. room[r] \in RoomType /\ room'[r] = [room[r] EXCEPT !.ingress = [room[r].ingress EXCEPT ![x] = Nil]]
        /\ \A q \in Rooms : q # r => room'[q] = room[q]
    BY <1>1, <2>1
  <2> QED
    BY <2>2 DEF RoomType, SameSeats
<1>4. ingress'[x] = Nil /\ \A y \in IngressIds : y # x => ingress'[y] = ingress[y]
  BY <1>1, TypeParts DEF TInv, TableTypes
<1>5. /\ \A q \in Rooms, y \in IngressIds : /\ y # x => room'[q].ingress[y] = room[q].ingress[y]
                                            /\ room'[q].ingress[y] \in {room[q].ingress[y], Nil}
      /\ \A q \in Rooms : room'[q].ingress # NoIngress => room[q].ingress # NoIngress
  <2>1. \A q \in Rooms, y \in IngressIds : /\ y # x => room'[q].ingress[y] = room[q].ingress[y]
                                           /\ room'[q].ingress[y] \in {room[q].ingress[y], Nil}
    BY <1>3, IngressTypes
  <2>2. ASSUME NEW q \in Rooms, room[q].ingress = NoIngress
        PROVE  room'[q].ingress = NoIngress
    <3>1. CASE q # r
      BY <1>3, <2>2, <3>1
    <3>2. CASE q = r
      BY <1>3, <2>2, <3>2 DEF NoIngress
    <3> QED
      BY <3>1, <3>2
  <2> QED
    BY <2>1, <2>2
<1>6. Listed(r)
  <2>1. ingress[x] # Nil /\ ing[ingress[x]].room = r
    BY DEF QBy, IngressWalk
  <2>2. room[r].ingress[x] = ingress[x]
    BY <2>1 DEF QBy, Fed
  <2>3. room[r].ingress # NoIngress
    BY <2>1, <2>2 DEF NoIngress
  <2> QED
    BY <2>3 DEF QBy, Fed
<1>7. \A q \in Rooms : Listed(q) => Listed(q)'
  BY <1>1, <1>3, ListedSame
<1>8. pc'[e] = "testRoom" /\ loc'[e] = l => Walk(e)' /\ EgressWalk(e)' /\ IngressWalk(e)'
  <2>1. pc'[e] = "testRoom" /\ loc'[e] = l => loc'[e].room = r
    BY <1>2
  <2> HIDE DEF r
  <2>2. pc'[e] = "testRoom" /\ loc'[e] = l => Listed(loc[e].room)'
    BY <1>6, <1>7, <2>1 DEF r, Listed
  <2> QED
    BY <2>2 DEF Walk, EgressWalk, IngressWalk
<1>9. Fed(e)'
  <2>1. ASSUME NEW y \in IngressIds, ingress'[y] # Nil
        PROVE  /\ ing'[ingress'[y]].id = y
               /\ room'[ing'[ingress'[y]].room].ingress[y] = ingress'[y]
               /\ Busy(ingress[y])'
    <3>1. y # x /\ ingress'[y] = ingress[y]
      BY <1>4, <2>1
    <3>2. /\ ing[ingress[y]].id = y /\ ing[ingress[y]].room \in Rooms
          /\ room[ing[ingress[y]].room].ingress[y] = ingress[y]
          /\ Busy(ingress[y])
      BY <2>1, <3>1, IngressTypes DEF QBy, Fed, Feeds
    <3> QED
      BY <1>1, <1>5, <3>1, <3>2 DEF Busy
  <2>2. \A q \in Rooms : room'[q].ingress # NoIngress => Listed(q)'
    BY <1>5, <1>7 DEF QBy, Fed
  <2> QED
    BY <2>1, <2>2 DEF Fed, Busy
<1>10. Slotted'
  BY <1>1 DEF QBy, Slotted, Slot
<1> QED
  BY <1>1, <1>2, <1>3, <1>8, <1>9, <1>10, IngressStep
     DEF SubscriberLabels, LeaveLabels

\* A step that changes rooms and connections only.
LEMMA EgressStep ==
    ASSUME TInv, NEW t \in Threads, One(t),
           \A u \in Threads : u # t => pc'[u] = pc[u],
           \A u \in Threads : loc'[u].array = "none",
           UNCHANGED <<ingress, ing>>,
           \A r \in Rooms : /\ room'[r].ingress = room[r].ingress
                            /\ room[r].ingress # NoIngress => Listed(r)',
           \A e \in Publishers : at'[e] = at[e] /\ id'[e] = id[e],
           pc[t] \notin {"publish", "create", "leaveIngress", "deleteIngress"},
           Rostered', Single', Seated',
           Walk(t)' /\ EgressWalk(t)' /\ IngressWalk(t)',
           \A r \in Rooms : Served(t, r)',
           \A c \in EgressIds : Held(t, c)'
    PROVE  One(t)'
<1>1. Fed(t)' /\ Slotted'
  <2>1. FeedsOn(t)
    BY DEF FeedsOn, Feeds
  <2> QED
    BY <2>1, IngressStays DEF One
<1>2. Alone(t)'
  BY AloneStays DEF One
<1> QED
  BY <1>1, <1>2 DEF One, QBy, Unshared

\* Without a room in the service's table, nobody is connected.
LEMMA NothingListed ==
    ASSUME TInv, NEW t \in Threads, QBy(t), \A r \in Rooms : ~Listed(r)
    PROVE  /\ \A r \in Rooms : /\ room[r].ingress = NoIngress
                               /\ room[r].egressId = Nil /\ room[r].subs = <<>>
           /\ \A c \in EgressIds : c \notin live /\ egress[c] = Nil
<1>1. \A r \in Rooms : room[r].ingress = NoIngress
  BY DEF QBy, Fed
<1>2. \A r \in Rooms : room[r].egressId = Nil
  BY OfRoom
<1>3. \A r \in Rooms : room[r].subs = <<>>
  BY <1>2 DEF QBy, Served
<1>4. ASSUME NEW c \in EgressIds
      PROVE  c \notin live /\ egress[c] = Nil
  <2>1. Held(t, c) /\ egress[c] \in Maybe(Rooms)
    BY TypeParts DEF QBy, TInv, TableTypes
  <2>2. c \in live => loc[c].room \in Rooms
    BY Locals, Who DEF TInv, Opened, Maybe
  <2> QED
    BY <1>2, <2>1, <2>2, Who DEF Held, Maybe
<1> QED
  BY <1>1, <1>2, <1>3, <1>4

LEMMA NothingWithoutService ==
    ASSUME TInv, NEW t \in Threads, QBy(t), services = Nil
    PROVE  /\ \A r \in Rooms : /\ ~Listed(r) /\ room[r].ingress = NoIngress
                               /\ room[r].egressId = Nil /\ room[r].subs = <<>>
           /\ \A s \in Services, n \in Names : rooms[s][n] = Nil
           /\ \A c \in EgressIds : c \notin live /\ egress[c] = Nil
<1>1. \A r \in Rooms : ~Listed(r)
  BY DEF Listed
<1>2. \A s \in Services, n \in Names : rooms[s][n] = Nil
  BY Who DEF QBy, Rostered
<1> QED
  BY <1>1, <1>2, NothingListed

LEMMA AddServiceKeeps ==
    ASSUME TInv, NEW e \in Elements, One(e), AddService(e)
    PROVE  One(e)'
<1> e \in Threads /\ loc[e] \in LocalsType /\ pc[e] = "newService" /\ QBy(e)
  BY Who, Locals DEF AddService, One
<1>1. PICK s \in Services : services' = s /\ loc' = [loc EXCEPT ![e].svc = s]
  BY DEF AddService
<1> DEFINE l == [loc[e] EXCEPT !.svc = s]
<1>2. l.svc = s /\ l.array = "none" /\ loc' = [loc EXCEPT ![e] = l]
  BY <1>1, SetsSvc, NoArray DEF Maybe
<1>3. pc' = [pc EXCEPT ![e] = "findRoom"]
  BY DEF AddService, Goto
<1> HIDE DEF l
<1>4. UNCHANGED <<egress, ingress, rooms, room, ing, live, id, at, apart, faults>>
  BY DEF AddService
<1>5. pc'[e] = "findRoom" /\ \A u \in Threads : u # e => pc'[u] = pc[u]
  BY <1>3, Goes
<1>6. loc'[e] = l /\ \A u \in Threads : u # e => loc'[u] = loc[u]
  BY <1>2, Takes
<1>7. services = Nil
  BY DEF QBy, Walk
<1>8. /\ \A r \in Rooms : /\ room[r].ingress = NoIngress
                          /\ room[r].egressId = Nil /\ room[r].subs = <<>>
      /\ \A q \in Services, n \in Names : rooms[q][n] = Nil
      /\ \A c \in EgressIds : c \notin live /\ egress[c] = Nil
  BY <1>7, NothingWithoutService
<1>9. \A r \in Rooms : ~Listed(r)'
  <2>1. room \in [Rooms -> RoomType]
    BY TypeParts DEF TInv, ObjectTypes
  <2>2. \A r \in Rooms : room[r].name \in Maybe(Names)
    BY <2>1 DEF RoomType
  <2> QED
    BY <1>1, <1>4, <1>8, <2>2, Who DEF Listed, Maybe
<1>10. Rostered' /\ Single'
  BY <1>4, <1>8, <1>9 DEF Rostered, Single
<1>11. Seated'
  BY <1>4 DEF QBy, Seated
<1>12. (\A r \in Rooms : Served(e, r)') /\ (\A c \in EgressIds : Held(e, c)')
  BY <1>4, <1>8 DEF Served, Held
<1>13. Walk(e)' /\ EgressWalk(e)' /\ IngressWalk(e)'
  BY <1>1, <1>2, <1>5, <1>6 DEF Walk, EgressWalk, IngressWalk
<1>14. \A u \in Threads : loc'[u].array = "none"
  BY <1>2, <1>6 DEF QBy, Unshared
<1> QED
  BY <1>4, <1>5, <1>8, <1>10, <1>11, <1>12, <1>13, <1>14, EgressStep

LEMMA SeatTypes ==
    ASSUME TInv
    PROVE  /\ \A e \in Subscribers : at[e] # Nil => at[e] \in Rooms /\ id[e] \in EgressIds
           /\ \A r \in Rooms : /\ room[r] \in RoomType /\ room[r].subs \in Seq(Subscribers)
                               /\ room[r].egressId \in Maybe(EgressIds)
                               /\ room[r].conn \in Maybe(EgressIds)
           /\ \A c \in EgressIds : egress[c] \in Maybe(Rooms)
           /\ \A c \in live : /\ c \in EgressIds /\ c \in Threads /\ loc[c].room \in Rooms
                              /\ pc[c] = "idle"
<1>1. \A e \in Subscribers : at[e] # Nil => at[e] \in Rooms /\ id[e] \in EgressIds
  BY Who DEF TInv, Attached
<1>2. \A r \in Rooms : /\ room[r] \in RoomType /\ room[r].subs \in Seq(Subscribers)
                       /\ room[r].egressId \in Maybe(EgressIds)
                       /\ room[r].conn \in Maybe(EgressIds)
  BY TypeParts DEF TInv, ObjectTypes, RoomType
<1>3. \A c \in EgressIds : egress[c] \in Maybe(Rooms)
  BY TypeParts DEF TInv, TableTypes
<1>4. \A c \in live : c \in EgressIds /\ c \in Threads
  BY Who DEF TInv, TypeOK
<1>5. \A c \in live : loc[c].room \in Rooms /\ pc[c] = "idle"
  BY <1>4, Locals DEF TInv, Opened, Maybe
<1> QED
  BY <1>1, <1>2, <1>3, <1>4, <1>5

LEMMA AddRoomKeeps ==
    ASSUME TInv, NEW e \in Elements, One(e), AddRoom(e)
    PROVE  One(e)'
<1> /\ e \in Threads /\ loc[e] \in LocalsType /\ pc[e] = "newRoom" /\ QBy(e)
    /\ loc[e].svc = services /\ services \in Services /\ services # Nil
    /\ RoomName[e] \in Names /\ RoomName[e] # Nil /\ rooms[services][RoomName[e]] = Nil
  BY Who, Locals DEF AddRoom, One, QBy, Walk
<1> DEFINE n == RoomName[e]
           s == services
<1>1. PICK r \in Rooms : /\ ~UsedRoom(r)
                         /\ room' = [room EXCEPT ![r] = NewRoom(n, s)]
                         /\ rooms' = [rooms EXCEPT ![s][n] = r]
                         /\ loc' = [loc EXCEPT ![e].room = r]
  BY DEF AddRoom
<1> DEFINE l == [loc[e] EXCEPT !.room = r]
<1>2. l.room = r /\ l.array = "none" /\ loc' = [loc EXCEPT ![e] = l] /\ r # Nil
  BY <1>1, SetsRoom, NoArray, Who DEF Maybe
<1>3. pc' = [pc EXCEPT ![e] = Purpose(e)]
  BY DEF AddRoom, Goto
<1> HIDE DEF l
<1>4. UNCHANGED <<tables, ing, live, id, at, apart, faults>>
  BY DEF AddRoom
<1>5. pc'[e] = Purpose(e) /\ \A u \in Threads : u # e => pc'[u] = pc[u]
  BY <1>3, Goes
<1>6. loc'[e] = l /\ \A u \in Threads : u # e => loc'[u] = loc[u]
  BY <1>2, Takes
<1>7. /\ \A q \in Services, m \in Names : rooms[q][m] # r
      /\ \A c \in EgressIds : egress[c] # r
      /\ \A u \in Threads : loc[u].room # r
      /\ \A f \in Subscribers : at[f] # r
      /\ \A x \in IngressIds : ingress[x] # Nil => ing[ingress[x]].room # r
  <2>1. \A x \in IngressIds : ingress[x] # Nil => ing[ingress[x]].room # r
    BY <1>1, IngressTypes DEF UsedRoom, UsedIngress, InTable
  <2> QED
    BY <1>1, <2>1 DEF UsedRoom, Located
<1>8. /\ room'[r].name = n /\ room'[r].service = s /\ room'[r].egressId = Nil
      /\ room'[r].conn = Nil /\ room'[r].subs = <<>> /\ room'[r].ingress = NoIngress
      /\ \A q \in Rooms : q # r => room'[q] = room[q]
  <2>1. room'[r] = NewRoom(n, s) /\ \A q \in Rooms : q # r => room'[q] = room[q]
    BY <1>1, TypeParts DEF TInv, ObjectTypes
  <2> QED
    BY <2>1 DEF NewRoom
<1>9. /\ rooms'[s][n] = r
      /\ \A q \in Services, m \in Names : q # s \/ m # n => rooms'[q][m] = rooms[q][m]
  BY <1>1, TypeParts DEF TInv, TableTypes
<1>10. Rostered'
  <2>1. \A q \in Services, m \in Names : rooms[q][m] # Nil => rooms[q][m] \in Rooms
    BY TypeParts DEF TInv, TableTypes, Maybe
  <2> QED
    BY <1>4, <1>7, <1>8, <1>9, <2>1 DEF QBy, Rostered, tables
<1>11. \A q \in Rooms : q # r => Listed(q)' = Listed(q)
  <2>1. \A q \in Rooms : room[q].name \in Maybe(Names)
    BY SeatTypes DEF RoomType
  <2> QED
    BY <1>4, <1>7, <1>8, <1>9, <2>1, Who DEF Listed, tables, Maybe
<1>12. Single'
  BY <1>8, <1>11 DEF QBy, Single
<1>13. Seated'
  <2>1. \A q \in Rooms : q = r \/ room'[q] = room[q]
    BY <1>8
  <2>2. \A f \in Subscribers : at[f] # Nil => at[f] \in Rooms /\ at[f] # r
    BY <1>7, SeatTypes
  <2>3. /\ \A q \in Rooms, f \in Subscribers : f \in Range(room'[q].subs) => at[f] = q
        /\ \A q \in Rooms : \A j, k \in DOMAIN room'[q].subs :
              room'[q].subs[j] = room'[q].subs[k] => j = k
    BY <1>8, <2>1 DEF QBy, Seated, Range
  <2>4. \A f \in Subscribers : at[f] # Nil =>
              /\ f \in Range(room'[at[f]].subs)
              /\ room'[at[f]].egressId = id[f] /\ room'[at[f]].name = RoomName[f]
    BY <1>8, <2>2 DEF QBy, Seated
  <2> QED
    BY <1>4, <2>3, <2>4 DEF Seated
<1>14. ASSUME NEW q \in Rooms
       PROVE  Served(e, q)'
  <2>1. CASE q = r
    BY <1>8, <2>1 DEF Served
  <2>2. CASE q # r
    <3>1. room'[q] = room[q]
      BY <1>8, <2>2
    <3>2. ASSUME room[q].egressId # Nil
          PROVE  /\ room[q].egressId \in live /\ loc'[room[q].egressId].room = q
                 /\ egress[room[q].egressId] = q /\ room[q].subs # <<>>
      BY <1>6, <3>2, OfRoom, SeatTypes, Who DEF Attends
    <3>3. room[q].subs # <<>> => room[q].egressId # Nil
      BY DEF QBy, Served
    <3> QED
      BY <1>4, <3>1, <3>2, <3>3 DEF Served, tables
  <2> QED
    BY <2>1, <2>2
<1>15. ASSUME NEW c \in EgressIds
       PROVE  Held(e, c)'
  <2>1. Held(e, c) /\ egress[c] \in Maybe(Rooms) /\ egress[c] # r
    BY <1>7, SeatTypes DEF QBy
  <2>2. egress'[c] # Nil => room'[egress'[c]].egressId = c
    BY <1>4, <1>8, <2>1 DEF Held, tables, Maybe
  <2>3. ASSUME c \in live
        PROVE  /\ pc'[c] = "idle"
               /\ room'[loc'[c].room].conn = c /\ Listed(loc[c].room)'
               /\ room'[loc'[c].room].egressId = c
    <3>1. /\ loc[c].room \in Rooms /\ loc[c].room # r /\ loc'[c] = loc[c] /\ pc'[c] = "idle"
      BY <1>5, <1>6, <1>7, <2>3, SeatTypes, Who
    <3>2. /\ room[loc[c].room].conn = c /\ Listed(loc[c].room)
          /\ room[loc[c].room].egressId = c
      BY <2>1, <2>3 DEF Held
    <3>3. ASSUME NEW q \in Rooms, q = loc[c].room
          PROVE  Listed(q)' /\ loc'[c].room = q
      BY <1>11, <3>1, <3>2, <3>3
    <3> QED
      BY <1>8, <3>1, <3>2, <3>3 DEF Listed
  <2> QED
    BY <1>4, <2>2, <2>3 DEF Held
<1>16. Walk(e)' /\ EgressWalk(e)' /\ IngressWalk(e)'
  <2>1. Found(e)'
    BY <1>2, <1>4, <1>6, <1>9 DEF Found, tables
  <2>2. pc'[e] \in {"egress", "ingress"}
    BY <1>5, PurposeLabel
  <2> QED
    BY <2>1, <2>2 DEF Walk, EgressWalk, IngressWalk
<1>17. \A u \in Threads : loc'[u].array = "none"
  BY <1>2, <1>6 DEF QBy, Unshared
<1>18. \A q \in Rooms : /\ room'[q].ingress = room[q].ingress \/ q = r
                        /\ room'[q].ingress # NoIngress => Listed(q)'
  BY <1>8, <1>11 DEF QBy, Fed
<1>19. Fed(e)' /\ Slotted'
  <2>1. ASSUME NEW x \in IngressIds, ingress[x] # Nil
        PROVE  /\ ing[ingress[x]].id = x
               /\ room'[ing[ingress[x]].room].ingress[x] = ingress[x]
               /\ Busy(ingress[x])
    BY <1>7, <1>8, <2>1, IngressTypes DEF QBy, Fed, Feeds
  <2> QED
    BY <1>4, <1>18, <2>1 DEF QBy, Fed, Busy, Slotted, Slot, tables
<1>20. Alone(e)'
  BY <1>5, AloneStays DEF One
<1> QED
  BY <1>10, <1>12, <1>13, <1>14, <1>15, <1>16, <1>17, <1>19, <1>20 DEF One, QBy, Unshared

\* The connection that nobody uses is of no room in the tables.
LEMMA UnusedConnection ==
    ASSUME TInv, NEW t \in Threads, QBy(t), NEW c \in EgressIds, ~UsedEgressId(c)
    PROVE  /\ c \notin live /\ egress[c] = Nil /\ pc[c] = "idle"
           /\ \A u \in Threads : loc[u].id # c
           /\ \A r \in Rooms : Listed(r) => room[r].conn # c /\ room[r].egressId # c
           /\ \A r \in Rooms : room[r].egressId # c
<1>1. /\ c \notin live /\ egress[c] = Nil /\ pc[c] = "idle"
      /\ \A u \in Threads : loc[u].id # c
  BY DEF UsedEgressId, Located
<1>2. \A r \in Rooms : Listed(r) => UsedRoom(r)
  BY ListedRoom DEF QBy, UsedRoom, Listed
<1>3. \A r \in Rooms : Listed(r) => room[r].conn # c /\ room[r].egressId # c
  BY <1>2 DEF UsedEgressId
<1>4. \A r \in Rooms : room[r].egressId # c
  BY <1>1, Who, OfRoom
<1> QED
  BY <1>1, <1>3, <1>4

LEMMA MakeRoomConnectionKeeps ==
    ASSUME TInv, NEW e \in Subscribers, One(e), MakeRoomConnection(e)
    PROVE  One(e)'
<1> /\ e \in Threads /\ e \in Elements /\ loc[e] \in LocalsType /\ pc[e] = "join" /\ QBy(e)
    /\ loc[e].room \in Rooms /\ loc[e].room # Nil
  BY Who, Locals DEF MakeRoomConnection, One, RoomLabels, TInv, Points, Point
<1> DEFINE r == loc[e].room
<1>1. PICK c \in EgressIds :
         /\ ~UsedEgressId(c)
         /\ room' = [room EXCEPT ![r].conn = c]
         /\ loc' = [loc EXCEPT ![e].id = c, ![c].room = r]
  BY DEF MakeRoomConnection
<1> c \in Threads /\ c # e /\ c \notin Elements /\ loc[c] \in LocalsType
  BY Who, Locals
<1> DEFINE l == [loc[e] EXCEPT !.id = c]
           m == [loc[c] EXCEPT !.room = r]
<1>2. l.id = c /\ l.room = r /\ l.array = "none" /\ m.room = r /\ m.array = "none"
  BY SetsId, SetsRoom, NoArray DEF Maybe, LocalsType, One, QBy, Unshared
<1>3. loc' = [[loc EXCEPT ![e] = l] EXCEPT ![c] = m]
  BY <1>1
<1>4. loc'[e] = l /\ loc'[c] = m /\ \A u \in Threads : u # e /\ u # c => loc'[u] = loc[u]
  BY <1>3, TypeParts DEF TInv, ThreadTypes
<1> HIDE DEF l, m
<1>5. /\ pc' = [pc EXCEPT ![e] = "joining"]
      /\ UNCHANGED <<tables, rooms, ing, live, id, at, apart, faults>>
  BY DEF MakeRoomConnection, Goto
<1>6. pc'[e] = "joining" /\ \A u \in Threads : u # e => pc'[u] = pc[u]
  BY <1>5, Goes
<1>7. /\ c \notin live /\ egress[c] = Nil /\ pc[c] = "idle"
      /\ \A q \in Rooms : Listed(q) => room[q].conn # c
      /\ \A q \in Rooms : room[q].egressId # c
  BY <1>1, UnusedConnection
<1>8. room[r].egressId = Nil /\ Found(e) /\ Listed(r)
  BY FoundPlace DEF QBy, Walk, EgressWalk
<1>9. /\ room'[r].conn = c /\ \A q \in Rooms : q # r => room'[q] = room[q]
      /\ \A q \in Rooms : /\ room'[q].name = room[q].name /\ room'[q].service = room[q].service
                          /\ room'[q].egressId = room[q].egressId /\ room'[q].subs = room[q].subs
                          /\ room'[q].ingress = room[q].ingress
  <2>1. room \in [Rooms -> RoomType]
    BY TypeParts DEF TInv, ObjectTypes
  <2>2. room[r] \in RoomType /\ room'[r] = [room[r] EXCEPT !.conn = c]
        /\ \A q \in Rooms : q # r => room'[q] = room[q]
    BY <1>1, <2>1
  <2> QED
    BY <2>2 DEF RoomType
<1>10. \A q \in Rooms : Listed(q)' = Listed(q)
  BY <1>5, <1>9 DEF Listed, tables
<1>11. Rostered'
  <2>1. \A s \in Services, n \in Names : rooms[s][n] # Nil => rooms[s][n] \in Rooms
    BY TypeParts DEF TInv, TableTypes, Maybe
  <2> QED
    BY <1>5, <1>9, <2>1 DEF QBy, Rostered, tables
<1>12. Single'
  <2> SUFFICES ASSUME NEW p \in Rooms, NEW q \in Rooms, room'[p].conn # Nil,
                      room'[q].conn = room'[p].conn, Listed(p), Listed(q)
               PROVE  p = q
    BY <1>10 DEF Single
  <2>1. CASE p # r /\ q # r
    BY <1>9, <2>1 DEF QBy, Single
  <2>2. CASE p = r /\ q # r
    BY <1>7, <1>9, <2>2
  <2>3. CASE p # r /\ q = r
    BY <1>7, <1>9, <2>3
  <2> QED
    BY <2>1, <2>2, <2>3
<1>13. Seated'
  <2>1. QBy(e) /\ \A f \in Subscribers : at[f] # Nil => at[f] \in Rooms
    BY SeatTypes
  <2> QED
    BY <1>5, <1>9, <2>1, SeatsStay DEF QBy
<1>14. ASSUME NEW q \in Rooms
       PROVE  Served(e, q)'
  <2>1. ASSUME room[q].egressId # Nil
        PROVE  /\ room[q].egressId \in live /\ loc'[room[q].egressId].room = q
               /\ egress[room[q].egressId] = q /\ room[q].subs # <<>>
    <3>1. room[q].egressId # c /\ room[q].egressId # e
      BY <1>7, <2>1, Who, OfRoom
    <3> QED
      BY <1>4, <2>1, <3>1, OfRoom, SeatTypes DEF Attends
  <2>2. room[q].subs # <<>> => room[q].egressId # Nil
    BY DEF QBy, Served
  <2> QED
    BY <1>5, <1>9, <2>1, <2>2 DEF Served, tables
<1>15. ASSUME NEW d \in EgressIds
       PROVE  Held(e, d)'
  <2>1. Held(e, d) /\ egress[d] \in Maybe(Rooms)
    BY SeatTypes DEF QBy
  <2>2. egress'[d] # Nil => room'[egress'[d]].egressId = d
    BY <1>5, <1>9, <2>1 DEF Held, tables, Maybe
  <2>3. ASSUME d \in live
        PROVE  /\ pc'[d] = "idle"
               /\ room'[loc'[d].room].conn = d /\ Listed(loc[d].room)'
               /\ room'[loc'[d].room].egressId = d
    <3>1. /\ loc[d].room \in Rooms /\ loc'[d] = loc[d] /\ pc'[d] = "idle"
      BY <1>4, <1>6, <1>7, <2>3, SeatTypes, Who
    <3>2. /\ room[loc[d].room].conn = d /\ Listed(loc[d].room)
          /\ room[loc[d].room].egressId = d
      BY <2>1, <2>3 DEF Held
    <3>3. loc[d].room # r
      BY <1>8, <3>2, <2>3, Who
    <3>4. ASSUME NEW q \in Rooms, q = loc[d].room
          PROVE  Listed(q)' /\ loc'[d].room = q
      BY <1>10, <3>1, <3>2, <3>4
    <3> QED
      BY <1>9, <3>1, <3>2, <3>3, <3>4 DEF Listed
  <2> QED
    BY <1>5, <2>2, <2>3 DEF Held
<1>16. Walk(e)' /\ EgressWalk(e)' /\ IngressWalk(e)'
  BY <1>2, <1>4, <1>5, <1>6, <1>8, <1>9 DEF Walk, EgressWalk, IngressWalk, Found, tables
<1>17. \A u \in Threads : loc'[u].array = "none"
  BY <1>2, <1>4 DEF QBy, Unshared
<1> QED
  BY <1>5, <1>6, <1>9, <1>10, <1>11, <1>12, <1>13, <1>14, <1>15, <1>16, <1>17, Who, EgressStep
     DEF tables, QBy, Fed

\* When only the open connections, and which the egress is, change:
LEMMA RoomsStay ==
    ASSUME TInv, NEW t \in Threads, QBy(t), services' = services, rooms' = rooms,
           \A r \in Rooms : /\ room'[r].name = room[r].name /\ room'[r].service = room[r].service
                            /\ room'[r].conn = room[r].conn
    PROVE  /\ Rostered' /\ Single'
           /\ \A r \in Rooms : Listed(r)' = Listed(r)
<1>1. \A r \in Rooms : Listed(r)' = Listed(r)
  BY DEF Listed
<1>2. Rostered'
  <2>1. \A s \in Services, n \in Names : rooms[s][n] # Nil => rooms[s][n] \in Rooms
    BY TypeParts DEF TInv, TableTypes, Maybe
  <2> QED
    BY <2>1 DEF QBy, Rostered
<1> QED
  BY <1>1, <1>2, SingleStays DEF QBy

LEMMA JoinWithTokenKeeps ==
    ASSUME TInv, NEW e \in Subscribers, One(e), JoinWithToken(e)
    PROVE  One(e)'
<1> /\ e \in Threads /\ e \in Elements /\ loc[e] \in LocalsType /\ pc[e] = "joining" /\ QBy(e)
    /\ loc[e].room \in Rooms /\ loc[e].room # Nil
  BY Who, Locals DEF JoinWithToken, One, RoomLabels
<1> DEFINE r == loc[e].room
           c == loc[e].id
<1>1. /\ c \in EgressIds /\ c \notin live /\ pc[c] = "idle"
      /\ room[r].conn = c /\ loc[c].room = r /\ room[r].egressId = Nil
      /\ c \in Threads /\ c # e
  BY Who DEF QBy, EgressWalk, TInv, Points, Point, Opened, Opening
<1>2. Found(e) /\ Listed(r)
  BY FoundPlace DEF QBy, Walk
<1>3. UNCHANGED <<tables, rooms, room, ing, id, at, apart, faults>>
  BY DEF JoinWithToken
<1>4. Rostered' /\ Single' /\ \A q \in Rooms : Listed(q)' = Listed(q)
  BY <1>3, RoomsStay DEF tables
<1>5. Seated'
  BY <1>3 DEF QBy, Seated
<1>6. ASSUME NEW q \in Rooms
      PROVE  /\ room[q].egressId # Nil =>
                   /\ room[q].egressId \in live /\ loc[room[q].egressId].room = q
                   /\ egress[room[q].egressId] = q /\ room[q].subs # <<>>
                   /\ room[q].egressId \in Threads /\ room[q].egressId # c
                   /\ room[q].egressId # e
             /\ room[q].subs # <<>> => room[q].egressId # Nil
  <2>1. ASSUME room[q].egressId # Nil
        PROVE  /\ room[q].egressId \in live /\ loc[room[q].egressId].room = q
               /\ egress[room[q].egressId] = q /\ room[q].subs # <<>>
               /\ room[q].egressId \in Threads /\ room[q].egressId # c
               /\ room[q].egressId # e
    BY <1>1, <2>1, OfRoom, Who DEF Attends
  <2> QED
    BY <2>1 DEF QBy, Served
<1>7. ASSUME NEW d \in EgressIds
      PROVE  /\ egress[d] # Nil => room[egress[d]].egressId = d
             /\ d \in live => /\ pc[d] = "idle" /\ room[loc[d].room].conn = d
                              /\ Listed(loc[d].room) /\ room[loc[d].room].egressId = d
                              /\ loc[d].room \in Rooms /\ d # c /\ d # e
                              /\ d \in Threads
  BY <1>1, SeatTypes, Who DEF QBy, Held
<1>8. CASE live' = live \cup {c} /\ Goto(e, "joined") /\ UNCHANGED loc
  <2>1. pc'[e] = "joined" /\ \A u \in Threads : u # e => pc'[u] = pc[u]
    BY <1>8, Goes DEF Goto
  <2>2. \A q \in Rooms : Served(e, q)'
    BY <1>3, <1>6, <1>8 DEF Served, tables
  <2>3. ASSUME NEW d \in EgressIds
        PROVE  Held(e, d)'
    <3>1. CASE d = c
      BY <1>1, <1>2, <1>3, <1>4, <1>7, <1>8, <2>1, <3>1 DEF Held, tables, Listed
    <3>2. CASE d # c
      BY <1>1, <1>3, <1>4, <1>7, <1>8, <2>1, <3>2 DEF Held, tables, Listed
    <3> QED
      BY <3>1, <3>2
  <2>4. Walk(e)' /\ EgressWalk(e)' /\ IngressWalk(e)'
    BY <1>1, <1>2, <1>3, <1>8, <2>1 DEF Walk, EgressWalk, IngressWalk, Found, tables
  <2> QED
    BY <1>3, <1>4, <1>5, <1>8, <2>1, <2>2, <2>3, <2>4, Who, EgressStep
       DEF tables, QBy, Fed, Unshared
<1>9. CASE Goto(e, "idle") /\ loc' = [loc EXCEPT ![e] = Blank, ![c] = Blank] /\ UNCHANGED live
  <2>1. pc'[e] = "idle" /\ \A u \in Threads : u # e => pc'[u] = pc[u]
    BY <1>9, Goes DEF Goto
  <2>2. /\ loc'[e] = Blank /\ loc'[c] = Blank
        /\ \A u \in Threads : u # e /\ u # c => loc'[u] = loc[u]
    BY <1>1, <1>9, TypeParts DEF TInv, ThreadTypes
  <2>3. ASSUME NEW q \in Rooms
        PROVE  Served(e, q)'
    <3>1. room[q].egressId # Nil => loc'[room[q].egressId] = loc[room[q].egressId]
      BY <1>6, <2>2
    <3> QED
      BY <1>3, <1>6, <1>9, <3>1 DEF Served, tables
  <2>4. ASSUME NEW d \in EgressIds
        PROVE  Held(e, d)'
    <3>1. d \in live => loc'[d] = loc[d] /\ pc'[d] = pc[d]
      BY <1>7, <2>1, <2>2
    <3> QED
      BY <1>3, <1>4, <1>7, <1>9, <3>1 DEF Held, tables, Listed
  <2>5. Walk(e)' /\ EgressWalk(e)' /\ IngressWalk(e)'
    BY <2>1, IdleWalk
  <2>6. \A u \in Threads : loc'[u].array = "none"
    BY <2>2, BlankArray DEF QBy, Unshared
  <2> QED
    BY <1>3, <1>4, <1>5, <1>9, <2>1, <2>3, <2>4, <2>5, <2>6, Who, EgressStep
       DEF tables, QBy, Fed
<1> QED
  BY <1>8, <1>9 DEF JoinWithToken

LEMMA SetEgressIdKeeps ==
    ASSUME TInv, NEW e \in Subscribers, One(e), SetEgressId(e)
    PROVE  One(e)'
<1> /\ e \in Threads /\ e \in Elements /\ loc[e] \in LocalsType /\ pc[e] = "joined" /\ QBy(e)
    /\ loc[e].room \in Rooms /\ loc[e].room # Nil /\ loc[e].id \in EgressIds
  BY Who, Locals DEF SetEgressId, One, RoomLabels, TInv, Points, Point
<1> DEFINE r == loc[e].room
           c == loc[e].id
<1>1. /\ c \in live /\ loc[c].room = r /\ room[r].egressId = Nil /\ room[r].subs = <<>>
      /\ Found(e) /\ Listed(r) /\ c # Nil
  BY FoundPlace, Who DEF QBy, Walk, EgressWalk, Served
<1>2. /\ UNCHANGED <<tables, rooms, ing, live, id, at, loc, apart, faults>>
      /\ pc' = [pc EXCEPT ![e] = "register"] /\ room' = [room EXCEPT ![r].egressId = c]
  BY DEF SetEgressId, Goto
<1>3. pc'[e] = "register" /\ \A u \in Threads : u # e => pc'[u] = pc[u]
  BY <1>2, Goes
<1>4. /\ room'[r].egressId = c /\ \A q \in Rooms : q # r => room'[q] = room[q]
      /\ \A q \in Rooms : /\ room'[q].name = room[q].name /\ room'[q].service = room[q].service
                          /\ room'[q].conn = room[q].conn /\ room'[q].subs = room[q].subs
                          /\ room'[q].ingress = room[q].ingress
  <2>1. room \in [Rooms -> RoomType]
    BY TypeParts DEF TInv, ObjectTypes
  <2>2. room[r] \in RoomType /\ room'[r] = [room[r] EXCEPT !.egressId = c]
        /\ \A q \in Rooms : q # r => room'[q] = room[q]
    BY <1>2, <2>1
  <2> QED
    BY <2>2 DEF RoomType
<1>5. Rostered' /\ Single' /\ \A q \in Rooms : Listed(q)' = Listed(q)
  BY <1>2, <1>4, RoomsStay DEF tables
<1>6. Seated'
  <2>1. QBy(e) /\ \A f \in Subscribers : at[f] # Nil => at[f] \in Rooms /\ id[f] \in EgressIds
    BY SeatTypes
  <2>2. \A f \in Subscribers : at[f] # r
    BY <1>1, <2>1, Who DEF QBy, Seated
  <2> QED
    BY <1>2, <1>4, <2>1, <2>2, SeatsStay DEF QBy
<1>7. ASSUME NEW q \in Rooms
      PROVE  Served(e, q)'
  <2>1. CASE q = r
    BY <1>1, <1>2, <1>3, <1>4, <2>1 DEF Served, Attends
  <2>2. CASE q # r
    <3>1. room'[q] = room[q]
      BY <1>4, <2>2
    <3>2. room[q].egressId # Nil =>
             /\ room[q].egressId \in live /\ loc[room[q].egressId].room = q
             /\ egress[room[q].egressId] = q /\ room[q].subs # <<>>
      BY OfRoom DEF Attends
    <3>3. room[q].subs # <<>> => room[q].egressId # Nil
      BY DEF QBy, Served
    <3>4. UNCHANGED <<egress, live, loc>>
      BY <1>2 DEF tables
    <3> QED
      BY <3>1, <3>2, <3>3, <3>4 DEF Served
  <2> QED
    BY <2>1, <2>2
<1>8. ASSUME NEW d \in EgressIds
      PROVE  Held(e, d)'
  <2>1. Held(e, d) /\ egress[d] \in Maybe(Rooms)
    BY SeatTypes DEF QBy
  <2>2. egress'[d] # Nil => room'[egress'[d]].egressId = d
    <3>1. egress[d] # r
      BY <1>1, <2>1, Who DEF Held
    <3> QED
      BY <1>2, <1>4, <2>1, <3>1 DEF Held, tables, Maybe
  <2>3. ASSUME d \in live
        PROVE  /\ pc'[d] = "idle"
               /\ room'[loc[d].room].conn = d /\ Listed(loc[d].room)'
               /\ room'[loc[d].room].egressId = d
    <3>1. loc[d].room \in Rooms /\ pc'[d] = "idle"
      BY <1>3, <2>3, SeatTypes, Who
    <3>2. room[loc[d].room].conn = d /\ Listed(loc[d].room)
      BY <2>1, <2>3 DEF Held
    <3>3. ASSUME NEW q \in Rooms, q = loc[d].room
          PROVE  Listed(q)'
      BY <1>5, <3>1, <3>2, <3>3
    <3>4. loc[d].room # r => room[loc[d].room].egressId = d
      <4>1. loc[d].room # r => d # c
        BY <1>1
      <4> QED
        BY <2>1, <2>3, <4>1 DEF Held
    <3>5. loc[d].room = r => d = c
      <4>1. room[r].conn = c
        BY <1>1 DEF QBy, Held
      <4> QED
        BY <3>2, <4>1
    <3> QED
      BY <1>2, <1>4, <3>1, <3>2, <3>3, <3>4, <3>5 DEF Listed
  <2> QED
    BY <1>2, <2>2, <2>3 DEF Held
<1>9. Walk(e)' /\ EgressWalk(e)' /\ IngressWalk(e)'
  BY <1>1, <1>2, <1>3, <1>4 DEF Walk, EgressWalk, IngressWalk, Found, tables
<1> QED
  BY <1>2, <1>3, <1>4, <1>5, <1>6, <1>7, <1>8, <1>9, Who, EgressStep DEF tables, QBy, Fed, Unshared

LEMMA AddEgressKeeps ==
    ASSUME TInv, NEW e \in Subscribers, One(e), AddEgress(e)
    PROVE  One(e)'
<1> /\ e \in Threads /\ e \in Elements /\ loc[e] \in LocalsType /\ pc[e] = "register" /\ QBy(e)
    /\ loc[e].room \in Rooms /\ loc[e].room # Nil /\ loc[e].id \in EgressIds
  BY Who, Locals DEF AddEgress, One, RoomLabels, TInv, Points, Point
<1> DEFINE r == loc[e].room
           c == loc[e].id
<1>1. room[r].egressId = c /\ Found(e) /\ Listed(r) /\ c # Nil /\ c \in live /\ loc[c].room = r
  BY FoundPlace, OfRoom, Who DEF QBy, Walk, EgressWalk
<1>2. /\ UNCHANGED <<services, ingress, rooms, room, ing, live, id, at, loc, apart, faults>>
      /\ pc' = [pc EXCEPT ![e] = "answer"] /\ egress' = [egress EXCEPT ![c] = r]
  BY DEF AddEgress, Goto
<1>3. pc'[e] = "answer" /\ \A u \in Threads : u # e => pc'[u] = pc[u]
  BY <1>2, Goes
<1>4. egress'[c] = r /\ \A d \in EgressIds : d # c => egress'[d] = egress[d]
  BY <1>2, TypeParts DEF TInv, TableTypes
<1>5. Rostered' /\ Single' /\ \A q \in Rooms : Listed(q)' = Listed(q)
  BY <1>2, RoomsStay
<1>6. Seated'
  BY <1>2 DEF QBy, Seated
<1>7. ASSUME NEW q \in Rooms
      PROVE  Served(e, q)'
  <2>1. CASE q = r
    BY <1>1, <1>2, <1>3, <1>4, <2>1 DEF Served, Attends
  <2>2. CASE q # r
    <3>1. room[q].egressId # Nil =>
             /\ room[q].egressId \in live /\ loc[room[q].egressId].room = q
             /\ egress[room[q].egressId] = q /\ room[q].subs # <<>>
             /\ room[q].egressId \in EgressIds
      BY <2>2, OfRoom DEF Attends
    <3>2. room[q].egressId # c
      BY <1>1, <2>2, <3>1
    <3>3. room[q].subs # <<>> => room[q].egressId # Nil
      BY DEF QBy, Served
    <3> QED
      BY <1>2, <1>4, <3>1, <3>2, <3>3 DEF Served
  <2> QED
    BY <2>1, <2>2
<1>8. ASSUME NEW d \in EgressIds
      PROVE  Held(e, d)'
  BY <1>1, <1>2, <1>3, <1>4, <1>5, SeatTypes, Who DEF QBy, Held, Listed
<1>9. Walk(e)' /\ EgressWalk(e)' /\ IngressWalk(e)'
  BY <1>1, <1>2, <1>3, <1>4 DEF Walk, EgressWalk, IngressWalk, Found
<1> QED
  BY <1>2, <1>3, <1>5, <1>6, <1>7, <1>8, <1>9, Who, EgressStep DEF QBy, Fed, Unshared

\* Whoever gets the last place of a slice, or leaves one.
LEMMA AppendSeats ==
    ASSUME NEW S, NEW s \in Seq(S), NEW e \in S, e \notin Range(s),
           \A j, k \in DOMAIN s : s[j] = s[k] => j = k
    PROVE  LET n == Append(s, e)
           IN  /\ n \in Seq(S) /\ n # <<>> /\ Range(n) = Range(s) \cup {e}
               /\ \A j, k \in DOMAIN n : n[j] = n[k] => j = k
<1> DEFINE n == Append(s, e)
<1>1. /\ n \in Seq(S) /\ n # <<>> /\ Len(n) = Len(s) + 1
      /\ \A i \in 1..Len(s) : n[i] = s[i]
      /\ n[Len(s) + 1] = e
  BY AppendProperties
<1>2. Len(s) \in Nat /\ DOMAIN s = 1..Len(s) /\ DOMAIN n = 1..(Len(s) + 1)
  BY <1>1, LenProperties
<1>3. \A i \in 1..Len(s) : s[i] # e
  BY <1>2 DEF Range
<1> HIDE DEF n
<1>4. Range(n) = Range(s) \cup {e}
  <2>1. \A x \in Range(n) : x \in Range(s) \cup {e}
    <3> SUFFICES ASSUME NEW i \in 1..(Len(s) + 1)
                 PROVE  n[i] \in Range(s) \cup {e}
      BY <1>2 DEF Range
    <3>1. i \in 1..Len(s) \/ i = Len(s) + 1
      BY <1>2
    <3> QED
      BY <1>1, <1>2, <3>1 DEF Range
  <2>2. \A x \in Range(s) \cup {e} : x \in Range(n)
    <3>1. \A i \in 1..Len(s) : i \in 1..(Len(s) + 1)
      BY <1>2
    <3>2. Len(s) + 1 \in 1..(Len(s) + 1)
      BY <1>2
    <3>3. \A i \in 1..Len(s) : s[i] \in Range(n)
      BY <1>1, <1>2, <3>1 DEF Range
    <3>4. e \in Range(n)
      BY <1>1, <1>2, <3>2 DEF Range
    <3> QED
      BY <1>2, <3>3, <3>4 DEF Range
  <2> QED
    BY <2>1, <2>2
<1>5. ASSUME NEW j \in DOMAIN n, NEW k \in DOMAIN n, n[j] = n[k]
      PROVE  j = k
  <2>1. (j \in 1..Len(s) \/ j = Len(s) + 1) /\ (k \in 1..Len(s) \/ k = Len(s) + 1)
    BY <1>2
  <2> QED
    BY <1>1, <1>2, <1>3, <1>5, <2>1
<1> QED
  BY <1>1, <1>4, <1>5 DEF n

LEMMA RemoveSeats ==
    ASSUME NEW S, NEW s \in Seq(S), NEW k \in DOMAIN s,
           \A i, j \in DOMAIN s : s[i] = s[j] => i = j
    PROVE  LET n == RemoveAt(s, k)
           IN  /\ n \in Seq(S) /\ Range(n) = Range(s) \ {s[k]}
               /\ \A i, j \in DOMAIN n : n[i] = n[j] => i = j
<1> DEFINE n == RemoveAt(s, k)
<1>1. /\ n \in Seq(S) /\ Len(n) = Len(s) - 1
      /\ \A j \in 1..(Len(s) - 1) : n[j] = IF j < k THEN s[j] ELSE s[j + 1]
  BY RemoveAtProperties
<1>2. Len(s) \in Nat /\ DOMAIN s = 1..Len(s) /\ DOMAIN n = 1..(Len(s) - 1) /\ k \in 1..Len(s)
  BY <1>1, LenProperties
<1> HIDE DEF n
<1> DEFINE b == Len(s)
           old(j) == IF j < k THEN j ELSE j + 1
<1>3. \A j \in 1..(b - 1) : old(j) \in 1..b /\ old(j) # k
  BY <1>2
<1>4. \A j \in 1..(b - 1) : n[j] = s[old(j)]
  BY <1>1
<1>5. \A i, j \in 1..(b - 1) : old(i) = old(j) => i = j
  BY <1>2
<1>6. \A i \in 1..b : i # k => \E j \in 1..(b - 1) : old(j) = i
  <2> SUFFICES ASSUME NEW i \in 1..b, i # k
               PROVE  \E j \in 1..(b - 1) : old(j) = i
    OBVIOUS
  <2>1. CASE i < k
    <3>1. i \in 1..(b - 1) /\ old(i) = i
      BY <1>2, <2>1
    <3> QED
      BY <3>1
  <2>2. CASE i > k
    <3>1. i - 1 \in 1..(b - 1) /\ old(i - 1) = i
      BY <1>2, <2>2
    <3> QED
      BY <3>1
  <2> QED
    BY <1>2, <2>1, <2>2
<1> HIDE DEF old, b
<1>7. DOMAIN s = 1..b /\ DOMAIN n = 1..(b - 1)
  BY <1>2 DEF b
<1>8. Range(n) = Range(s) \ {s[k]}
  <2>1. ASSUME NEW j \in 1..(b - 1)
        PROVE  n[j] \in Range(s) \ {s[k]}
    BY <1>3, <1>4, <1>7 DEF Range
  <2>2. ASSUME NEW i \in 1..b, s[i] # s[k]
        PROVE  s[i] \in Range(n)
    <3>1. i # k
      BY <2>2
    <3>2. PICK j \in 1..(b - 1) : old(j) = i
      BY <1>6, <3>1
    <3> QED
      BY <1>4, <1>7, <3>2 DEF Range
  <2>3. \A x \in Range(n) : x \in Range(s) \ {s[k]}
    BY <1>7, <2>1 DEF Range
  <2>4. \A x \in Range(s) \ {s[k]} : x \in Range(n)
    BY <1>7, <2>2 DEF Range
  <2> QED
    BY <2>3, <2>4
<1>9. \A i, j \in DOMAIN n : n[i] = n[j] => i = j
  BY <1>3, <1>4, <1>5, <1>7
<1> QED
  BY <1>1, <1>8, <1>9 DEF n

LEMMA AddSubscriberKeeps ==
    ASSUME TInv, NEW e \in Subscribers, One(e), AddSubscriber(e)
    PROVE  One(e)'
<1> /\ e \in Threads /\ e \in Elements /\ pc[e] = "attach" /\ QBy(e)
    /\ loc[e].room \in Rooms /\ loc[e].room # Nil
  BY Who, Locals DEF AddSubscriber, One, RoomLabels
<1> DEFINE r == loc[e].room
<1>1. /\ room[r].egressId = id[e] /\ egress[id[e]] = r /\ Found(e) /\ Listed(r)
      /\ room[r].name = RoomName[e] /\ id[e] \in EgressIds /\ id[e] # Nil
  BY FoundPlace, Who DEF QBy, Walk, EgressWalk, TInv, Points, Point
<1>2. /\ UNCHANGED <<tables, rooms, ing, live, id, apart, faults>>
      /\ pc' = [pc EXCEPT ![e] = "idle"] /\ at' = [at EXCEPT ![e] = r]
      /\ room' = [room EXCEPT ![r].subs = Append(room[r].subs, e)]
  BY DEF AddSubscriber, Goto
<1>3. pc'[e] = "idle" /\ \A u \in Threads : u # e => pc'[u] = pc[u]
  BY <1>2, Goes
<1>4. loc'[e] = Blank /\ \A u \in Threads : u # e => loc'[u] = loc[u]
  <2>1. PICK moves \in BOOLEAN :
           loc' = [u \in Threads |-> IF u = e THEN Blank ELSE Appended(u, r, e, moves)]
    BY DEF AddSubscriber
  <2>2. \A u \in Threads : Appended(u, r, e, moves) = loc[u]
    BY DEF Appended, Sees, Shares, QBy, Unshared
  <2> QED
    BY <2>1, <2>2
<1>5. at[e] = Nil /\ at'[e] = r /\ \A f \in Elements : f # e => at'[f] = at[f]
  BY <1>2, Unattached, TypeParts DEF TInv, ElementTypes
<1> DEFINE n == Append(room[r].subs, e)
<1>6. /\ n # <<>> /\ Range(n) = Range(room[r].subs) \cup {e}
      /\ \A j, k \in DOMAIN n : n[j] = n[k] => j = k
  <2> DEFINE s == room[r].subs
  <2>1. /\ s \in Seq(Subscribers) /\ e \notin Range(s) /\ e \in Subscribers
        /\ \A j, k \in DOMAIN s : s[j] = s[k] => j = k
    BY <1>5, SeatTypes, Who DEF QBy, Seated
  <2> HIDE DEF s
  <2>2. LET m == Append(s, e)
        IN  /\ m # <<>> /\ Range(m) = Range(s) \cup {e}
            /\ \A j, k \in DOMAIN m : m[j] = m[k] => j = k
    BY <2>1, AppendSeats
  <2> QED
    BY <2>2 DEF s
<1>7. /\ room'[r].subs = n /\ \A q \in Rooms : q # r => room'[q] = room[q]
      /\ \A q \in Rooms : /\ room'[q].name = room[q].name /\ room'[q].service = room[q].service
                          /\ room'[q].conn = room[q].conn /\ room'[q].egressId = room[q].egressId
                          /\ room'[q].ingress = room[q].ingress
  <2> HIDE DEF n
  <2>1. room \in [Rooms -> RoomType]
    BY TypeParts DEF TInv, ObjectTypes
  <2>2. room[r] \in RoomType /\ room'[r] = [room[r] EXCEPT !.subs = n]
        /\ \A q \in Rooms : q # r => room'[q] = room[q]
    BY <1>2, <2>1 DEF n
  <2> QED
    BY <2>2 DEF RoomType
<1> HIDE DEF n
<1>8. Rostered' /\ Single' /\ \A q \in Rooms : Listed(q)' = Listed(q)
  BY <1>2, <1>7, RoomsStay DEF tables
<1>9. Seated'
  <2>1. /\ \A q \in Rooms, f \in Subscribers : f \in Range(room[q].subs) => at[f] = q
        /\ \A q \in Rooms : \A j, k \in DOMAIN room[q].subs :
              room[q].subs[j] = room[q].subs[k] => j = k
        /\ \A f \in Subscribers : at[f] # Nil =>
              /\ f \in Range(room[at[f]].subs) /\ at[f] \in Rooms
              /\ room[at[f]].egressId = id[f] /\ room[at[f]].name = RoomName[f]
    BY SeatTypes DEF QBy, Seated
  <2>2. ASSUME NEW q \in Rooms, NEW f \in Subscribers, f \in Range(room'[q].subs)
        PROVE  at'[f] = q
    <3>1. CASE q = r
      BY <1>5, <1>6, <1>7, <2>1, <2>2, <3>1, Who
    <3>2. CASE q # r
      BY <1>5, <1>7, <2>1, <2>2, <3>2, Who
    <3> QED
      BY <3>1, <3>2
  <2>3. \A q \in Rooms : \A j, k \in DOMAIN room'[q].subs :
           room'[q].subs[j] = room'[q].subs[k] => j = k
    BY <1>6, <1>7, <2>1
  <2>4. ASSUME NEW f \in Subscribers, at'[f] # Nil
        PROVE  /\ f \in Range(room'[at'[f]].subs)
               /\ room'[at'[f]].egressId = id'[f] /\ room'[at'[f]].name = RoomName[f]
    <3>1. CASE f = e
      <4>1. at'[f] = r /\ id'[f] = id[f]
        BY <1>2, <1>5, <3>1
      <4>2. f \in Range(room'[r].subs) /\ room'[r].egressId = id[f] /\ room'[r].name = RoomName[f]
        BY <1>1, <1>6, <1>7, <3>1
      <4> QED
        BY <4>1, <4>2
    <3>2. CASE f # e
      <4>1. at'[f] = at[f] /\ id'[f] = id[f] /\ at[f] # Nil
        BY <1>2, <1>5, <2>4, <3>2, Who
      <4>2. /\ at[f] \in Rooms /\ f \in Range(room[at[f]].subs)
            /\ room[at[f]].egressId = id[f] /\ room[at[f]].name = RoomName[f]
        BY <2>1, <4>1
      <4>3. f \in Range(room'[at[f]].subs)
        BY <1>6, <1>7, <4>2
      <4> QED
        BY <1>7, <4>1, <4>2, <4>3
    <3> QED
      BY <3>1, <3>2
  <2> QED
    BY <2>2, <2>3, <2>4 DEF Seated
<1>10. ASSUME NEW q \in Rooms
       PROVE  Served(e, q)'
  <2>1. ASSUME room[q].egressId # Nil
        PROVE  /\ room[q].egressId \in live /\ loc'[room[q].egressId].room = q
               /\ egress[room[q].egressId] = q /\ room'[q].subs # <<>>
    <3>1. /\ room[q].egressId \in live /\ loc[room[q].egressId].room = q
          /\ egress[room[q].egressId] = q /\ (q # r => room[q].subs # <<>>)
      BY <2>1, OfRoom DEF Attends
    <3>2. loc'[room[q].egressId] = loc[room[q].egressId]
      BY <1>4, <2>1, OfRoom, Who
    <3> QED
      BY <1>6, <1>7, <3>1, <3>2
  <2>2. room'[q].subs # <<>> => room[q].egressId # Nil
    BY <1>1, <1>7 DEF QBy, Served
  <2> QED
    BY <1>2, <1>7, <2>1, <2>2 DEF Served, tables
<1>11. ASSUME NEW d \in EgressIds
       PROVE  Held(e, d)'
  <2>1. Held(e, d) /\ egress[d] \in Maybe(Rooms)
    BY SeatTypes DEF QBy
  <2>2. egress[d] # Nil => room'[egress[d]].egressId = d
    BY <1>7, <2>1 DEF Held, Maybe
  <2>3. ASSUME d \in live
        PROVE  /\ pc'[d] = "idle" /\ loc'[d] = loc[d]
               /\ room'[loc[d].room].conn = d /\ Listed(loc[d].room)'
               /\ room'[loc[d].room].egressId = d
    <3>1. loc[d].room \in Rooms /\ pc'[d] = "idle" /\ loc'[d] = loc[d]
      BY <1>3, <1>4, <2>3, SeatTypes, Who
    <3>2. /\ room[loc[d].room].conn = d /\ Listed(loc[d].room)
          /\ room[loc[d].room].egressId = d
      BY <2>1, <2>3 DEF Held
    <3>3. ASSUME NEW q \in Rooms, q = loc[d].room
          PROVE  Listed(q)'
      BY <1>8, <3>1, <3>2, <3>3
    <3> QED
      BY <1>7, <3>1, <3>2, <3>3 DEF Listed
  <2> QED
    BY <1>2, <2>2, <2>3 DEF Held, tables, Listed
<1>12. Walk(e)' /\ EgressWalk(e)' /\ IngressWalk(e)'
  BY <1>3, IdleWalk
<1>13. \A u \in Threads : loc'[u].array = "none"
  BY <1>4, BlankArray DEF QBy, Unshared
<1>14. \A f \in Publishers : at'[f] = at[f] /\ id'[f] = id[f]
  BY <1>2, <1>5, Who
<1>15. \A q \in Rooms : /\ room'[q].ingress = room[q].ingress
                        /\ room[q].ingress # NoIngress => Listed(q)'
  BY <1>7, <1>8 DEF QBy, Fed
<1> QED
  BY <1>2, <1>3, <1>8, <1>9, <1>10, <1>11, <1>12, <1>13, <1>14, <1>15, EgressStep DEF tables

LEMMA UnsubscribeKeeps ==
    ASSUME TInv, NEW e \in Subscribers, One(e), Unsubscribe(e)
    PROVE  One(e)'
<1> /\ e \in Threads /\ e \in Elements /\ pc[e] = "idle" /\ QBy(e)
    /\ at[e] \in Rooms /\ id[e] \in EgressIds /\ at[e] # Nil
  BY Who DEF Unsubscribe, IsConnected, Begin, One, TInv, Attached
<1> DEFINE r == at[e]
           c == id[e]
           l == [Blank EXCEPT !.id = c]
<1>1. PICK k \in DOMAIN room[r].subs :
         /\ room[r].subs[k] = e
         /\ room' = [room EXCEPT ![r].subs = RemoveAt(room[r].subs, k)]
         /\ loc' = [u \in Threads |-> IF u = e THEN l ELSE Removed(u, r, k)]
  BY DEF Unsubscribe
<1>2. /\ UNCHANGED <<tables, rooms, ing, live, faults>>
      /\ pc' = [pc EXCEPT ![e] = "leave"]
      /\ at' = [at EXCEPT ![e] = Nil] /\ id' = [id EXCEPT ![e] = Nil]
  BY DEF Unsubscribe, Begin, Goto
<1>3. pc'[e] = "leave" /\ \A u \in Threads : u # e => pc'[u] = pc[u]
  BY <1>2, Goes
<1>4. l.id = c /\ l.array = "none"
  BY BlankArray DEF Blank
<1> HIDE DEF l
<1>5. loc'[e] = l /\ \A u \in Threads : u # e => loc'[u] = loc[u]
  <2>1. \A u \in Threads : Removed(u, r, k) = loc[u]
    BY DEF Removed, Shares, QBy, Unshared
  <2> QED
    BY <1>1, <2>1
<1>6. /\ at'[e] = Nil /\ id'[e] = Nil
      /\ \A f \in Elements : f # e => at'[f] = at[f] /\ id'[f] = id[f]
  BY <1>2, TypeParts DEF TInv, ElementTypes, Maybe
<1>7. room[r].egressId = c /\ c # Nil /\ room[r].subs # <<>>
  BY <1>1, Who DEF QBy, Seated
<1>8. egress[c] = r /\ c \in live /\ loc[c].room = r
  BY <1>7, OfRoom
<1> DEFINE n == RemoveAt(room[r].subs, k)
<1>9. Range(n) = Range(room[r].subs) \ {e} /\ \A i, j \in DOMAIN n : n[i] = n[j] => i = j
  <2>1. /\ room[r].subs \in Seq(Subscribers)
        /\ \A i, j \in DOMAIN room[r].subs : room[r].subs[i] = room[r].subs[j] => i = j
    BY SeatTypes DEF QBy, Seated
  <2> QED
    BY <1>1, <2>1, RemoveSeats
<1>10. /\ room'[r].subs = n /\ \A q \in Rooms : q # r => room'[q] = room[q]
       /\ \A q \in Rooms : /\ room'[q].name = room[q].name /\ room'[q].service = room[q].service
                           /\ room'[q].conn = room[q].conn /\ room'[q].egressId = room[q].egressId
                           /\ room'[q].ingress = room[q].ingress
  <2> HIDE DEF n
  <2>1. room \in [Rooms -> RoomType]
    BY TypeParts DEF TInv, ObjectTypes
  <2>2. room[r] \in RoomType /\ room'[r] = [room[r] EXCEPT !.subs = n]
        /\ \A q \in Rooms : q # r => room'[q] = room[q]
    BY <1>1, <2>1 DEF n
  <2> QED
    BY <2>2 DEF RoomType
<1> HIDE DEF n
<1>11. Rostered' /\ Single' /\ \A q \in Rooms : Listed(q)' = Listed(q)
  BY <1>2, <1>10, RoomsStay DEF tables
<1>12. Seated'
  <2>1. /\ \A q \in Rooms, f \in Subscribers : f \in Range(room[q].subs) => at[f] = q
        /\ \A q \in Rooms : \A i, j \in DOMAIN room[q].subs :
              room[q].subs[i] = room[q].subs[j] => i = j
        /\ \A f \in Subscribers : at[f] # Nil =>
              /\ f \in Range(room[at[f]].subs) /\ at[f] \in Rooms
              /\ room[at[f]].egressId = id[f] /\ room[at[f]].name = RoomName[f]
    BY SeatTypes DEF QBy, Seated
  <2>2. ASSUME NEW q \in Rooms, NEW f \in Subscribers, f \in Range(room'[q].subs)
        PROVE  at'[f] = q
    <3>1. f \in Range(room[q].subs) /\ f # e
      <4>1. CASE q = r
        BY <1>9, <1>10, <2>2, <4>1
      <4>2. CASE q # r
        BY <1>10, <2>1, <2>2, <4>2
      <4> QED
        BY <4>1, <4>2
    <3> QED
      BY <1>6, <2>1, <3>1, Who
  <2>3. \A q \in Rooms : \A i, j \in DOMAIN room'[q].subs :
           room'[q].subs[i] = room'[q].subs[j] => i = j
    BY <1>9, <1>10, <2>1
  <2>4. ASSUME NEW f \in Subscribers, at'[f] # Nil
        PROVE  /\ f \in Range(room'[at'[f]].subs)
               /\ room'[at'[f]].egressId = id'[f] /\ room'[at'[f]].name = RoomName[f]
    <3>1. f # e /\ at'[f] = at[f] /\ id'[f] = id[f]
      BY <1>6, <2>4, Who
    <3>2. at[f] \in Rooms /\ f \in Range(room[at[f]].subs)
          /\ room[at[f]].egressId = id[f] /\ room[at[f]].name = RoomName[f]
      BY <2>1, <2>4, <3>1
    <3>3. f \in Range(room'[at[f]].subs)
      BY <1>9, <1>10, <3>1, <3>2
    <3> QED
      BY <1>10, <3>1, <3>2, <3>3
  <2> QED
    BY <2>2, <2>3, <2>4 DEF Seated
<1>13. ASSUME NEW q \in Rooms
       PROVE  Served(e, q)'
  <2>1. ASSUME room[q].egressId # Nil
        PROVE  /\ room[q].egressId \in live /\ loc'[room[q].egressId].room = q
               /\ egress[room[q].egressId] = q /\ (q # r => room'[q].subs # <<>>)
    <3>1. /\ room[q].egressId \in live /\ loc[room[q].egressId].room = q
          /\ egress[room[q].egressId] = q /\ room[q].subs # <<>>
      BY <2>1, OfRoom DEF Attends
    <3>2. loc'[room[q].egressId] = loc[room[q].egressId]
      BY <1>5, <2>1, OfRoom, Who
    <3> QED
      BY <1>10, <3>1, <3>2
  <2>2. room'[q].subs # <<>> => room[q].egressId # Nil
    BY <1>7, <1>10 DEF QBy, Served
  <2>3. q = r => Attends(e, q)'
    BY <1>2, <1>3, <1>4, <1>5, <1>8 DEF Attends, tables
  <2> QED
    BY <1>2, <1>10, <2>1, <2>2, <2>3 DEF Served, tables
<1>14. ASSUME NEW d \in EgressIds
       PROVE  Held(e, d)'
  <2>1. Held(e, d) /\ egress[d] \in Maybe(Rooms)
    BY SeatTypes DEF QBy
  <2>2. egress[d] # Nil => room'[egress[d]].egressId = d
    BY <1>10, <2>1 DEF Held, Maybe
  <2>3. ASSUME d \in live
        PROVE  /\ pc'[d] = "idle" /\ loc'[d] = loc[d]
               /\ room'[loc[d].room].conn = d /\ Listed(loc[d].room)'
               /\ room'[loc[d].room].egressId = d
    <3>1. loc[d].room \in Rooms /\ pc'[d] = "idle" /\ loc'[d] = loc[d]
      BY <1>3, <1>5, <2>3, SeatTypes, Who
    <3>2. /\ room[loc[d].room].conn = d /\ Listed(loc[d].room)
          /\ room[loc[d].room].egressId = d
      BY <2>1, <2>3 DEF Held
    <3>3. ASSUME NEW q \in Rooms, q = loc[d].room
          PROVE  Listed(q)'
      BY <1>11, <3>1, <3>2, <3>3
    <3> QED
      BY <1>10, <3>1, <3>2, <3>3 DEF Listed
  <2> QED
    BY <1>2, <2>2, <2>3 DEF Held, tables, Listed
<1>15. Walk(e)' /\ EgressWalk(e)' /\ IngressWalk(e)'
  BY <1>2, <1>3, <1>4, <1>5, <1>8, Who DEF Walk, EgressWalk, IngressWalk, tables
<1>16. \A u \in Threads : loc'[u].array = "none"
  BY <1>4, <1>5 DEF QBy, Unshared
<1>17. \A f \in Publishers : at'[f] = at[f] /\ id'[f] = id[f]
  BY <1>6, Who
<1>18. \A q \in Rooms : /\ room'[q].ingress = room[q].ingress
                        /\ room[q].ingress # NoIngress => Listed(q)'
  BY <1>10, <1>11 DEF QBy, Fed
<1> QED
  BY <1>2, <1>3, <1>11, <1>12, <1>13, <1>14, <1>15, <1>16, <1>17, <1>18, EgressStep DEF tables

\* Nobody is in a room that is empty.
LEMMA NobodyIn ==
    ASSUME TInv, Seated, NEW r \in Rooms, room[r].subs = <<>>
    PROVE  \A f \in Subscribers : at[f] # r
<1>1. Range(room[r].subs) = {}
  BY DEF Range
<1> QED
  BY <1>1, Who DEF Seated

LEMMA LeaveEgressCloses ==
    ASSUME TInv, NEW t \in Threads, One(t), LeaveEgress(t), room[loc[t].room].subs = <<>>
    PROVE  One(t)'
<1> /\ loc[t] \in LocalsType /\ pc[t] = "lock" /\ QBy(t)
    /\ loc[t].room \in Rooms /\ loc[t].room # Nil
  BY Who, Locals DEF LeaveEgress, One, RoomLabels
<1> DEFINE r == loc[t].room
           c == loc[t].id
<1>1. /\ c \in EgressIds /\ room[r].egressId = c /\ c # Nil /\ c \in live
      /\ loc[c].room = r /\ Listed(r)
  BY OfRoom, Who DEF QBy, EgressWalk
<1>2. /\ UNCHANGED <<services, ingress, rooms, ing, live, id, at, loc, apart, faults>>
      /\ pc' = [pc EXCEPT ![t] = "close"]
      /\ room' = [room EXCEPT ![r].lock = t, ![r].egressId = Nil]
      /\ egress' = [x \in EgressIds |-> IF x = c THEN Nil ELSE egress[x]]
  BY <1>1 DEF LeaveEgress, Goto
<1>3. pc'[t] = "close" /\ \A u \in Threads : u # t => pc'[u] = pc[u]
  BY <1>2, Goes
<1>4. /\ room'[r].egressId = Nil /\ \A q \in Rooms : q # r => room'[q] = room[q]
      /\ \A q \in Rooms : /\ room'[q].name = room[q].name /\ room'[q].service = room[q].service
                          /\ room'[q].conn = room[q].conn /\ room'[q].subs = room[q].subs
                          /\ room'[q].ingress = room[q].ingress
  <2>1. room \in [Rooms -> RoomType]
    BY TypeParts DEF TInv, ObjectTypes
  <2>2. room[r] \in RoomType /\ room'[r] = [room[r] EXCEPT !.lock = t, !.egressId = Nil]
        /\ \A q \in Rooms : q # r => room'[q] = room[q]
    BY <1>2, <2>1
  <2> QED
    BY <2>2 DEF RoomType
<1>5. egress'[c] = Nil /\ \A d \in EgressIds : d # c => egress'[d] = egress[d]
  BY <1>1, <1>2
<1>6. Rostered' /\ Single' /\ \A q \in Rooms : Listed(q)' = Listed(q)
  BY <1>2, <1>4, RoomsStay
<1>7. Seated'
  <2>1. \A f \in Subscribers : at[f] # Nil => at[f] \in Rooms /\ at[f] # r
    BY SeatTypes, NobodyIn DEF QBy
  <2> QED
    BY <1>2, <1>4, <2>1, SeatsStay DEF QBy
<1>8. ASSUME NEW q \in Rooms
      PROVE  Served(t, q)'
  <2>1. CASE q = r
    BY <1>4, <2>1 DEF Served
  <2>2. CASE q # r
    <3>1. room'[q] = room[q] /\ (room[q].subs # <<>> => room[q].egressId # Nil)
      BY <1>4, <2>2 DEF QBy, Served
    <3>2. ASSUME room[q].egressId # Nil
          PROVE  /\ room[q].egressId \in live /\ loc[room[q].egressId].room = q
                 /\ egress'[room[q].egressId] = q /\ room[q].subs # <<>>
      <4>1. /\ room[q].egressId \in live /\ loc[room[q].egressId].room = q
            /\ egress[room[q].egressId] = q /\ room[q].subs # <<>>
            /\ room[q].egressId \in EgressIds
        BY <2>2, <3>2, OfRoom DEF Attends
      <4> QED
        BY <1>1, <1>5, <2>2, <4>1
    <3>3. UNCHANGED <<live, loc>>
      BY <1>2
    <3> QED
      BY <3>1, <3>2, <3>3 DEF Served
  <2> QED
    BY <2>1, <2>2
<1>9. ASSUME NEW d \in EgressIds
      PROVE  Held(t, d)'
  <2>1. Held(t, d) /\ egress[d] \in Maybe(Rooms)
    BY SeatTypes DEF QBy
  <2>2. egress'[d] # Nil => room'[egress'[d]].egressId = d
    <3>1. d # c /\ egress[d] # Nil => egress[d] # r /\ egress[d] \in Rooms
      BY <1>1, <2>1 DEF Held, Maybe
    <3> QED
      BY <1>4, <1>5, <2>1, <3>1 DEF Held
  <2>3. ASSUME d \in live
        PROVE  /\ pc'[d] = "idle"
               /\ room'[loc[d].room].conn = d /\ Listed(loc[d].room)'
               /\ d # c => room'[loc[d].room].egressId = d
    <3>1. loc[d].room \in Rooms /\ pc'[d] = "idle"
      BY <1>3, <2>3, SeatTypes, Who
    <3>2. /\ room[loc[d].room].conn = d /\ Listed(loc[d].room)
          /\ room[loc[d].room].egressId = d
      BY <2>1, <2>3 DEF Held
    <3>3. ASSUME NEW q \in Rooms, q = loc[d].room
          PROVE  Listed(q)'
      BY <1>6, <3>1, <3>2, <3>3
    <3>4. d # c => loc[d].room # r
      BY <1>1, <3>2
    <3> QED
      BY <1>2, <1>4, <3>1, <3>2, <3>3, <3>4 DEF Listed
  <2>4. UNCHANGED <<live, loc>>
    BY <1>2
  <2> QED
    BY <1>3, <2>2, <2>3, <2>4 DEF Held, Listed
<1>10. Walk(t)' /\ EgressWalk(t)' /\ IngressWalk(t)'
  <2>1. ASSUME NEW q \in Rooms, q = loc[t].room
        PROVE  Listed(q)'
    BY <1>1, <1>6, <2>1
  <2>2. UNCHANGED <<live, loc>>
    BY <1>2
  <2> QED
    BY <1>1, <1>3, <1>4, <2>1, <2>2 DEF Walk, EgressWalk, IngressWalk, Empty, Listed
<1>11. \A q \in Rooms : /\ room'[q].ingress = room[q].ingress
                        /\ room[q].ingress # NoIngress => Listed(q)'
  BY <1>4, <1>6 DEF QBy, Fed
<1> QED
  BY <1>2, <1>3, <1>6, <1>7, <1>8, <1>9, <1>10, <1>11, EgressStep DEF QBy, Unshared

\* The client closes the connection of the room that the call deletes next.
LEMMA HangsUpInQuiet ==
    ASSUME TInv, NEW t \in Threads, One(t), pc[t] \in {"close", "hangUp"},
           NEW r \in Rooms, r = loc[t].room, Listed(r), Empty(r), room[r].ingress = NoIngress,
           NEW c \in EgressIds, c \in live => loc[c].room = r,
           pc[t] = "close" => loc[t].id = c,
           HangsUp(c), Goto(t, "deleteRoom"),
           UNCHANGED <<tables, rooms, room, ing, id, at, apart, faults>>
    PROVE  One(t)'
<1> QBy(t) /\ c \in Threads
  BY Who DEF One
<1>1. pc'[t] = "deleteRoom" /\ \A u \in Threads : u # t => pc'[u] = pc[u]
  BY Goes DEF Goto
<1>2. live' = live \ {c} /\ \A u \in Threads : loc'[u] = loc[u] \/ (u = c /\ loc'[u] = Blank)
  BY TypeParts DEF HangsUp, TInv, ThreadTypes
<1>3. loc'[t] = loc[t]
  BY Who DEF HangsUp
<1>4. Rostered' /\ Single' /\ \A q \in Rooms : Listed(q)' = Listed(q)
  BY RoomsStay DEF tables
<1>5. Seated'
  BY DEF QBy, Seated
<1>6. ASSUME NEW q \in Rooms
      PROVE  Served(t, q)'
  <2>1. ASSUME room[q].egressId # Nil
        PROVE  /\ room[q].egressId \in live' /\ loc'[room[q].egressId].room = q
               /\ egress[room[q].egressId] = q /\ room[q].subs # <<>>
    <3>1. /\ room[q].egressId \in live /\ loc[room[q].egressId].room = q
          /\ egress[room[q].egressId] = q /\ room[q].subs # <<>>
          /\ room[q].egressId \in EgressIds
      BY <2>1, OfRoom DEF Attends
    <3>2. room[q].egressId # c
      BY <2>1, <3>1 DEF Empty
    <3> QED
      BY <1>2, <3>1, <3>2, Who
  <2>2. room[q].subs # <<>> => room[q].egressId # Nil
    BY DEF QBy, Served
  <2> QED
    BY <2>1, <2>2 DEF Served, tables
<1>7. ASSUME NEW d \in EgressIds
      PROVE  Held(t, d)'
  <2>1. Held(t, d)
    BY DEF QBy
  <2>2. ASSUME d \in live'
        PROVE  /\ pc'[d] = "idle" /\ loc'[d] = loc[d]
               /\ room[loc[d].room].conn = d /\ Listed(loc[d].room)'
               /\ room[loc[d].room].egressId = d
    <3>1. d \in live /\ d # c
      BY <1>2, <2>2
    <3>2. loc[d].room \in Rooms /\ pc'[d] = "idle" /\ loc'[d] = loc[d]
      BY <1>1, <1>2, <3>1, SeatTypes, Who
    <3>3. /\ room[loc[d].room].conn = d /\ Listed(loc[d].room)
          /\ room[loc[d].room].egressId = d
      BY <2>1, <3>1 DEF Held
    <3>4. ASSUME NEW q \in Rooms, q = loc[d].room
          PROVE  Listed(q)'
      BY <1>4, <3>2, <3>3, <3>4
    <3> QED
      BY <3>2, <3>3, <3>4 DEF Listed
  <2> QED
    BY <2>1, <2>2 DEF Held, tables, Listed
<1>8. Walk(t)' /\ EgressWalk(t)' /\ IngressWalk(t)'
  BY <1>1, <1>3, <1>4 DEF Walk, EgressWalk, IngressWalk, Empty, Listed
<1>9. \A u \in Threads : loc'[u].array = "none"
  BY <1>2, BlankArray DEF QBy, Unshared
<1>10. \A q \in Rooms : room[q].ingress # NoIngress => Listed(q)'
  BY <1>4 DEF QBy, Fed
<1> QED
  BY <1>1, <1>4, <1>5, <1>6, <1>7, <1>8, <1>9, <1>10, Who, EgressStep DEF tables

LEMMA DisconnectKeeps ==
    ASSUME TInv, NEW t \in Threads, One(t), Disconnect(t)
    PROVE  One(t)'
<1> DEFINE r == loc[t].room
           c == loc[t].id
<1>1. /\ pc[t] = "close" /\ r \in Rooms /\ room[r].ingress = NoIngress /\ QBy(t)
  BY Locals DEF Disconnect, RoomLabels, One
<1>2. Listed(r) /\ Empty(r) /\ c \in live /\ loc[c].room = r
  BY <1>1 DEF QBy, Walk, EgressWalk
<1>3. c \in EgressIds /\ room[r].conn = c
  BY <1>1, <1>2, SeatTypes DEF QBy, Held
<1>4. /\ HangsUp(c) /\ Goto(t, "deleteRoom")
      /\ UNCHANGED <<tables, rooms, room, ing, id, at, apart, faults>>
  BY <1>3 DEF Disconnect
<1> QED
  BY <1>1, <1>2, <1>3, <1>4, HangsUpInQuiet

LEMMA HangUpKeeps ==
    ASSUME TInv, NEW e \in Publishers, One(e), HangUp(e)
    PROVE  One(e)'
<1> DEFINE r == loc[e].room
           c == room[r].conn
<1>1. /\ pc[e] = "hangUp" /\ e \in Threads /\ r \in Rooms /\ QBy(e)
      /\ UNCHANGED <<tables, rooms, room, ing, id, at, apart, faults>>
  BY Locals, Who DEF HangUp, RoomLabels, One
<1>2. room[r].subs = <<>> /\ room[r].ingress = NoIngress /\ Listed(r)
  BY <1>1 DEF QBy, Walk, EgressWalk
<1>3. room[r].egressId = Nil
  BY <1>1, <1>2, OfRoom DEF Attends
<1>4. CASE c = Nil
  <2>1. Return(e) /\ UNCHANGED live
    BY <1>4 DEF HangUp
  <2>2. \A q \in Rooms : SameRoom(q)
    BY <1>1 DEF SameRoom, SameSeats
  <2> QED
    BY <1>1, <2>1, <2>2, Returns DEF AttendsOn, FeedsOn, Attends, Feeds
<1>5. CASE c # Nil
  <2>1. c \in EgressIds
    BY <1>1, <1>5, SeatTypes DEF Maybe
  <2>2. c \in live => loc[c].room = r
    <3> SUFFICES ASSUME c \in live
                 PROVE  loc[c].room = r
      OBVIOUS
    <3>1. loc[c].room \in Rooms /\ room[loc[c].room].conn = c /\ Listed(loc[c].room)
      BY <1>1, <2>1, SeatTypes DEF QBy, Held
    <3> QED
      BY <1>1, <1>2, <1>5, <3>1 DEF QBy, Single
  <2>3. HangsUp(c) /\ Goto(e, "deleteRoom")
    BY <1>5 DEF HangUp
  <2> QED
    BY <1>1, <1>2, <1>3, <2>1, <2>2, <2>3, HangsUpInQuiet DEF Empty
<1> QED
  BY <1>4, <1>5

\* LiveKit ends the connection: the callback is what is under way now.
LEMMA RemoveEgressGoesOn ==
    ASSUME TInv, NEW t \in Threads, One(t), RemoveEgress(t), faults' = 0,
           NEW c, c = loc[t].id, NEW r, r = loc[t].room
    PROVE  c \in Threads /\ One(c)'
<1>1. /\ pc[t] = "close" /\ r \in Rooms /\ QBy(t)
  BY Locals DEF RemoveEgress, RoomLabels, One
<1>2. Listed(r) /\ Empty(r) /\ c \in live /\ loc[c].room = r
  BY <1>1 DEF QBy, Walk, EgressWalk
<1>3. c \in EgressIds /\ c \in Threads /\ c # t /\ c \notin Elements
  BY <1>1, <1>2, SeatTypes, Who
<1>4. /\ live' = live \ {c} /\ pc'[t] = "idle" /\ pc'[c] = "dropped"
      /\ \A u \in Threads : u # t /\ u # c => pc'[u] = pc[u]
  <2>1. PICK done \in BOOLEAN :
           /\ Removal(done)
           /\ live' = IF done THEN live \ {c} ELSE live
           /\ pc' = [x \in Threads |-> IF x = t THEN "idle"
                        ELSE IF done /\ x = c /\ c \in live THEN "dropped" ELSE pc[x]]
    BY DEF RemoveEgress
  <2>2. done
    <3>1. faults \in Nat
      BY TypeParts DEF TInv, HistoryTypes
    <3> QED
      BY <2>1, <3>1 DEF Removal, Fault
  <2> QED
    BY <1>2, <1>3, <2>1, <2>2
<1>5. /\ loc' = [loc EXCEPT ![t] = Blank]
      /\ room' = [room EXCEPT ![r] = Unlocked(t, room[r])]
      /\ UNCHANGED <<tables, rooms, ing, id, at, apart>>
  BY DEF RemoveEgress
<1>6. loc'[t] = Blank /\ \A u \in Threads : u # t => loc'[u] = loc[u]
  BY <1>5, Takes
<1>7. \A q \in Rooms : SameRoom(q)
  BY <1>1, <1>5, UnlockSame
<1>8. Rostered' /\ Single' /\ \A q \in Rooms : Listed(q)' = Listed(q)
  BY <1>1, <1>5, <1>7, RoomsStay DEF tables, SameRoom, SameSeats
<1>9. Seated'
  <2>1. \A f \in Subscribers : at[f] # Nil => at[f] \in Rooms
    BY SeatTypes
  <2> QED
    BY <1>1, <1>5, <1>7, <2>1, SeatsStay DEF QBy, SameRoom, SameSeats
<1>10. ASSUME NEW q \in Rooms
       PROVE  Served(c, q)'
  <2>1. ASSUME room[q].egressId # Nil
        PROVE  /\ room[q].egressId \in live' /\ loc'[room[q].egressId].room = q
               /\ egress[room[q].egressId] = q /\ room[q].subs # <<>>
    <3>1. /\ room[q].egressId \in live /\ loc[room[q].egressId].room = q
          /\ egress[room[q].egressId] = q /\ room[q].subs # <<>>
          /\ room[q].egressId \in EgressIds
      BY <1>1, <2>1, OfRoom DEF Attends
    <3>2. room[q].egressId # c /\ room[q].egressId # t
      BY <1>1, <1>2, <2>1, <3>1, SeatTypes DEF Empty
    <3> QED
      BY <1>4, <1>6, <3>1, <3>2, Who
  <2>2. room[q].subs # <<>> => room[q].egressId # Nil
    BY <1>1 DEF QBy, Served
  <2> QED
    BY <1>5, <1>7, <2>1, <2>2 DEF Served, tables, SameRoom, SameSeats
<1>11. ASSUME NEW d \in EgressIds
       PROVE  Held(c, d)'
  <2>1. Held(t, d) /\ egress[d] \in Maybe(Rooms)
    BY <1>1, SeatTypes DEF QBy
  <2>2. egress[d] # Nil => room'[egress[d]].egressId = d
    BY <1>7, <2>1 DEF Held, Maybe, SameRoom, SameSeats
  <2>3. ASSUME d \in live'
        PROVE  /\ pc'[d] = "idle" /\ loc'[d] = loc[d]
               /\ room'[loc[d].room].conn = d /\ Listed(loc[d].room)'
               /\ room'[loc[d].room].egressId = d
    <3>1. d \in live /\ d # c
      BY <1>4, <2>3
    <3>2. loc[d].room \in Rooms /\ pc'[d] = "idle" /\ loc'[d] = loc[d]
      BY <1>1, <1>4, <1>6, <3>1, SeatTypes, Who
    <3>3. /\ room[loc[d].room].conn = d /\ Listed(loc[d].room)
          /\ room[loc[d].room].egressId = d
      BY <1>1, <2>1, <3>1 DEF Held
    <3>4. ASSUME NEW q \in Rooms, q = loc[d].room
          PROVE  Listed(q)'
      BY <1>8, <3>2, <3>3, <3>4
    <3> QED
      BY <1>7, <3>2, <3>3, <3>4 DEF Listed, SameRoom, SameSeats
  <2> QED
    BY <1>5, <2>2, <2>3 DEF Held, tables, Listed
<1>12. Fed(t)' /\ Slotted'
  <2>1. FeedsOn(t)
    BY <1>1 DEF FeedsOn, Feeds
  <2>2. \A q \in Rooms : /\ room'[q].ingress = room[q].ingress
                         /\ room[q].ingress # NoIngress => Listed(q)'
    BY <1>1, <1>7, <1>8 DEF QBy, Fed, SameRoom
  <2> QED
    BY <1>1, <1>5, <2>1, <2>2, IngressStays DEF tables
<1>13. Fed(c)'
  BY <1>4, <1>12 DEF Fed, Feeds
<1>14. Empty(r)' /\ loc'[c].room = r
  <2>1. room'[r].subs = <<>> /\ room'[r].egressId = Nil
    BY <1>1, <1>2, <1>7 DEF Empty, SameRoom, SameSeats
  <2> QED
    BY <1>2, <1>3, <1>6, <2>1 DEF Empty
<1>15. Walk(c)' /\ EgressWalk(c)' /\ IngressWalk(c)'
  BY <1>4, <1>14 DEF Walk, EgressWalk, IngressWalk, Empty
<1>16. Unshared'
  BY <1>1, <1>6, BlankArray DEF QBy, Unshared
<1>17. Alone(c)'
  BY <1>4 DEF One, Alone
<1> QED
  BY <1>3, <1>8, <1>9, <1>10, <1>11, <1>12, <1>13, <1>15, <1>16, <1>17 DEF One, QBy

LEMMA DeleteRoomKeeps ==
    ASSUME TInv, NEW t \in Threads, One(t), DeleteRoom(t)
    PROVE  One(t)'
<1> DEFINE r == loc[t].room
<1>1. pc[t] = "deleteRoom" /\ r \in Rooms /\ QBy(t)
  BY Locals DEF DeleteRoom, RoomLabels, ClosingLabels, One
<1>2. Listed(r) /\ Empty(r) /\ room[r].ingress = NoIngress /\ services # Nil
  BY <1>1 DEF QBy, Walk, Listed
<1>3. services \in Services /\ room[r].service = services /\ room[r].name \in Names
  BY <1>1, <1>2, ListedRoom DEF QBy
<1>4. /\ UNCHANGED <<tables, room, ing, live, id, at, loc, apart, faults>>
      /\ pc' = [pc EXCEPT ![t] = "testService"]
      /\ rooms' = [rooms EXCEPT ![services][room[r].name] = Nil]
  BY <1>3 DEF DeleteRoom, Goto
<1>5. pc'[t] = "testService" /\ \A u \in Threads : u # t => pc'[u] = pc[u]
  BY <1>4, Goes
<1>6. /\ rooms'[services][room[r].name] = Nil
      /\ \A n \in Names : n # room[r].name => rooms'[services][n] = rooms[services][n]
      /\ \A s \in Services : s # services => rooms'[s] = rooms[s]
  BY <1>3, <1>4, TypeParts DEF TInv, TableTypes
<1>7. \A q \in Rooms : Listed(q) /\ q # r => Listed(q)'
  <2> SUFFICES ASSUME NEW q \in Rooms, Listed(q), q # r
               PROVE  Listed(q)'
    OBVIOUS
  <2>1. room[q].name \in Names /\ room[q].name # room[r].name
    BY <1>1, <1>2, ListedRoom DEF QBy, Listed
  <2> QED
    BY <1>4, <1>6, <2>1 DEF Listed, tables
<1>8. \A q \in Rooms : Listed(q)' => Listed(q)
  <2> SUFFICES ASSUME NEW q \in Rooms, Listed(q)'
               PROVE  Listed(q)
    OBVIOUS
  <2>1. room[q].name \in Names /\ rooms'[services][room[q].name] = q
    BY <1>4, SeatTypes DEF Listed, tables, RoomType, Maybe
  <2>2. room[q].name # room[r].name
    BY <1>6, <2>1, Who
  <2> QED
    BY <1>2, <1>6, <2>1, <2>2, Who DEF Listed
<1>9. Rostered' /\ Single'
  <2>1. \A s \in Services, n \in Names : rooms'[s][n] # Nil => rooms[s][n] = rooms'[s][n]
    BY <1>6
  <2>2. Rostered'
    BY <1>1, <1>4, <2>1 DEF QBy, Rostered, tables
  <2> QED
    BY <1>1, <1>4, <1>8, <2>2, SingleStays DEF QBy
<1>10. Seated'
  BY <1>1, <1>4 DEF QBy, Seated
<1>11. ASSUME NEW q \in Rooms
       PROVE  Served(t, q)'
  <2>1. room[q].egressId # Nil =>
               /\ room[q].egressId \in live /\ loc[room[q].egressId].room = q
               /\ egress[room[q].egressId] = q /\ room[q].subs # <<>>
    BY <1>1, OfRoom DEF Attends
  <2>2. room[q].subs # <<>> => room[q].egressId # Nil
    BY <1>1 DEF QBy, Served
  <2> QED
    BY <1>4, <2>1, <2>2 DEF Served, tables
<1>12. ASSUME NEW d \in EgressIds
       PROVE  Held(t, d)'
  <2>1. Held(t, d)
    BY <1>1 DEF QBy
  <2>2. ASSUME d \in live
        PROVE  pc'[d] = "idle" /\ Listed(loc[d].room)' /\ room[loc[d].room].egressId = d
    <3>1. loc[d].room \in Rooms /\ pc'[d] = "idle"
      BY <1>1, <1>5, <2>2, SeatTypes, Who
    <3>2. Listed(loc[d].room) /\ room[loc[d].room].egressId = d
      BY <1>1, <2>1, <2>2 DEF Held
    <3>3. ASSUME NEW q \in Rooms, q = loc[d].room
          PROVE  Listed(q)'
      BY <1>2, <1>7, <3>1, <3>2, <3>3, Who DEF Empty
    <3> QED
      BY <1>4, <3>1, <3>2, <3>3 DEF Listed
  <2> QED
    BY <1>4, <2>1, <2>2 DEF Held, tables
<1>13. Walk(t)' /\ EgressWalk(t)' /\ IngressWalk(t)'
  BY <1>2, <1>3, <1>4, <1>5 DEF Walk, EgressWalk, IngressWalk, tables
<1>14. \A q \in Rooms : room[q].ingress # NoIngress => Listed(q)'
  BY <1>1, <1>2, <1>7 DEF QBy, Fed
<1> QED
  BY <1>1, <1>4, <1>5, <1>9, <1>10, <1>11, <1>12, <1>13, <1>14, EgressStep
     DEF tables, QBy, Unshared

LEMMA DeleteServiceKeeps ==
    ASSUME TInv, NEW t \in Threads, One(t), DeleteService(t)
    PROVE  One(t)'
<1> DEFINE r == loc[t].room
<1>1. pc[t] = "deleteService" /\ r \in Rooms /\ QBy(t)
  BY Locals DEF DeleteService, RoomLabels, ClosingLabels, One
<1>2. /\ services' = Nil
      /\ room' = [room EXCEPT ![r] = Unlocked(t, room[r])]
      /\ UNCHANGED <<egress, ingress, rooms, ing, live, id, at, apart, faults>>
      /\ pc' = [pc EXCEPT ![t] = "idle"] /\ loc' = [loc EXCEPT ![t] = Blank]
  BY DEF DeleteService, Return, Goto
<1>3. pc'[t] = "idle" /\ \A u \in Threads : u # t => pc'[u] = pc[u]
  BY <1>2, Goes
<1>4. loc'[t] = Blank /\ \A u \in Threads : u # t => loc'[u] = loc[u]
  BY <1>2, Takes
<1>5. \A q \in Rooms : SameRoom(q)
  BY <1>1, <1>2, UnlockSame
<1>6. rooms[services] = NoRooms
  BY <1>1 DEF QBy, Walk
<1>7. \A q \in Rooms : ~Listed(q)
  <2> SUFFICES ASSUME NEW q \in Rooms, Listed(q)
               PROVE  FALSE
    OBVIOUS
  <2>1. room[q].name \in Names /\ rooms[services][room[q].name] = q
    BY <1>1, ListedRoom DEF QBy, Listed
  <2> QED
    BY <1>6, <2>1, Who DEF NoRooms
<1>8. /\ \A q \in Rooms : /\ room[q].ingress = NoIngress
                          /\ room[q].egressId = Nil /\ room[q].subs = <<>>
      /\ \A c \in EgressIds : c \notin live /\ egress[c] = Nil
  BY <1>1, <1>7, NothingListed
<1>9. \A q \in Rooms : ~Listed(q)'
  BY <1>2 DEF Listed
<1>10. Rostered' /\ Single'
  <2>1. \A s \in Services, n \in Names : rooms[s][n] = Nil
    BY <1>1, <1>6 DEF QBy, Rostered, NoRooms
  <2> QED
    BY <1>2, <1>9, <2>1 DEF Rostered, Single
<1>11. Seated'
  <2>1. \A f \in Subscribers : at[f] # Nil => at[f] \in Rooms
    BY SeatTypes
  <2> QED
    BY <1>1, <1>2, <1>5, <2>1, SeatsStay DEF QBy, SameRoom, SameSeats
<1>12. (\A q \in Rooms : Served(t, q)') /\ (\A c \in EgressIds : Held(t, c)')
  BY <1>2, <1>5, <1>8 DEF Served, Held, SameRoom, SameSeats
<1>13. Walk(t)' /\ EgressWalk(t)' /\ IngressWalk(t)'
  BY <1>3, IdleWalk
<1>14. \A u \in Threads : loc'[u].array = "none"
  BY <1>1, <1>4, BlankArray DEF QBy, Unshared
<1>15. \A q \in Rooms : /\ room'[q].ingress = room[q].ingress
                        /\ room[q].ingress # NoIngress => Listed(q)'
  BY <1>5, <1>8 DEF SameRoom
<1> QED
  BY <1>1, <1>2, <1>3, <1>10, <1>11, <1>12, <1>13, <1>14, <1>15, EgressStep

LEMMA JoinIngressKeeps ==
    ASSUME TInv, NEW e \in Publishers, One(e), JoinIngress(e)
    PROVE  One(e)'
<1>1. ASSUME NEW i \in Ingresses, NEW x \in IngressIds, ~UsedIngress(i),
             ing' = [ing EXCEPT ![i] = NewIngress(x, loc[e].room)],
             loc' = [loc EXCEPT ![e].ing = i, ![e].id = x], Goto(e, "addIngress")
      PROVE  One(e)'
  BY <1>1, JoinIngressMakes
<1>2. CASE Return(e) /\ UNCHANGED ing
  BY <1>2, JoinIngressFails
<1> QED
  BY <1>1, <1>2 DEF JoinIngress

LEMMA LeaveEgressKeeps ==
    ASSUME TInv, NEW t \in Threads, One(t), LeaveEgress(t)
    PROVE  One(t)'
BY LeaveEgressRefused, LeaveEgressCloses

----------------------------------------------------------------------------
(* From one call to the next.                                              *)

LEMMA ActsAlone ==
    ASSUME QuietInv, quiet, NEW t \in Threads, pc[t] # "idle"
    PROVE  One(t)
BY DEF QuietInv, Solo, QInv, One, Alone

LEMMA BeginsOne ==
    ASSUME QuietInv, quiet, NEW t \in Threads, NEW label, Begin(t, label), apart'
    PROVE  One(t)
BY BeginsAlone DEF QuietInv, QInv, One, Alone

\* Whoever is idle could be the next one to call.
LEMMA BackInQuiet ==
    ASSUME NEW t \in Threads, One(t)'
    PROVE  (Solo /\ QInv)'
<1>1. Alone(t)' /\ QBy(t)'
  BY DEF One
<1>2. Solo'
  BY <1>1 DEF Solo, Alone
<1>3. ASSUME NEW u \in Threads, Alone(u)', u # t
      PROVE  QBy(u)'
  <2>1. pc'[t] = "idle" /\ pc'[u] = "idle"
    BY <1>1, <1>3 DEF Alone
  <2>2. Walk(u)' /\ EgressWalk(u)' /\ IngressWalk(u)'
    BY <2>1, IdleWalk
  <2>3. \A r \in Rooms : Served(u, r)'
    BY <1>1, <2>1 DEF QBy, Served, Attends
  <2>4. \A c \in EgressIds : Held(u, c)'
    BY <1>1, <2>1 DEF QBy, Held
  <2>5. Fed(u)'
    BY <1>1, <2>1 DEF QBy, Fed, Feeds
  <2> QED
    BY <1>1, <2>2, <2>3, <2>4, <2>5 DEF QBy
<1> QED
  BY <1>1, <1>2, <1>3 DEF QInv

\* What has overlapped or failed is not forgotten.
LEMMA QuietBefore ==
    ASSUME TInv, Next, quiet'
    PROVE  quiet
<1>1. faults \in Nat /\ faults' = 0 /\ apart'
  BY TypeParts DEF TInv, HistoryTypes, quiet
<1>2. ASSUME NEW e \in Elements, ConnectSteps(e)
      PROVE  quiet
  BY <1>1, <1>2 DEF ConnectSteps, Connect, AddService, GetRoom, AddRoom, Begin, quiet
<1>3. ASSUME NEW e \in Subscribers, SubscriberSteps(e)
      PROVE  quiet
  BY <1>1, <1>3 DEF SubscriberSteps, TestEgress, MakeRoomConnection, JoinWithToken, SetEgressId,
     AddEgress, Answer, Subscribe, AddSubscriber, Unsubscribe, Begin, quiet
<1>4. ASSUME NEW e \in Publishers, PublisherSteps(e)
      PROVE  quiet
  <2>1. CASE LeaveIngress(e)
    BY <1>1, <2>1 DEF LeaveIngress, Removal, Fault, quiet
  <2>2. CASE ~LeaveIngress(e)
    BY <1>1, <1>4, <2>2 DEF PublisherSteps, GetIngressByParticipant, JoinIngress, AddIngress,
       TestPublish, CreatePublisher, Unpublish, DeleteIngress, TestRoom, HangUp, Begin, quiet
  <2> QED
    BY <2>1, <2>2
<1>5. ASSUME NEW t \in Threads, LeaveSteps(t)
      PROVE  quiet
  <2>1. CASE RemoveEgress(t)
    BY <1>1, <2>1 DEF RemoveEgress, Removal, Fault, quiet
  <2>2. CASE ~RemoveEgress(t)
    BY <1>1, <1>5, <2>2 DEF LeaveSteps, GetEgress, LeaveEgress, Disconnect, DeleteRoom,
       TestService, DeleteService, quiet
  <2> QED
    BY <2>1, <2>2
<1>6. ASSUME NEW c \in EgressIds, Drop(c) \/ LkDisconnected(c) \/ Shed(c) \/ Evict(c)
      PROVE  quiet
  <2>1. CASE Drop(c)
    BY <1>1, <2>1 DEF Drop, Fault, quiet
  <2>2. CASE LkDisconnected(c)
    BY <1>1, <2>2 DEF LkDisconnected, quiet
  <2>3. CASE Shed(c)
    BY <1>1, <2>3 DEF Shed, quiet
  <2>4. CASE Evict(c)
    BY <1>1, <2>4 DEF Evict, quiet
  <2> QED
    BY <1>6, <2>1, <2>2, <2>3, <2>4
<1> QED
  BY <1>2, <1>3, <1>4, <1>5, <1>6 DEF Next

\* Each step is one of the call that is alone, or begins it.
LEMMA ConnectsInQuiet ==
    ASSUME TInv, QuietInv, quiet, quiet', NEW e \in Elements, ConnectSteps(e)
    PROVE  One(e) /\ One(e)'
<1>1. One(e)
  BY Who, ActsAlone, BeginsOne DEF quiet, ConnectSteps, Connect, AddService, GetRoom, AddRoom
<1>2. One(e)'
  BY <1>1, ConnectKeeps, AddServiceKeeps, GetRoomKeeps, AddRoomKeeps DEF ConnectSteps
<1> QED
  BY <1>1, <1>2

LEMMA SubscribersInQuiet ==
    ASSUME TInv, QuietInv, quiet, quiet', NEW e \in Subscribers, SubscriberSteps(e)
    PROVE  One(e) /\ One(e)'
<1>1. One(e)
  BY Who, ActsAlone, BeginsOne
     DEF quiet, SubscriberSteps, TestEgress, MakeRoomConnection, JoinWithToken, SetEgressId,
         AddEgress, Answer, Subscribe, AddSubscriber, Unsubscribe
<1>2. One(e)'
  BY <1>1, TestEgressKeeps, MakeRoomConnectionKeeps, JoinWithTokenKeeps,
     SetEgressIdKeeps, AddEgressKeeps, AnswerKeeps, SubscribeKeeps, AddSubscriberKeeps,
     UnsubscribeKeeps
     DEF SubscriberSteps
<1> QED
  BY <1>1, <1>2

LEMMA PublishersInQuiet ==
    ASSUME TInv, QuietInv, quiet, quiet', NEW e \in Publishers, PublisherSteps(e)
    PROVE  One(e) /\ One(e)'
<1>1. One(e)
  BY Who, ActsAlone, BeginsOne
     DEF quiet, PublisherSteps, GetIngressByParticipant, JoinIngress, AddIngress, TestPublish,
         CreatePublisher, Unpublish, LeaveIngress, DeleteIngress, TestRoom, HangUp
<1>2. One(e)'
  <2>1. faults' = 0
    BY DEF quiet
  <2> QED
    BY <1>1, <2>1, GetIngressKeeps, JoinIngressKeeps, AddIngressKeeps, TestPublishKeeps,
       CreatePublisherKeeps, UnpublishKeeps, LeaveIngressKeeps, DeleteIngressKeeps,
       TestRoomKeeps, HangUpKeeps
       DEF PublisherSteps
<1> QED
  BY <1>1, <1>2

LEMMA LeaversInQuiet ==
    ASSUME TInv, QuietInv, quiet, quiet', NEW t \in Threads, LeaveSteps(t)
    PROVE  One(t) /\ \E u \in Threads : One(u)'
<1>1. One(t)
  BY ActsAlone
     DEF LeaveSteps, GetEgress, LeaveEgress, Disconnect, RemoveEgress, DeleteRoom,
         TestService, DeleteService
<1>2. CASE RemoveEgress(t)
  BY <1>1, <1>2, RemoveEgressGoesOn DEF quiet
<1>3. CASE ~RemoveEgress(t)
  BY <1>1, <1>3, GetEgressKeeps, LeaveEgressKeeps, DisconnectKeeps, DeleteRoomKeeps,
     TestServiceKeeps, DeleteServiceKeeps
     DEF LeaveSteps
<1> QED
  BY <1>1, <1>2, <1>3

LEMMA CallbacksInQuiet ==
    ASSUME TInv, QuietInv, quiet, quiet', NEW c \in EgressIds,
           Drop(c) \/ LkDisconnected(c) \/ Shed(c) \/ Evict(c)
    PROVE  (LkDisconnected(c) \/ Shed(c)) /\ One(c)'
<1>1. ~Drop(c)
  BY TypeParts DEF TInv, HistoryTypes, quiet, Drop, Fault
<1>2. One(c)
  BY <1>1, Who, ActsAlone DEF LkDisconnected, Shed, Evict
<1>3. ~Evict(c)
  BY <1>2, NoEvict
<1> QED
  BY <1>1, <1>2, <1>3, LkDisconnectedKeeps, ShedKeeps

LEMMA StepInQuiet ==
    ASSUME TInv, QuietInv, Next, quiet, quiet'
    PROVE  \E t \in Threads : One(t)'
BY Who, ConnectsInQuiet, SubscribersInQuiet, PublishersInQuiet, LeaversInQuiet,
   CallbacksInQuiet
   DEF Next

LEMMA StillInQuiet ==
    ASSUME UNCHANGED vars
    PROVE  QuietInv' = QuietInv
<1>1. /\ Rostered' = Rostered /\ Single' = Single /\ Unshared' = Unshared
      /\ Seated' = Seated /\ Slotted' = Slotted
  BY DEF vars, tables, Rostered, Single, Listed, Unshared, Seated, Slotted
<1>2. \A t \in Threads : /\ Walk(t)' = Walk(t) /\ EgressWalk(t)' = EgressWalk(t)
                         /\ IngressWalk(t)' = IngressWalk(t)
  BY DEF vars, tables, Walk, EgressWalk, IngressWalk, Found, Listed, Empty
<1>3. \A t \in Threads : /\ \A r \in Rooms : Served(t, r)' = Served(t, r)
                         /\ \A c \in EgressIds : Held(t, c)' = Held(t, c)
  BY DEF vars, tables, Served, Held, Attends, Listed
<1>4. \A t \in Threads : Fed(t)' = Fed(t)
  BY DEF vars, tables, Fed, Feeds, Busy, Listed
<1>5. \A t \in Threads : QBy(t)' = QBy(t) /\ Alone(t)' = Alone(t)
  BY <1>1, <1>2, <1>3, <1>4 DEF QBy, Alone, vars
<1> QED
  BY <1>5 DEF QuietInv, Solo, QInv, quiet, vars

LEMMA NextQuiet ==
    ASSUME TInv, QuietInv, [Next]_vars
    PROVE  QuietInv'
<1>1. CASE UNCHANGED vars
  BY <1>1, StillInQuiet
<1>2. CASE Next
  <2> SUFFICES ASSUME quiet'
               PROVE  (Solo /\ QInv)'
    BY DEF QuietInv
  <2>1. quiet
    BY <1>2, QuietBefore
  <2>2. PICK t \in Threads : One(t)'
    BY <1>2, <2>1, StepInQuiet
  <2> QED
    BY <2>2, BackInQuiet
<1> QED
  BY <1>1, <1>2

LEMMA InitQuiet ==
    ASSUME Init
    PROVE  QuietInv
<1>1. ASSUME NEW t \in Threads
      PROVE  QBy(t)
  <2>1. /\ \A r \in Rooms : /\ room[r].name = Nil /\ room[r].subs = <<>>
                            /\ room[r].egressId = Nil /\ room[r].ingress = NoIngress
        /\ pc[t] = "idle"
    BY DEF Init, NewRoom
  <2>2. \A i \in Ingresses : ing[i].main = Nil /\ ing[i].screen = Nil
    BY DEF Init, NewIngress
  <2>3. Rostered /\ Single /\ Unshared /\ Slotted
    BY <2>1, <2>2, Who, BlankArray
       DEF Init, Rostered, Single, Listed, Unshared, Slotted, NoRooms
  <2>4. Seated
    <3>1. \A r \in Rooms : Range(room[r].subs) = {} /\ DOMAIN room[r].subs = {}
      BY <2>1 DEF Range
    <3> QED
      BY <3>1, Who DEF Init, Seated
  <2>5. Walk(t) /\ EgressWalk(t) /\ IngressWalk(t)
    BY <2>1 DEF Walk, EgressWalk, IngressWalk
  <2>6. (\A r \in Rooms : Served(t, r)) /\ (\A c \in EgressIds : Held(t, c))
    BY <2>1 DEF Init, Served, Held
  <2>7. Fed(t)
    BY <2>1 DEF Init, Fed, NoIngress
  <2> QED
    BY <2>3, <2>4, <2>5, <2>6, <2>7 DEF QBy
<1> QED
  BY <1>1 DEF Init, QuietInv, Solo, QInv

\* While calls do not overlap, and LiveKit does what it is asked, the tables
\* of root and of the service, the objects, and what each element knows agree
\* but for what the call under way has begun and not yet finished.
THEOREM TablesAgreeInQuiet == Spec => []QuietInv
<1>1. Init => QuietInv
  BY InitQuiet
<1>2. TInv /\ QuietInv /\ [Next]_vars => QuietInv'
  BY NextQuiet
<1> QED
  BY <1>1, <1>2, TypesThroughout, PTL DEF Spec

----------------------------------------------------------------------------
(* What a run checks of it.                                                *)

LEMMA SomebodyIsOne ==
    ASSUME QuietInv, quiet, NEW u \in Threads
    PROVE  \E t \in Threads : One(t)
<1>1. CASE pc[u] = "idle" /\ \A t \in Threads : pc[t] = "idle"
  <2>1. Alone(u)
    BY <1>1 DEF Alone
  <2> QED
    BY <2>1 DEF QuietInv, QInv, One
<1>2. ASSUME NEW t \in Threads, pc[t] # "idle"
      PROVE  \E v \in Threads : One(v)
  BY <1>2, ActsAlone
<1> QED
  BY <1>1, <1>2

LEMMA QuietConnections ==
    ASSUME TInv, QuietInv
    PROVE  OneConnectionInQuiet
<1> SUFFICES ASSUME quiet, NEW c \in live, NEW d \in live, NameOf(c) = NameOf(d)
             PROVE  c = d
  BY DEF OneConnectionInQuiet, OneConnection
<1>1. /\ c \in EgressIds /\ d \in EgressIds /\ c \in Threads
      /\ loc[c].room \in Rooms /\ loc[d].room \in Rooms
  BY SeatTypes
<1>2. PICK t \in Threads : One(t)
  BY <1>1, SomebodyIsOne
<1>3. /\ room[loc[c].room].conn = c /\ Listed(loc[c].room)
      /\ room[loc[d].room].conn = d /\ Listed(loc[d].room)
  BY <1>1, <1>2 DEF One, QBy, Held
<1> QED
  BY <1>3 DEF Listed, NameOf

LEMMA QuietSubscribers ==
    ASSUME TInv, QuietInv
    PROVE  StaysConnected
<1> SUFFICES ASSUME quiet, NEW e \in Subscribers, at[e] # Nil
             PROVE  Connected(e)
  BY DEF StaysConnected
<1> DEFINE r == at[e]
<1>1. r \in Rooms /\ id[e] \in EgressIds /\ e \in Threads
  BY SeatTypes, Who
<1>2. PICK t \in Threads : One(t)
  BY <1>1, SomebodyIsOne
<1>3. /\ e \in Range(room[r].subs) /\ room[r].egressId = id[e] /\ room[r].name = RoomName[e]
  BY <1>1, <1>2 DEF One, QBy, Seated
<1>4. room[r].egressId # Nil /\ room[r].subs # <<>>
  BY <1>1, <1>3, Who DEF Range
<1>5. /\ id[e] \in live /\ Listed(r)
      /\ egress[id[e]] = r \/ (pc[t] = "register" /\ loc[t].room = r)
  BY <1>1, <1>2, <1>3, <1>4, OfRoom DEF One
<1>6. ~(pc[t] = "register" /\ loc[t].room = r)
  BY <1>2, <1>4 DEF One, QBy, EgressWalk
<1> QED
  BY <1>3, <1>5, <1>6 DEF Connected, Listed

\* Without anybody to act, nothing ever happens.
NobodyActs == Threads = {} => ingress = NoIngress

LEMMA NobodyActsEver == Spec => []NobodyActs
<1>1. Init => NobodyActs
  BY DEF Init, NobodyActs
<1>2. NobodyActs /\ [Next]_vars => NobodyActs'
  BY Who DEF NobodyActs, Next, vars, tables
<1> QED
  BY <1>1, <1>2, PTL DEF Spec

LEMMA QuietEnd ==
    ASSUME TInv, QuietInv, NobodyActs
    PROVE  NothingLeft
<1> SUFFICES ASSUME quiet, \A t \in Threads : pc[t] = "idle", \A e \in Elements : at[e] = Nil
             PROVE  live = {} /\ egress = [c \in EgressIds |-> Nil] /\ ingress = NoIngress
  BY DEF NothingLeft
<1>1. /\ live \subseteq EgressIds /\ egress \in [EgressIds -> Maybe(Rooms)]
      /\ ingress \in [IngressIds -> Maybe(Ingresses)]
  BY TypeParts DEF TInv, TableTypes, ObjectTypes
<1>2. CASE Threads = {}
  <2>1. EgressIds = {}
    BY <1>2, Who
  <2> QED
    BY <1>1, <1>2, <2>1 DEF NobodyActs
<1>3. CASE Threads # {}
  <2>1. PICK t \in Threads : One(t)
    BY <1>3, SomebodyIsOne
  <2>2. \A r \in Rooms : room[r].subs = <<>>
    <3> SUFFICES ASSUME NEW r \in Rooms, room[r].subs # <<>>
                 PROVE  FALSE
      OBVIOUS
    <3>1. room[r].subs \in Seq(Subscribers)
      BY SeatTypes
    <3>2. Len(room[r].subs) \in Nat /\ Len(room[r].subs) # 0
      BY <3>1, LenProperties, EmptySeq
    <3>3. 1 \in DOMAIN room[r].subs /\ room[r].subs[1] \in Subscribers
      BY <3>1, <3>2, LenProperties, ElementOfSeq
    <3>4. at[room[r].subs[1]] = r
      BY <2>1, <3>3 DEF One, QBy, Seated, Range
    <3> QED
      BY <3>3, <3>4, Who
  <2>3. \A r \in Rooms : room[r].egressId = Nil
    BY <2>1, <2>2, OfRoom DEF One, Attends
  <2>4. \A c \in EgressIds : c \notin live /\ egress[c] = Nil
    <3> SUFFICES ASSUME NEW c \in EgressIds
                 PROVE  c \notin live /\ egress[c] = Nil
      OBVIOUS
    <3>1. Held(t, c) /\ egress[c] \in Maybe(Rooms) /\ (c \in live => loc[c].room \in Rooms)
      BY <2>1, SeatTypes DEF One, QBy
    <3> QED
      BY <2>3, <3>1, Who DEF Held, Maybe
  <2>5. \A x \in IngressIds : ingress[x] = Nil
    <3> SUFFICES ASSUME NEW x \in IngressIds, ingress[x] # Nil
                 PROVE  FALSE
      OBVIOUS
    <3>1. ingress[x] \in Ingresses /\ Busy(ingress[x])
      BY <2>1, IngressTypes DEF One, QBy, Fed, Feeds
    <3>2. /\ ing[ingress[x]].main \in Maybe(Publishers)
          /\ ing[ingress[x]].screen \in Maybe(Publishers)
      BY <3>1, IngressTypes
    <3> QED
      BY <2>1, <3>1, <3>2, Who DEF One, QBy, Slotted, Busy, Maybe
  <2> QED
    BY <1>1, <2>4, <2>5 DEF NoIngress
<1> QED
  BY <1>2, <1>3

\* connectToRoomImpl joins a room only while it has no egress id
\* (ov3endpoint.go:87), so that two open connections are of two rooms.
THEOREM OneConnectionWhileQuiet == Spec => []OneConnectionInQuiet
<1>1. TInv /\ QuietInv => OneConnectionInQuiet
  BY QuietConnections
<1> QED
  BY <1>1, TypesThroughout, TablesAgreeInQuiet, PTL

\* Whoever else leaves, subscribes or publishes: the room, its egress id and its
\* place in the tables stay as long as a subscriber has its subscription.
THEOREM ConnectedWhileQuiet == Spec => []StaysConnected
<1>1. TInv /\ QuietInv => StaysConnected
  BY QuietSubscribers
<1> QED
  BY <1>1, TypesThroughout, TablesAgreeInQuiet, PTL

\* The last subscriber of a room closes its connection, and the last publisher
\* of an ingress deletes it (disconnectFromRoomEgressImpl and
\* disconnectFromRoomIngressImpl), so that no table keeps what nobody uses.
THEOREM NothingLeftAtTheEnd == Spec => []NothingLeft
<1>1. TInv /\ QuietInv /\ NobodyActs => NothingLeft
  BY QuietEnd
<1> QED
  BY <1>1, TypesThroughout, TablesAgreeInQuiet, NobodyActsEver, PTL

----------------------------------------------------------------------------
(* Where publishers end up.                                                *)

\* A participant id is used in one room, and no generated id is a given one.
ParticipantsApart ==
    /\ \A e, f \in Publishers : Participant[e] = Participant[f] /\ Participant[e] # Nil
                                   => RoomName[e] = RoomName[f]
    /\ GivenIds \cap FreshIds = {}

InRoomOf(i, e) == ing[i].room # Nil /\ room[ing[i].room].name = RoomName[e]

\* A publisher has an ingress of its room and participant,
Sits(e) == at[e] # Nil => InRoomOf(at[e], e) /\ Participant[e] \in {Nil, ing[at[e]].id}

\* the cache of root has ingresses of the room that the id is used in,
Caches(x) == \A e \in Publishers :
                ingress[x] # Nil /\ Participant[e] = x => InRoomOf(ingress[x], e)

\* and who is about to publish looks up such an id.
Aims(e) == /\ pc[e] = "addIngress" => IF Participant[e] = Nil THEN loc[e].id \in FreshIds
                                                            ELSE loc[e].id = Participant[e]
           /\ pc[e] \in {"publish", "create"} =>
                 /\ Participant[e] \in {Nil, id[e]}
                 /\ ingress[id[e]] # Nil => InRoomOf(ingress[id[e]], e)

Placed == /\ \A e \in Publishers : Sits(e) /\ Aims(e)
          /\ \A x \in IngressIds : Caches(x)

PlacedInQuiet == quiet => Placed

\* The ingresses that are used, and their rooms, keep what they are called.
Settled == \A i \in Ingresses : UsedIngress(i) =>
              /\ ing'[i].room = ing[i].room /\ ing'[i].id = ing[i].id
              /\ ing[i].room \in Rooms => room'[ing[i].room].name = room[ing[i].room].name

SameAim(e) == /\ pc'[e] = "addIngress" => pc[e] = "addIngress" /\ loc'[e].id = loc[e].id
              /\ pc'[e] \in {"publish", "create"} =>
                    pc[e] \in {"publish", "create"} /\ id'[e] = id[e]

LEMMA RoomOfStays ==
    ASSUME TInv, Settled, NEW i \in Ingresses, UsedIngress(i), NEW e, InRoomOf(i, e)
    PROVE  InRoomOf(i, e)'
<1>1. ing[i].room \in Rooms
  BY IngressTypes DEF InRoomOf, Maybe
<1> QED
  BY <1>1 DEF InRoomOf, Settled

LEMMA SitsStill ==
    ASSUME TInv, Settled, NEW e \in Publishers, Sits(e), at'[e] = at[e] \/ at'[e] = Nil
    PROVE  Sits(e)'
<1> SUFFICES ASSUME at'[e] = at[e], at[e] # Nil
             PROVE  Sits(e)'
  BY DEF Sits
<1> DEFINE i == at[e]
<1>1. i \in Ingresses /\ UsedIngress(i)
  BY IngressTypes DEF UsedIngress
<1>2. InRoomOf(i, e) /\ Participant[e] \in {Nil, ing[i].id} /\ ing'[i].id = ing[i].id
  BY <1>1 DEF Sits, Settled
<1>3. ASSUME NEW j \in Ingresses, j = at[e]
      PROVE  InRoomOf(j, e)'
  BY <1>1, <1>2, <1>3, RoomOfStays
<1> QED
  BY <1>1, <1>2, <1>3 DEF Sits, InRoomOf

LEMMA CachedStays ==
    ASSUME TInv, Settled, NEW x \in IngressIds, ingress'[x] = ingress[x], ingress[x] # Nil,
           NEW e, InRoomOf(ingress[x], e)
    PROVE  InRoomOf(ingress[x], e)'
<1>1. ingress[x] \in Ingresses /\ UsedIngress(ingress[x])
  BY IngressTypes DEF UsedIngress, InTable
<1>2. ASSUME NEW j \in Ingresses, j = ingress[x]
      PROVE  InRoomOf(j, e)'
  BY <1>1, <1>2, RoomOfStays
<1> QED
  BY <1>1, <1>2 DEF InRoomOf

LEMMA CachesStill ==
    ASSUME TInv, Settled, NEW x \in IngressIds, Caches(x),
           ingress'[x] = ingress[x] \/ ingress'[x] = Nil
    PROVE  Caches(x)'
BY CachedStays DEF Caches

LEMMA AimStill ==
    ASSUME TInv, Settled, NEW e \in Publishers, Aims(e), SameAim(e),
           \A x \in IngressIds : ingress'[x] = ingress[x] \/ ingress'[x] = Nil
    PROVE  Aims(e)'
<1>1. pc'[e] = "addIngress" => IF Participant[e] = Nil THEN loc'[e].id \in FreshIds
                                                       ELSE loc'[e].id = Participant[e]
  BY DEF Aims, SameAim
<1>2. ASSUME pc'[e] \in {"publish", "create"}
      PROVE  /\ Participant[e] \in {Nil, id'[e]}
             /\ ingress'[id'[e]] # Nil => InRoomOf(ingress[id[e]], e)'
  <2>1. /\ id'[e] = id[e] /\ id[e] \in IngressIds /\ Participant[e] \in {Nil, id[e]}
        /\ ingress[id[e]] # Nil => InRoomOf(ingress[id[e]], e)
    BY <1>2, Who DEF Aims, SameAim, TInv, Points, Point
  <2>2. ASSUME NEW x \in IngressIds, x = id[e], ingress'[x] # Nil
        PROVE  ingress'[x] = ingress[x] /\ InRoomOf(ingress[x], e)'
    BY <2>1, <2>2, CachedStays
  <2> QED
    BY <2>1, <2>2 DEF InRoomOf
<1> QED
  BY <1>1, <1>2 DEF Aims

LEMMA PlacedStill ==
    ASSUME TInv, Placed, Settled, \A e \in Publishers : at'[e] = at[e] \/ at'[e] = Nil,
           \A x \in IngressIds : ingress'[x] = ingress[x] \/ ingress'[x] = Nil,
           \A e \in Publishers : SameAim(e) \/ Aims(e)'
    PROVE  Placed'
<1>1. \A e \in Publishers : Sits(e)' /\ Aims(e)'
  BY SitsStill, AimStill DEF Placed
<1>2. \A x \in IngressIds : Caches(x)'
  BY CachesStill DEF Placed
<1> QED
  BY <1>1, <1>2 DEF Placed

\* A step that names no room.
LEMMA NamesStay ==
    ASSUME TInv, NEW r, NEW o, room' = [room EXCEPT ![r] = o],
           r \in Rooms => o.name = room[r].name
    PROVE  \A q \in Rooms : room'[q].name = room[q].name
BY TypeParts DEF TInv, ObjectTypes

LEMMA NameKept ==
    ASSUME NEW o \in RoomType
    PROVE  \A x, y : /\ [o EXCEPT !.egressId = x].name = o.name
                     /\ [o EXCEPT !.conn = x].name = o.name
                     /\ [o EXCEPT !.subs = x].name = o.name
                     /\ [o EXCEPT !.ingress = x].name = o.name
                     /\ [o EXCEPT !.lock = x].name = o.name
                     /\ [o EXCEPT !.lock = x, !.egressId = y].name = o.name
BY DEF RoomType

LEMMA SettledByNames ==
    ASSUME \A q \in Rooms : room'[q].name = room[q].name,
           \A i \in Ingresses : ing'[i].room = ing[i].room /\ ing'[i].id = ing[i].id
    PROVE  Settled
BY DEF Settled

LEMMA RoomNamesStay ==
    ASSUME TInv, NEW t,
           \/ t \in Subscribers /\ SubscriberSteps(t)
           \/ LeaveSteps(t)
           \/ t \in Publishers /\ (AddIngress(t) \/ DeleteIngress(t))
    PROVE  \A q \in Rooms : room'[q].name = room[q].name
<1> DEFINE r == loc[t].room
<1>1. \A q \in Rooms : room[q] \in RoomType
  BY SeatTypes
<1>2. CASE UNCHANGED room
  BY <1>2
<1>3. CASE MakeRoomConnection(t)
  <2>1. PICK c \in EgressIds : room' = [room EXCEPT ![r].conn = c]
    BY <1>3 DEF MakeRoomConnection
  <2>2. room' = [room EXCEPT ![r] = [room[r] EXCEPT !.conn = c]]
    BY <2>1
  <2>3. r \in Rooms => [room[r] EXCEPT !.conn = c].name = room[r].name
    BY <1>1, NameKept
  <2> QED
    BY <2>2, <2>3, NamesStay
<1>4. CASE SetEgressId(t)
  <2>1. room' = [room EXCEPT ![r] = [room[r] EXCEPT !.egressId = loc[t].id]]
    BY <1>4 DEF SetEgressId
  <2>2. r \in Rooms => [room[r] EXCEPT !.egressId = loc[t].id].name = room[r].name
    BY <1>1, NameKept
  <2> QED
    BY <2>1, <2>2, NamesStay
<1>5. CASE AddSubscriber(t)
  <2> DEFINE n == Append(room[r].subs, t)
  <2>1. room' = [room EXCEPT ![r] = [room[r] EXCEPT !.subs = n]]
    BY <1>5 DEF AddSubscriber
  <2> HIDE DEF n
  <2>2. r \in Rooms => [room[r] EXCEPT !.subs = n].name = room[r].name
    BY <1>1, NameKept
  <2> QED
    BY <2>1, <2>2, NamesStay
<1>6. CASE Unsubscribe(t)
  <2>1. PICK k \in DOMAIN room[at[t]].subs :
           room' = [room EXCEPT ![at[t]].subs = RemoveAt(room[at[t]].subs, k)]
    BY <1>6 DEF Unsubscribe
  <2> DEFINE q == at[t]
             n == RemoveAt(room[q].subs, k)
  <2>2. room' = [room EXCEPT ![q] = [room[q] EXCEPT !.subs = n]]
    BY <2>1
  <2> HIDE DEF n
  <2>3. q \in Rooms => [room[q] EXCEPT !.subs = n].name = room[q].name
    BY <1>1, NameKept
  <2> HIDE DEF q
  <2> QED
    BY <2>2, <2>3, NamesStay
<1>7. CASE room' = [room EXCEPT ![r].lock = t, ![r].egressId = Nil]
  <2> DEFINE o == [room[r] EXCEPT !.lock = t, !.egressId = Nil]
  <2>1. \A q \in Rooms : room'[q] = IF q = r THEN o ELSE room[q]
    <3>1. room \in [Rooms -> RoomType]
      BY TypeParts DEF TInv, ObjectTypes
    <3> QED
      BY <1>7, <3>1
  <2>2. r \in Rooms => o.name = room[r].name
    BY <1>1, NameKept
  <2> QED
    BY <2>1, <2>2
<1>8. CASE room' = [room EXCEPT ![r] = Unlocked(t, room[r])]
  <2>1. r \in Rooms => Unlocked(t, room[r]).name = room[r].name
    BY <1>1, NameKept DEF Unlocked
  <2> QED
    BY <1>8, <2>1, NamesStay
<1>9. CASE AddIngress(t) \/ DeleteIngress(t)
  <2>1. PICK i : room' = [room EXCEPT ![r].ingress[loc[t].id] = i]
    BY <1>9 DEF AddIngress, DeleteIngress
  <2> DEFINE f == [room[r].ingress EXCEPT ![loc[t].id] = i]
  <2>2. room' = [room EXCEPT ![r] = [room[r] EXCEPT !.ingress = f]]
    BY <2>1
  <2> HIDE DEF f
  <2>3. r \in Rooms => [room[r] EXCEPT !.ingress = f].name = room[r].name
    BY <1>1, NameKept
  <2> QED
    BY <2>2, <2>3, NamesStay
<1>10. CASE TestEgress(t) \/ JoinWithToken(t) \/ AddEgress(t) \/ Answer(t) \/ Subscribe(t)
            \/ GetEgress(t) \/ Disconnect(t) \/ DeleteRoom(t)
  <2>1. UNCHANGED room
    BY <1>10 DEF TestEgress, JoinWithToken, AddEgress, Answer, Subscribe, GetEgress,
       Disconnect, DeleteRoom
  <2> QED
    BY <1>2, <2>1
<1>11. CASE LeaveEgress(t)
  BY <1>2, <1>7, <1>11 DEF LeaveEgress
<1>12. CASE RemoveEgress(t) \/ TestService(t) \/ DeleteService(t)
  BY <1>2, <1>8, <1>12 DEF RemoveEgress, TestService, DeleteService
<1> QED
  BY <1>3, <1>4, <1>5, <1>6, <1>9, <1>10, <1>11, <1>12 DEF SubscriberSteps, LeaveSteps

\* Who has not come to publish yet, or does not.
LEMMA Elsewhere ==
    ASSUME NEW t \in Threads, One(t)', pc'[t] \notin {"addIngress", "publish", "create"}
    PROVE  \A e \in Publishers : SameAim(e)
BY Who DEF One, Alone, SameAim

LEMMA ConnectPlaces ==
    ASSUME TInv, Placed, NEW e \in Elements, ConnectSteps(e), One(e)'
    PROVE  Placed'
<1>1. \A f \in Publishers : SameAim(f)
  <2>1. /\ pc' = [pc EXCEPT ![e] = "newService"] \/ pc' = [pc EXCEPT ![e] = "findRoom"]
           \/ pc' = [pc EXCEPT ![e] = "newRoom"] \/ pc' = [pc EXCEPT ![e] = "egress"]
           \/ pc' = [pc EXCEPT ![e] = "ingress"]
    BY DEF ConnectSteps, Connect, AddService, GetRoom, AddRoom, Begin, Goto, Purpose
  <2>2. pc'[e] \in {"newService", "findRoom", "newRoom", "egress", "ingress"}
    BY <2>1, Goes, Who
  <2> QED
    BY <2>2, Elsewhere, Who
<1>2. UNCHANGED <<ing, at, ingress>>
  BY DEF ConnectSteps, Connect, AddService, GetRoom, AddRoom, tables
<1>3. Settled
  <2>1. CASE AddRoom(e)
    <3>1. PICK r \in Rooms : ~UsedRoom(r) /\ room' = [room EXCEPT ![r] = NewRoom(RoomName[e], loc[e].svc)]
      BY <2>1 DEF AddRoom
    <3>2. \A q \in Rooms : q # r => room'[q] = room[q]
      BY <3>1, TypeParts DEF TInv, ObjectTypes
    <3>3. \A i \in Ingresses : UsedIngress(i) => ing[i].room # r
      BY <3>1 DEF UsedRoom
    <3> QED
      BY <1>2, <3>2, <3>3 DEF Settled
  <2>2. CASE ~AddRoom(e)
    <3>1. UNCHANGED room
      BY <2>2 DEF ConnectSteps, Connect, AddService, GetRoom
    <3> QED
      BY <1>2, <3>1, SettledByNames
  <2> QED
    BY <2>1, <2>2
<1> QED
  BY <1>1, <1>2, <1>3, PlacedStill

LEMMA SubscribersPlace ==
    ASSUME TInv, Placed, NEW e \in Subscribers, SubscriberSteps(e), One(e)'
    PROVE  Placed'
<1>1. \A f \in Publishers : SameAim(f)
  BY Who DEF One, Alone, SameAim
<1>2. UNCHANGED <<ing, ingress>>
  BY DEF SubscriberSteps, TestEgress, MakeRoomConnection, JoinWithToken, SetEgressId,
     AddEgress, Answer, Subscribe, AddSubscriber, Unsubscribe, tables
<1>3. \A f \in Publishers : at'[f] = at[f]
  <2>1. \/ at' = at \/ at' = [at EXCEPT ![e] = loc[e].room] \/ at' = [at EXCEPT ![e] = Nil]
    BY DEF SubscriberSteps, TestEgress, MakeRoomConnection, JoinWithToken, SetEgressId,
       AddEgress, Answer, Subscribe, AddSubscriber, Unsubscribe
  <2> QED
    BY <2>1, Who, TypeParts DEF TInv, ElementTypes
<1>4. Settled
  BY <1>2, RoomNamesStay, SettledByNames
<1> QED
  BY <1>1, <1>2, <1>3, <1>4, PlacedStill

LEMMA LeaversPlace ==
    ASSUME TInv, Placed, NEW t \in Threads, LeaveSteps(t), NEW u \in Threads, One(u)',
           pc'[u] \notin {"addIngress", "publish", "create"}
    PROVE  Placed'
<1>1. \A f \in Publishers : SameAim(f)
  BY Elsewhere
<1>2. UNCHANGED <<ing, at, ingress>>
  BY DEF LeaveSteps, GetEgress, LeaveEgress, Disconnect, RemoveEgress, DeleteRoom,
     TestService, DeleteService, tables
<1>3. Settled
  BY <1>2, RoomNamesStay, SettledByNames
<1> QED
  BY <1>1, <1>2, <1>3, PlacedStill

LEMMA CallbacksPlace ==
    ASSUME TInv, Placed, NEW c \in EgressIds, LkDisconnected(c) \/ Shed(c), One(c)'
    PROVE  Placed'
<1>1. \A f \in Publishers : SameAim(f)
  BY Who DEF One, Alone, SameAim
<1>2. UNCHANGED <<ing, at, ingress, room>>
  BY DEF LkDisconnected, Shed, tables
<1>3. Settled
  BY <1>2, SettledByNames
<1> QED
  BY <1>1, <1>2, <1>3, PlacedStill

LEMMA GetIngressPlaces ==
    ASSUME TInv, Placed, NEW e \in Publishers, GetIngressByParticipant(e), One(e)'
    PROVE  Placed'
<1> e \in Threads /\ e \in Elements
  BY Who
<1>1. UNCHANGED <<tables, rooms, room, ing, live, at, loc, apart, faults>>
  BY DEF GetIngressByParticipant
<1> DEFINE x == Participant[e]
<1>2. CASE x # Nil /\ room[loc[e].room].ingress[x] # Nil
  <2>1. pc'[e] = "publish" /\ id'[e] = x /\ x \in IngressIds
    <3>1. pc' = [pc EXCEPT ![e] = "publish"] /\ id' = [id EXCEPT ![e] = x]
      BY <1>2 DEF GetIngressByParticipant, Goto
    <3>2. x \in IngressIds
      BY <1>2, ElementsAssumption DEF Maybe, IngressIds
    <3> QED
      BY <3>1, <3>2, TypeParts DEF TInv, ThreadTypes, ElementTypes
  <2>2. Aims(e)'
    <3>1. ingress[x] # Nil => InRoomOf(ingress[x], e)
      BY <2>1 DEF Placed, Caches
    <3> QED
      BY <1>1, <2>1, <3>1 DEF Aims, InRoomOf, tables
  <2>3. \A f \in Publishers : f # e => SameAim(f)
    BY Who DEF One, Alone, SameAim
  <2> QED
    BY <1>1, <2>2, <2>3, SettledByNames, PlacedStill DEF tables
<1>3. CASE ~(x # Nil /\ room[loc[e].room].ingress[x] # Nil)
  <2>1. pc'[e] = "joinIngress"
    BY <1>3, Goes DEF GetIngressByParticipant, Goto
  <2>2. \A f \in Publishers : SameAim(f)
    BY <2>1, Elsewhere
  <2> QED
    BY <1>1, <2>2, SettledByNames, PlacedStill DEF tables
<1> QED
  BY <1>2, <1>3

LEMMA JoinIngressPlaces ==
    ASSUME TInv, Placed, NEW e \in Publishers, JoinIngress(e), One(e)'
    PROVE  Placed'
<1> e \in Threads /\ e \in Elements
  BY Who
<1>1. UNCHANGED <<tables, rooms, room, live, id, at, apart, faults>>
  BY DEF JoinIngress
<1>2. ASSUME NEW i \in Ingresses, NEW x \in IngressIds, ~UsedIngress(i), IdFor(e, x),
             ing' = [ing EXCEPT ![i] = NewIngress(x, loc[e].room)],
             loc' = [loc EXCEPT ![e].ing = i, ![e].id = x], Goto(e, "addIngress")
      PROVE  Placed'
  <2>1. Settled
    <3>1. \A j \in Ingresses : j # i => ing'[j] = ing[j]
      BY <1>2, TypeParts DEF TInv, ObjectTypes
    <3> QED
      BY <1>1, <1>2, <3>1 DEF Settled
  <2>2. pc'[e] = "addIngress" /\ loc'[e].id = x
    <3> DEFINE l == [loc[e] EXCEPT !.ing = i, !.id = x]
    <3>1. loc' = [loc EXCEPT ![e] = l] /\ loc[e] \in LocalsType
      BY <1>2, Locals DEF TInv, TypeOK
    <3>2. l.id = x
      BY <3>1 DEF LocalsType
    <3> HIDE DEF l
    <3>3. loc'[e] = l
      BY <3>1, Takes
    <3> QED
      BY <1>2, <3>2, <3>3, Goes DEF Goto
  <2>3. Aims(e)'
    BY <1>2, <2>2 DEF Aims, IdFor
  <2>4. \A f \in Publishers : f # e => SameAim(f)
    BY Who DEF One, Alone, SameAim
  <2> QED
    BY <1>1, <2>1, <2>3, <2>4, PlacedStill DEF tables
<1>3. CASE Return(e) /\ UNCHANGED ing
  <2>1. pc'[e] = "idle"
    BY <1>3, Goes DEF Return, Goto
  <2>2. \A f \in Publishers : SameAim(f)
    BY <2>1, Elsewhere
  <2> QED
    BY <1>1, <1>3, <2>2, SettledByNames, PlacedStill DEF tables
<1> QED
  BY <1>2, <1>3 DEF JoinIngress

\* What is added to the cache is of the room that the id is used in.
LEMMA AddIngressPlaces ==
    ASSUME ParticipantsApart, TInv, Placed, NEW e \in Publishers, One(e), AddIngress(e), One(e)'
    PROVE  Placed'
<1> /\ e \in Threads /\ e \in Elements /\ pc[e] = "addIngress" /\ QBy(e)
    /\ loc[e].room \in Rooms /\ loc[e].room # Nil /\ loc[e].ing \in Ingresses
    /\ loc[e].id \in IngressIds
  BY Who, Locals DEF AddIngress, RoomLabels, One, TInv, Points, Point
<1> DEFINE r == loc[e].room
           x == loc[e].id
           i == loc[e].ing
<1>1. /\ ingress' = [ingress EXCEPT ![x] = i] /\ id' = [id EXCEPT ![e] = x]
      /\ UNCHANGED <<ing, at, loc>> /\ pc' = [pc EXCEPT ![e] = "publish"]
  BY DEF AddIngress, Goto
<1>2. ingress'[x] = i /\ \A y \in IngressIds : y # x => ingress'[y] = ingress[y]
  BY <1>1, TypeParts DEF TInv, TableTypes
<1>3. id'[e] = x /\ pc'[e] = "publish"
  BY <1>1, TypeParts DEF TInv, ElementTypes, ThreadTypes
<1>4. \A q \in Rooms : room'[q].name = room[q].name
  BY RoomNamesStay
<1>5. Settled
  BY <1>1, <1>4, SettledByNames
<1>6. ing[i].room = r /\ room[r].name = RoomName[e]
  BY FoundPlace DEF QBy, Walk, IngressWalk, NewIngress
<1>7. IF Participant[e] = Nil THEN x \in FreshIds ELSE x = Participant[e]
  BY DEF Placed, Aims
<1>8. ASSUME NEW f, RoomName[f] = RoomName[e], NEW j, j = i
      PROVE  InRoomOf(j, f)'
  BY <1>1, <1>4, <1>6, <1>8 DEF InRoomOf
<1>9. \A f \in Publishers : Sits(f)'
  BY <1>1, <1>5, SitsStill DEF Placed
<1>10. ASSUME NEW y \in IngressIds
       PROVE  Caches(y)'
  <2>1. CASE y = x
    <3>1. ASSUME NEW f \in Publishers, Participant[f] = x
          PROVE  RoomName[f] = RoomName[e]
      <4>1. Participant[f] \in GivenIds
        BY <3>1, Who, ElementsAssumption DEF Maybe
      <4> QED
        BY <1>7, <3>1, <4>1, Who DEF ParticipantsApart
    <3>2. ASSUME NEW f \in Publishers, Participant[f] = x, NEW j, j = i
          PROVE  InRoomOf(j, f)'
      BY <1>8, <3>1, <3>2
    <3> QED
      BY <1>2, <2>1, <3>2 DEF Caches, InRoomOf
  <2>2. CASE y # x
    BY <1>2, <1>5, <2>2, CachesStill DEF Placed
  <2> QED
    BY <2>1, <2>2
<1>11. ASSUME NEW f \in Publishers
       PROVE  Aims(f)'
  <2>1. CASE f = e
    <3>1. ASSUME NEW j, j = i
          PROVE  InRoomOf(j, e)'
      BY <1>8, <3>1
    <3>2. Participant[e] \in {Nil, x}
      BY <1>7
    <3> QED
      BY <1>2, <1>3, <2>1, <3>1, <3>2 DEF Aims, InRoomOf
  <2>2. CASE f # e
    BY <2>2, Who DEF One, Alone, Aims
  <2> QED
    BY <2>1, <2>2
<1> QED
  BY <1>9, <1>10, <1>11 DEF Placed

LEMMA TestPublishPlaces ==
    ASSUME TInv, Placed, NEW e \in Publishers, TestPublish(e), One(e)'
    PROVE  Placed'
<1> e \in Threads /\ e \in Elements
  BY Who
<1>1. UNCHANGED <<tables, rooms, room, ing, live, at, apart, faults>>
  BY DEF TestPublish
<1>2. SameAim(e)
  <2>1. \/ pc' = [pc EXCEPT ![e] = "idle"]
        \/ pc' = [pc EXCEPT ![e] = "create"] /\ id' = id /\ pc[e] = "publish"
    BY DEF TestPublish, Return, Goto
  <2> QED
    BY <2>1, Goes DEF SameAim
<1>3. \A f \in Publishers : SameAim(f)
  BY <1>2, Who DEF One, Alone, SameAim
<1> QED
  BY <1>1, <1>3, SettledByNames, PlacedStill DEF tables

LEMMA CreatePublisherPlaces ==
    ASSUME TInv, Placed, NEW e \in Publishers, One(e), CreatePublisher(e), One(e)'
    PROVE  Placed'
<1> /\ e \in Threads /\ e \in Elements /\ pc[e] = "create" /\ QBy(e)
    /\ loc[e].ing \in Ingresses /\ id[e] \in IngressIds
  BY Who, Locals DEF CreatePublisher, One, TInv, Points, Point
<1> DEFINE i == loc[e].ing
<1>1. /\ pc' = [pc EXCEPT ![e] = "idle"] /\ ing' = [ing EXCEPT ![i][Slot(e)] = e]
      /\ at' = [at EXCEPT ![e] = i] /\ UNCHANGED <<tables, room>>
  BY DEF CreatePublisher, Return, Goto
<1>2. \A j \in Ingresses : ing'[j].id = ing[j].id /\ ing'[j].room = ing[j].room
  BY <1>1, SlotFields
<1>3. Settled
  BY <1>1, <1>2, SettledByNames
<1>4. at'[e] = i /\ \A f \in Elements : f # e => at'[f] = at[f]
  BY <1>1, TypeParts DEF TInv, ElementTypes
<1>5. /\ ingress[id[e]] = i /\ i # Nil /\ ing[i].id = id[e]
  BY Who DEF QBy, IngressWalk, Fed
<1>6. InRoomOf(i, e) /\ Participant[e] \in {Nil, ing[i].id}
  BY <1>5 DEF Placed, Aims
<1>7. Sits(e)'
  <2>1. ing[i].room \in Rooms
    BY <1>6, IngressTypes DEF InRoomOf, Maybe
  <2> QED
    BY <1>1, <1>2, <1>4, <1>6, <2>1 DEF Sits, InRoomOf
<1>8. ASSUME NEW f \in Publishers
      PROVE  Sits(f)' /\ Aims(f)'
  <2>1. SameAim(f)
    <3>1. pc'[e] = "idle"
      BY <1>1, Goes
    <3> QED
      BY <3>1, Elsewhere
  <2>2. Aims(f)'
    BY <1>1, <1>3, <2>1, AimStill DEF Placed, tables
  <2>3. f # e => Sits(f)'
    BY <1>3, <1>4, SitsStill, Who DEF Placed
  <2> QED
    BY <1>7, <2>2, <2>3
<1>9. \A x \in IngressIds : Caches(x)'
  BY <1>1, <1>3, CachesStill DEF Placed, tables
<1> QED
  BY <1>8, <1>9 DEF Placed

LEMMA PublishersLeave ==
    ASSUME TInv, Placed, NEW e \in Publishers, One(e)',
           \/ Unpublish(e) \/ LeaveIngress(e) \/ DeleteIngress(e) \/ TestRoom(e) \/ HangUp(e)
    PROVE  Placed'
<1> e \in Threads /\ e \in Elements
  BY Who
<1>1. pc'[e] \in {"leaveIngress", "idle", "deleteIngress", "testRoom", "hangUp", "deleteRoom"}
  <2>1. \E label \in {"leaveIngress", "idle", "deleteIngress", "testRoom", "hangUp", "deleteRoom"} :
           pc' = [pc EXCEPT ![e] = label]
    BY DEF Unpublish, Begin, LeaveIngress, DeleteIngress, TestRoom, HangUp, Return, Goto
  <2> QED
    BY <2>1, Goes
<1>2. \A f \in Publishers : SameAim(f)
  BY <1>1, Elsewhere
<1>3. \A f \in Publishers : at'[f] = at[f] \/ at'[f] = Nil
  <2>1. at' = at \/ at' = [at EXCEPT ![e] = Nil]
    BY DEF Unpublish, LeaveIngress, DeleteIngress, TestRoom, HangUp
  <2> QED
    BY <2>1, Who, TypeParts DEF TInv, ElementTypes
<1>4. \A x \in IngressIds : ingress'[x] = ingress[x] \/ ingress'[x] = Nil
  <2>1. ingress' = ingress \/ ingress' = [ingress EXCEPT ![loc[e].id] = Nil]
    BY DEF Unpublish, LeaveIngress, DeleteIngress, TestRoom, HangUp, tables
  <2> QED
    BY <2>1, TypeParts DEF TInv, TableTypes
<1>5. \A q \in Rooms : room'[q].name = room[q].name
  <2>1. CASE DeleteIngress(e)
    BY <2>1, RoomNamesStay
  <2>2. CASE ~DeleteIngress(e)
    BY <2>2 DEF Unpublish, LeaveIngress, TestRoom, HangUp
  <2> QED
    BY <2>1, <2>2
<1>6. \A i \in Ingresses : ing'[i].id = ing[i].id /\ ing'[i].room = ing[i].room
  <2>1. CASE Unpublish(e)
    <3>1. at[e] \in Ingresses /\ ing' = [ing EXCEPT ![at[e]][Slot(e)] = Nil]
      BY <2>1, IngressTypes DEF Unpublish, IsConnected
    <3> QED
      BY <3>1, SlotFields
  <2>2. CASE ~Unpublish(e)
    BY <2>2 DEF LeaveIngress, DeleteIngress, TestRoom, HangUp
  <2> QED
    BY <2>1, <2>2
<1>7. Settled
  BY <1>5, <1>6, SettledByNames
<1> QED
  BY <1>2, <1>3, <1>4, <1>7, PlacedStill

LEMMA PublishersPlace ==
    ASSUME ParticipantsApart, TInv, Placed, NEW e \in Publishers, PublisherSteps(e),
           One(e), One(e)'
    PROVE  Placed'
BY GetIngressPlaces, JoinIngressPlaces, AddIngressPlaces, TestPublishPlaces,
   CreatePublisherPlaces, PublishersLeave
   DEF PublisherSteps

\* Who leaves is not about to publish.
LEMMA LeaveStepsGo ==
    ASSUME TInv, NEW t \in Threads, One(t), LeaveSteps(t), NEW u \in Threads
    PROVE  pc'[u] \notin {"addIngress", "publish", "create"}
<1>1. u # t => pc[u] = "idle"
  BY DEF One, Alone
<1>2. CASE RemoveEgress(t)
  BY <1>1, <1>2 DEF RemoveEgress
<1>3. CASE ~RemoveEgress(t)
  <2>1. \E label \in {"idle", "lock", "close", "deleteRoom", "testService", "deleteService"} :
           pc' = [pc EXCEPT ![t] = label]
    BY <1>3 DEF LeaveSteps, GetEgress, LeaveEgress, Disconnect, DeleteRoom, TestService,
       DeleteService, Return, Goto
  <2> QED
    BY <1>1, <2>1, Goes
<1> QED
  BY <1>2, <1>3

LEMMA NextPlaces ==
    ASSUME ParticipantsApart, TInv, QuietInv, PlacedInQuiet, [Next]_vars
    PROVE  PlacedInQuiet'
<1>1. CASE UNCHANGED vars
  <2>1. Placed' = Placed
    BY <1>1 DEF vars, tables, Placed, Sits, Aims, Caches, InRoomOf
  <2> QED
    BY <1>1, <2>1 DEF PlacedInQuiet, quiet, vars
<1>2. CASE Next
  <2> SUFFICES ASSUME quiet'
               PROVE  Placed'
    BY DEF PlacedInQuiet
  <2>1. quiet /\ Placed
    BY <1>2, QuietBefore DEF PlacedInQuiet
  <2>2. ASSUME NEW e \in Elements, ConnectSteps(e)
        PROVE  Placed'
    BY <2>1, <2>2, ConnectsInQuiet, ConnectPlaces
  <2>3. ASSUME NEW e \in Subscribers, SubscriberSteps(e)
        PROVE  Placed'
    BY <2>1, <2>3, SubscribersInQuiet, SubscribersPlace
  <2>4. ASSUME NEW e \in Publishers, PublisherSteps(e)
        PROVE  Placed'
    BY <2>1, <2>4, PublishersInQuiet, PublishersPlace
  <2>5. ASSUME NEW t \in Threads, LeaveSteps(t)
        PROVE  Placed'
    BY <2>1, <2>5, LeaversInQuiet, LeaveStepsGo, LeaversPlace
  <2>6. ASSUME NEW c \in EgressIds, Drop(c) \/ LkDisconnected(c) \/ Shed(c) \/ Evict(c)
        PROVE  Placed'
    BY <2>1, <2>6, CallbacksInQuiet, CallbacksPlace
  <2> QED
    BY <1>2, <2>2, <2>3, <2>4, <2>5, <2>6 DEF Next
<1> QED
  BY <1>1, <1>2

LEMMA InitPlaced ==
    ASSUME Init
    PROVE  PlacedInQuiet
BY Who DEF Init, PlacedInQuiet, Placed, Sits, Aims, Caches, NoIngress

\* A publisher publishes into its own room and as its own participant, when no
\* participant id is used in two rooms: publishParticipantImpl finds the ingress
\* by its id alone, in the cache that root keeps.
THEOREM PublishersInTheirRooms ==
    ASSUME ParticipantsApart
    PROVE  Spec => []PublishesInItsRoom
<1>1. Init => PlacedInQuiet
  BY InitPlaced
<1>2. TInv /\ QuietInv /\ PlacedInQuiet /\ [Next]_vars => PlacedInQuiet'
  BY NextPlaces
<1>3. PlacedInQuiet => PublishesInItsRoom
  BY DEF PlacedInQuiet, PublishesInItsRoom, Placed, Sits, InRoomOf
<1> QED
  BY <1>1, <1>2, <1>3, TypesThroughout, TablesAgreeInQuiet, PTL DEF Spec
=============================================================================
