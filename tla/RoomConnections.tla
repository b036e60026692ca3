-------------------------- MODULE RoomConnections --------------------------
(***************************************************************************)
(* How elements get connected to rooms.  An ov3subscriber connects to its  *)
(* room, subscribes, and at its release unsubscribes and disconnects; all  *)
(* subscribers of a room are meant to share one egress connection.  An     *)
(* ov3publisher does the same with an ingress connection for each          *)
(* participant that is published.  (ov3subscriber.c, ov3publisher.c;       *)
(* ov3endpoint.go, ov3service.go, ov3root.go, ov3room.go, ov3ingress.go.)  *)
(*                                                                         *)
(* Elements run in threads of their own.  The tables of root and of the    *)
(* service are locked for each access; the lock of a room is held by       *)
(* addSubscriber, removeSubscriber, addIngress, deleteIngress and while a  *)
(* subscriber disconnects.  Of the subscriptions of a room, which          *)
(* RoomSubscriptions models, there is one here, to the same stream for     *)
(* everybody: it is in the room's table as long as it has a subscriber.    *)
(* Its subscribers are a Go slice, which matters to the callback of a lost *)
(* connection: it ranges over the slice while it removes its elements.     *)
(* There is one LiveKit URL.                                               *)
(***************************************************************************)
EXTENDS Naturals, FiniteSets, SequencesExt

CONSTANTS
    Subscribers,    \* ov3subscriber elements
    Publishers,     \* ov3publisher elements
    RoomName,       \* the room that each element is for
    Participant,    \* publisher -> its participant id, Nil for none
    ScreenSharing,  \* publishers of a screen
    Services, Rooms, Ingresses,     \* pools of Go objects
    EgressIds,      \* pool of ids "GSTEG_...", each of one connection
    GivenIds,       \* participant ids
    FreshIds,       \* pool of ids "GSTIG_..."
    Failures,       \* what may go wrong: "join", "remove", "drop"
    MaxCalls,       \* how many calls and callbacks there may be once one starts
    MaxFaults,      \* how often a removal fails or a connection is lost
    Nil

Elements   == Subscribers \cup Publishers
Threads    == Elements \cup EgressIds   \* a connection calls back
IngressIds == GivenIds \cup FreshIds
Names      == {RoomName[e] : e \in Elements}
Maybe(S)   == S \cup {Nil}

ASSUME ElementsAssumption ==
    /\ Subscribers \cap Publishers = {} /\ Elements \cap EgressIds = {}
    /\ ScreenSharing \subseteq Publishers
    /\ Participant \in [Publishers -> Maybe(GivenIds)]
    /\ DOMAIN RoomName = Elements
ASSUME NilIsNothing ==
    Nil \notin Elements \cup Services \cup Rooms \cup Ingresses \cup EgressIds
                 \cup IngressIds \cup Names
ASSUME FailuresAssumption == Failures \subseteq {"join", "remove", "drop"}
ASSUME BoundsAssumption == MaxCalls \in Nat /\ MaxFaults \in Nat

VARIABLES
    services,   \* root.services[url]
    egress,     \* root.egress
    ingress,    \* root.ingress
    rooms,      \* the map of each service object
    room,       \* room objects
    ing,        \* ingress objects
    live,       \* LiveKit: egress connections that are open
    id,         \* element: egressId or ingressId
    at,         \* element: the room or ingress object that it is connected to
    pc, loc,    \* each thread: where it is, and its local variables
    apart,      \* history: no call has overlapped another or a callback
    faults      \* history: removals that failed and connections that were lost

tables == <<services, egress, ingress>>
vars   == <<tables, rooms, room, ing, live, id, at, pc, loc,
           apart, faults>>

RoomType ==
    [name: Maybe(Names), service: Maybe(Services), egressId: Maybe(EgressIds),
     conn: Maybe(EgressIds),                \* roomSvc
     ingress: [IngressIds -> Maybe(Ingresses)],
     subs: Seq(Subscribers),                \* the slice of the subscription
     lock: Maybe(Threads)]

IngressType ==
    [id: Maybe(IngressIds), room: Maybe(Rooms),
     main: Maybe(Publishers), screen: Maybe(Publishers)]

LocalsType ==
    [svc: Maybe(Services), room: Maybe(Rooms), ing: Maybe(Ingresses),
     id: Maybe(EgressIds \cup IngressIds),
     \* of a callback: the cells it ranges over, how far it is, its subscriber,
     \* and whether the cells are those of the subscription's array
     view: Seq(Subscribers), next: Nat, subscriber: Maybe(Subscribers),
     array: {"none", "shared", "moved", "dropped"}]

\* One type invariant: every table, object and local variable.
TypeOK ==
    /\ services \in Maybe(Services)
    /\ egress \in [EgressIds -> Maybe(Rooms)]
    /\ ingress \in [IngressIds -> Maybe(Ingresses)]
    /\ rooms \in [Services -> [Names -> Maybe(Rooms)]]
    /\ room \in [Rooms -> RoomType]
    /\ ing \in [Ingresses -> IngressType]
    /\ live \subseteq EgressIds
    /\ id \in [Elements -> Maybe(EgressIds \cup IngressIds)]
    /\ at \in [Elements -> Maybe(Rooms \cup Ingresses)]
    /\ pc \in [Threads ->
          {"idle", "newService", "findRoom", "newRoom", "egress", "join", "joining",
           "joined", "register", "answer", "subscribe", "attach",
           "ingress", "joinIngress", "addIngress", "publish", "create",
           "leave", "lock", "close", "deleteRoom", "testService", "deleteService",
           "leaveIngress", "deleteIngress", "testRoom", "hangUp", "dropped", "shed", "evict"}]
    /\ loc \in [Threads -> LocalsType]
    /\ apart \in BOOLEAN /\ faults \in 0..MaxFaults

NoRooms   == [n \in Names |-> Nil]
NoIngress == [x \in IngressIds |-> Nil]
NewRoom(n, s) == [name |-> n, service |-> s, egressId |-> Nil, conn |-> Nil,
                  ingress |-> NoIngress, subs |-> <<>>, lock |-> Nil]
NewIngress(x, r) == [id |-> x, room |-> r, main |-> Nil, screen |-> Nil]
Blank == [svc |-> Nil, room |-> Nil, ing |-> Nil, id |-> Nil,
          view |-> <<>>, next |-> 1, subscriber |-> Nil, array |-> "none"]

Init ==
    /\ services = Nil
    /\ egress = [c \in EgressIds |-> Nil] /\ ingress = NoIngress
    /\ rooms = [s \in Services |-> NoRooms]
    /\ room = [r \in Rooms |-> NewRoom(Nil, Nil)]
    /\ ing = [i \in Ingresses |-> NewIngress(Nil, Nil)]
    /\ live = {}
    /\ id = [e \in Elements |-> Nil] /\ at = [e \in Elements |-> Nil]
    /\ pc = [t \in Threads |-> "idle"]
    /\ loc = [t \in Threads |-> Blank]
    /\ apart = TRUE /\ faults = 0

----------------------------------------------------------------------------
(* Objects and ids that nothing refers to; a pool that is used up bounds   *)
(* what a run explores.                                                    *)

Located(f, x) == \E t \in Threads : loc[t][f] = x

InTable(i) == \/ \E x \in IngressIds : ingress[x] = i
              \/ \E r \in Rooms, x \in IngressIds : room[r].ingress[x] = i

UsedIngress(i) == InTable(i) \/ Located("ing", i) \/ \E e \in Publishers : at[e] = i

UsedRoom(r) == \/ \E s \in Services, n \in Names : rooms[s][n] = r
               \/ \E c \in EgressIds : egress[c] = r
               \/ Located("room", r)
               \/ \E e \in Subscribers : at[e] = r
               \/ \E i \in Ingresses : UsedIngress(i) /\ ing[i].room = r

UsedService(s) == \/ services = s \/ rooms[s] # NoRooms
                  \/ Located("svc", s)
                  \/ \E r \in Rooms : UsedRoom(r) /\ room[r].service = s

UsedEgressId(c) == \/ c \in live \/ egress[c] # Nil \/ pc[c] # "idle"
                   \/ Located("id", c)
                   \/ \E e \in Elements : id[e] = c
                   \/ \E r \in Rooms : UsedRoom(r) /\ c \in {room[r].egressId, room[r].conn}

UsedIngressId(x) == \/ ingress[x] # Nil \/ Located("id", x)
                    \/ \E e \in Elements : id[e] = x
                    \/ \E i \in Ingresses : UsedIngress(i) /\ ing[i].id = x

----------------------------------------------------------------------------
(* Steps of calls. *)

Goto(t, label) == pc' = [pc EXCEPT ![t] = label]
Return(t) == Goto(t, "idle") /\ loc' = [loc EXCEPT ![t] = Blank]

\* A call of an element starts.
Begin(e, label) ==
    /\ pc[e] = "idle" /\ Goto(e, label)
    /\ Cardinality({t \in Threads : pc[t] # "idle"}) < MaxCalls
    /\ apart' = (apart /\ \A t \in Threads : pc[t] = "idle")

\* LiveKit does not do what is expected of it.
Fault(kind) == kind \in Failures /\ faults < MaxFaults /\ faults' = faults + 1

\* RemoveParticipant, which may fail.
Removal(done) == IF done THEN UNCHANGED faults ELSE Fault("remove")

Unlocked(t, r) == [r EXCEPT !.lock = IF @ = t THEN Nil ELSE @]

\* The Kurento endpoint of an element is connected: it refuses another call,
\* and at its release it disconnects.
IsConnected(e) == at[e] # Nil

\* connectToRoomImpl finds or makes the service and the room.
Connect(e) ==
    /\ ~IsConnected(e)
    /\ Begin(e, IF services = Nil THEN "newService" ELSE "findRoom")
    /\ loc' = [loc EXCEPT ![e].svc = services]
    /\ UNCHANGED <<tables, rooms, room, ing, live, id, at, faults>>

AddService(e) ==
    /\ pc[e] = "newService" /\ Goto(e, "findRoom")
    /\ \E s \in Services :
          /\ ~UsedService(s)
          /\ services' = s
          /\ loc' = [loc EXCEPT ![e].svc = s]
    /\ UNCHANGED <<egress, ingress, rooms, room, ing, live, id, at, apart, faults>>

Purpose(e) == IF e \in Subscribers THEN "egress" ELSE "ingress"

GetRoom(e) ==
    /\ pc[e] = "findRoom"
    /\ LET r == rooms[loc[e].svc][RoomName[e]]
       IN  /\ Goto(e, IF r = Nil THEN "newRoom" ELSE Purpose(e))
           /\ loc' = [loc EXCEPT ![e].room = r]
    /\ UNCHANGED <<tables, rooms, room, ing, live, id, at, apart, faults>>

AddRoom(e) ==
    /\ pc[e] = "newRoom" /\ Goto(e, Purpose(e))
    /\ \E r \in Rooms :
          /\ ~UsedRoom(r)
          /\ room' = [room EXCEPT ![r] = NewRoom(RoomName[e], loc[e].svc)]
          /\ rooms' = [rooms EXCEPT ![loc[e].svc][RoomName[e]] = r]
          /\ loc' = [loc EXCEPT ![e].room = r]
    /\ UNCHANGED <<tables, ing, live, id, at, apart, faults>>

----------------------------------------------------------------------------
(* ov3_subscriber_connect. *)

\* Mutant: every subscriber gets a connection.
JoinAlways(e) ==
    /\ pc[e] = "egress" /\ Goto(e, "join")
    /\ UNCHANGED <<tables, rooms, room, ing, live, id, at, loc, apart, faults>>

TestEgress(e) ==
    /\ pc[e] = "egress"
    /\ Goto(e, IF room[loc[e].room].egressId = Nil THEN "join" ELSE "answer")
    /\ UNCHANGED <<tables, rooms, room, ing, live, id, at, loc, apart, faults>>

\* makeRoomConnection; the callbacks of the connection are the room's.
MakeRoomConnection(e) ==
    /\ pc[e] = "join" /\ Goto(e, "joining")
    /\ \E c \in EgressIds :
          /\ ~UsedEgressId(c)
          /\ room' = [room EXCEPT ![loc[e].room].conn = c]
          /\ loc' = [loc EXCEPT ![e].id = c, ![c].room = loc[e].room]
    /\ UNCHANGED <<tables, rooms, ing, live, id, at, apart, faults>>

JoinWithToken(e) ==
    /\ pc[e] = "joining"
    /\ \/ /\ live' = live \cup {loc[e].id}
          /\ Goto(e, "joined") /\ UNCHANGED loc
       \/ /\ "join" \in Failures
          /\ Goto(e, "idle") /\ loc' = [loc EXCEPT ![e] = Blank, ![loc[e].id] = Blank]
          /\ UNCHANGED live
    /\ UNCHANGED <<tables, rooms, room, ing, id, at, apart, faults>>

SetEgressId(e) ==
    /\ pc[e] = "joined" /\ Goto(e, "register")
    /\ room' = [room EXCEPT ![loc[e].room].egressId = loc[e].id]
    /\ UNCHANGED <<tables, rooms, ing, live, id, at, loc, apart, faults>>

\* Mutant: the name of the room is registered.
AddEgressName(e) ==
    /\ pc[e] = "register" /\ Goto(e, "answer")
    /\ egress' = [egress EXCEPT ![loc[e].id] = RoomName[e]]
    /\ UNCHANGED <<services, ingress, rooms, room, ing, live, id, at, loc, apart, faults>>

AddEgress(e) ==
    /\ pc[e] = "register" /\ Goto(e, "answer")
    /\ egress' = [egress EXCEPT ![loc[e].id] = loc[e].room]
    /\ UNCHANGED <<services, ingress, rooms, room, ing, live, id, at, loc, apart, faults>>

\* The id is read again; an empty one is an error for the element.
Answer(e) ==
    /\ pc[e] = "answer"
    /\ LET c == room[loc[e].room].egressId
       IN  /\ id' = [id EXCEPT ![e] = c]
           /\ IF c = Nil THEN Return(e)
              ELSE Goto(e, "subscribe") /\ loc' = [loc EXCEPT ![e] = [Blank EXCEPT !.id = c]]
    /\ UNCHANGED <<tables, rooms, room, ing, live, at, apart, faults>>

Subscribe(e) ==
    /\ pc[e] = "subscribe"
    /\ LET r == egress[id[e]]
       IN  IF r = Nil
           THEN Return(e) /\ id' = [id EXCEPT ![e] = Nil]
           ELSE /\ Goto(e, "attach") /\ UNCHANGED id
                /\ loc' = [loc EXCEPT ![e].room = r]
    /\ UNCHANGED <<tables, rooms, room, ing, live, at, apart, faults>>

\* The callback t ranges over the array of the room's subscription, and over
\* its k-th cell.
Shares(t, r)  == loc[t].array = "shared" /\ loc[t].room = r
Sees(t, r, k) == Shares(t, r) /\ k \in DOMAIN loc[t].view

\* append writes the cell after the last, if the array has one; if not, it
\* moves the slice to a new array.
Appended(t, r, e, moves) ==
    LET k == Len(room[r].subs) + 1
    IN  IF Sees(t, r, k) THEN [loc[t] EXCEPT !.view[k] = e]
        ELSE IF Shares(t, r) /\ moves THEN [loc[t] EXCEPT !.array = "moved"]
        ELSE loc[t]

\* removeElement moves the cells after the k-th down, in place; the last one
\* keeps its value.  The subscription is dropped with its last subscriber.
Removed(t, r, k) ==
    LET s == room[r].subs
    IN  IF ~Shares(t, r) THEN loc[t]
        ELSE IF Len(s) = 1 THEN [loc[t] EXCEPT !.array = "dropped"]
        ELSE [loc[t] EXCEPT !.view =
                 [j \in DOMAIN @ |-> IF j \in k..(Len(s) - 1) THEN s[j + 1] ELSE @[j]]]

\* Mutant: the room is not locked.
AddSubscriberUnlocked(e) ==
    /\ pc[e] = "attach" /\ Return(e)
    /\ room' = [room EXCEPT ![loc[e].room].subs = Append(@, e)]
    /\ at' = [at EXCEPT ![e] = loc[e].room]
    /\ UNCHANGED <<tables, rooms, ing, live, id, apart, faults>>

AddSubscriber(e) ==
    /\ pc[e] = "attach" /\ room[loc[e].room].lock = Nil
    /\ Goto(e, "idle")
    /\ \E moves \in BOOLEAN :
          /\ moves => \A t \in Threads : ~Sees(t, loc[e].room, Len(room[loc[e].room].subs) + 1)
          /\ loc' = [t \in Threads |-> IF t = e THEN Blank ELSE Appended(t, loc[e].room, e, moves)]
    /\ room' = [room EXCEPT ![loc[e].room].subs = Append(@, e)]
    /\ at' = [at EXCEPT ![e] = loc[e].room]
    /\ UNCHANGED <<tables, rooms, ing, live, id, apart, faults>>

----------------------------------------------------------------------------
(* ov3_subscriber_disconnect and lkDisconnected. *)

\* An element that a callback has unsubscribed gets an error and stays as it is.
Unsubscribe(e) ==
    /\ IsConnected(e) /\ room[at[e]].lock = Nil
    /\ Begin(e, "leave")
    /\ \E k \in DOMAIN room[at[e]].subs :
          /\ room[at[e]].subs[k] = e
          /\ room' = [room EXCEPT ![at[e]].subs = RemoveAt(@, k)]
          /\ loc' = [t \in Threads |-> IF t = e THEN [Blank EXCEPT !.id = id[e]]
                                       ELSE Removed(t, at[e], k)]
    /\ at' = [at EXCEPT ![e] = Nil] /\ id' = [id EXCEPT ![e] = Nil]
    /\ UNCHANGED <<tables, rooms, ing, live, faults>>

GetEgress(t) ==
    /\ pc[t] = "leave"
    /\ LET r == egress[loc[t].id]
       IN  IF r = Nil THEN Return(t)
           ELSE Goto(t, "lock") /\ loc' = [loc EXCEPT ![t].room = r]
    /\ UNCHANGED <<tables, rooms, room, ing, live, id, at, apart, faults>>

\* Refused while the room has subscriptions.
LeaveEgress(t) ==
    /\ pc[t] = "lock"
    /\ LET r == loc[t].room
           c == room[r].egressId
       IN  /\ room[r].lock = Nil
           /\ \/ /\ room[r].subs # <<>> /\ Return(t)
                 /\ UNCHANGED <<room, egress>>
              \/ /\ room[r].subs = <<>> /\ Goto(t, "close") /\ UNCHANGED loc
                 /\ room' = [room EXCEPT ![r].lock = t, ![r].egressId = Nil]
                 /\ egress' = [x \in EgressIds |-> IF x = c THEN Nil ELSE egress[x]]
    /\ UNCHANGED <<services, ingress, rooms, ing, live, id, at, apart, faults>>

\* The client closes a connection: no callback follows.
HangsUp(c) == /\ live' = live \ {c}
              /\ loc' = [t \in Threads |-> IF t = c /\ c \in live /\ pc[c] = "idle"
                                           THEN Blank ELSE loc[t]]

Disconnect(t) ==
    /\ pc[t] = "close" /\ room[loc[t].room].ingress = NoIngress
    /\ Goto(t, "deleteRoom") /\ HangsUp(room[loc[t].room].conn)
    /\ UNCHANGED <<tables, rooms, room, ing, id, at, apart, faults>>

\* roomClient is there: addIngress sets it.
RemoveEgress(t) ==
    /\ pc[t] = "close" /\ room[loc[t].room].ingress # NoIngress
    /\ LET c == loc[t].id
       IN  \E done \in BOOLEAN :
              /\ Removal(done)
              /\ live' = IF done THEN live \ {c} ELSE live
              /\ pc' = [x \in Threads |-> IF x = t THEN "idle"
                           ELSE IF done /\ x = c /\ c \in live THEN "dropped" ELSE pc[x]]
    /\ loc' = [loc EXCEPT ![t] = Blank]
    /\ room' = [room EXCEPT ![loc[t].room] = Unlocked(t, @)]
    /\ UNCHANGED <<tables, rooms, ing, id, at, apart>>

\* By name: another room object may be there by now.
DeleteRoom(t) ==
    /\ pc[t] = "deleteRoom" /\ Goto(t, "testService")
    /\ LET r == room[loc[t].room]
       IN  rooms' = [rooms EXCEPT ![r.service][r.name] = Nil]
    /\ UNCHANGED <<tables, room, ing, live, id, at, loc, apart, faults>>

TestService(t) ==
    /\ pc[t] = "testService"
    /\ LET r == loc[t].room
       IN  \/ /\ rooms[room[r].service] = NoRooms
              /\ Goto(t, "deleteService") /\ UNCHANGED <<room, loc>>
           \/ /\ rooms[room[r].service] # NoRooms
              /\ Return(t) /\ room' = [room EXCEPT ![r] = Unlocked(t, @)]
    /\ UNCHANGED <<tables, rooms, ing, live, id, at, apart, faults>>

DeleteService(t) ==
    /\ pc[t] = "deleteService" /\ Return(t)
    /\ services' = Nil
    /\ room' = [room EXCEPT ![loc[t].room] = Unlocked(t, @)]
    /\ UNCHANGED <<egress, ingress, rooms, ing, live, id, at, apart, faults>>

\* LiveKit ends a connection by itself.
Drop(c) ==
    /\ Fault("drop") /\ c \in live /\ pc[c] = "idle"
    /\ live' = live \ {c} /\ Goto(c, "dropped")
    /\ apart' = (apart /\ \A t \in Threads : pc[t] = "idle")
    /\ UNCHANGED <<tables, rooms, room, ing, id, at, loc>>

\* lkDisconnected of the room, for whichever of its connections, ranges over
\* the subscription's slice as it is when the range begins.
Ranging(l, r) ==
    [l EXCEPT !.view = room[r].subs, !.next = 1,
              !.array = IF room[r].subs = <<>> THEN "none" ELSE "shared"]

LkDisconnected(c) ==
    /\ pc[c] = "dropped" /\ Goto(c, "shed")
    /\ LET r == loc[c].room
       IN  loc' = [loc EXCEPT ![c] = Ranging([@ EXCEPT !.id = room[r].egressId], r)]
    /\ UNCHANGED <<tables, rooms, room, ing, live, id, at, apart, faults>>

\* The next cell; at the end of the slice, a subscription that has been made
\* in place of it may come up too.
Shed(c) ==
    /\ pc[c] = "shed"
    /\ LET l == loc[c] r == loc[c].room
       IN  \/ /\ l.next \in DOMAIN l.view
              /\ Goto(c, "evict")
              /\ loc' = [loc EXCEPT ![c].subscriber = l.view[l.next], ![c].next = @ + 1]
           \/ /\ l.next \notin DOMAIN l.view
              /\ IF l.id = Nil THEN Return(c)
                 ELSE Goto(c, "leave") /\ loc' = [loc EXCEPT ![c] = [Blank EXCEPT !.room = r, !.id = l.id]]
           \/ /\ l.next \notin DOMAIN l.view
              /\ l.array = "dropped" /\ room[r].subs # <<>>
              /\ loc' = [loc EXCEPT ![c] = Ranging(@, r)] /\ UNCHANGED pc
    /\ UNCHANGED <<tables, rooms, room, ing, live, id, at, apart, faults>>

\* unsubscribeParticipantImpl, which returns if the subscriber has gone.
Evict(c) ==
    /\ pc[c] = "evict" /\ Goto(c, "shed")
    /\ LET e == loc[c].subscriber r == loc[c].room
       IN  \/ /\ e \notin Range(room[r].subs)
              /\ loc' = [loc EXCEPT ![c].subscriber = Nil] /\ UNCHANGED room
           \/ /\ room[r].lock = Nil
              /\ \E k \in DOMAIN room[r].subs :
                    /\ room[r].subs[k] = e
                    /\ room' = [room EXCEPT ![r].subs = RemoveAt(@, k)]
                    /\ loc' = [t \in Threads |-> IF t = c THEN [Removed(t, r, k) EXCEPT !.subscriber = Nil]
                                                 ELSE Removed(t, r, k)]
    /\ UNCHANGED <<tables, rooms, ing, live, id, at, apart, faults>>

----------------------------------------------------------------------------
(* ov3_publisher_connect. *)

GetIngressByParticipant(e) ==
    /\ pc[e] = "ingress" /\ room[loc[e].room].lock = Nil
    /\ LET x == Participant[e]
           known == x # Nil /\ room[loc[e].room].ingress[x] # Nil
       IN  IF known
           THEN Goto(e, "publish") /\ id' = [id EXCEPT ![e] = x]
           ELSE Goto(e, "joinIngress") /\ UNCHANGED id
    /\ UNCHANGED <<tables, rooms, room, ing, live, at, loc, apart, faults>>

\* Mutant: every ingress gets a new id.
IdGenerated(e, x) == x \in FreshIds /\ ~UsedIngressId(x)

IdFor(e, x) == IF Participant[e] = Nil THEN x \in FreshIds /\ ~UsedIngressId(x)
                                       ELSE x = Participant[e]

\* createRoomIngress
JoinIngress(e) ==
    /\ pc[e] = "joinIngress"
    /\ \/ \E i \in Ingresses, x \in IngressIds :
             /\ ~UsedIngress(i) /\ IdFor(e, x)
             /\ ing' = [ing EXCEPT ![i] = NewIngress(x, loc[e].room)]
             /\ loc' = [loc EXCEPT ![e].ing = i, ![e].id = x]
             /\ Goto(e, "addIngress")
       \/ /\ "join" \in Failures
          /\ Return(e) /\ UNCHANGED ing
    /\ UNCHANGED <<tables, rooms, room, live, id, at, apart, faults>>

AddIngress(e) ==
    /\ pc[e] = "addIngress" /\ room[loc[e].room].lock = Nil
    /\ Goto(e, "publish")
    /\ LET x == loc[e].id
       IN  /\ room' = [room EXCEPT ![loc[e].room].ingress[x] = loc[e].ing]
           /\ ingress' = [ingress EXCEPT ![x] = loc[e].ing]
           /\ id' = [id EXCEPT ![e] = x]
    /\ UNCHANGED <<services, egress, rooms, ing, live, at, loc, apart, faults>>

Slot(e) == IF e \in ScreenSharing THEN "screen" ELSE "main"

\* publishParticipantImpl
TestPublish(e) ==
    /\ pc[e] = "publish"
    /\ LET i == ingress[id[e]]
       IN  IF i = Nil \/ (i # Nil /\ ing[i][Slot(e)] # Nil)
           THEN Return(e) /\ id' = [id EXCEPT ![e] = Nil]
           ELSE /\ Goto(e, "create") /\ UNCHANGED id
                /\ loc' = [loc EXCEPT ![e] = [Blank EXCEPT !.ing = i]]
    /\ UNCHANGED <<tables, rooms, room, ing, live, at, apart, faults>>

CreatePublisher(e) ==
    /\ pc[e] = "create" /\ Return(e)
    /\ ing' = [ing EXCEPT ![loc[e].ing][Slot(e)] = e]
    /\ at' = [at EXCEPT ![e] = loc[e].ing]
    /\ UNCHANGED <<tables, rooms, room, live, id, apart, faults>>

----------------------------------------------------------------------------
(* ov3_publisher_disconnect. *)

\* Whoever is in the slot goes; an empty slot is an error.
Unpublish(e) ==
    /\ IsConnected(e) /\ ing[at[e]][Slot(e)] # Nil
    /\ Begin(e, "leaveIngress")
    /\ ing' = [ing EXCEPT ![at[e]][Slot(e)] = Nil]
    /\ at' = [at EXCEPT ![e] = Nil] /\ id' = [id EXCEPT ![e] = Nil]
    /\ loc' = [loc EXCEPT ![e].id = id[e]]
    /\ UNCHANGED <<tables, rooms, room, live, faults>>

Busy(i) == ing[i].main # Nil \/ ing[i].screen # Nil

LeaveIngress(e) ==
    /\ pc[e] = "leaveIngress"
    /\ LET i == ingress[loc[e].id]
       IN  \/ /\ i = Nil \/ (i # Nil /\ Busy(i))
              /\ Return(e) /\ UNCHANGED faults
           \/ /\ i # Nil /\ ~Busy(i)
              /\ \E done \in BOOLEAN :
                    /\ Removal(done)
                    /\ IF done
                       THEN /\ Goto(e, "deleteIngress")
                            /\ loc' = [loc EXCEPT ![e].ing = i, ![e].room = ing[i].room]
                       ELSE Return(e)
    /\ UNCHANGED <<tables, rooms, room, ing, live, id, at, apart>>

\* Mutant: the cache of root keeps the ingress.
DeleteIngressOfRoom(e) ==
    /\ pc[e] = "deleteIngress" /\ room[loc[e].room].lock = Nil
    /\ Goto(e, "testRoom")
    /\ room' = [room EXCEPT ![loc[e].room].ingress[loc[e].id] = Nil]
    /\ loc' = [loc EXCEPT ![e].ing = Nil]
    /\ UNCHANGED <<tables, rooms, ing, live, id, at, apart, faults>>

DeleteIngress(e) ==
    /\ pc[e] = "deleteIngress" /\ room[loc[e].room].lock = Nil
    /\ Goto(e, "testRoom")
    /\ room' = [room EXCEPT ![loc[e].room].ingress[loc[e].id] = Nil]
    /\ ingress' = [ingress EXCEPT ![loc[e].id] = Nil]
    /\ loc' = [loc EXCEPT ![e].ing = Nil]
    /\ UNCHANGED <<services, egress, rooms, ing, live, id, at, apart, faults>>

\* Mutant: subscriptions are not looked at.
TestIngressOnly(e) ==
    /\ pc[e] = "testRoom"
    /\ IF room[loc[e].room].ingress = NoIngress
       THEN Goto(e, "hangUp") /\ UNCHANGED loc
       ELSE Return(e)
    /\ UNCHANGED <<tables, rooms, room, ing, live, id, at, apart, faults>>

\* Without the room's lock.
TestRoom(e) ==
    /\ pc[e] = "testRoom"
    /\ LET r == room[loc[e].room]
       IN  IF r.ingress = NoIngress /\ r.subs = <<>>
           THEN Goto(e, "hangUp") /\ UNCHANGED loc
           ELSE Return(e)
    /\ UNCHANGED <<tables, rooms, room, ing, live, id, at, apart, faults>>

\* The room may never have been joined for egress: the call panics, which
\* disconnectFromRoom recovers from.
HangUp(e) ==
    /\ pc[e] = "hangUp"
    /\ LET c == room[loc[e].room].conn
       IN  IF c = Nil THEN Return(e) /\ UNCHANGED live
           ELSE Goto(e, "deleteRoom") /\ HangsUp(c)
    /\ UNCHANGED <<tables, rooms, room, ing, id, at, apart, faults>>

----------------------------------------------------------------------------
ConnectSteps(e) == Connect(e) \/ AddService(e) \/ GetRoom(e) \/ AddRoom(e)

SubscriberSteps(e) ==
    \/ TestEgress(e) \/ MakeRoomConnection(e) \/ JoinWithToken(e) \/ SetEgressId(e)
    \/ AddEgress(e) \/ Answer(e) \/ Subscribe(e) \/ AddSubscriber(e) \/ Unsubscribe(e)

PublisherSteps(e) ==
    \/ GetIngressByParticipant(e) \/ JoinIngress(e) \/ AddIngress(e) \/ TestPublish(e)
    \/ CreatePublisher(e) \/ Unpublish(e) \/ LeaveIngress(e) \/ DeleteIngress(e)
    \/ TestRoom(e) \/ HangUp(e)

LeaveSteps(t) ==
    \/ GetEgress(t) \/ LeaveEgress(t) \/ Disconnect(t) \/ RemoveEgress(t)
    \/ DeleteRoom(t) \/ TestService(t) \/ DeleteService(t)

Next == \/ \E e \in Elements : ConnectSteps(e)
        \/ \E e \in Subscribers : SubscriberSteps(e)
        \/ \E e \in Publishers : PublisherSteps(e)
        \/ \E t \in Threads : LeaveSteps(t)
        \/ \E c \in EgressIds : Drop(c) \/ LkDisconnected(c) \/ Shed(c) \/ Evict(c)

Spec == Init /\ [][Next]_vars

----------------------------------------------------------------------------
(* Properties. *)

\* Calls come one after the other and LiveKit does what it is asked.
quiet == apart /\ faults = 0

\* A subscriber that leaves never closes the connection under another: from
\* the test of the subscriptions until the room's lock is released, nobody
\* gets into the room.  Holds for any overlapping of calls and callbacks.
ClosesEmptyRoom ==
    \A t \in Threads, r \in Rooms : room[r].lock = t => room[r].subs = <<>>

NameOf(c) == room[loc[c].room].name

\* README.md:58: "if many subscriptions are made to the same session a single
\* connection is used".
OneConnection == \A c, d \in live : NameOf(c) = NameOf(d) => c = d

\* It is, as long as calls do not overlap and LiveKit does what it is asked.
OneConnectionInQuiet == quiet => OneConnection

Connected(e) ==
    LET r == at[e]
    IN  /\ services # Nil /\ rooms[services][RoomName[e]] = r
        /\ e \in Range(room[r].subs)
        /\ room[r].egressId \in live /\ room[r].egressId = id[e]
        /\ egress[id[e]] = r

\* Until then, too, a subscriber that has got its subscription keeps the open
\* connection, the room of the service's table and the id: whatever the other
\* subscribers and publishers of the room do.
StaysConnected == quiet => \A e \in Subscribers : at[e] # Nil => Connected(e)

\* "We have been disconnected, so we remove the connection from table"
\* (ov3room.go:204): no lost connection is left there after its callback.
LostIsRemoved ==
    apart /\ (\A t \in Threads : pc[t] = "idle")
      => \A c \in EgressIds : egress[c] # Nil => c \in live

\* When all elements are gone, so are the connections and their ids (but not
\* always the room, see HangUp).
NothingLeft ==
    quiet /\ (\A t \in Threads : pc[t] = "idle") /\ (\A e \in Elements : at[e] = Nil)
      => live = {} /\ egress = [c \in EgressIds |-> Nil] /\ ingress = NoIngress

\* A publisher publishes into the room it is for, as the participant it is for.
\* ov3room.go:89 keeps the ingresses of each room, and ov3room.go:92 "to ease
\* location" a cache of them, which is to find the same ingress: it
\* does unless a participant id is used in two rooms.
PublishesInItsRoom ==
    quiet => \A e \in Publishers :
                at[e] # Nil => /\ room[ing[at[e]].room].name = RoomName[e]
                               /\ Participant[e] \in {Nil, ing[at[e]].id}
=============================================================================
