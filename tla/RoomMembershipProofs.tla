------------------------ MODULE RoomMembershipProofs ------------------------
(***************************************************************************)
(* Who is attached to what, for every number of threads, participants and  *)
(* objects: the subscribers that clients can name are served, the room     *)
(* implements StreamMembership, no subscriber stays without a pipeline and *)
(* no publication is missed.                                               *)
(***************************************************************************)
EXTENDS RoomSubscriptionsProofs

----------------------------------------------------------------------------
(* The invariant.  Whatever changes the table of subscriptions or who is    *)
(* attached to one is done in the room's lock.                              *)

\* Labels at which a thread has the room's lock.
Locking == {"lookup", "make", "request", "record", "append", "destroy", "detach",
            "unwire", "release", "drop", "check", "recheck", "leave"}

\* It brings a subscriber to a subscription ...
Arriving(th) == \/ pc[th] \in {"make", "append"}
                \/ pc[th] \in {"request", "record"} /\ loc[th].after = "append"

\* ... or takes one away whose last subscriber has left.
Emptied(th) == pc[th] \in {"unwire", "release", "drop"}

\* It is the only one that knows of its subscriber.
Owning(th) == pc[th] \in {"build", "checkVideo", "buildVideo", "register",
                          "lockRoom", "destroy", "detach"}

InTable(s) == /\ s \in Subscriptions /\ subs[s].key \in Keys
              /\ subscriptions[subs[s].key] = s

Attached(u) == /\ user[u].subscription \in Subscriptions
               /\ u \in subs[user[u].subscription].attached

ThreadInv(th) ==
    /\ pc[th] \in Locking => roomLock = th
    /\ pc[th] = "lookup" \/ Arriving(th) => user[loc[th].user].subscription = Nil
    /\ Arriving(th) \/ Emptied(th) => InTable(loc[th].subs)
    /\ Emptied(th) => subs[loc[th].subs].attached = {}
    /\ Owning(th) => /\ Attached(loc[th].user)
                     /\ loc[th].user \notin rootSubscribers
    /\ Owning(th) /\ pc[th] # "detach" => user[loc[th].user].bin
    /\ pc[th] \in {"destroy", "detach"} => loc[th].subs = user[loc[th].user].subscription

OwnersApart == \A x, y \in Threads :
    x # y /\ Owning(x) /\ Owning(y) => loc[x].user # loc[y].user

TableKeys == \A key \in Keys :
    subscriptions[key] # Nil => subs[subscriptions[key]].key = key

Homes == \A s \in Subscriptions : \A u \in subs[s].attached :
            user[u].subscription = s /\ InTable(s)

Registered == \A u \in rootSubscribers : Attached(u) /\ user[u].bin

Filled == \A key \in Keys :
    subscriptions[key] # Nil /\ subs[subscriptions[key]].attached = {} =>
        /\ roomLock \in Threads
        /\ Arriving(roomLock) \/ Emptied(roomLock)
        /\ loc[roomLock].subs = subscriptions[key]

MembersInv == /\ \A th \in Threads : ThreadInv(th)
              /\ OwnersApart /\ TableKeys /\ Homes /\ Registered /\ Filled

\* What it reads of the subscriptions and subscribers stays.
SameObjects ==
    /\ UNCHANGED subscriptions
    /\ \A s \in Subscriptions : /\ subs'[s].key = subs[s].key
                                /\ subs'[s].attached = subs[s].attached
    /\ \A u \in Subscribers : /\ user'[u].subscription = user[u].subscription
                              /\ user'[u].bin = user[u].bin

Settled == SameObjects /\ UNCHANGED rootSubscribers

LEMMA GoMoves ==
    ASSUME TInv, NEW th \in Threads, NEW label, NEW l, Go(th, label, l)
    PROVE  /\ pc'[th] = label /\ loc'[th] = l
           /\ \A x \in Threads : x # th => pc'[x] = pc[x] /\ loc'[x] = loc[x]
BY DEF TInv, TypeOK, Go

\* The objects that a thread works on.
LEMMA ObjectsOf ==
    ASSUME TInv, NEW th \in Threads
    PROVE  /\ Arriving(th) \/ Emptied(th) => loc[th].subs \in Subscriptions
           /\ pc[th] \in {"destroy", "detach"} => loc[th].subs \in Subscriptions
           /\ pc[th] = "lookup" \/ Arriving(th) \/ Owning(th) => loc[th].user \in Subscribers
           /\ Nil \notin Threads /\ Nil \notin Subscriptions
           /\ subscriptions \in [Keys -> Maybe(Subscriptions)]
           /\ rootSubscribers \subseteq Subscribers
           /\ \A s \in Subscriptions : subs[s].attached \subseteq Subscribers
BY LocalsOf, NilAssumption
DEF Arriving, Emptied, Owning, LocatedAt, AtSubs, AtUser, DataTyped, SubscriptionType

\* A thread that does not step.
LEMMA OtherKept ==
    ASSUME TInv, MembersInv, SameObjects, NEW x \in Threads, pc'[x] = pc[x], loc'[x] = loc[x],
           roomLock = x => roomLock' = x, Owning(x) => loc[x].user \notin rootSubscribers'
    PROVE  ThreadInv(x)'
<1>1. ThreadInv(x)
  BY DEF MembersInv
<1>2. /\ Arriving(x)' = Arriving(x) /\ Emptied(x)' = Emptied(x) /\ Owning(x)' = Owning(x)
  BY DEF Arriving, Emptied, Owning
<1>3. pc[x] \in {"destroy", "detach"} => Owning(x)
  BY DEF Owning
<1>4. pc[x] = "lookup" \/ Arriving(x) \/ Owning(x) => loc[x].user \in Subscribers
  BY ObjectsOf
<1>5. (pc[x] \in Locking => roomLock = x)'
  BY <1>1 DEF ThreadInv, Locking
<1>6. (pc[x] = "lookup" \/ Arriving(x) => user[loc[x].user].subscription = Nil)'
  BY <1>1, <1>2, <1>4 DEF ThreadInv, SameObjects
<1>7. (Arriving(x) \/ Emptied(x) => InTable(loc[x].subs))'
  BY <1>1, <1>2 DEF ThreadInv, SameObjects, InTable
<1>8. (Emptied(x) => subs[loc[x].subs].attached = {})'
  BY <1>1, <1>2, ObjectsOf DEF ThreadInv, SameObjects
<1>9. (Owning(x) => Attached(loc[x].user) /\ loc[x].user \notin rootSubscribers)'
  BY <1>1, <1>2, <1>4 DEF ThreadInv, SameObjects, Attached
<1>10. (Owning(x) /\ pc[x] # "detach" => user[loc[x].user].bin)'
  BY <1>1, <1>2, <1>4 DEF ThreadInv, SameObjects
<1>11. (pc[x] \in {"destroy", "detach"} => loc[x].subs = user[loc[x].user].subscription)'
  BY <1>1, <1>3, <1>4 DEF ThreadInv, SameObjects
<1> QED
  BY <1>5, <1>6, <1>7, <1>8, <1>9, <1>10, <1>11 DEF ThreadInv

\* A step that changes neither the table nor who is attached keeps the
\* invariant if the thread that takes it is as ThreadInv says afterwards.
LEMMA FrameKept ==
    ASSUME TInv, MembersInv, Settled, NEW th \in Threads,
           \A x \in Threads : x # th => pc'[x] = pc[x] /\ loc'[x] = loc[x],
           roomLock' = roomLock \/ roomLock \in {Nil, th},
           ThreadInv(th)',
           Owning(th)' => Owning(th) /\ loc'[th].user = loc[th].user,
           Arriving(th) \/ Emptied(th) => /\ roomLock' = roomLock
                                          /\ (Arriving(th) \/ Emptied(th))'
                                          /\ loc'[th].subs = loc[th].subs
    PROVE  Settled /\ MembersInv'
<1>0. Nil \notin Threads /\ Nil \notin Subscriptions
  BY ObjectsOf
<1>1. \A x \in Threads : ThreadInv(x)'
  <2> SUFFICES ASSUME NEW x \in Threads, x # th PROVE ThreadInv(x)'
    OBVIOUS
  <2>1. Owning(x) => loc[x].user \notin rootSubscribers'
    BY DEF MembersInv, ThreadInv, Settled
  <2>2. SameObjects /\ pc'[x] = pc[x] /\ loc'[x] = loc[x] /\ (roomLock = x => roomLock' = x)
    BY <1>0 DEF Settled
  <2> QED
    BY <2>1, <2>2, OtherKept
<1>2. OwnersApart'
  <2> SUFFICES ASSUME NEW x \in Threads, NEW y \in Threads, x # y, Owning(x)', Owning(y)'
               PROVE  loc'[x].user # loc'[y].user
    BY DEF OwnersApart
  <2>1. /\ Owning(x) /\ loc'[x].user = loc[x].user
        /\ Owning(y) /\ loc'[y].user = loc[y].user
    BY DEF Owning
  <2> QED
    BY <2>1 DEF MembersInv, OwnersApart
<1>3. TableKeys'
  BY ObjectsOf DEF MembersInv, TableKeys, Settled, SameObjects, Maybe
<1>4. Homes'
  BY ObjectsOf DEF MembersInv, Homes, Settled, SameObjects, InTable
<1>5. Registered'
  BY ObjectsOf DEF MembersInv, Registered, Settled, SameObjects, Attached
<1>6. Filled'
  <2> SUFFICES ASSUME NEW key \in Keys, subscriptions'[key] # Nil,
                      subs'[subscriptions'[key]].attached = {}
               PROVE  /\ roomLock' \in Threads
                      /\ (Arriving(roomLock) \/ Emptied(roomLock))'
                      /\ loc'[roomLock'].subs = subscriptions'[key]
    BY DEF Filled
  <2>1. /\ subscriptions'[key] = subscriptions[key]
        /\ subscriptions[key] \in Subscriptions
        /\ subs[subscriptions[key]].attached = {}
    BY ObjectsOf DEF Settled, SameObjects, Maybe
  <2>2. /\ roomLock \in Threads
        /\ Arriving(roomLock) \/ Emptied(roomLock)
        /\ loc[roomLock].subs = subscriptions[key]
    BY <2>1 DEF MembersInv, Filled
  <2>3. CASE roomLock = th
    BY <2>1, <2>2, <2>3 DEF Arriving, Emptied
  <2>4. CASE roomLock # th
    <3>1. roomLock' = roomLock /\ pc'[roomLock] = pc[roomLock] /\ loc'[roomLock] = loc[roomLock]
      BY <1>0, <2>2, <2>4
    <3> QED
      BY <2>1, <2>2, <3>1 DEF Arriving, Emptied
  <2> QED
    BY <2>3, <2>4
<1> QED
  BY <1>1, <1>2, <1>3, <1>4, <1>5, <1>6 DEF MembersInv

----------------------------------------------------------------------------
(* Steps that change neither.                                               *)

Aside == {"idle", "published", "connected", "unpublished", "unsubscribed",
          "subscribed", "wire", "wireVideo", "wireReady"}

\* A callback that is not in the room's lock, or leaves it.
LEMMA AsideKept ==
    ASSUME TInv, MembersInv, Settled, NEW th \in Threads, NEW label \in Aside, NEW l,
           Go(th, label, l), pc[th] \in Aside \cup {"leave"},
           roomLock' = roomLock \/ roomLock \in {Nil, th}
    PROVE  Settled /\ MembersInv'
<1>1. /\ pc'[th] = label
      /\ \A x \in Threads : x # th => pc'[x] = pc[x] /\ loc'[x] = loc[x]
  BY GoMoves
<1>2. /\ ~ Arriving(th) /\ ~ Emptied(th)
      /\ ~ Arriving(th)' /\ ~ Emptied(th)' /\ ~ Owning(th)'
      /\ pc'[th] \notin Locking /\ pc'[th] \notin {"destroy", "detach", "lookup"}
  BY <1>1 DEF Aside, Arriving, Emptied, Owning, Locking
<1>3. ThreadInv(th)'
  BY <1>2 DEF ThreadInv
<1> QED
  BY <1>1, <1>2, <1>3, FrameKept

\* A callback in the room's lock, or one that takes it.
LEMMA CallbackKept ==
    ASSUME TInv, MembersInv, Settled, NEW th \in Threads, NEW label, NEW l,
           Go(th, label, l), label \in {"check", "recheck", "leave", "request", "record"},
           label \in {"request", "record"} => l.after # "append",
           roomLock \in {Nil, th}, roomLock' = th, ~ Arriving(th), ~ Emptied(th)
    PROVE  Settled /\ MembersInv'
<1>1. /\ pc'[th] = label /\ loc'[th] = l
      /\ \A x \in Threads : x # th => pc'[x] = pc[x] /\ loc'[x] = loc[x]
  BY GoMoves
<1>2. /\ ~ Arriving(th)' /\ ~ Emptied(th)' /\ ~ Owning(th)'
      /\ pc'[th] \notin {"destroy", "detach", "lookup"}
  BY <1>1 DEF Arriving, Emptied, Owning
<1>3. ThreadInv(th)'
  BY <1>2 DEF ThreadInv
<1> QED
  BY <1>1, <1>2, <1>3, FrameKept

\* A thread goes on bringing its subscriber to its subscription.
LEMMA ArrivingKept ==
    ASSUME TInv, MembersInv, Settled, NEW th \in Threads, NEW label, NEW l,
           Go(th, label, l), Arriving(th), UNCHANGED roomLock,
           \/ label \in {"make", "append"}
           \/ label \in {"request", "record"} /\ l.after = "append",
           l.subs = loc[th].subs, l.user = loc[th].user
    PROVE  Settled /\ MembersInv'
<1>1. /\ pc'[th] = label /\ loc'[th] = l
      /\ \A x \in Threads : x # th => pc'[x] = pc[x] /\ loc'[x] = loc[x]
  BY GoMoves
<1>2. /\ Arriving(th)' /\ ~ Emptied(th)' /\ ~ Owning(th)'
      /\ pc'[th] \notin {"destroy", "detach"}
  BY <1>1 DEF Arriving, Emptied, Owning
<1>3. ThreadInv(th) /\ pc[th] \in Locking
  BY DEF MembersInv, Arriving, Locking
<1>4. (pc[th] \in Locking => roomLock = th)'
  BY <1>3 DEF ThreadInv
<1>5. (user[loc[th].user].subscription = Nil)'
  BY <1>1, <1>3, ObjectsOf DEF ThreadInv, Settled, SameObjects
<1>6. (InTable(loc[th].subs))'
  BY <1>1, <1>3 DEF ThreadInv, Settled, SameObjects, InTable
<1>7. ThreadInv(th)'
  BY <1>2, <1>4, <1>5, <1>6 DEF ThreadInv
<1> QED
  BY <1>1, <1>2, <1>7, FrameKept

\* A thread goes on building its subscriber.
LEMMA OwningKept ==
    ASSUME TInv, MembersInv, Settled, NEW th \in Threads, NEW label, NEW l,
           Go(th, label, l), UNCHANGED roomLock,
           pc[th] \in {"build", "checkVideo", "buildVideo"},
           label \in {"checkVideo", "buildVideo", "register"}, l.user = loc[th].user
    PROVE  Settled /\ MembersInv'
<1>1. /\ pc'[th] = label /\ loc'[th] = l
      /\ \A x \in Threads : x # th => pc'[x] = pc[x] /\ loc'[x] = loc[x]
  BY GoMoves
<1>2. /\ Owning(th) /\ ~ Arriving(th) /\ ~ Emptied(th)
      /\ Owning(th)' /\ ~ Arriving(th)' /\ ~ Emptied(th)'
      /\ pc[th] # "detach" /\ pc'[th] \notin Locking
      /\ pc'[th] \notin {"destroy", "detach", "lookup"}
  BY <1>1 DEF Arriving, Emptied, Owning, Locking
<1>3. ThreadInv(th) /\ loc[th].user \in Subscribers
  BY <1>2, ObjectsOf DEF MembersInv
<1>4. (Attached(loc[th].user) /\ loc[th].user \notin rootSubscribers)'
  BY <1>1, <1>2, <1>3 DEF ThreadInv, Settled, SameObjects, Attached
<1>5. (user[loc[th].user].bin)'
  BY <1>1, <1>2, <1>3 DEF ThreadInv, Settled, SameObjects
<1>6. ThreadInv(th)'
  BY <1>2, <1>4, <1>5 DEF ThreadInv
<1> QED
  BY <1>1, <1>2, <1>6, FrameKept

\* A thread goes on taking an empty subscription down.
LEMMA EmptiedKept ==
    ASSUME TInv, MembersInv, Settled, NEW th \in Threads, NEW label, NEW l,
           Go(th, label, l), Emptied(th), UNCHANGED roomLock,
           label \in {"unwire", "release", "drop"}, l.subs = loc[th].subs
    PROVE  Settled /\ MembersInv'
<1>1. /\ pc'[th] = label /\ loc'[th] = l
      /\ \A x \in Threads : x # th => pc'[x] = pc[x] /\ loc'[x] = loc[x]
  BY GoMoves
<1>2. /\ Emptied(th)' /\ ~ Arriving(th)' /\ ~ Owning(th)' /\ ~ Owning(th)
      /\ pc'[th] \notin {"destroy", "detach", "lookup"}
  BY <1>1 DEF Arriving, Emptied, Owning
<1>3. ThreadInv(th) /\ pc[th] \in Locking
  BY DEF MembersInv, Emptied, Locking
<1>4. (pc[th] \in Locking => roomLock = th)'
  BY <1>3 DEF ThreadInv
<1>5. (InTable(loc[th].subs))'
  BY <1>1, <1>3 DEF ThreadInv, Settled, SameObjects, InTable
<1>6. (subs[loc[th].subs].attached = {})'
  BY <1>1, <1>3, ObjectsOf DEF ThreadInv, Settled, SameObjects
<1>7. ThreadInv(th)'
  BY <1>2, <1>4, <1>5, <1>6 DEF ThreadInv
<1> QED
  BY <1>1, <1>2, <1>7, FrameKept

\* Requests for tracks.
LEMMA LockHeld ==
    ASSUME MembersInv, NEW th \in Threads, pc[th] \in Locking PROVE roomLock = th
BY DEF MembersInv, ThreadInv

LEMMA SettledAlone ==
    UNCHANGED <<subscriptions, rootSubscribers, subs, user>> => Settled
BY DEF Settled, SameObjects

LEMMA GoesOnKept ==
    ASSUME TInv, MembersInv, Settled, NEW th \in Threads, NEW label, NEW l,
           Go(th, label, l), pc[th] \in {"request", "record"}, UNCHANGED roomLock,
           label \in {"request", "record", loc[th].after}, l.after = loc[th].after,
           l.subs = loc[th].subs, l.user = loc[th].user
    PROVE  Settled /\ MembersInv'
<1>1. roomLock = th /\ loc[th].after \in {"append", "recheck", "leave"}
  BY LockHeld, LocalsOf DEF Locking, LocalsType
<1>2. CASE loc[th].after = "append"
  BY <1>1, <1>2, ArrivingKept DEF Arriving
<1>3. CASE loc[th].after # "append"
  BY <1>1, <1>3, CallbackKept DEF Arriving, Emptied
<1> QED
  BY <1>2, <1>3

LEMMA RequestKept ==
    ASSUME TInv, MembersInv, NEW th \in Threads, Request(th)
    PROVE  Settled /\ MembersInv'
<1> DEFINE left == loc[th].todo \ {FirstKind(loc[th].todo)}
           l == [loc[th] EXCEPT !.todo = left]
<1>1. /\ Settled /\ UNCHANGED roomLock /\ pc[th] \in {"request", "record"}
      /\ \/ Go(th, "record", loc[th])
         \/ Go(th, IF left = {} THEN loc[th].after ELSE "request", l)
  BY SettledAlone DEF Request, tables
<1>2. l.after = loc[th].after /\ l.subs = loc[th].subs /\ l.user = loc[th].user
  BY LocalsOf DEF LocalsType
<1> HIDE DEF left, l
<1> QED
  BY <1>1, <1>2, GoesOnKept

LEMMA RecordKept ==
    ASSUME TInv, MembersInv, NEW th \in Threads, Record(th)
    PROVE  Settled /\ MembersInv'
<1> DEFINE left == loc[th].todo \ {FirstKind(loc[th].todo)}
           l == [loc[th] EXCEPT !.todo = left]
<1>1. /\ Settled /\ UNCHANGED roomLock /\ pc[th] \in {"request", "record"}
      /\ Go(th, IF left = {} THEN loc[th].after ELSE "request", l)
  BY SettledAlone DEF Record
<1>2. l.after = loc[th].after /\ l.subs = loc[th].subs /\ l.user = loc[th].user
  BY LocalsOf DEF LocalsType
<1> HIDE DEF left, l
<1> QED
  BY <1>1, <1>2, GoesOnKept

\* Checking tracks changes what a subscription subscribes to, not for whom.
LEMMA CheckedGoes ==
    ASSUME TInv, NEW th \in Threads, NEW s \in Subscriptions, NEW old, NEW after,
           CheckTracks(th, s, old, after), UNCHANGED <<subscriptions, rootSubscribers, user>>
    PROVE  /\ Settled
           /\ \E label \in {after, "request"} : \E l :
                 /\ Go(th, label, l) /\ l.subs = s /\ l.after = after
                 /\ l.user = loc[th].user
<1>1. PICK pick \in Checked(s) :
        LET todo == {k \in Kinds : k \in Changed(s)}
        IN  /\ subs' = [subs EXCEPT ![s].track = pick]
            /\ Go(th, IF todo = {} THEN after ELSE "request",
                  [loc[th] EXCEPT !.subs = s, !.old = old,
                                  !.todo = todo, !.after = after])
  BY DEF CheckTracks
<1> DEFINE todo == {k \in Kinds : k \in Changed(s)}
           l == [loc[th] EXCEPT !.subs = s, !.old = old, !.todo = todo, !.after = after]
<1>2. l.subs = s /\ l.after = after /\ l.user = loc[th].user
  BY LocalsOf DEF LocalsType
<1>3. \A x \in Subscriptions : subs'[x].key = subs[x].key /\ subs'[x].attached = subs[x].attached
  BY <1>1, LocalsOf DEF DataTyped, SubscriptionType
<1> QED
  BY <1>1, <1>2, <1>3 DEF Settled, SameObjects

LEMMA MakeSubscriptionKept ==
    ASSUME TInv, MembersInv, NEW c \in Threads, MakeSubscription(c)
    PROVE  Settled /\ MembersInv'
<1>1. loc[c].subs \in Subscriptions /\ Arriving(c) /\ UNCHANGED roomLock
  BY LocalsOf DEF MakeSubscription, LocatedAt, AtSubs, Arriving
<1>2. CASE CheckTracks(c, loc[c].subs, NoTracks, "append")
  <2>1. /\ Settled
        /\ \E label \in {"append", "request"} : \E l :
              /\ Go(c, label, l) /\ l.subs = loc[c].subs /\ l.after = "append"
              /\ l.user = loc[c].user
    BY <1>1, <1>2, CheckedGoes DEF MakeSubscription, tables
  <2> QED
    BY <1>1, <2>1, ArrivingKept
<1>3. CASE Go(c, "append", loc[c]) /\ UNCHANGED subs
  BY <1>1, <1>3, ArrivingKept, SettledAlone DEF MakeSubscription, tables
<1> QED
  BY <1>2, <1>3 DEF MakeSubscription

\* Calls of clients.
LEMMA SubscribeKept ==
    ASSUME TInv, MembersInv, NEW c \in Threads, NEW key \in Keys, Subscribe(c, key)
    PROVE  Settled /\ MembersInv'
<1>1. PICK u \in Subscribers : Unused(u) /\ Go(c, "lookup", [NoLocals EXCEPT !.key = key, !.user = u])
  BY DEF Subscribe
<1> DEFINE l == [NoLocals EXCEPT !.key = key, !.user = u]
<1>2. l.user = u
  BY DEF NoLocals
<1>3. /\ pc'[c] = "lookup" /\ loc'[c] = l
      /\ \A x \in Threads : x # c => pc'[x] = pc[x] /\ loc'[x] = loc[x]
  BY <1>1, GoMoves
<1>4. /\ Settled /\ roomLock = Nil /\ roomLock' = c /\ pc[c] = "idle"
  BY SettledAlone DEF Subscribe, tables, FreeRoom
<1>5. /\ ~ Arriving(c) /\ ~ Emptied(c)
      /\ ~ Arriving(c)' /\ ~ Emptied(c)' /\ ~ Owning(c)'
      /\ pc'[c] \notin {"destroy", "detach"}
  BY <1>3, <1>4 DEF Arriving, Emptied, Owning
<1>6. (user[loc[c].user].subscription = Nil)'
  BY <1>1, <1>2, <1>3, <1>4 DEF Unused, Settled, SameObjects
<1>7. ThreadInv(c)'
  BY <1>4, <1>5, <1>6 DEF ThreadInv
<1> QED
  BY <1>3, <1>4, <1>5, <1>7, FrameKept

LEMMA ReuseSubscriptionKept ==
    ASSUME TInv, MembersInv, NEW c \in Threads, ReuseSubscription(c)
    PROVE  Settled /\ MembersInv'
<1> DEFINE s == subscriptions[loc[c].key]
           l == [loc[c] EXCEPT !.subs = s]
<1>1. /\ pc[c] = "lookup" /\ s # Nil /\ Settled /\ UNCHANGED roomLock /\ Go(c, "append", l)
  BY SettledAlone DEF ReuseSubscription, tables
<1>2. l.subs = s /\ l.user = loc[c].user /\ loc[c].user \in Subscribers /\ loc[c].key \in Keys
  BY <1>1, LocalsOf DEF LocatedAt, AtUser, AtKey, LocalsType
<1>3. /\ pc'[c] = "append" /\ loc'[c] = l
      /\ \A x \in Threads : x # c => pc'[x] = pc[x] /\ loc'[x] = loc[x]
  <2> HIDE DEF l
  <2> QED BY <1>1, GoMoves
<1>4. s \in Subscriptions /\ InTable(s)
  BY <1>1, <1>2, ObjectsOf DEF Maybe, MembersInv, TableKeys, InTable
<1>5. /\ ~ Arriving(c) /\ ~ Emptied(c) /\ ThreadInv(c) /\ roomLock = c
      /\ Arriving(c)' /\ ~ Emptied(c)' /\ ~ Owning(c)'
      /\ pc'[c] \notin {"destroy", "detach"}
  BY <1>1, <1>3, LockHeld DEF Arriving, Emptied, Owning, MembersInv, Locking
<1>6. (user[loc[c].user].subscription = Nil)'
  BY <1>1, <1>2, <1>3, <1>5 DEF ThreadInv, Settled, SameObjects
<1>7. (InTable(loc[c].subs))'
  BY <1>1, <1>2, <1>3, <1>4 DEF Settled, SameObjects, InTable
<1>8. ThreadInv(c)'
  BY <1>1, <1>5, <1>6, <1>7 DEF ThreadInv
<1> QED
  BY <1>1, <1>3, <1>5, <1>8, FrameKept

LEMMA RemoveSubscriberKept ==
    ASSUME TInv, MembersInv, NEW c \in Threads, RemoveSubscriber(c)
    PROVE  Settled /\ MembersInv'
<1> DEFINE l == [loc[c] EXCEPT !.subs = user[loc[c].user].subscription]
<1>1. /\ pc[c] = "lockRoom" /\ roomLock = Nil /\ roomLock' = c
      /\ Settled /\ Go(c, "destroy", l)
  BY SettledAlone DEF RemoveSubscriber, tables, FreeRoom
<1>2. /\ l.subs = user[loc[c].user].subscription /\ l.user = loc[c].user
      /\ loc[c].user \in Subscribers
  BY <1>1, LocalsOf DEF LocatedAt, AtUser, LocalsType
<1>3. /\ pc'[c] = "destroy" /\ loc'[c] = l
      /\ \A x \in Threads : x # c => pc'[x] = pc[x] /\ loc'[x] = loc[x]
  <2> HIDE DEF l
  <2> QED BY <1>1, GoMoves
<1>4. /\ ~ Arriving(c) /\ ~ Emptied(c) /\ ThreadInv(c) /\ Owning(c) /\ pc[c] # "detach"
      /\ ~ Arriving(c)' /\ ~ Emptied(c)' /\ pc'[c] # "lookup"
  BY <1>1, <1>3 DEF Arriving, Emptied, Owning, MembersInv
<1>5. (Attached(loc[c].user) /\ loc[c].user \notin rootSubscribers)'
  BY <1>1, <1>2, <1>3, <1>4 DEF ThreadInv, Settled, SameObjects, Attached
<1>6. (user[loc[c].user].bin)'
  BY <1>1, <1>2, <1>3, <1>4 DEF ThreadInv, Settled, SameObjects
<1>7. (loc[c].subs = user[loc[c].user].subscription)'
  BY <1>1, <1>2, <1>3 DEF Settled, SameObjects
<1>8. ThreadInv(c)'
  BY <1>1, <1>4, <1>5, <1>6, <1>7 DEF ThreadInv
<1> QED
  BY <1>1, <1>2, <1>3, <1>4, <1>8, FrameKept

\* A change to one subscriber that leaves its subscription and its bins.
LEMMA UserSettles ==
    ASSUME TInv, NEW u \in Subscribers, NEW r, user' = [user EXCEPT ![u] = r],
           r.subscription = user[u].subscription, r.bin = user[u].bin,
           UNCHANGED <<subscriptions, rootSubscribers, subs>>
    PROVE  Settled
BY DEF Settled, SameObjects, TInv, TypeOK

LEMMA BuildAudioKept ==
    ASSUME TInv, MembersInv, NEW c \in Threads, BuildAudio(c)
    PROVE  Settled /\ MembersInv'
<1> DEFINE u == loc[c].user
           needed == subs[loc[c].subs].writer["audio"] # Nil /\ ~ user[u].ready["audio"]
           r == [(IF needed THEN Built(user[u], "audio") ELSE user[u]) EXCEPT !.lock = c]
<1>1. u \in Subscribers /\ user[u] \in SubscriberType
  BY LocalsOf DEF BuildAudio, LocatedAt, AtUser, DataTyped
<1>2. user' = [user EXCEPT ![u] = r]
  BY <1>1, LocalsOf DEF BuildAudio, DataTyped
<1>3. r.subscription = user[u].subscription /\ r.bin = user[u].bin
  BY <1>1 DEF Built, SubscriberType
<1>4. Settled
  <2> HIDE DEF r, u
  <2> QED BY <1>1, <1>2, <1>3, UserSettles DEF BuildAudio, tables
<1> QED
  BY <1>4, OwningKept DEF BuildAudio

LEMMA CheckVideoKept ==
    ASSUME TInv, MembersInv, NEW c \in Threads, CheckVideo(c)
    PROVE  Settled /\ MembersInv'
<1> DEFINE u == loc[c].user
           needed == subs[loc[c].subs].writer["video"] # Nil /\ ~ user[u].ready["video"]
           r == [user[u] EXCEPT !.lock = Nil, !.ready["video"] = user[u].ready["video"] \/ needed]
<1>1. u \in Subscribers /\ user[u] \in SubscriberType
  BY LocalsOf DEF CheckVideo, LocatedAt, AtUser, DataTyped
<1>2. CASE UNCHANGED user /\ Go(c, "buildVideo", loc[c])
  BY <1>2, SettledAlone, OwningKept DEF CheckVideo, tables
<1>3. CASE user' = [user EXCEPT ![u] = r] /\ Go(c, "register", loc[c])
  <2>1. r.subscription = user[u].subscription /\ r.bin = user[u].bin
    BY <1>1 DEF SubscriberType
  <2>2. Settled
    <3> HIDE DEF r, u
    <3> QED BY <1>1, <1>3, <2>1, UserSettles DEF CheckVideo, tables
  <2> QED
    BY <1>3, <2>2, OwningKept DEF CheckVideo
<1>4. \/ UNCHANGED user /\ Go(c, "buildVideo", loc[c])
      \/ user' = [user EXCEPT ![u] = r] /\ Go(c, "register", loc[c])
  BY <1>1, LocalsOf DEF CheckVideo, DataTyped
<1> QED
  BY <1>2, <1>3, <1>4

LEMMA BuildVideoKept ==
    ASSUME TInv, MembersInv, NEW c \in Threads, BuildVideo(c)
    PROVE  Settled /\ MembersInv'
<1> DEFINE u == loc[c].user
           r == [user[u] EXCEPT !.lock = Nil, !.ready["video"] = TRUE,
                                !.built["video"] = user[u].built["video"] + 1]
<1>1. u \in Subscribers /\ user[u] \in SubscriberType
  BY LocalsOf DEF BuildVideo, LocatedAt, AtUser, DataTyped
<1>2. user' = [user EXCEPT ![u] = r]
  BY <1>1, LocalsOf DEF BuildVideo, DataTyped
<1>3. r.subscription = user[u].subscription /\ r.bin = user[u].bin
  BY <1>1 DEF SubscriberType
<1>4. Settled
  <2> HIDE DEF r, u
  <2> QED BY <1>1, <1>2, <1>3, UserSettles DEF BuildVideo, tables
<1> QED
  BY <1>4, OwningKept DEF BuildVideo

\* The writer in a slot goes.
LEMMA BrokenSettles ==
    ASSUME TInv, NEW s \in Subscriptions, NEW k, NEW t, BreakWriter(s, k, t),
           UNCHANGED <<subscriptions, rootSubscribers, user>>
    PROVE  Settled
BY LocalsOf DEF BreakWriter, Settled, SameObjects, TInv, TypeOK, SubscriptionType

LEMMA UnwireKept ==
    ASSUME TInv, MembersInv, NEW c \in Threads, Unwire(c)
    PROVE  Settled /\ MembersInv'
<1> DEFINE s == loc[c].subs
           k == FirstKind(loc[c].todo)
           t == subs[s].track[k]
<1>1. s \in Subscriptions /\ Emptied(c) /\ UNCHANGED roomLock
  BY LocalsOf DEF Unwire, LocatedAt, AtSubs, Emptied
<1>2. CASE BreakWriter(s, k, Nil) /\ Go(c, "release", [loc[c] EXCEPT !.track = t])
  <2>1. Settled
    BY <1>1, <1>2, BrokenSettles DEF Unwire
  <2>2. [loc[c] EXCEPT !.track = t].subs = loc[c].subs
    BY LocalsOf DEF LocalsType
  <2> QED
    <3> DEFINE l == [loc[c] EXCEPT !.track = t]
    <3>1. l.subs = loc[c].subs /\ Go(c, "release", l)
      BY <1>2, <2>2
    <3> HIDE DEF l
    <3> QED BY <1>1, <2>1, <3>1, EmptiedKept
<1>3. CASE /\ UNCHANGED subs
           /\ Go(c, IF k = "audio" THEN "unwire" ELSE "drop", [loc[c] EXCEPT !.todo = @ \ {k}])
  <2> DEFINE l == [loc[c] EXCEPT !.todo = loc[c].todo \ {k}]
  <2>1. Settled /\ Go(c, IF k = "audio" THEN "unwire" ELSE "drop", l)
    BY <1>3, SettledAlone, LocalsOf DEF Unwire, LocalsType
  <2>2. l.subs = loc[c].subs
    BY LocalsOf DEF LocalsType
  <2> HIDE DEF l, k
  <2> QED BY <1>1, <2>1, <2>2, EmptiedKept
<1> QED
  BY <1>2, <1>3 DEF Unwire

LEMMA ReleaseKept ==
    ASSUME TInv, MembersInv, NEW c \in Threads, Release(c)
    PROVE  Settled /\ MembersInv'
<1> DEFINE k == FirstKind(loc[c].todo)
           l == [loc[c] EXCEPT !.track = Nil, !.todo = loc[c].todo \ {k}]
<1>1. /\ Settled /\ Emptied(c) /\ UNCHANGED roomLock
      /\ Go(c, IF k = "audio" THEN "unwire" ELSE "drop", l)
  BY SettledAlone, LocalsOf DEF Release, tables, Emptied, LocalsType
<1>2. l.subs = loc[c].subs
  BY LocalsOf DEF LocalsType
<1> HIDE DEF l, k
<1> QED
  BY <1>1, <1>2, EmptiedKept

\* Callbacks.
LEMMA ReturnKept ==
    ASSUME TInv, MembersInv, Settled, NEW h \in Threads, Return(h),
           pc[h] \in Aside \cup {"leave"}, roomLock' = roomLock \/ roomLock \in {Nil, h}
    PROVE  Settled /\ MembersInv'
<1>1. "idle" \in Aside /\ Go(h, "idle", NoLocals)
  BY DEF Return, Aside
<1> QED
  BY <1>1, AsideKept

LEMMA OnTrackPublishedKept ==
    ASSUME TInv, MembersInv, NEW h \in Threads, NEW t \in Tracks, OnTrackPublished(h, t)
    PROVE  Settled /\ MembersInv'
<1>1. Settled /\ UNCHANGED roomLock /\ pc[h] \in Aside /\ "published" \in Aside
  BY SettledAlone DEF OnTrackPublished, tables, Take, Aside
<1> DEFINE l == [NoLocals EXCEPT !.key = KeyOf(t), !.subs = subscriptions[KeyOf(t)]]
<1>2. Return(h) \/ Go(h, "published", l)
  BY DEF OnTrackPublished
<1> HIDE DEF l
<1> QED
  BY <1>1, <1>2, ReturnKept, AsideKept

LEMMA OnParticipantConnectedKept ==
    ASSUME TInv, MembersInv, NEW h \in Threads, NEW p, OnParticipantConnected(h, p)
    PROVE  Settled /\ MembersInv'
<1> DEFINE l == [NoLocals EXCEPT !.key = <<p, FALSE>>]
<1>1. /\ Settled /\ UNCHANGED roomLock /\ pc[h] \in Aside /\ "connected" \in Aside
      /\ Go(h, "connected", l)
  BY SettledAlone DEF OnParticipantConnected, tables, Take, Aside
<1> HIDE DEF l
<1> QED
  BY <1>1, AsideKept

LEMMA OnTrackEventKept ==
    ASSUME TInv, MembersInv, NEW h \in Threads, NEW type \in TrackEvents, NEW t \in Tracks,
           OnTrackEvent(h, type, t)
    PROVE  Settled /\ MembersInv'
<1> DEFINE l == [NoLocals EXCEPT !.subs = subscribedTracks[t], !.track = t]
<1>1. /\ Settled /\ UNCHANGED roomLock /\ pc[h] \in Aside /\ type \in Aside
      /\ Return(h) \/ Go(h, type, l)
  BY SettledAlone DEF OnTrackEvent, tables, Take, Aside, TrackEvents
<1> HIDE DEF l
<1> QED
  BY <1>1, ReturnKept, AsideKept

LEMMA CheckPublishedKept ==
    ASSUME TInv, MembersInv, NEW h \in Threads, CheckPublished(h)
    PROVE  Settled /\ MembersInv'
<1>1. /\ pc[h] = "published" /\ roomLock = Nil /\ roomLock' = h
      /\ loc[h].subs \in Subscriptions
  BY LocalsOf DEF CheckPublished, FreeRoom, LocatedAt, AtSubs
<1>2. ~ Arriving(h) /\ ~ Emptied(h)
  BY <1>1 DEF Arriving, Emptied
<1>3. /\ Settled
      /\ \E label \in {"leave", "request"} : \E l :
            /\ Go(h, label, l) /\ l.subs = loc[h].subs /\ l.after = "leave"
            /\ l.user = loc[h].user
  BY <1>1, CheckedGoes DEF CheckPublished, tables
<1> QED
  BY <1>1, <1>2, <1>3, CallbackKept

LEMMA LockConnectedKept ==
    ASSUME TInv, MembersInv, NEW h \in Threads, LockConnected(h)
    PROVE  Settled /\ MembersInv'
<1>1. /\ pc[h] = "connected" /\ roomLock = Nil /\ roomLock' = h /\ Settled
      /\ Go(h, "check", loc[h])
  BY SettledAlone DEF LockConnected, FreeRoom, tables
<1>2. ~ Arriving(h) /\ ~ Emptied(h)
  BY <1>1 DEF Arriving, Emptied
<1> QED
  BY <1>1, <1>2, CallbackKept

LEMMA CheckConnectedKept ==
    ASSUME TInv, MembersInv, NEW h \in Threads, CheckConnected(h)
    PROVE  Settled /\ MembersInv'
<1> DEFINE s     == subscriptions[loc[h].key]
           after == IF pc[h] = "check" THEN "recheck" ELSE "leave"
<1>1. /\ pc[h] \in {"check", "recheck"} /\ UNCHANGED roomLock
      /\ loc[h].key \in Keys /\ s \in Maybe(Subscriptions)
      /\ after \in {"recheck", "leave"}
  BY LocalsOf DEF CheckConnected, LocatedAt, AtKey, DataTyped
<1>2. ~ Arriving(h) /\ ~ Emptied(h) /\ roomLock = h
  BY <1>1, LockHeld DEF Arriving, Emptied, Locking
<1>3. CASE s = Nil
  <2>1. Settled /\ Go(h, after, loc[h])
    BY <1>3, SettledAlone DEF CheckConnected, tables
  <2> QED
    BY <1>1, <1>2, <2>1, CallbackKept
<1>4. CASE s # Nil
  <2>1. s \in Subscriptions /\ CheckTracks(h, s, subs[s].track, after)
    BY <1>1, <1>4 DEF CheckConnected, Maybe
  <2>2. UNCHANGED <<subscriptions, rootSubscribers, user>>
    BY DEF CheckConnected, tables
  <2> HIDE DEF s, after
  <2>3. /\ Settled
        /\ \E label \in {after, "request"} : \E l :
              /\ Go(h, label, l) /\ l.subs = s /\ l.after = after
              /\ l.user = loc[h].user
    BY <2>1, <2>2, CheckedGoes
  <2> QED
    BY <1>1, <1>2, <2>3, CallbackKept
<1> QED
  BY <1>3, <1>4

LEMMA LeaveKept ==
    ASSUME TInv, MembersInv, NEW h \in Threads, Leave(h)
    PROVE  Settled /\ MembersInv'
<1>1. /\ pc[h] = "leave" /\ Settled /\ Return(h)
  BY SettledAlone DEF Leave, tables
<1>2. roomLock = h
  BY <1>1, LockHeld DEF Locking
<1> QED
  BY <1>1, <1>2, ReturnKept

LEMMA UnpublishedKept ==
    ASSUME TInv, MembersInv, NEW h \in Threads, Unpublished(h)
    PROVE  Settled /\ MembersInv'
<1>1. pc[h] \in Aside /\ Settled /\ Return(h) /\ UNCHANGED roomLock
  BY SettledAlone DEF Unpublished, tables, Aside
<1> QED
  BY <1>1, ReturnKept

LEMMA UnsubscribedKept ==
    ASSUME TInv, MembersInv, NEW h \in Threads, Unsubscribed(h)
    PROVE  Settled /\ MembersInv'
<1>1. pc[h] \in Aside /\ Return(h) /\ UNCHANGED roomLock
  BY DEF Unsubscribed, Aside
<1>2. loc[h].subs \in Subscriptions
  BY LocalsOf DEF Unsubscribed, LocatedAt, AtSubs
<1>3. Settled
  BY <1>2, BrokenSettles DEF Unsubscribed, tables
<1> QED
  BY <1>1, <1>3, ReturnKept

LEMMA RefuseWriterKept ==
    ASSUME TInv, MembersInv, NEW h \in Threads, RefuseWriter(h)
    PROVE  Settled /\ MembersInv'
<1>1. pc[h] \in Aside /\ Settled /\ Return(h) /\ UNCHANGED roomLock
  BY SettledAlone DEF RefuseWriter, tables, Aside
<1> QED
  BY <1>1, ReturnKept

LEMMA CreateWriterKept ==
    ASSUME TInv, MembersInv, NEW h \in Threads, CreateWriter(h)
    PROVE  Settled /\ MembersInv'
<1> DEFINE s == loc[h].subs
           l == [loc[h] EXCEPT !.rest = subs[s].attached]
<1>1. /\ pc[h] \in Aside /\ "wire" \in Aside /\ UNCHANGED roomLock
      /\ Go(h, "wire", l) /\ s \in Subscriptions
  BY LocalsOf DEF CreateWriter, Aside, LocatedAt, AtSubs
<1>2. Settled
  BY <1>1, LocalsOf DEF CreateWriter, Settled, SameObjects, tables, DataTyped, SubscriptionType
<1> HIDE DEF l
<1> QED
  BY <1>1, <1>2, AsideKept

LEMMA WireAudioKept ==
    ASSUME TInv, MembersInv, NEW h \in Threads, NEW u \in Subscribers, WireAudio(h, u),
           ~ Panic
    PROVE  Settled /\ MembersInv'
<1>1. /\ pc[h] \in Aside /\ "wire" \in Aside /\ UNCHANGED roomLock
      /\ Go(h, "wire", Wired(h, u)) /\ user' = [user EXCEPT ![u] = Built(user[u], "audio")]
  BY LocalsOf DEF WireAudio, Wiring, Aside, DataTyped
<1>2. /\ Built(user[u], "audio").subscription = user[u].subscription
      /\ Built(user[u], "audio").bin = user[u].bin
  BY LocalsOf DEF Built, DataTyped, SubscriberType
<1>3. Settled
  BY <1>1, <1>2, UserSettles DEF WireAudio, tables
<1> QED
  BY <1>1, <1>3, AsideKept

LEMMA CheckWireVideoKept ==
    ASSUME TInv, MembersInv, NEW h \in Threads, NEW u \in Subscribers, CheckWireVideo(h, u)
    PROVE  Settled /\ MembersInv'
<1> DEFINE l == [loc[h] EXCEPT !.user = u]
           label == IF user[u].built["video"] = 0 THEN "wireVideo" ELSE "wireReady"
<1>1. /\ pc[h] \in Aside /\ label \in Aside /\ UNCHANGED roomLock /\ Settled
      /\ Go(h, label, l)
  BY SettledAlone DEF CheckWireVideo, Wiring, Aside, tables
<1> HIDE DEF l, label
<1> QED
  BY <1>1, AsideKept

LEMMA WireVideoKept ==
    ASSUME TInv, MembersInv, NEW h \in Threads, WireVideo(h), ~ Panic
    PROVE  Settled /\ MembersInv'
<1> DEFINE u == loc[h].user
           r == [user[u] EXCEPT !.built["video"] = user[u].built["video"] + 1]
<1>1. /\ pc[h] \in Aside /\ "wireReady" \in Aside /\ UNCHANGED roomLock
      /\ Go(h, "wireReady", loc[h]) /\ u \in Subscribers
  BY LocalsOf DEF WireVideo, Aside, LocatedAt, AtUser
<1>2. user' = [user EXCEPT ![u] = r]
  BY <1>1, LocalsOf DEF WireVideo, DataTyped
<1>3. r.subscription = user[u].subscription /\ r.bin = user[u].bin
  BY <1>1, LocalsOf DEF SubscriberType, DataTyped
<1>4. Settled
  <2> HIDE DEF r, u
  <2> QED BY <1>1, <1>2, <1>3, UserSettles DEF WireVideo, tables
<1> QED
  BY <1>1, <1>4, AsideKept

LEMMA WireReadyKept ==
    ASSUME TInv, MembersInv, NEW h \in Threads, WireReady(h)
    PROVE  Settled /\ MembersInv'
<1> DEFINE u == loc[h].user
           r == [user[u] EXCEPT !.ready["video"] = TRUE]
<1>1. /\ pc[h] \in Aside /\ "wire" \in Aside /\ UNCHANGED roomLock
      /\ Go(h, "wire", Wired(h, u)) /\ u \in Subscribers
  BY LocalsOf DEF WireReady, Aside, LocatedAt, AtUser
<1>2. user' = [user EXCEPT ![u] = r]
  BY <1>1, LocalsOf DEF WireReady, DataTyped
<1>3. r.subscription = user[u].subscription /\ r.bin = user[u].bin
  BY <1>1, LocalsOf DEF SubscriberType, DataTyped
<1>4. Settled
  <2> HIDE DEF r, u
  <2> QED BY <1>1, <1>2, <1>3, UserSettles DEF WireReady, tables
<1> QED
  BY <1>1, <1>4, AsideKept

LEMMA FinishWriterKept ==
    ASSUME TInv, MembersInv, NEW h \in Threads, FinishWriter(h)
    PROVE  Settled /\ MembersInv'
<1>1. pc[h] \in Aside /\ Return(h) /\ UNCHANGED roomLock
  BY DEF FinishWriter, Aside
<1>2. Settled
  BY LocalsOf DEF FinishWriter, Settled, SameObjects, tables, DataTyped, SubscriptionType
<1> QED
  BY <1>1, <1>2, ReturnKept

----------------------------------------------------------------------------
(* Steps that change the table, the members or the ids.                     *)

\* While one thread has the room's lock, the others only own subscribers.
LEMMA OthersOutside ==
    ASSUME MembersInv, NEW x \in Threads, roomLock # x
    PROVE  /\ pc[x] \notin Locking /\ ~ Arriving(x) /\ ~ Emptied(x)
           /\ pc[x] \notin {"lookup", "destroy", "detach"}
BY LockHeld DEF Arriving, Emptied, Locking

LEMMA OutsideKept ==
    ASSUME TInv, MembersInv, NEW x \in Threads, roomLock # x, pc'[x] = pc[x], loc'[x] = loc[x],
           Owning(x) => /\ loc[x].user \in Subscribers
                        /\ user'[loc[x].user].subscription = user[loc[x].user].subscription
                        /\ loc[x].user \in subs'[user[loc[x].user].subscription].attached
                        /\ loc[x].user \notin rootSubscribers'
                        /\ user'[loc[x].user].bin
    PROVE  ThreadInv(x)'
<1>1. /\ pc[x] \notin Locking /\ ~ Arriving(x) /\ ~ Emptied(x)
      /\ pc[x] \notin {"lookup", "destroy", "detach"} /\ ThreadInv(x)
  BY OthersOutside DEF MembersInv
<1>2. /\ ~ Arriving(x)' /\ ~ Emptied(x)' /\ Owning(x)' = Owning(x)
  BY <1>1 DEF Arriving, Emptied, Owning
<1>3. (Owning(x) => Attached(loc[x].user) /\ loc[x].user \notin rootSubscribers
                    /\ user[loc[x].user].bin)'
  BY <1>1, <1>2 DEF ThreadInv, Attached
<1> QED
  BY <1>1, <1>2, <1>3 DEF ThreadInv

\* What an owner outside the lock owns.
LEMMA OwnedBy ==
    ASSUME TInv, MembersInv, NEW x \in Threads, Owning(x)
    PROVE  /\ loc[x].user \in Subscribers /\ loc[x].user \notin rootSubscribers
           /\ user[loc[x].user].subscription \in Subscriptions
           /\ loc[x].user \in subs[user[loc[x].user].subscription].attached
           /\ pc[x] # "detach" => user[loc[x].user].bin
           /\ user[loc[x].user].subscription # Nil
BY ObjectsOf DEF MembersInv, ThreadInv, Attached

\* The owners stay apart if the thread that steps is not a new one.
LEMMA ApartKept ==
    ASSUME MembersInv, NEW th \in Threads,
           \A x \in Threads : x # th => pc'[x] = pc[x] /\ loc'[x] = loc[x],
           Owning(th)' => \A x \in Threads : x # th /\ Owning(x) => loc[x].user # loc'[th].user
    PROVE  OwnersApart'
<1> SUFFICES ASSUME NEW x \in Threads, NEW y \in Threads, x # y, Owning(x)', Owning(y)'
             PROVE  loc'[x].user # loc'[y].user
  BY DEF OwnersApart
<1>1. \A z \in Threads : z # th => Owning(z)' = Owning(z)
  BY DEF Owning
<1>2. CASE x # th /\ y # th
  BY <1>1, <1>2 DEF MembersInv, OwnersApart
<1>3. CASE x = th
  BY <1>1, <1>3
<1>4. CASE y = th
  BY <1>1, <1>4
<1> QED
  BY <1>2, <1>3, <1>4

LEMMA AddSubscriptionKept ==
    ASSUME TInv, MembersInv, NEW c \in Threads, AddSubscription(c)
    PROVE  MembersInv'
<1>1. PICK s \in Subscriptions :
          /\ subs[s].key = Nil
          /\ subs' = [subs EXCEPT ![s].key = loc[c].key]
          /\ subscriptions' = [subscriptions EXCEPT ![loc[c].key] = s]
          /\ Go(c, "make", [loc[c] EXCEPT !.subs = s])
  BY DEF AddSubscription
<1> DEFINE key == loc[c].key
           l == [loc[c] EXCEPT !.subs = s]
<1>2. /\ pc[c] = "lookup" /\ subscriptions[key] = Nil /\ key \in Keys
      /\ UNCHANGED <<rootSubscribers, roomLock, user>>
      /\ l.subs = s /\ l.user = loc[c].user /\ loc[c].user \in Subscribers
  BY LocalsOf DEF AddSubscription, LocatedAt, AtKey, AtUser, LocalsType
<1>3. /\ pc'[c] = "make" /\ loc'[c].subs = s /\ loc'[c].user = loc[c].user
      /\ \A x \in Threads : x # c => pc'[x] = pc[x] /\ loc'[x] = loc[x]
  <2>1. Go(c, "make", l)
    BY <1>1
  <2> HIDE DEF l
  <2> QED BY <1>2, <2>1, GoMoves
<1>4. /\ subs[s].key = Nil /\ subs'[s].key = key /\ subs'[s].attached = subs[s].attached
      /\ \A x \in Subscriptions : x # s => subs'[x] = subs[x]
      /\ \A x \in Subscriptions : subs'[x].attached = subs[x].attached
      /\ subscriptions'[key] = s
      /\ \A y \in Keys : y # key => subscriptions'[y] = subscriptions[y]
      /\ \A y \in Keys : subscriptions[y] # Nil => subscriptions[y] \in Subscriptions
      /\ Nil \notin Keys /\ Nil \notin Subscriptions /\ Nil \notin Threads
  BY <1>1, <1>2, LocalsOf, NilAssumption DEF DataTyped, SubscriptionType, Maybe
<1>5. /\ roomLock = c /\ ThreadInv(c) /\ ~ Arriving(c) /\ ~ Emptied(c)
      /\ Arriving(c)' /\ ~ Emptied(c)' /\ ~ Owning(c)' /\ pc'[c] # "lookup"
      /\ pc'[c] \notin {"destroy", "detach"}
  BY <1>2, <1>3, LockHeld DEF MembersInv, Arriving, Emptied, Owning, Locking
<1>6. ThreadInv(c)'
  <2>1. (user[loc[c].user].subscription = Nil)'
    BY <1>2, <1>3, <1>5 DEF ThreadInv
  <2>2. (InTable(loc[c].subs))'
    BY <1>2, <1>3, <1>4 DEF InTable
  <2>3. roomLock' = c
    BY <1>2, <1>5
  <2> QED
    BY <1>5, <2>1, <2>2, <2>3 DEF ThreadInv
<1>7. \A x \in Threads : ThreadInv(x)'
  <2> SUFFICES ASSUME NEW x \in Threads, x # c PROVE ThreadInv(x)'
    BY <1>6
  <2>1. roomLock # x /\ pc'[x] = pc[x] /\ loc'[x] = loc[x]
    BY <1>3, <1>5
  <2>2. pc[x] # "detach"
    BY <2>1, OthersOutside
  <2>3. Owning(x) => /\ loc[x].user \in Subscribers
                     /\ user'[loc[x].user].subscription = user[loc[x].user].subscription
                     /\ loc[x].user \in subs'[user[loc[x].user].subscription].attached
                     /\ loc[x].user \notin rootSubscribers'
                     /\ user'[loc[x].user].bin
    BY <1>2, <1>4, <2>2, OwnedBy
  <2> QED
    BY <2>1, <2>3, OutsideKept
<1>8. OwnersApart'
  BY <1>3, <1>5, ApartKept
<1>9. TableKeys'
  BY <1>2, <1>4 DEF MembersInv, TableKeys
<1>10. Homes'
  BY <1>1, <1>2, <1>4 DEF MembersInv, Homes, InTable
<1>11. Registered'
  BY <1>2, <1>4 DEF MembersInv, Registered, Attached
<1>12. Filled'
  BY <1>2, <1>3, <1>4, <1>5 DEF MembersInv, Filled
<1> QED
  BY <1>7, <1>8, <1>9, <1>10, <1>11, <1>12 DEF MembersInv

LEMMA AddSubscriberKept ==
    ASSUME TInv, MembersInv, NEW c \in Threads, AddSubscriber(c)
    PROVE  MembersInv'
<1> DEFINE s == loc[c].subs
           u == loc[c].user
<1>1. /\ pc[c] = "append" /\ s \in Subscriptions /\ u \in Subscribers
      /\ roomLock' = Nil /\ UNCHANGED <<subscriptions, rootSubscribers>>
      /\ Go(c, "build", loc[c])
  BY LocalsOf DEF AddSubscriber, LocatedAt, AtSubs, AtUser, tables
<1>2. /\ pc'[c] = "build" /\ loc'[c] = loc[c]
      /\ \A x \in Threads : x # c => pc'[x] = pc[x] /\ loc'[x] = loc[x]
  BY <1>1, GoMoves
<1>3. /\ roomLock = c /\ ThreadInv(c) /\ Arriving(c)
      /\ ~ Arriving(c)' /\ ~ Emptied(c)' /\ Owning(c)'
      /\ pc'[c] \notin Locking /\ pc'[c] \notin {"lookup", "destroy", "detach"}
  BY <1>1, <1>2, LockHeld DEF MembersInv, Arriving, Emptied, Owning, Locking
<1>4. user[u].subscription = Nil /\ InTable(s) /\ Nil \notin Subscriptions
  BY <1>3, ObjectsOf DEF ThreadInv
<1>5. u \notin rootSubscribers
  BY <1>4 DEF MembersInv, Registered, Attached
<1>6. /\ \A x \in Subscriptions : subs'[x].key = subs[x].key
      /\ subs'[s].attached = subs[s].attached \cup {u}
      /\ \A x \in Subscriptions : x # s => subs'[x].attached = subs[x].attached
      /\ user'[u].subscription = s /\ user'[u].bin
      /\ \A v \in Subscribers : v # u => user'[v] = user[v]
      /\ \A y \in Keys : subscriptions[y] # Nil => subscriptions[y] \in Subscriptions
      /\ \A x \in Subscriptions : subs[x].attached \subseteq Subscribers
  BY <1>1, LocalsOf DEF AddSubscriber, DataTyped, SubscriptionType, SubscriberType, Maybe
<1>7. ThreadInv(c)'
  <2>1. (Attached(loc[c].user) /\ loc[c].user \notin rootSubscribers /\ user[loc[c].user].bin)'
    BY <1>1, <1>2, <1>5, <1>6 DEF Attached
  <2> QED
    BY <1>3, <2>1 DEF ThreadInv
<1>8. \A x \in Threads : x # c /\ Owning(x) => loc[x].user # u
  BY <1>4, OwnedBy
<1>9. \A x \in Threads : ThreadInv(x)'
  <2> SUFFICES ASSUME NEW x \in Threads, x # c PROVE ThreadInv(x)'
    BY <1>7
  <2>1. roomLock # x /\ pc'[x] = pc[x] /\ loc'[x] = loc[x]
    BY <1>2, <1>3
  <2>2. pc[x] # "detach"
    BY <2>1, OthersOutside
  <2>3. Owning(x) => /\ loc[x].user \in Subscribers
                     /\ user'[loc[x].user].subscription = user[loc[x].user].subscription
                     /\ loc[x].user \in subs'[user[loc[x].user].subscription].attached
                     /\ loc[x].user \notin rootSubscribers'
                     /\ user'[loc[x].user].bin
    BY <1>1, <1>6, <1>8, <2>2, OwnedBy
  <2> QED
    BY <2>1, <2>3, OutsideKept
<1>10. OwnersApart'
  BY <1>2, <1>8, ApartKept
<1>11. TableKeys'
  BY <1>1, <1>6 DEF MembersInv, TableKeys
<1>12. Homes'
  <2> SUFFICES ASSUME NEW x \in Subscriptions, NEW v \in subs'[x].attached
               PROVE  user'[v].subscription = x /\ InTable(x)'
    BY DEF Homes
  <2>1. InTable(x) => InTable(x)'
    BY <1>1, <1>6 DEF InTable
  <2>2. CASE v = u
    <3>1. x = s
      BY <1>4, <1>6, <2>2 DEF MembersInv, Homes
    <3> QED
      BY <1>4, <1>6, <2>1, <2>2, <3>1
  <2>3. CASE v # u
    <3>1. v \in subs[x].attached
      BY <1>6, <2>3
    <3> QED
      BY <1>6, <2>1, <2>3, <3>1 DEF MembersInv, Homes
  <2> QED
    BY <2>2, <2>3
<1>13. Registered'
  BY <1>1, <1>5, <1>6, ObjectsOf DEF MembersInv, Registered, Attached
<1>14. Filled'
  BY <1>1, <1>3, <1>6 DEF MembersInv, Filled
<1> QED
  BY <1>9, <1>10, <1>11, <1>12, <1>13, <1>14 DEF MembersInv

\* A step of a thread outside the room's lock leaves no subscription empty.
LEMMA FilledKept ==
    ASSUME TInv, MembersInv, NEW c \in Threads, UNCHANGED <<subscriptions, subs, roomLock>>,
           \A x \in Threads : x # c => pc'[x] = pc[x] /\ loc'[x] = loc[x],
           ~ Arriving(c), ~ Emptied(c)
    PROVE  Filled'
<1> SUFFICES ASSUME NEW key \in Keys, subscriptions'[key] # Nil,
                    subs'[subscriptions'[key]].attached = {}
             PROVE  /\ roomLock' \in Threads
                    /\ (Arriving(roomLock) \/ Emptied(roomLock))'
                    /\ loc'[roomLock'].subs = subscriptions'[key]
  BY DEF Filled
<1>1. /\ roomLock \in Threads
      /\ Arriving(roomLock) \/ Emptied(roomLock)
      /\ loc[roomLock].subs = subscriptions[key]
  BY DEF MembersInv, Filled
<1>2. roomLock # c
  BY <1>1
<1> QED
  BY <1>1, <1>2 DEF Arriving, Emptied

LEMMA RegisterKept ==
    ASSUME TInv, MembersInv, NEW c \in Threads, Register(c)
    PROVE  MembersInv'
<1> DEFINE u == loc[c].user
<1>1. /\ pc[c] = "register" /\ u \in Subscribers
      /\ UNCHANGED <<subscriptions, subs, user, roomLock>>
      /\ rootSubscribers' = rootSubscribers \cup {u}
      /\ Go(c, "idle", NoLocals)
  BY LocalsOf DEF Register, Return, LocatedAt, AtUser
<1>2. /\ pc'[c] = "idle"
      /\ \A x \in Threads : x # c => pc'[x] = pc[x] /\ loc'[x] = loc[x]
  BY <1>1, GoMoves
<1>3. /\ Owning(c) /\ ~ Arriving(c) /\ ~ Emptied(c) /\ pc[c] # "detach"
      /\ ~ Arriving(c)' /\ ~ Emptied(c)' /\ ~ Owning(c)'
      /\ pc'[c] \notin Locking /\ pc'[c] \notin {"lookup", "destroy", "detach"}
  BY <1>1, <1>2 DEF Arriving, Emptied, Owning, Locking
<1>4. ThreadInv(c)'
  BY <1>3 DEF ThreadInv
<1>5. SameObjects
  BY <1>1 DEF SameObjects
<1>6. \A x \in Threads : ThreadInv(x)'
  <2> SUFFICES ASSUME NEW x \in Threads, x # c PROVE ThreadInv(x)'
    BY <1>4
  <2>1. Owning(x) => loc[x].user \notin rootSubscribers'
    BY <1>1, <1>3, OwnedBy DEF MembersInv, OwnersApart
  <2> QED
    BY <1>1, <1>2, <1>5, <2>1, OtherKept
<1>7. OwnersApart'
  BY <1>2, <1>3, ApartKept
<1>8. TableKeys' /\ Homes'
  BY <1>1 DEF MembersInv, TableKeys, Homes, InTable
<1>9. Registered'
  BY <1>1, <1>3, OwnedBy DEF MembersInv, Registered, Attached
<1>10. Filled'
  BY <1>1, <1>2, <1>3, FilledKept
<1> QED
  BY <1>6, <1>7, <1>8, <1>9, <1>10 DEF MembersInv

LEMMA UnsubscribeKept ==
    ASSUME TInv, MembersInv, NEW c \in Threads, NEW u \in Subscribers, Unsubscribe(c, u)
    PROVE  MembersInv'
<1> DEFINE l == [NoLocals EXCEPT !.user = u]
<1>1. /\ pc[c] = "idle" /\ u \in rootSubscribers
      /\ UNCHANGED <<subscriptions, subs, user, roomLock>>
      /\ rootSubscribers' = rootSubscribers \ {u}
      /\ Go(c, "lockRoom", l) /\ l.user = u
  BY DEF Unsubscribe, NoLocals
<1>2. /\ pc'[c] = "lockRoom" /\ loc'[c].user = u
      /\ \A x \in Threads : x # c => pc'[x] = pc[x] /\ loc'[x] = loc[x]
  <2> HIDE DEF l
  <2> QED BY <1>1, GoMoves
<1>3. /\ ~ Owning(c) /\ ~ Arriving(c) /\ ~ Emptied(c)
      /\ ~ Arriving(c)' /\ ~ Emptied(c)' /\ Owning(c)'
      /\ pc'[c] \notin Locking /\ pc'[c] \notin {"lookup", "destroy", "detach"}
  BY <1>1, <1>2 DEF Arriving, Emptied, Owning, Locking
<1>4. ThreadInv(c)'
  <2>1. Attached(u) /\ user[u].bin
    BY <1>1 DEF MembersInv, Registered
  <2>2. (Attached(loc[c].user) /\ loc[c].user \notin rootSubscribers /\ user[loc[c].user].bin)'
    BY <1>1, <1>2, <2>1 DEF Attached
  <2> QED
    BY <1>3, <2>2 DEF ThreadInv
<1>5. SameObjects
  BY <1>1 DEF SameObjects
<1>6. \A x \in Threads : ThreadInv(x)'
  <2> SUFFICES ASSUME NEW x \in Threads, x # c PROVE ThreadInv(x)'
    BY <1>4
  <2>1. Owning(x) => loc[x].user \notin rootSubscribers'
    BY <1>1, OwnedBy
  <2> QED
    BY <1>1, <1>2, <1>5, <2>1, OtherKept
<1>7. OwnersApart'
  BY <1>1, <1>2, OwnedBy, ApartKept
<1>8. TableKeys' /\ Homes'
  BY <1>1 DEF MembersInv, TableKeys, Homes, InTable
<1>9. Registered'
  BY <1>1 DEF MembersInv, Registered, Attached
<1>10. Filled'
  BY <1>1, <1>2, <1>3, FilledKept
<1> QED
  BY <1>6, <1>7, <1>8, <1>9, <1>10 DEF MembersInv

LEMMA DestroySubscriberKept ==
    ASSUME TInv, MembersInv, NEW c \in Threads, DestroySubscriber(c)
    PROVE  MembersInv'
<1> DEFINE u == loc[c].user
<1>1. /\ pc[c] = "destroy" /\ u \in Subscribers
      /\ UNCHANGED <<subscriptions, rootSubscribers, subs, roomLock>>
      /\ Go(c, "detach", loc[c])
  BY LocalsOf DEF DestroySubscriber, LocatedAt, AtUser, tables
<1>2. /\ pc'[c] = "detach" /\ loc'[c] = loc[c]
      /\ \A x \in Threads : x # c => pc'[x] = pc[x] /\ loc'[x] = loc[x]
  BY <1>1, GoMoves
<1>3. /\ roomLock = c /\ ThreadInv(c) /\ Owning(c) /\ ~ Arriving(c) /\ ~ Emptied(c)
      /\ ~ Arriving(c)' /\ ~ Emptied(c)' /\ Owning(c)' /\ pc'[c] # "lookup"
  BY <1>1, <1>2, LockHeld DEF MembersInv, Arriving, Emptied, Owning, Locking
<1>4. /\ \A v \in Subscribers : user'[v].subscription = user[v].subscription
      /\ \A v \in Subscribers : v # u => user'[v] = user[v]
  BY <1>1, LocalsOf DEF DestroySubscriber, DataTyped, SubscriberType
<1>5. ThreadInv(c)'
  <2>1. (Attached(loc[c].user) /\ loc[c].user \notin rootSubscribers)'
    BY <1>1, <1>2, <1>3, <1>4 DEF ThreadInv, Attached
  <2>2. (loc[c].subs = user[loc[c].user].subscription)'
    BY <1>1, <1>2, <1>3, <1>4 DEF ThreadInv
  <2>3. roomLock' = c
    BY <1>1, <1>3
  <2> QED
    BY <1>2, <1>3, <2>1, <2>2, <2>3 DEF ThreadInv
<1>6. \A x \in Threads : x # c /\ Owning(x) => loc[x].user # u
  BY <1>3 DEF MembersInv, OwnersApart
<1>7. \A x \in Threads : ThreadInv(x)'
  <2> SUFFICES ASSUME NEW x \in Threads, x # c PROVE ThreadInv(x)'
    BY <1>5
  <2>1. roomLock # x /\ pc'[x] = pc[x] /\ loc'[x] = loc[x]
    BY <1>2, <1>3
  <2>2. pc[x] # "detach"
    BY <2>1, OthersOutside
  <2>3. Owning(x) => /\ loc[x].user \in Subscribers
                     /\ user'[loc[x].user].subscription = user[loc[x].user].subscription
                     /\ loc[x].user \in subs'[user[loc[x].user].subscription].attached
                     /\ loc[x].user \notin rootSubscribers'
                     /\ user'[loc[x].user].bin
    BY <1>1, <1>4, <1>6, <2>2, OwnedBy
  <2> QED
    BY <2>1, <2>3, OutsideKept
<1>8. OwnersApart'
  BY <1>2, <1>6, ApartKept
<1>9. TableKeys'
  BY <1>1 DEF MembersInv, TableKeys
<1>10. Homes'
  BY <1>1, <1>4, ObjectsOf DEF MembersInv, Homes, InTable
<1>11. Registered'
  BY <1>1, <1>3, <1>4, OwnedBy, ObjectsOf DEF MembersInv, Registered, Attached
<1>12. Filled'
  BY <1>1, <1>2, <1>3, FilledKept
<1> QED
  BY <1>7, <1>8, <1>9, <1>10, <1>11, <1>12 DEF MembersInv

LEMMA DetachKept ==
    ASSUME TInv, MembersInv, NEW c \in Threads, Detach(c)
    PROVE  MembersInv'
<1> DEFINE s == loc[c].subs
           u == loc[c].user
           left == subs[s].attached \ {u}
           l == [loc[c] EXCEPT !.todo = Kinds]
<1>1. /\ pc[c] = "detach" /\ s \in Subscriptions /\ u \in Subscribers
      /\ UNCHANGED <<subscriptions, rootSubscribers, user>>
      /\ subs' = [subs EXCEPT ![s].attached = left]
  BY LocalsOf DEF Detach, LocatedAt, AtSubs, AtUser, tables
<1>2. l.subs = s
  BY LocalsOf DEF LocalsType
<1>3. /\ \/ left # {} /\ roomLock' = Nil /\ pc'[c] = "idle"
         \/ left = {} /\ roomLock' = roomLock /\ pc'[c] = "unwire" /\ loc'[c].subs = s
      /\ \A x \in Threads : x # c => pc'[x] = pc[x] /\ loc'[x] = loc[x]
  <2>1. \/ left # {} /\ roomLock' = Nil /\ Go(c, "idle", NoLocals)
        \/ left = {} /\ roomLock' = roomLock /\ Go(c, "unwire", l)
    BY DEF Detach, Return
  <2> HIDE DEF l, left
  <2> QED
    BY <1>2, <2>1, GoMoves
<1>4. /\ roomLock = c /\ ThreadInv(c) /\ Owning(c) /\ ~ Arriving(c) /\ ~ Emptied(c)
      /\ ~ Arriving(c)' /\ ~ Owning(c)'
      /\ pc'[c] \notin {"lookup", "destroy", "detach"}
  BY <1>1, <1>3, LockHeld DEF MembersInv, Arriving, Emptied, Owning, Locking
<1>5. /\ \A x \in Subscriptions : subs'[x].key = subs[x].key
      /\ subs'[s].attached = left
      /\ \A x \in Subscriptions : x # s => subs'[x].attached = subs[x].attached
      /\ \A y \in Keys : subscriptions[y] # Nil => subscriptions[y] \in Subscriptions
      /\ \A x \in Subscriptions : subs[x].attached \subseteq Subscribers
  BY <1>1, LocalsOf DEF DataTyped, SubscriptionType, Maybe
<1>6. InTable(s) /\ u \notin rootSubscribers
  BY <1>1, <1>4 DEF ThreadInv, Attached, MembersInv, Homes
<1>7. ThreadInv(c)'
  <2>1. CASE pc'[c] = "idle"
    BY <1>4, <2>1 DEF ThreadInv, Emptied, Locking
  <2>2. CASE pc'[c] = "unwire"
    <3>1. left = {} /\ roomLock' = c /\ loc'[c].subs = s
      BY <1>3, <1>4, <2>2
    <3>2. (InTable(loc[c].subs))'
      BY <1>1, <1>5, <1>6, <3>1 DEF InTable
    <3>3. (subs[loc[c].subs].attached = {})'
      BY <1>5, <3>1
    <3> QED
      BY <1>4, <3>1, <3>2, <3>3 DEF ThreadInv
  <2> QED
    BY <1>3, <2>1, <2>2
<1>8. \A x \in Threads : x # c /\ Owning(x) => loc[x].user # u
  BY <1>4 DEF MembersInv, OwnersApart
<1>9. \A x \in Threads : ThreadInv(x)'
  <2> SUFFICES ASSUME NEW x \in Threads, x # c PROVE ThreadInv(x)'
    BY <1>7
  <2>1. roomLock # x /\ pc'[x] = pc[x] /\ loc'[x] = loc[x]
    BY <1>3, <1>4
  <2>2. pc[x] # "detach"
    BY <2>1, OthersOutside
  <2>3. Owning(x) => /\ loc[x].user \in Subscribers
                     /\ user'[loc[x].user].subscription = user[loc[x].user].subscription
                     /\ loc[x].user \in subs'[user[loc[x].user].subscription].attached
                     /\ loc[x].user \notin rootSubscribers'
                     /\ user'[loc[x].user].bin
    BY <1>1, <1>5, <1>8, <2>2, OwnedBy
  <2> QED
    BY <2>1, <2>3, OutsideKept
<1>10. OwnersApart'
  BY <1>3, <1>4, ApartKept
<1>11. TableKeys'
  BY <1>1, <1>5 DEF MembersInv, TableKeys
<1>12. Homes'
  BY <1>1, <1>5 DEF MembersInv, Homes, InTable
<1>13. Registered'
  BY <1>1, <1>5, <1>6, ObjectsOf DEF MembersInv, Registered, Attached
<1>14. Filled'
  <2> SUFFICES ASSUME NEW key \in Keys, subscriptions'[key] # Nil,
                      subs'[subscriptions'[key]].attached = {}
               PROVE  /\ roomLock' \in Threads
                      /\ (Arriving(roomLock) \/ Emptied(roomLock))'
                      /\ loc'[roomLock'].subs = subscriptions'[key]
    BY DEF Filled
  <2>1. subscriptions[key] = s
    BY <1>1, <1>4, <1>5 DEF MembersInv, Filled
  <2>2. roomLock' = c /\ pc'[c] = "unwire" /\ loc'[c].subs = s
    BY <1>1, <1>3, <1>4, <1>5, <2>1
  <2> QED
    BY <1>1, <2>1, <2>2 DEF Emptied
<1> QED
  BY <1>9, <1>10, <1>11, <1>12, <1>13, <1>14 DEF MembersInv

LEMMA RemoveSubscriptionKept ==
    ASSUME TInv, MembersInv, NEW c \in Threads, RemoveSubscription(c)
    PROVE  MembersInv'
<1> DEFINE s == loc[c].subs
<1>1. /\ pc[c] = "drop" /\ s \in Subscriptions /\ roomLock' = Nil
      /\ UNCHANGED <<rootSubscribers, subs, user>>
      /\ subscriptions' = [subscriptions EXCEPT ![subs[s].key] = Nil]
      /\ Go(c, "idle", NoLocals)
  BY LocalsOf DEF RemoveSubscription, Return, LocatedAt, AtSubs
<1>2. /\ pc'[c] = "idle"
      /\ \A x \in Threads : x # c => pc'[x] = pc[x] /\ loc'[x] = loc[x]
  BY <1>1, GoMoves
<1>3. /\ roomLock = c /\ ThreadInv(c) /\ Emptied(c)
      /\ ~ Arriving(c)' /\ ~ Emptied(c)' /\ ~ Owning(c)'
      /\ pc'[c] \notin Locking /\ pc'[c] \notin {"lookup", "destroy", "detach"}
  BY <1>1, <1>2, LockHeld DEF MembersInv, Arriving, Emptied, Owning, Locking
<1>4. InTable(s) /\ subs[s].attached = {}
  BY <1>3 DEF ThreadInv
<1>5. /\ subscriptions'[subs[s].key] = Nil
      /\ \A y \in Keys : y # subs[s].key => subscriptions'[y] = subscriptions[y]
  BY <1>1, <1>4, LocalsOf DEF DataTyped, InTable
<1>6. ThreadInv(c)'
  BY <1>3 DEF ThreadInv
<1>7. \A x \in Threads : ThreadInv(x)'
  <2> SUFFICES ASSUME NEW x \in Threads, x # c PROVE ThreadInv(x)'
    BY <1>6
  <2>1. roomLock # x /\ pc'[x] = pc[x] /\ loc'[x] = loc[x]
    BY <1>2, <1>3
  <2>2. pc[x] # "detach"
    BY <2>1, OthersOutside
  <2>3. Owning(x) => /\ loc[x].user \in Subscribers
                     /\ user'[loc[x].user].subscription = user[loc[x].user].subscription
                     /\ loc[x].user \in subs'[user[loc[x].user].subscription].attached
                     /\ loc[x].user \notin rootSubscribers'
                     /\ user'[loc[x].user].bin
    BY <1>1, <2>2, OwnedBy
  <2> QED
    BY <2>1, <2>3, OutsideKept
<1>8. OwnersApart'
  BY <1>2, <1>3, ApartKept
<1>9. TableKeys'
  BY <1>1, <1>5 DEF MembersInv, TableKeys
<1>10. Homes'
  BY <1>1, <1>4, <1>5 DEF MembersInv, Homes, InTable
<1>11. Registered'
  BY <1>1 DEF MembersInv, Registered, Attached
<1>12. Filled'
  BY <1>1, <1>3, <1>4, <1>5 DEF MembersInv, Filled, InTable, TableKeys
<1> QED
  BY <1>7, <1>8, <1>9, <1>10, <1>11, <1>12 DEF MembersInv

----------------------------------------------------------------------------
(* The abstract room.                                                       *)

\* A step opens or closes a stream, lets a user join or leave one, or does
\* nothing that StreamMembership knows of.
MembershipStep == [Membership!Next]_<<openStreams, attachedTo>>

LEMMA SameTableStep ==
    ASSUME TInv, UNCHANGED subscriptions,
           \A s \in Subscriptions : subs'[s].attached = subs[s].attached
    PROVE  MembershipStep
<1>1. \A key \in Keys : subscriptions[key] # Nil => subscriptions[key] \in Subscriptions
  BY LocalsOf DEF TInv, TypeOK, Maybe
<1>2. openStreams' = openStreams /\ attachedTo' = attachedTo
  BY <1>1 DEF openStreams, attachedTo
<1> QED
  BY <1>2 DEF MembershipStep

LEMMA SettledStep ==
    ASSUME TInv, Settled PROVE MembershipStep
BY SameTableStep DEF Settled, SameObjects

LEMMA AddSubscriptionOpens ==
    ASSUME TInv, MembersInv, NEW c \in Threads, AddSubscription(c)
    PROVE  MembershipStep
<1>1. PICK s \in Subscriptions :
          /\ subs[s].key = Nil
          /\ subs' = [subs EXCEPT ![s].key = loc[c].key]
          /\ subscriptions' = [subscriptions EXCEPT ![loc[c].key] = s]
  BY DEF AddSubscription
<1> DEFINE key == loc[c].key
<1>2. key \in Keys /\ subscriptions[key] = Nil
  BY LocalsOf DEF AddSubscription, LocatedAt, AtKey
<1>3. subs[s].attached = {}
  BY <1>1, NilAssumption DEF MembersInv, Homes, InTable
<1>4. /\ \A x \in Subscriptions : subs'[x].attached = subs[x].attached
      /\ subscriptions'[key] = s /\ s # Nil
      /\ \A y \in Keys : y # key => subscriptions'[y] = subscriptions[y]
      /\ \A y \in Keys : subscriptions[y] # Nil => subscriptions[y] \in Subscriptions
  BY <1>1, <1>2, LocalsOf, NilAssumption DEF DataTyped, SubscriptionType, Maybe
<1>5. openStreams' = openStreams \cup {key} /\ key \notin openStreams
  BY <1>2, <1>4 DEF openStreams
<1>6. attachedTo' = attachedTo
  BY <1>2, <1>3, <1>4 DEF attachedTo
<1> QED
  BY <1>2, <1>5, <1>6 DEF MembershipStep, Membership!Next, Membership!Open

LEMMA AddSubscriberJoins ==
    ASSUME TInv, MembersInv, NEW c \in Threads, AddSubscriber(c)
    PROVE  MembershipStep
<1> DEFINE s == loc[c].subs
           u == loc[c].user
           key == subs[s].key
<1>1. /\ s \in Subscriptions /\ u \in Subscribers /\ UNCHANGED subscriptions
      /\ Arriving(c) /\ ThreadInv(c)
  BY LocalsOf DEF AddSubscriber, LocatedAt, AtSubs, AtUser, tables, Arriving, MembersInv
<1>2. /\ key \in Keys /\ subscriptions[key] = s /\ s # Nil
      /\ user[u].subscription = Nil /\ Nil \notin Subscriptions
  BY <1>1, ObjectsOf DEF ThreadInv, InTable
<1>3. /\ subs'[s].attached = subs[s].attached \cup {u}
      /\ \A x \in Subscriptions : x # s => subs'[x].attached = subs[x].attached
      /\ \A y \in Keys : subscriptions[y] # Nil => subscriptions[y] \in Subscriptions
  BY <1>1, LocalsOf DEF AddSubscriber, DataTyped, SubscriptionType, Maybe
<1>4. \A y \in Keys : y # key => subscriptions[y] # s
  BY <1>2 DEF MembersInv, TableKeys
<1>5. openStreams' = openStreams /\ key \in openStreams
  BY <1>1, <1>2 DEF openStreams
<1>6. attachedTo' = [attachedTo EXCEPT ![key] = attachedTo[key] \cup {u}]
  BY <1>1, <1>2, <1>3, <1>4 DEF attachedTo
<1>7. \A y \in Keys : u \notin attachedTo[y]
  BY <1>2, <1>3 DEF attachedTo, MembersInv, Homes
<1>8. Membership!Join(key, u)
  BY <1>5, <1>6, <1>7 DEF Membership!Join
<1> QED
  BY <1>1, <1>2, <1>8 DEF MembershipStep, Membership!Next

LEMMA DetachLeaves ==
    ASSUME TInv, MembersInv, NEW c \in Threads, Detach(c)
    PROVE  MembershipStep
<1> DEFINE s == loc[c].subs
           u == loc[c].user
           key == subs[s].key
<1>1. /\ s \in Subscriptions /\ u \in Subscribers /\ UNCHANGED subscriptions
      /\ Owning(c) /\ ThreadInv(c) /\ pc[c] = "detach"
  BY LocalsOf DEF Detach, LocatedAt, AtSubs, AtUser, tables, Owning, MembersInv
<1>2. u \in subs[s].attached /\ InTable(s)
  BY <1>1 DEF ThreadInv, Attached, MembersInv, Homes
<1>3. /\ subs'[s].attached = subs[s].attached \ {u}
      /\ \A x \in Subscriptions : x # s => subs'[x].attached = subs[x].attached
      /\ \A y \in Keys : subscriptions[y] # Nil => subscriptions[y] \in Subscriptions
      /\ Nil \notin Subscriptions
  BY <1>1, LocalsOf, NilAssumption DEF Detach, DataTyped, SubscriptionType, Maybe
<1>4. \A y \in Keys : y # key /\ subscriptions[y] # Nil => subscriptions[y] # s
  BY DEF MembersInv, TableKeys
<1>5. openStreams' = openStreams
  BY <1>1 DEF openStreams
<1>6. attachedTo' = [attachedTo EXCEPT ![key] = attachedTo[key] \ {u}] /\ u \in attachedTo[key]
  BY <1>1, <1>2, <1>3, <1>4 DEF attachedTo, InTable
<1>7. Membership!Leave(key, u)
  BY <1>5, <1>6 DEF Membership!Leave
<1> QED
  BY <1>1, <1>2, <1>7 DEF MembershipStep, Membership!Next, InTable

LEMMA RemoveSubscriptionCloses ==
    ASSUME TInv, MembersInv, NEW c \in Threads, RemoveSubscription(c)
    PROVE  MembershipStep
<1> DEFINE s == loc[c].subs
           key == subs[s].key
<1>1. /\ s \in Subscriptions /\ UNCHANGED subs
      /\ subscriptions' = [subscriptions EXCEPT ![key] = Nil]
      /\ Emptied(c) /\ ThreadInv(c)
  BY LocalsOf DEF RemoveSubscription, LocatedAt, AtSubs, Emptied, MembersInv
<1>2. key \in Keys /\ subscriptions[key] = s /\ subs[s].attached = {} /\ Nil \notin Subscriptions
  BY <1>1, ObjectsOf DEF ThreadInv, InTable
<1>3. /\ subscriptions'[key] = Nil
      /\ \A y \in Keys : y # key => subscriptions'[y] = subscriptions[y]
  BY <1>1, <1>2, LocalsOf DEF DataTyped
<1>4. openStreams' = openStreams \ {key} /\ key \in openStreams
  BY <1>1, <1>2, <1>3 DEF openStreams
<1>5. attachedTo' = attachedTo /\ attachedTo[key] = {}
  <2>1. s # Nil
    BY <1>1, <1>2
  <2>2. attachedTo[key] = {} /\ attachedTo'[key] = {}
    BY <1>2, <1>3, <2>1 DEF attachedTo
  <2>3. \A y \in Keys : y # key => attachedTo'[y] = attachedTo[y]
    BY <1>1, <1>3 DEF attachedTo
  <2>4. /\ attachedTo = [y \in Keys |-> attachedTo[y]]
        /\ attachedTo' = [y \in Keys |-> attachedTo'[y]]
    BY DEF attachedTo
  <2> QED
    BY <2>2, <2>3, <2>4
<1>6. Membership!Close(key)
  BY <1>4, <1>5 DEF Membership!Close
<1> QED
  BY <1>2, <1>6 DEF MembershipStep, Membership!Next

----------------------------------------------------------------------------
(* Every step.                                                              *)

LEMMA InitMembers == Init => MembersInv /\ Membership!Init
<1> SUFFICES ASSUME Init PROVE MembersInv /\ Membership!Init
  OBVIOUS
<1>1. \A th \in Threads : ThreadInv(th)
  BY DEF Init, ThreadInv, Locking, Arriving, Emptied, Owning
<1>2. OwnersApart /\ TableKeys /\ Homes /\ Registered /\ Filled
  BY DEF Init, OwnersApart, TableKeys, Homes, Registered, Filled, Owning
<1>3. openStreams = {} /\ attachedTo = [key \in Keys |-> {}]
  BY DEF Init, openStreams, attachedTo
<1> QED
  BY <1>1, <1>2, <1>3 DEF MembersInv, Membership!Init

LEMMA OutsideMembers ==
    ASSUME TInv, MembersInv,
           UNCHANGED <<subscriptions, rootSubscribers, roomLock, subs, user, pc, loc>>
    PROVE  MembersInv' /\ MembershipStep
<1>1. MembersInv'
  BY DEF MembersInv, ThreadInv, OwnersApart, TableKeys, Homes, Registered, Filled,
         Arriving, Emptied, Owning, Attached, InTable
<1>2. MembershipStep
  BY SettledStep, SettledAlone
<1> QED
  BY <1>1, <1>2

LEMMA ClientMembers ==
    ASSUME TInv, MembersInv, NEW c \in Threads, ClientStep(c)
    PROVE  MembersInv' /\ MembershipStep
<1>1. CASE AddSubscription(c)
  BY <1>1, AddSubscriptionKept, AddSubscriptionOpens
<1>2. CASE AddSubscriber(c)
  BY <1>2, AddSubscriberKept, AddSubscriberJoins
<1>3. CASE Detach(c)
  BY <1>3, DetachKept, DetachLeaves
<1>4. CASE RemoveSubscription(c)
  BY <1>4, RemoveSubscriptionKept, RemoveSubscriptionCloses
<1>5. CASE Register(c)
  BY <1>5, RegisterKept, SameTableStep DEF Register
<1>6. CASE DestroySubscriber(c)
  BY <1>6, DestroySubscriberKept, SameTableStep DEF DestroySubscriber, tables
<1>7. ASSUME \/ ReuseSubscription(c) \/ MakeSubscription(c) \/ BuildAudio(c)
             \/ CheckVideo(c) \/ BuildVideo(c) \/ Request(c) \/ Record(c)
             \/ RemoveSubscriber(c) \/ Unwire(c) \/ Release(c)
      PROVE  Settled /\ MembersInv'
  BY <1>7, ReuseSubscriptionKept, MakeSubscriptionKept, BuildAudioKept, CheckVideoKept,
     BuildVideoKept, RequestKept, RecordKept, RemoveSubscriberKept, UnwireKept, ReleaseKept
<1> QED
  BY <1>1, <1>2, <1>3, <1>4, <1>5, <1>6, <1>7, SettledStep DEF ClientStep

LEMMA HandlerMembers ==
    ASSUME TInv, MembersInv, NEW h \in Threads, HandlerStep(h)
    PROVE  MembersInv' /\ MembershipStep
<1>1. CASE Panic
  BY <1>1, OutsideMembers DEF Panic, tables
<1>2. ASSUME ~ Panic PROVE Settled /\ MembersInv'
  BY <1>2, CheckPublishedKept, LockConnectedKept, CheckConnectedKept, RequestKept,
     RecordKept, LeaveKept, UnpublishedKept, UnsubscribedKept, RefuseWriterKept,
     CreateWriterKept, WireAudioKept, CheckWireVideoKept, WireVideoKept, WireReadyKept,
     FinishWriterKept
  DEF HandlerStep
<1> QED
  BY <1>1, <1>2, SettledStep

LEMMA StartMembers ==
    ASSUME TInv, MembersInv, Start
    PROVE  MembersInv' /\ MembershipStep
<1>1. ASSUME NEW c \in Threads, NEW u \in Subscribers, Unsubscribe(c, u)
      PROVE  MembersInv' /\ MembershipStep
  BY <1>1, UnsubscribeKept, SameTableStep DEF Unsubscribe
<1>2. CASE ~ \E c \in Clients, u \in Subscribers : Unsubscribe(c, u)
  BY <1>2, SubscribeKept, OnTrackPublishedKept, OnParticipantConnectedKept,
     OnTrackEventKept, SettledStep
  DEF Start, Threads
<1> QED
  BY <1>1, <1>2 DEF Threads

LEMMA NextMembers ==
    ASSUME TInv, MembersInv, [Next]_vars
    PROVE  MembersInv' /\ MembershipStep
<1>1. CASE UNCHANGED vars
  BY <1>1, OutsideMembers DEF vars, tables
<1>2. CASE SdkNext
  <2>1. \E p, q, e : SdkStep(p, q, e)
    BY <1>2 DEF SdkNext, Join, Publish, Unpublish, Attach, Loses
  <2> QED
    BY <2>1, OutsideMembers DEF SdkStep, tables
<1> QED
  BY <1>1, <1>2, StartMembers, ClientMembers, HandlerMembers DEF Next, Threads

LEMMA MembersThroughout == Spec => []MembersInv
<1>1. TInv /\ MembersInv /\ [Next]_vars => MembersInv'
  BY NextMembers
<1> QED
  BY <1>1, InitMembers, TypedThroughout, PTL DEF Spec

----------------------------------------------------------------------------

\* A subscriber whose id a client holds can be served, whatever the other
\* threads do: it is attached to the subscription the table names for its
\* stream, and has its bins.
THEOREM RegisteredServed == Spec => []RegisteredIsLive
<1>1. MembersInv => RegisteredIsLive
  <2> SUFFICES ASSUME MembersInv, NEW u \in rootSubscribers
               PROVE  LET s == user[u].subscription
                      IN  /\ s # Nil /\ user[u].bin
                          /\ u \in subs[s].attached
                          /\ subscriptions[subs[s].key] = s
    BY DEF RegisteredIsLive
  <2>1. Attached(u) /\ user[u].bin
    BY DEF MembersInv, Registered
  <2>2. InTable(user[u].subscription)
    BY <2>1 DEF MembersInv, Homes, Attached
  <2> QED
    BY <2>1, <2>2, NilAssumption DEF Attached, InTable
<1> QED
  BY <1>1, MembersThroughout, PTL

\* While nobody holds the room's lock, no subscription in the table is empty.
THEOREM EmptyNeverFound == Spec => []NoEmptySubscription
<1>1. MembersInv => NoEmptySubscription
  BY NilAssumption DEF MembersInv, Filled, NoEmptySubscription, FreeRoom
<1> QED
  BY <1>1, MembersThroughout, PTL

\* The room implements StreamMembership: a stream opens before its first
\* subscriber joins and closes only when the last one has left.
THEOREM RoomSharesStreams == Spec => SharesStreams
<1>1. Init => Membership!Init
  BY InitMembers
<1>2. TInv /\ MembersInv /\ [Next]_vars => [Membership!Next]_Membership!vars
  BY NextMembers DEF MembershipStep, Membership!vars
<1> QED
  BY <1>1, <1>2, TypedThroughout, MembersThroughout, PTL
  DEF Spec, SharesStreams, Membership!Spec

----------------------------------------------------------------------------
(* Nobody is forgotten.  An attached subscriber without the pipeline of a   *)
(* writer is in the hands of a thread; that thread lets go of it only when  *)
(* it has the pipeline, or is attached no more.                             *)

\* Labels at which a thread has a subscriber to build, wire or remove.
Serving == {"build", "checkVideo", "buildVideo", "detach", "wire", "wireVideo", "wireReady"}

Serves(th, s, k, u) ==
    \/ loc[th].user = u /\ pc[th] \in {"build", "detach"}
    \/ loc[th].user = u /\ k = "video" /\ pc[th] \in {"checkVideo", "buildVideo"}
    \/ /\ pc[th] \in {"wire", "wireVideo", "wireReady"}
       /\ loc[th].subs = s /\ Kind[loc[th].track] = k
       /\ u \in loc[th].rest

Lacks(s, k, u) == /\ u \in subs[s].attached
                  /\ subs[s].writer[k] # Nil /\ ~ user[u].ready[k]

\* buildSubscriber reads the writers of its subscriber's own subscription, and
\* only writers of video have their pipelines built outside the lock.
Building(th) ==
    /\ pc[th] \in {"build", "checkVideo", "buildVideo"}
          => loc[th].subs = user[loc[th].user].subscription
    /\ pc[th] \in {"wireVideo", "wireReady"} => Kind[loc[th].track] = "video"

Served == \A s \in Subscriptions, k \in Kinds, u \in Subscribers :
              Lacks(s, k, u) => \E th \in Threads : Serves(th, s, k, u)

ServedInv == Served /\ \A th \in Threads : Building(th)

LEMMA ServedMeans == TInv => (Served <=> NoForgottenSubscriber)
BY ObjectsOf DEF Served, NoForgottenSubscriber, Lacks, Serves, TInv, TypeOK, SubscriptionType

\* The subscription of a subscriber that has one stays the same.
Stays == \A u \in Subscribers : user[u].subscription \in Subscriptions
                                  => user'[u].subscription = user[u].subscription

\* A step leaves nobody alone: whoever lacks a pipeline afterwards is the
\* stepping thread's, or lacked it before and was not.
LEMMA ServedKept ==
    ASSUME TInv, MembersInv, ServedInv, NEW th \in Threads,
           \A x \in Threads : x # th => pc'[x] = pc[x] /\ loc'[x] = loc[x],
           Stays, Building(th)',
           \A s \in Subscriptions, k \in Kinds, u \in Subscribers :
               Lacks(s, k, u)' => \/ Serves(th, s, k, u)'
                                  \/ Lacks(s, k, u) /\ ~ Serves(th, s, k, u)
    PROVE  ServedInv'
<1>1. Served'
  <2> SUFFICES ASSUME NEW s \in Subscriptions, NEW k \in Kinds, NEW u \in Subscribers,
                      Lacks(s, k, u)', ~ Serves(th, s, k, u)'
               PROVE  \E x \in Threads : Serves(x, s, k, u)'
    BY DEF Served
  <2>1. PICK x \in Threads : Serves(x, s, k, u)
    BY DEF ServedInv, Served
  <2>2. x # th
    BY <2>1
  <2>3. Serves(x, s, k, u)'
    BY <2>1, <2>2 DEF Serves
  <2> QED
    BY <2>3
<1>2. ASSUME NEW x \in Threads PROVE Building(x)'
  <2>1. CASE x = th
    BY <2>1
  <2>2. CASE x # th
    <3>1. pc'[x] = pc[x] /\ loc'[x] = loc[x] /\ Building(x)
      BY <2>2 DEF ServedInv
    <3>2. ASSUME pc[x] \in {"build", "checkVideo", "buildVideo"}
          PROVE  loc[x].user \in Subscribers /\ user[loc[x].user].subscription \in Subscriptions
      BY <3>2, OwnedBy DEF Owning
    <3> QED
      BY <3>1, <3>2 DEF Building, Stays
  <2> QED
    BY <2>1, <2>2
<1> QED
  BY <1>1, <1>2 DEF ServedInv

\* Steps that build nothing and take no pipeline away.
Calm == /\ UNCHANGED user
        /\ \A s \in Subscriptions :
              /\ subs'[s].attached \subseteq subs[s].attached
              /\ \A k \in Kinds : subs'[s].writer[k] \in {subs[s].writer[k], Nil}

LEMMA CalmLacks ==
    ASSUME Calm, NEW s \in Subscriptions, NEW k \in Kinds, NEW u, Lacks(s, k, u)'
    PROVE  Lacks(s, k, u)
BY DEF Calm, Lacks

LEMMA CalmAlone == UNCHANGED <<subs, user>> => Calm
BY DEF Calm

\* A thread that has no subscriber to serve, before and after.
LEMMA AwayServes ==
    ASSUME TInv, MembersInv, ServedInv, NEW th \in Threads, Calm,
           pc[th] \notin Serving, NEW label, label \notin Serving, NEW l, Go(th, label, l)
    PROVE  ServedInv'
<1>1. /\ pc'[th] = label
      /\ \A x \in Threads : x # th => pc'[x] = pc[x] /\ loc'[x] = loc[x]
  BY GoMoves
<1>2. Building(th)'
  BY <1>1 DEF Building, Serving
<1>3. ASSUME NEW s \in Subscriptions, NEW k \in Kinds, NEW u \in Subscribers, Lacks(s, k, u)'
      PROVE  Lacks(s, k, u) /\ ~ Serves(th, s, k, u)
  BY <1>3, CalmLacks DEF Serves, Serving
<1>4. Stays
  BY DEF Stays, Calm
<1> QED
  BY <1>1, <1>2, <1>3, <1>4, ServedKept

LEMMA AwayReturns ==
    ASSUME TInv, MembersInv, ServedInv, NEW th \in Threads, Calm,
           pc[th] \notin Serving, Return(th)
    PROVE  ServedInv'
<1>1. "idle" \notin Serving /\ Go(th, "idle", NoLocals)
  BY DEF Return, Serving
<1> QED
  BY <1>1, AwayServes

\* A step that no thread takes.
LEMMA OutsideServes ==
    ASSUME ServedInv, UNCHANGED <<subs, user, pc, loc>>
    PROVE  ServedInv'
BY DEF ServedInv, Served, Lacks, Serves, Building

----------------------------------------------------------------------------
(* Calls that have nobody to serve yet.                                     *)

LEMMA CheckTracksServes ==
    ASSUME TInv, MembersInv, ServedInv, NEW th \in Threads, NEW s \in Subscriptions,
           NEW old, NEW after \in {"append", "recheck", "leave"},
           CheckTracks(th, s, old, after), UNCHANGED user, pc[th] \notin Serving
    PROVE  ServedInv'
<1>1. PICK pick \in Checked(s) :
        LET todo == {k \in Kinds : k \in Changed(s)}
        IN  /\ subs' = [subs EXCEPT ![s].track = pick]
            /\ Go(th, IF todo = {} THEN after ELSE "request",
                  [loc[th] EXCEPT !.subs = s, !.old = old,
                                  !.todo = todo, !.after = after])
  BY DEF CheckTracks
<1> DEFINE todo == {k \in Kinds : k \in Changed(s)}
           label == IF todo = {} THEN after ELSE "request"
           l == [loc[th] EXCEPT !.subs = s, !.old = old, !.todo = todo, !.after = after]
<1>2. Calm
  BY <1>1, LocalsOf DEF DataTyped, SubscriptionType, Calm
<1>3. label \notin Serving /\ Go(th, label, l)
  BY <1>1 DEF Serving
<1> HIDE DEF label, l
<1> QED
  BY <1>2, <1>3, AwayServes

LEMMA ContinuesServes ==
    ASSUME TInv, MembersInv, ServedInv, NEW th \in Threads, UNCHANGED <<subs, user>>,
           pc[th] \in {"request", "record"}, NEW l,
           NEW label \in {"request", "record", loc[th].after}, Go(th, label, l)
    PROVE  ServedInv'
<1>1. pc[th] \notin Serving /\ label \notin Serving
  BY LocalsOf DEF Serving, LocalsType
<1> QED
  BY <1>1, CalmAlone, AwayServes

LEMMA RequestServes ==
    ASSUME TInv, MembersInv, ServedInv, NEW th \in Threads, Request(th)
    PROVE  ServedInv'
<1> DEFINE left == loc[th].todo \ {FirstKind(loc[th].todo)}
           l == [loc[th] EXCEPT !.todo = left]
           label == IF left = {} THEN loc[th].after ELSE "request"
<1>1. /\ UNCHANGED <<subs, user>> /\ pc[th] \in {"request", "record"}
      /\ Go(th, "record", loc[th]) \/ Go(th, label, l)
      /\ label \in {"request", "record", loc[th].after}
  BY DEF Request
<1> HIDE DEF label, l
<1> QED
  BY <1>1, ContinuesServes

LEMMA RecordServes ==
    ASSUME TInv, MembersInv, ServedInv, NEW th \in Threads, Record(th)
    PROVE  ServedInv'
<1> DEFINE left == loc[th].todo \ {FirstKind(loc[th].todo)}
           l == [loc[th] EXCEPT !.todo = left]
           label == IF left = {} THEN loc[th].after ELSE "request"
<1>1. /\ UNCHANGED <<subs, user>> /\ pc[th] \in {"request", "record"}
      /\ Go(th, label, l)
      /\ label \in {"request", "record", loc[th].after}
  BY DEF Record
<1> HIDE DEF label, l
<1> QED
  BY <1>1, ContinuesServes

LEMMA BreakCalm ==
    ASSUME TInv, NEW s \in Subscriptions, NEW k, NEW t, BreakWriter(s, k, t), UNCHANGED user
    PROVE  Calm
BY LocalsOf DEF BreakWriter, TInv, TypeOK, SubscriptionType, Calm

\* A call goes from a label to another, both without a subscriber to serve.
LEMMA ClientAwayServes ==
    ASSUME TInv, MembersInv, ServedInv, NEW c \in Threads,
           \/ \E key \in Keys : Subscribe(c, key)
           \/ ReuseSubscription(c) \/ AddSubscription(c) \/ MakeSubscription(c)
           \/ \E u \in Subscribers : Unsubscribe(c, u)
           \/ Register(c) \/ RemoveSubscriber(c) \/ Unwire(c) \/ Release(c)
           \/ RemoveSubscription(c)
    PROVE  ServedInv'
<1>1. CASE \E key \in Keys : Subscribe(c, key)
  <2>1. PICK key \in Keys, u \in Subscribers : Go(c, "lookup", [NoLocals EXCEPT !.key = key, !.user = u])
    BY <1>1 DEF Subscribe
  <2> DEFINE l == [NoLocals EXCEPT !.key = key, !.user = u]
  <2>2. Calm /\ pc[c] \notin Serving /\ "lookup" \notin Serving /\ Go(c, "lookup", l)
    BY <1>1, <2>1, CalmAlone DEF Subscribe, Serving
  <2> HIDE DEF l
  <2> QED BY <2>2, AwayServes
<1>2. CASE ReuseSubscription(c)
  <2> DEFINE l == [loc[c] EXCEPT !.subs = subscriptions[loc[c].key]]
  <2>1. Calm /\ pc[c] \notin Serving /\ "append" \notin Serving /\ Go(c, "append", l)
    BY <1>2, CalmAlone DEF ReuseSubscription, Serving
  <2> HIDE DEF l
  <2> QED BY <2>1, AwayServes
<1>3. CASE AddSubscription(c)
  <2>1. PICK s \in Subscriptions : /\ subs' = [subs EXCEPT ![s].key = loc[c].key]
                                   /\ Go(c, "make", [loc[c] EXCEPT !.subs = s])
    BY <1>3 DEF AddSubscription
  <2> DEFINE l == [loc[c] EXCEPT !.subs = s]
  <2>2. Calm
    BY <1>3, <2>1, LocalsOf DEF AddSubscription, DataTyped, SubscriptionType, Calm
  <2>3. pc[c] \notin Serving /\ "make" \notin Serving /\ Go(c, "make", l)
    BY <1>3, <2>1 DEF AddSubscription, Serving
  <2> HIDE DEF l
  <2> QED BY <2>2, <2>3, AwayServes
<1>4. CASE MakeSubscription(c)
  <2>1. pc[c] \notin Serving /\ "append" \notin Serving /\ loc[c].subs \in Subscriptions /\ UNCHANGED user
    BY <1>4, LocalsOf DEF MakeSubscription, Serving, LocatedAt, AtSubs
  <2>2. CASE CheckTracks(c, loc[c].subs, NoTracks, "append")
    BY <2>1, <2>2, CheckTracksServes
  <2>3. CASE Go(c, "append", loc[c]) /\ UNCHANGED subs
    BY <2>1, <2>3, CalmAlone, AwayServes
  <2> QED BY <1>4, <2>2, <2>3 DEF MakeSubscription
<1>5. CASE \E u \in Subscribers : Unsubscribe(c, u)
  <2>1. PICK u \in Subscribers : Go(c, "lockRoom", [NoLocals EXCEPT !.user = u])
    BY <1>5 DEF Unsubscribe
  <2> DEFINE l == [NoLocals EXCEPT !.user = u]
  <2>2. Calm /\ pc[c] \notin Serving /\ "lockRoom" \notin Serving /\ Go(c, "lockRoom", l)
    BY <1>5, <2>1, CalmAlone DEF Unsubscribe, Serving
  <2> HIDE DEF l
  <2> QED BY <2>2, AwayServes
<1>6. CASE Register(c)
  BY <1>6, CalmAlone, AwayReturns DEF Register, Serving
<1>7. CASE RemoveSubscriber(c)
  <2> DEFINE l == [loc[c] EXCEPT !.subs = user[loc[c].user].subscription]
  <2>1. Calm /\ pc[c] \notin Serving /\ "destroy" \notin Serving /\ Go(c, "destroy", l)
    BY <1>7, CalmAlone DEF RemoveSubscriber, Serving
  <2> HIDE DEF l
  <2> QED BY <2>1, AwayServes
<1>8. CASE Unwire(c)
  <2> DEFINE s == loc[c].subs
             k == FirstKind(loc[c].todo)
             t == subs[s].track[k]
             label == IF k = "audio" THEN "unwire" ELSE "drop"
             l == [loc[c] EXCEPT !.todo = @ \ {k}]
             m == [loc[c] EXCEPT !.track = t]
  <2>1. s \in Subscriptions /\ pc[c] \notin Serving /\ label \notin Serving /\ "release" \notin Serving
    BY <1>8, LocalsOf DEF Unwire, Serving, LocatedAt, AtSubs
  <2>2. CASE BreakWriter(s, k, Nil) /\ Go(c, "release", m)
    <3>1. Calm
      BY <1>8, <2>1, <2>2, BreakCalm DEF Unwire
    <3> HIDE DEF m
    <3> QED BY <2>1, <2>2, <3>1, AwayServes
  <2>3. CASE UNCHANGED subs /\ Go(c, label, l)
    <3>1. Calm
      BY <1>8, <2>3, CalmAlone DEF Unwire
    <3> HIDE DEF label, l
    <3> QED BY <2>1, <2>3, <3>1, AwayServes
  <2> QED BY <1>8, <2>2, <2>3 DEF Unwire
<1>9. CASE Release(c)
  <2> DEFINE k == FirstKind(loc[c].todo)
             label == IF k = "audio" THEN "unwire" ELSE "drop"
             l == [loc[c] EXCEPT !.track = Nil, !.todo = @ \ {k}]
  <2>1. Calm /\ pc[c] \notin Serving /\ label \notin Serving /\ Go(c, label, l)
    BY <1>9, CalmAlone DEF Release, Serving
  <2> HIDE DEF label, l
  <2> QED BY <2>1, AwayServes
<1>10. CASE RemoveSubscription(c)
  BY <1>10, CalmAlone, AwayReturns DEF RemoveSubscription, Serving
<1> QED
  BY <1>1, <1>2, <1>3, <1>4, <1>5, <1>6, <1>7, <1>8, <1>9, <1>10

\* The same for callbacks.
LEMMA HandlerAwayServes ==
    ASSUME TInv, MembersInv, ServedInv, NEW h \in Threads,
           \/ \E t \in Tracks : OnTrackPublished(h, t)
           \/ \E p \in Participants : OnParticipantConnected(h, p)
           \/ \E t \in Tracks, type \in TrackEvents : OnTrackEvent(h, type, t)
           \/ CheckPublished(h) \/ LockConnected(h) \/ CheckConnected(h) \/ Leave(h)
           \/ Unpublished(h) \/ Unsubscribed(h) \/ RefuseWriter(h)
    PROVE  ServedInv'
<1>1. CASE \E t \in Tracks : OnTrackPublished(h, t)
  <2>1. PICK t \in Tracks : OnTrackPublished(h, t)
    BY <1>1
  <2> DEFINE l == [NoLocals EXCEPT !.key = KeyOf(t), !.subs = subscriptions[KeyOf(t)]]
  <2>2. /\ Calm /\ pc[h] \notin Serving /\ "published" \notin Serving
        /\ Return(h) \/ Go(h, "published", l)
    BY <2>1, CalmAlone DEF OnTrackPublished, Take, Serving
  <2> HIDE DEF l
  <2> QED BY <2>2, AwayServes, AwayReturns
<1>2. CASE \E p \in Participants : OnParticipantConnected(h, p)
  <2>1. PICK p \in Participants : OnParticipantConnected(h, p)
    BY <1>2
  <2> DEFINE l == [NoLocals EXCEPT !.key = <<p, FALSE>>]
  <2>2. Calm /\ pc[h] \notin Serving /\ "connected" \notin Serving /\ Go(h, "connected", l)
    BY <2>1, CalmAlone DEF OnParticipantConnected, Take, Serving
  <2> HIDE DEF l
  <2> QED BY <2>2, AwayServes
<1>3. CASE \E t \in Tracks, type \in TrackEvents : OnTrackEvent(h, type, t)
  <2>1. PICK t \in Tracks, type \in TrackEvents : OnTrackEvent(h, type, t)
    BY <1>3
  <2> DEFINE l == [NoLocals EXCEPT !.subs = subscribedTracks[t], !.track = t]
  <2>2. /\ Calm /\ pc[h] \notin Serving /\ type \notin Serving
        /\ Return(h) \/ Go(h, type, l)
    BY <2>1, CalmAlone DEF OnTrackEvent, Take, Serving, TrackEvents
  <2> HIDE DEF l
  <2> QED BY <2>2, AwayServes, AwayReturns
<1>4. CASE CheckPublished(h)
  <2>1. /\ pc[h] \notin Serving /\ loc[h].subs \in Subscriptions /\ UNCHANGED user
    BY <1>4, LocalsOf DEF CheckPublished, Serving, LocatedAt, AtSubs
  <2> QED BY <1>4, <2>1, CheckTracksServes DEF CheckPublished
<1>5. CASE LockConnected(h)
  <2>1. Calm /\ pc[h] \notin Serving /\ "check" \notin Serving /\ Go(h, "check", loc[h])
    BY <1>5, CalmAlone DEF LockConnected, Serving
  <2> QED BY <2>1, AwayServes
<1>6. CASE CheckConnected(h)
  <2> DEFINE s     == subscriptions[loc[h].key]
             after == IF pc[h] = "check" THEN "recheck" ELSE "leave"
  <2>1. /\ pc[h] \notin Serving /\ UNCHANGED user /\ s \in Maybe(Subscriptions)
        /\ after \in {"append", "recheck", "leave"} /\ after \notin Serving
    BY <1>6, LocalsOf DEF CheckConnected, LocatedAt, AtKey, DataTyped, Serving
  <2>2. CASE s = Nil
    <3>1. UNCHANGED subs /\ Go(h, after, loc[h])
      BY <1>6, <2>2 DEF CheckConnected
    <3> QED BY <2>1, <3>1, CalmAlone, AwayServes
  <2>3. CASE s # Nil
    <3>1. s \in Subscriptions /\ CheckTracks(h, s, subs[s].track, after)
      BY <1>6, <2>1, <2>3 DEF CheckConnected, Maybe
    <3> HIDE DEF s, after
    <3> QED BY <2>1, <3>1, CheckTracksServes
  <2> QED BY <2>2, <2>3
<1>7. CASE Leave(h)
  BY <1>7, CalmAlone, AwayReturns DEF Leave, Serving
<1>8. CASE Unpublished(h)
  BY <1>8, CalmAlone, AwayReturns DEF Unpublished, Serving
<1>9. CASE Unsubscribed(h)
  <2>1. /\ pc[h] \notin Serving /\ loc[h].subs \in Subscriptions /\ UNCHANGED user
        /\ Return(h)
    BY <1>9, LocalsOf DEF Unsubscribed, Serving, LocatedAt, AtSubs
  <2>2. Calm
    BY <1>9, <2>1, BreakCalm DEF Unsubscribed
  <2> QED BY <2>1, <2>2, AwayReturns
<1>10. CASE RefuseWriter(h)
  BY <1>10, CalmAlone, AwayReturns DEF RefuseWriter, Serving
<1> QED
  BY <1>1, <1>2, <1>3, <1>4, <1>5, <1>6, <1>7, <1>8, <1>9, <1>10

----------------------------------------------------------------------------
(* Building, wiring and removing.                                           *)

\* The new subscriber is served by the thread that has brought it.
LEMMA AddSubscriberServes ==
    ASSUME TInv, MembersInv, ServedInv, NEW c \in Threads, AddSubscriber(c)
    PROVE  ServedInv'
<1> DEFINE s == loc[c].subs
           u == loc[c].user
<1>1. /\ pc[c] = "append" /\ s \in Subscriptions /\ u \in Subscribers
      /\ Go(c, "build", loc[c])
  BY LocalsOf DEF AddSubscriber, LocatedAt, AtSubs, AtUser
<1>2. /\ pc'[c] = "build" /\ loc'[c] = loc[c]
      /\ \A x \in Threads : x # c => pc'[x] = pc[x] /\ loc'[x] = loc[x]
  BY <1>1, GoMoves
<1>3. user[u].subscription = Nil /\ Nil \notin Subscriptions
  BY <1>1, ObjectsOf DEF MembersInv, ThreadInv, Arriving
<1>4. /\ subs'[s].attached = subs[s].attached \cup {u}
      /\ \A x \in Subscriptions : x # s => subs'[x].attached = subs[x].attached
      /\ \A x \in Subscriptions : subs'[x].writer = subs[x].writer
      /\ user'[u].subscription = s
      /\ \A v \in Subscribers : v # u => user'[v] = user[v]
  BY <1>1, LocalsOf DEF AddSubscriber, DataTyped, SubscriptionType, SubscriberType
<1>5. Stays
  BY <1>3, <1>4 DEF Stays
<1>6. Building(c)'
  BY <1>2, <1>4 DEF Building
<1>7. ASSUME NEW x \in Subscriptions, NEW k \in Kinds, NEW v \in Subscribers, Lacks(x, k, v)'
      PROVE  \/ Serves(c, x, k, v)'
             \/ Lacks(x, k, v) /\ ~ Serves(c, x, k, v)
  <2>1. CASE v = u
    BY <1>2, <2>1 DEF Serves
  <2>2. CASE v # u
    BY <1>1, <1>4, <1>7, <2>2 DEF Serves, Lacks
  <2> QED
    BY <2>1, <2>2
<1> QED
  BY <1>2, <1>5, <1>6, <1>7, ServedKept

\* A step of building or wiring gives a subscriber its pipeline or goes on
\* serving it.
LEMMA BuildingServes ==
    ASSUME TInv, MembersInv, ServedInv, NEW th \in Threads,
           NEW label, NEW l, Go(th, label, l), Building(th)',
           \A s \in Subscriptions : /\ subs'[s].attached = subs[s].attached
                                    /\ subs'[s].writer = subs[s].writer,
           \A v \in Subscribers : user'[v].subscription = user[v].subscription,
           \A v \in Subscribers, k \in Kinds : user[v].ready[k] => user'[v].ready[k],
           \A s \in Subscriptions, k \in Kinds, v \in Subscribers :
               Serves(th, s, k, v) /\ Lacks(s, k, v) /\ ~ user'[v].ready[k]
                  => Serves(th, s, k, v)'
    PROVE  ServedInv'
<1>1. \A x \in Threads : x # th => pc'[x] = pc[x] /\ loc'[x] = loc[x]
  BY GoMoves
<1>2. Stays
  BY DEF Stays
<1>3. ASSUME NEW s \in Subscriptions, NEW k \in Kinds, NEW v \in Subscribers, Lacks(s, k, v)'
      PROVE  \/ Serves(th, s, k, v)'
             \/ Lacks(s, k, v) /\ ~ Serves(th, s, k, v)
  BY <1>3 DEF Lacks
<1> QED
  BY <1>1, <1>2, <1>3, ServedKept

\* Whoever a builder serves is its subscriber, whose subscription it has.
LEMMA BuilderServes ==
    ASSUME TInv, MembersInv, ServedInv, NEW c \in Threads,
           pc[c] \in {"build", "checkVideo", "buildVideo"},
           NEW s \in Subscriptions, NEW k \in Kinds, NEW v \in Subscribers,
           Lacks(s, k, v), Serves(c, s, k, v)
    PROVE  /\ v = loc[c].user /\ s = loc[c].subs
           /\ subs[loc[c].subs].writer[k] # Nil /\ ~ user[loc[c].user].ready[k]
           /\ pc[c] # "build" => k = "video"
BY DEF Serves, Lacks, ServedInv, Building, MembersInv, Homes

LEMMA BuildAudioServes ==
    ASSUME TInv, MembersInv, ServedInv, NEW c \in Threads, BuildAudio(c)
    PROVE  ServedInv'
<1> DEFINE u == loc[c].user
           needed == subs[loc[c].subs].writer["audio"] # Nil /\ ~ user[u].ready["audio"]
           r == [(IF needed THEN Built(user[u], "audio") ELSE user[u]) EXCEPT !.lock = c]
<1>1. /\ pc[c] = "build" /\ u \in Subscribers /\ user[u] \in SubscriberType
      /\ Go(c, "checkVideo", loc[c]) /\ UNCHANGED subs
  BY LocalsOf DEF BuildAudio, LocatedAt, AtUser, DataTyped
<1>2. user' = [user EXCEPT ![u] = r]
  BY <1>1, LocalsOf DEF BuildAudio, DataTyped
<1>3. /\ r.subscription = user[u].subscription
      /\ \A k \in Kinds : user[u].ready[k] => r.ready[k]
      /\ needed => r.ready["audio"]
  BY <1>1 DEF Built, SubscriberType, Kinds
<1>4. /\ user'[u] = r
      /\ \A v \in Subscribers : v # u => user'[v] = user[v]
  BY <1>1, <1>2, LocalsOf DEF DataTyped
<1>5. pc'[c] = "checkVideo" /\ loc'[c] = loc[c]
  BY <1>1, GoMoves
<1>6. /\ \A v \in Subscribers : user'[v].subscription = user[v].subscription
      /\ \A v \in Subscribers, k \in Kinds : user[v].ready[k] => user'[v].ready[k]
  <2> HIDE DEF r
  <2> QED BY <1>3, <1>4
<1>7. Building(c)'
  BY <1>1, <1>5, <1>6 DEF Building, ServedInv
<1>8. ASSUME NEW s \in Subscriptions, NEW k \in Kinds, NEW v \in Subscribers,
             Serves(c, s, k, v), Lacks(s, k, v), ~ user'[v].ready[k]
      PROVE  Serves(c, s, k, v)'
  <2>1. v = u /\ (k = "audio" => needed)
    BY <1>1, <1>8, BuilderServes
  <2>2. k = "video"
    BY <1>3, <1>4, <1>8, <2>1 DEF Kinds
  <2> QED
    BY <1>5, <2>1, <2>2 DEF Serves
<1> HIDE DEF u, r, needed
<1> QED
  BY <1>1, <1>6, <1>7, <1>8, BuildingServes

LEMMA CheckVideoServes ==
    ASSUME TInv, MembersInv, ServedInv, NEW c \in Threads, CheckVideo(c)
    PROVE  ServedInv'
<1> DEFINE u == loc[c].user
           needed == subs[loc[c].subs].writer["video"] # Nil /\ ~ user[u].ready["video"]
           r == [user[u] EXCEPT !.lock = Nil, !.ready["video"] = user[u].ready["video"] \/ needed]
<1>1. /\ pc[c] = "checkVideo" /\ u \in Subscribers /\ user[u] \in SubscriberType
      /\ UNCHANGED subs
  BY LocalsOf DEF CheckVideo, LocatedAt, AtUser, DataTyped
<1>2. CASE UNCHANGED user /\ Go(c, "buildVideo", loc[c])
  <2>1. pc'[c] = "buildVideo" /\ loc'[c] = loc[c]
    BY <1>2, GoMoves
  <2>2. Building(c)'
    BY <1>1, <1>2, <2>1 DEF Building, ServedInv
  <2>3. ASSUME NEW s \in Subscriptions, NEW k \in Kinds, NEW v \in Subscribers,
               Serves(c, s, k, v), Lacks(s, k, v)
        PROVE  Serves(c, s, k, v)'
    BY <1>1, <2>1, <2>3 DEF Serves
  <2> HIDE DEF u
  <2> QED
    BY <1>1, <1>2, <2>2, <2>3, BuildingServes
<1>3. CASE user' = [user EXCEPT ![u] = r] /\ Go(c, "register", loc[c])
  <2>1. /\ r.subscription = user[u].subscription
        /\ \A k \in Kinds : user[u].ready[k] => r.ready[k]
        /\ needed => r.ready["video"]
    BY <1>1 DEF SubscriberType, Kinds
  <2>2. /\ user'[u] = r
        /\ \A v \in Subscribers : v # u => user'[v] = user[v]
    BY <1>1, <1>3, LocalsOf DEF DataTyped
  <2>3. pc'[c] = "register" /\ loc'[c] = loc[c]
    BY <1>3, GoMoves
  <2>4. /\ \A v \in Subscribers : user'[v].subscription = user[v].subscription
        /\ \A v \in Subscribers, k \in Kinds : user[v].ready[k] => user'[v].ready[k]
    <3> HIDE DEF r
    <3> QED BY <2>1, <2>2
  <2>5. Building(c)'
    BY <2>3 DEF Building
  <2>6. ASSUME NEW s \in Subscriptions, NEW k \in Kinds, NEW v \in Subscribers,
               Serves(c, s, k, v), Lacks(s, k, v), ~ user'[v].ready[k]
        PROVE  Serves(c, s, k, v)'
    <3>1. v = u /\ k = "video" /\ needed
      BY <1>1, <2>6, BuilderServes
    <3> QED
      BY <2>1, <2>2, <2>6, <3>1
  <2> HIDE DEF u, r, needed
  <2> QED
    BY <1>1, <1>3, <2>4, <2>5, <2>6, BuildingServes
<1>4. \/ UNCHANGED user /\ Go(c, "buildVideo", loc[c])
      \/ user' = [user EXCEPT ![u] = r] /\ Go(c, "register", loc[c])
  BY <1>1, LocalsOf DEF CheckVideo, DataTyped
<1> QED
  BY <1>2, <1>3, <1>4

LEMMA BuildVideoServes ==
    ASSUME TInv, MembersInv, ServedInv, NEW c \in Threads, BuildVideo(c)
    PROVE  ServedInv'
<1> DEFINE u == loc[c].user
           r == [user[u] EXCEPT !.lock = Nil, !.ready["video"] = TRUE,
                                !.built["video"] = user[u].built["video"] + 1]
<1>1. /\ pc[c] = "buildVideo" /\ u \in Subscribers /\ user[u] \in SubscriberType
      /\ UNCHANGED subs /\ Go(c, "register", loc[c])
  BY LocalsOf DEF BuildVideo, LocatedAt, AtUser, DataTyped
<1>2. user' = [user EXCEPT ![u] = r]
  BY <1>1, LocalsOf DEF BuildVideo, DataTyped
<1>3. /\ r.subscription = user[u].subscription
      /\ \A k \in Kinds : user[u].ready[k] => r.ready[k]
      /\ r.ready["video"]
  BY <1>1 DEF SubscriberType, Kinds
<1>4. /\ user'[u] = r
      /\ \A v \in Subscribers : v # u => user'[v] = user[v]
  BY <1>1, <1>2, LocalsOf DEF DataTyped
<1>5. pc'[c] = "register" /\ loc'[c] = loc[c]
  BY <1>1, GoMoves
<1>6. /\ \A v \in Subscribers : user'[v].subscription = user[v].subscription
      /\ \A v \in Subscribers, k \in Kinds : user[v].ready[k] => user'[v].ready[k]
  <2> HIDE DEF r
  <2> QED BY <1>3, <1>4
<1>7. Building(c)'
  BY <1>5 DEF Building
<1>8. ASSUME NEW s \in Subscriptions, NEW k \in Kinds, NEW v \in Subscribers,
             Serves(c, s, k, v), Lacks(s, k, v), ~ user'[v].ready[k]
      PROVE  Serves(c, s, k, v)'
  <2>1. v = u /\ k = "video"
    BY <1>1, <1>8, BuilderServes
  <2> QED
    BY <1>3, <1>4, <1>8, <2>1
<1> HIDE DEF u, r
<1> QED
  BY <1>1, <1>6, <1>7, <1>8, BuildingServes

\* A subscriber that loses its pipelines is the one that is about to leave.
LEMMA DestroySubscriberServes ==
    ASSUME TInv, MembersInv, ServedInv, NEW c \in Threads, DestroySubscriber(c)
    PROVE  ServedInv'
<1> DEFINE u == loc[c].user
<1>1. /\ pc[c] = "destroy" /\ u \in Subscribers /\ UNCHANGED subs
      /\ Go(c, "detach", loc[c])
  BY LocalsOf DEF DestroySubscriber, LocatedAt, AtUser
<1>2. /\ pc'[c] = "detach" /\ loc'[c] = loc[c]
      /\ \A x \in Threads : x # c => pc'[x] = pc[x] /\ loc'[x] = loc[x]
  BY <1>1, GoMoves
<1>3. /\ \A v \in Subscribers : user'[v].subscription = user[v].subscription
      /\ \A v \in Subscribers : v # u => user'[v] = user[v]
  BY <1>1, LocalsOf DEF DestroySubscriber, DataTyped, SubscriberType
<1>4. Building(c)'
  BY <1>2 DEF Building
<1>5. ASSUME NEW s \in Subscriptions, NEW k \in Kinds, NEW v \in Subscribers, Lacks(s, k, v)'
      PROVE  \/ Serves(c, s, k, v)'
             \/ Lacks(s, k, v) /\ ~ Serves(c, s, k, v)
  <2>1. CASE v = u
    BY <1>2, <2>1 DEF Serves
  <2>2. CASE v # u
    BY <1>1, <1>3, <1>5, <2>2 DEF Serves, Lacks
  <2> QED
    BY <2>1, <2>2
<1> QED
  BY <1>2, <1>3, <1>4, <1>5, ServedKept DEF Stays

LEMMA DetachServes ==
    ASSUME TInv, MembersInv, ServedInv, NEW c \in Threads, Detach(c)
    PROVE  ServedInv'
<1> DEFINE s == loc[c].subs
           u == loc[c].user
           left == subs[s].attached \ {u}
           l == [loc[c] EXCEPT !.todo = Kinds]
<1>1. /\ pc[c] = "detach" /\ s \in Subscriptions /\ u \in Subscribers
      /\ UNCHANGED user /\ subs' = [subs EXCEPT ![s].attached = left]
  BY LocalsOf DEF Detach, LocatedAt, AtSubs, AtUser
<1>2. /\ pc'[c] \in {"idle", "unwire"}
      /\ \A x \in Threads : x # c => pc'[x] = pc[x] /\ loc'[x] = loc[x]
  <2>1. Go(c, "idle", NoLocals) \/ Go(c, "unwire", l)
    BY DEF Detach, Return
  <2> HIDE DEF l, left
  <2> QED
    BY <2>1, GoMoves
<1>3. s = user[u].subscription
  BY <1>1 DEF MembersInv, ThreadInv
<1>4. /\ subs'[s].attached = left
      /\ \A x \in Subscriptions : subs'[x].attached \subseteq subs[x].attached
      /\ \A x \in Subscriptions : subs'[x].writer = subs[x].writer
  BY <1>1, LocalsOf DEF DataTyped, SubscriptionType
<1>5. Building(c)'
  BY <1>2 DEF Building
<1>6. ASSUME NEW x \in Subscriptions, NEW k \in Kinds, NEW v \in Subscribers, Lacks(x, k, v)'
      PROVE  Lacks(x, k, v) /\ ~ Serves(c, x, k, v)
  <2>1. v \in subs[x].attached /\ v \in subs'[x].attached /\ Lacks(x, k, v)
    BY <1>1, <1>4, <1>6 DEF Lacks
  <2>2. user[v].subscription = x
    BY <2>1 DEF MembersInv, Homes
  <2>3. v # u
    BY <1>3, <1>4, <2>1, <2>2
  <2> QED
    BY <1>1, <2>1, <2>3 DEF Serves
<1> QED
  BY <1>1, <1>2, <1>5, <1>6, ServedKept DEF Stays

\* A new writer is created in the subscription's lock, together with the list
\* of the subscribers that it is to be wired to.
LEMMA CreateWriterServes ==
    ASSUME TInv, MembersInv, ServedInv, NEW h \in Threads, CreateWriter(h)
    PROVE  ServedInv'
<1> DEFINE s == loc[h].subs
           t == loc[h].track
           l == [loc[h] EXCEPT !.rest = subs[s].attached]
<1>1. /\ pc[h] = "subscribed" /\ s \in Subscriptions /\ t \in Tracks /\ UNCHANGED user
      /\ Go(h, "wire", l) /\ Kind[t] \in Kinds
  BY LocalsOf, TracksAssumption DEF CreateWriter, LocatedAt, AtSubs, AtTrack
<1>2. l.rest = subs[s].attached /\ l.subs = s /\ l.track = t
  BY LocalsOf DEF LocalsType
<1>3. /\ pc'[h] = "wire" /\ loc'[h].rest = subs[s].attached /\ loc'[h].subs = s
      /\ loc'[h].track = t
      /\ \A x \in Threads : x # h => pc'[x] = pc[x] /\ loc'[x] = loc[x]
  <2> HIDE DEF l
  <2> QED
    BY <1>1, <1>2, GoMoves
<1>4. /\ \A x \in Subscriptions : subs'[x].attached = subs[x].attached
      /\ \A x \in Subscriptions : x # s => subs'[x] = subs[x]
      /\ \A k \in Kinds : k # Kind[t] => subs'[s].writer[k] = subs[s].writer[k]
  BY <1>1, LocalsOf DEF CreateWriter, DataTyped, SubscriptionType
<1>5. Building(h)'
  BY <1>3 DEF Building
<1>6. ASSUME NEW x \in Subscriptions, NEW k \in Kinds, NEW v \in Subscribers, Lacks(x, k, v)'
      PROVE  \/ Serves(h, x, k, v)'
             \/ Lacks(x, k, v) /\ ~ Serves(h, x, k, v)
  <2>1. CASE x = s /\ k = Kind[t]
    BY <1>3, <1>4, <1>6, <2>1 DEF Serves, Lacks
  <2>2. CASE ~ (x = s /\ k = Kind[t])
    BY <1>1, <1>4, <1>6, <2>2 DEF Serves, Lacks
  <2> QED
    BY <2>1, <2>2
<1> QED
  BY <1>1, <1>3, <1>5, <1>6, ServedKept DEF Stays

LEMMA WireAudioServes ==
    ASSUME TInv, MembersInv, ServedInv, NEW h \in Threads, NEW u \in Subscribers,
           WireAudio(h, u), ~ Panic
    PROVE  ServedInv'
<1>1. /\ pc[h] = "wire" /\ Kind[loc[h].track] = "audio" /\ UNCHANGED subs
      /\ Go(h, "wire", Wired(h, u)) /\ user' = [user EXCEPT ![u] = Built(user[u], "audio")]
  BY LocalsOf DEF WireAudio, Wiring, DataTyped
<1>2. /\ Built(user[u], "audio").subscription = user[u].subscription
      /\ Built(user[u], "audio").ready["audio"]
      /\ \A k \in Kinds : user[u].ready[k] => Built(user[u], "audio").ready[k]
  BY LocalsOf DEF Built, DataTyped, SubscriberType, Kinds
<1>3. /\ user'[u] = Built(user[u], "audio")
      /\ \A v \in Subscribers : v # u => user'[v] = user[v]
  BY <1>1, LocalsOf DEF DataTyped
<1>4. /\ \A v \in Subscribers : user'[v].subscription = user[v].subscription
      /\ \A v \in Subscribers, k \in Kinds : user[v].ready[k] => user'[v].ready[k]
  BY <1>2, <1>3
<1>5. /\ Wired(h, u).rest = loc[h].rest \ {u} /\ Wired(h, u).subs = loc[h].subs
      /\ Wired(h, u).track = loc[h].track
  BY LocalsOf DEF Wired, LocalsType
<1>6. pc'[h] = "wire" /\ loc'[h] = Wired(h, u)
  BY <1>1, GoMoves
<1>7. Building(h)'
  BY <1>6 DEF Building
<1>8. ASSUME NEW s \in Subscriptions, NEW k \in Kinds, NEW v \in Subscribers,
             Serves(h, s, k, v), Lacks(s, k, v), ~ user'[v].ready[k]
      PROVE  Serves(h, s, k, v)'
  <2>1. loc[h].subs = s /\ k = "audio" /\ v \in loc[h].rest
    BY <1>1, <1>8 DEF Serves
  <2>2. v # u
    BY <1>2, <1>3, <1>8, <2>1
  <2> QED
    BY <1>1, <1>5, <1>6, <2>1, <2>2 DEF Serves
<1> QED
  BY <1>1, <1>4, <1>7, <1>8, BuildingServes

LEMMA CheckWireVideoServes ==
    ASSUME TInv, MembersInv, ServedInv, NEW h \in Threads, NEW u \in Subscribers,
           CheckWireVideo(h, u)
    PROVE  ServedInv'
<1> DEFINE l == [loc[h] EXCEPT !.user = u]
           label == IF user[u].built["video"] = 0 THEN "wireVideo" ELSE "wireReady"
<1>1. /\ pc[h] = "wire" /\ Kind[loc[h].track] = "video" /\ UNCHANGED <<subs, user>>
      /\ Go(h, label, l) /\ label \in {"wireVideo", "wireReady"}
  BY DEF CheckWireVideo, Wiring
<1>2. l.rest = loc[h].rest /\ l.subs = loc[h].subs /\ l.track = loc[h].track
  BY LocalsOf DEF LocalsType
<1> HIDE DEF l, label
<1>3. pc'[h] = label /\ loc'[h] = l
  BY <1>1, GoMoves
<1>4. Building(h)'
  BY <1>1, <1>2, <1>3 DEF Building
<1>5. ASSUME NEW s \in Subscriptions, NEW k \in Kinds, NEW v \in Subscribers,
             Serves(h, s, k, v), Lacks(s, k, v)
      PROVE  Serves(h, s, k, v)'
  BY <1>1, <1>2, <1>3, <1>5 DEF Serves
<1> QED
  BY <1>1, <1>4, <1>5, BuildingServes

LEMMA WireVideoServes ==
    ASSUME TInv, MembersInv, ServedInv, NEW h \in Threads, WireVideo(h), ~ Panic
    PROVE  ServedInv'
<1> DEFINE u == loc[h].user
           r == [user[u] EXCEPT !.built["video"] = user[u].built["video"] + 1]
<1>1. /\ pc[h] = "wireVideo" /\ UNCHANGED subs /\ Go(h, "wireReady", loc[h])
      /\ u \in Subscribers
  BY LocalsOf DEF WireVideo, LocatedAt, AtUser
<1>2. user' = [user EXCEPT ![u] = r]
  BY <1>1, LocalsOf DEF WireVideo, DataTyped
<1>3. r.subscription = user[u].subscription /\ r.ready = user[u].ready
  BY <1>1, LocalsOf DEF SubscriberType, DataTyped
<1>4. \A v \in Subscribers : /\ user'[v].subscription = user[v].subscription
                             /\ user'[v].ready = user[v].ready
  <2> HIDE DEF r, u
  <2> QED BY <1>1, <1>2, <1>3, LocalsOf DEF DataTyped
<1>5. pc'[h] = "wireReady" /\ loc'[h] = loc[h]
  BY <1>1, GoMoves
<1>6. Building(h)'
  BY <1>1, <1>5 DEF Building, ServedInv
<1>7. ASSUME NEW s \in Subscriptions, NEW k \in Kinds, NEW v \in Subscribers,
             Serves(h, s, k, v), Lacks(s, k, v)
      PROVE  Serves(h, s, k, v)'
  BY <1>1, <1>5, <1>7 DEF Serves
<1> HIDE DEF u, r
<1> QED
  BY <1>1, <1>4, <1>6, <1>7, BuildingServes

LEMMA WireReadyServes ==
    ASSUME TInv, MembersInv, ServedInv, NEW h \in Threads, WireReady(h)
    PROVE  ServedInv'
<1> DEFINE u == loc[h].user
           r == [user[u] EXCEPT !.ready["video"] = TRUE]
<1>1. /\ pc[h] = "wireReady" /\ UNCHANGED subs /\ Go(h, "wire", Wired(h, u))
      /\ u \in Subscribers /\ Kind[loc[h].track] = "video"
  BY LocalsOf DEF WireReady, LocatedAt, AtUser, ServedInv, Building
<1>2. user' = [user EXCEPT ![u] = r]
  BY <1>1, LocalsOf DEF WireReady, DataTyped
<1>3. /\ r.subscription = user[u].subscription
      /\ \A k \in Kinds : user[u].ready[k] => r.ready[k]
      /\ r.ready["video"]
  BY <1>1, LocalsOf DEF SubscriberType, DataTyped, Kinds
<1>4. /\ user'[u] = r
      /\ \A v \in Subscribers : v # u => user'[v] = user[v]
  BY <1>1, <1>2, LocalsOf DEF DataTyped
<1>5. /\ \A v \in Subscribers : user'[v].subscription = user[v].subscription
      /\ \A v \in Subscribers, k \in Kinds : user[v].ready[k] => user'[v].ready[k]
  <2> HIDE DEF r
  <2> QED BY <1>3, <1>4
<1>6. /\ Wired(h, u).rest = loc[h].rest \ {u} /\ Wired(h, u).subs = loc[h].subs
      /\ Wired(h, u).track = loc[h].track
  BY LocalsOf DEF Wired, LocalsType
<1>7. pc'[h] = "wire" /\ loc'[h] = Wired(h, u)
  BY <1>1, GoMoves
<1>8. Building(h)'
  BY <1>7 DEF Building
<1>9. ASSUME NEW s \in Subscriptions, NEW k \in Kinds, NEW v \in Subscribers,
             Serves(h, s, k, v), Lacks(s, k, v), ~ user'[v].ready[k]
      PROVE  Serves(h, s, k, v)'
  <2>1. loc[h].subs = s /\ k = "video" /\ v \in loc[h].rest
    BY <1>1, <1>9 DEF Serves
  <2>2. v # u
    BY <1>3, <1>4, <1>9, <2>1
  <2> QED
    BY <1>1, <1>6, <1>7, <2>1, <2>2 DEF Serves
<1> HIDE DEF u, r
<1> QED
  BY <1>1, <1>5, <1>8, <1>9, BuildingServes

\* Every subscriber on the list has been wired when the lock is released.
LEMMA FinishWriterServes ==
    ASSUME TInv, MembersInv, ServedInv, NEW h \in Threads, FinishWriter(h)
    PROVE  ServedInv'
<1>1. /\ pc[h] = "wire" /\ loc[h].rest = {} /\ UNCHANGED user /\ Go(h, "idle", NoLocals)
  BY DEF FinishWriter, Return
<1>2. \A s \in Subscriptions : /\ subs'[s].attached = subs[s].attached
                               /\ subs'[s].writer = subs[s].writer
  BY LocalsOf DEF FinishWriter, DataTyped, SubscriptionType
<1>3. pc'[h] = "idle"
  BY <1>1, GoMoves
<1>4. Building(h)'
  BY <1>3 DEF Building
<1>5. \A s \in Subscriptions, k \in Kinds, v \in Subscribers : ~ Serves(h, s, k, v)
  BY <1>1 DEF Serves
<1> QED
  BY <1>1, <1>2, <1>4, <1>5, BuildingServes

LEMMA NextServes ==
    ASSUME TInv, MembersInv, ServedInv, [Next]_vars
    PROVE  ServedInv'
<1>1. CASE UNCHANGED vars
  BY <1>1, OutsideServes DEF vars
<1>2. CASE SdkNext
  <2>1. \E p, q, e : SdkStep(p, q, e)
    BY <1>2 DEF SdkNext, Join, Publish, Unpublish, Attach, Loses
  <2> QED
    BY <2>1, OutsideServes DEF SdkStep
<1>3. CASE Start
  BY <1>3, ClientAwayServes, HandlerAwayServes DEF Start, Threads
<1>4. ASSUME NEW c \in Clients, ClientStep(c)
      PROVE  ServedInv'
  <2> c \in Threads
    BY DEF Threads
  <2> QED
    BY <1>4, ClientAwayServes, AddSubscriberServes, BuildAudioServes, CheckVideoServes,
       BuildVideoServes, RequestServes, RecordServes, DestroySubscriberServes, DetachServes
    DEF ClientStep
<1>5. ASSUME NEW h \in Handlers, HandlerStep(h)
      PROVE  ServedInv'
  <2> h \in Threads
    BY DEF Threads
  <2>1. CASE Panic
    BY <2>1, OutsideServes DEF Panic
  <2>2. CASE ~ Panic
    BY <1>5, <2>2, HandlerAwayServes, RequestServes, RecordServes, CreateWriterServes,
       WireAudioServes, CheckWireVideoServes, WireVideoServes, WireReadyServes,
       FinishWriterServes
    DEF HandlerStep
  <2> QED
    BY <2>1, <2>2
<1> QED
  BY <1>1, <1>2, <1>3, <1>4, <1>5 DEF Next

\* No subscriber is overlooked between createWriter, which wires those it finds
\* in the subscription's lock, and buildSubscriber, which reads the writers
\* outside it: one of the two gives every attached subscriber its pipeline.
THEOREM NobodyForgotten == Spec => []NoForgottenSubscriber
<1>1. Init => ServedInv
  BY DEF Init, ServedInv, Served, Lacks, Building
<1>2. TInv /\ MembersInv /\ ServedInv /\ [Next]_vars => ServedInv'
  BY NextServes
<1>3. TInv /\ ServedInv => NoForgottenSubscriber
  BY ServedMeans DEF ServedInv
<1> QED
  BY <1>1, <1>2, <1>3, TypedThroughout, MembersThroughout, PTL DEF Spec

----------------------------------------------------------------------------
(* No publication is missed.  A subscription without the track of a kind    *)
(* that is published is about to be looked at: by an event that waits, or   *)
(* by a thread that will check it, or will take it out of the table.        *)

Camera == {key \in Keys : ~ key[2]}

Behind(key, k) == /\ subscriptions[key] # Nil /\ Visible(key, k) # {}
                  /\ subs[subscriptions[key]].track[k] = Nil

EventFor(key) == \/ \E t \in Tracks : KeyOf(t) = key /\ <<"published", t>> \in events
                 \/ <<"connected", key[1]>> \in events

\* A callback that looked the subscription up before it had the lock looks at
\* the one in the table only if that has not been replaced.
Notices(th, key) ==
    \/ loc[th].key = key /\ pc[th] \in {"connected", "check", "recheck"}
    \/ /\ loc[th].subs = subscriptions[key]
       /\ \/ pc[th] = "published" /\ loc[th].key = key
          \/ pc[th] \in {"make", "unwire", "release", "drop"}

Noticed == \A key \in Camera, k \in Kinds :
    Behind(key, k) => EventFor(key) \/ \E th \in Threads : Notices(th, key)

\* Only participants that the SDK knows publish, ...
Announced == \A t \in Tracks : pub[t].status = "published" => Owner[t] \in present

\* ... and makeSubscription asks for the participant of its subscription.
Named(th) == pc[th] = "make" => subs[loc[th].subs].key = loc[th].key

NoticedInv == Noticed /\ Announced /\ \A th \in Threads : Named(th)

\* A key is written once.
KeysOnce == \A s \in Subscriptions : subs[s].key # Nil => subs'[s].key = subs[s].key

LEMMA CameraKeys ==
    /\ \A key \in Camera : key \in Keys /\ key # Nil /\ key = <<key[1], FALSE>>
                           /\ key[1] \in Participants
    /\ \A p \in Participants : <<p, FALSE>> \in Camera /\ <<p, FALSE>>[1] = p
<1>1. ASSUME NEW key \in Camera
      PROVE  /\ key \in Keys /\ key # Nil /\ key = <<key[1], FALSE>>
             /\ key[1] \in Participants
  <2>1. key \in Keys /\ key # Nil /\ ~ key[2]
    BY NilAssumption DEF Camera
  <2>2. PICK p \in Participants, b \in BOOLEAN : key = <<p, b>>
    BY <2>1 DEF Keys
  <2>3. CASE b = TRUE
    BY <2>1, <2>2, <2>3
  <2>4. CASE b = FALSE
    BY <2>1, <2>2, <2>4
  <2> QED
    BY <2>3, <2>4
<1>2. ASSUME NEW p \in Participants
      PROVE  <<p, FALSE>> \in Camera /\ <<p, FALSE>>[1] = p
  BY DEF Camera, Keys
<1> QED
  BY <1>1, <1>2

LEMMA TableOf ==
    ASSUME TInv, MembersInv, NEW key \in Keys, subscriptions[key] # Nil
    PROVE  subscriptions[key] \in Subscriptions /\ subs[subscriptions[key]].key = key
<1>1. subscriptions[key] \in Maybe(Subscriptions)
  BY DEF TInv, TypeOK
<1>2. subs[subscriptions[key]].key = key
  BY DEF MembersInv, TableKeys
<1> QED
  BY <1>1, <1>2 DEF Maybe

\* A step leaves no subscription unnoticed: one that is behind afterwards has
\* an event or the stepping thread to notice it, or was behind before, and
\* the stepping thread was not the one to notice.
LEMMA NoticedKept ==
    ASSUME TInv, MembersInv, NoticedInv, NEW th \in Threads,
           \A x \in Threads : x # th => pc'[x] = pc[x] /\ loc'[x] = loc[x],
           KeysOnce, Announced', Named(th)',
           \A key \in Camera, k \in Kinds : Behind(key, k)' =>
               \/ EventFor(key)' \/ Notices(th, key)'
               \/ /\ Behind(key, k) /\ ~ EventFor(key) /\ ~ Notices(th, key)
                  /\ subscriptions'[key] = subscriptions[key]
    PROVE  NoticedInv'
<1>1. Noticed'
  <2> SUFFICES ASSUME NEW key \in Camera, NEW k \in Kinds, Behind(key, k)',
                      ~ EventFor(key)', ~ Notices(th, key)'
               PROVE  \E x \in Threads : Notices(x, key)'
    BY DEF Noticed
  <2>1. PICK x \in Threads : Notices(x, key)
    BY DEF NoticedInv, Noticed
  <2>2. x # th /\ subscriptions'[key] = subscriptions[key]
    BY <2>1
  <2>3. Notices(x, key)'
    BY <2>1, <2>2 DEF Notices
  <2> QED
    BY <2>3
<1>2. ASSUME NEW x \in Threads PROVE Named(x)'
  <2>1. CASE x = th
    BY <2>1
  <2>2. CASE x # th
    <3>1. pc'[x] = pc[x] /\ loc'[x] = loc[x] /\ Named(x)
      BY <2>2 DEF NoticedInv
    <3>2. pc[x] = "make" => loc[x].subs \in Subscriptions /\ loc[x].key \in Keys
      BY LocalsOf DEF LocatedAt, AtSubs, AtKey
    <3> QED
      BY <3>1, <3>2, NilAssumption DEF Named, KeysOnce
  <2> QED
    BY <2>1, <2>2
<1> QED
  BY <1>1, <1>2 DEF NoticedInv

\* Steps that publish nothing, handle no event of a publication and drop no
\* track from a subscription.
Tame == /\ UNCHANGED <<subscriptions, present>>
        /\ \A t \in Tracks : pub'[t].status = pub[t].status
        /\ \A key \in Camera : EventFor(key) => EventFor(key)'
        /\ \A s \in Subscriptions :
              /\ subs'[s].key = subs[s].key
              /\ \A k \in Kinds : subs'[s].track[k] = Nil => subs[s].track[k] = Nil

LEMMA TameBehind ==
    ASSUME TInv, MembersInv, Tame, NEW key \in Camera, NEW k \in Kinds, Behind(key, k)'
    PROVE  Behind(key, k)
<1>1. subscriptions[key] # Nil /\ subscriptions[key] \in Subscriptions
  BY CameraKeys, TableOf DEF Behind, Tame
<1>2. Visible(key, k)' = Visible(key, k)
  BY DEF Tame, Visible, KeyOf
<1> QED
  BY <1>1, <1>2 DEF Behind, Tame

\* The lock of a subscription, its subscribers and writers do not matter.
LEMMA TameAlone ==
    ASSUME UNCHANGED <<subscriptions, present, events>>,
           pub' = pub \/ (\A t \in Tracks : pub'[t].status = pub[t].status),
           subs' = subs \/ (\A s \in Subscriptions : /\ subs'[s].key = subs[s].key
                                                     /\ subs'[s].track = subs[s].track)
    PROVE  Tame
BY DEF Tame, EventFor, KeyOf

LEMMA TameNotices ==
    ASSUME TInv, MembersInv, NoticedInv, NEW th \in Threads, Tame,
           NEW label, label # "make", NEW l, Go(th, label, l),
           \A key \in Camera, k \in Kinds :
               Behind(key, k)' /\ Notices(th, key) => Notices(th, key)'
    PROVE  NoticedInv'
<1>1. /\ pc'[th] = label
      /\ \A x \in Threads : x # th => pc'[x] = pc[x] /\ loc'[x] = loc[x]
  BY GoMoves
<1>2. KeysOnce /\ Announced' /\ Named(th)'
  BY <1>1 DEF Tame, KeysOnce, NoticedInv, Announced, Named
<1>3. ASSUME NEW key \in Camera, NEW k \in Kinds, Behind(key, k)',
             ~ EventFor(key)', ~ Notices(th, key)'
      PROVE  /\ Behind(key, k) /\ ~ EventFor(key) /\ ~ Notices(th, key)
             /\ subscriptions'[key] = subscriptions[key]
  BY <1>3, TameBehind DEF Tame
<1> QED
  BY <1>1, <1>2, <1>3, NoticedKept

\* Labels of a thread that somebody may wait for.
Noticing == {"make", "unwire", "release", "drop", "published", "connected", "check", "recheck"}

LEMMA TameAway ==
    ASSUME TInv, MembersInv, NoticedInv, NEW th \in Threads, Tame,
           NEW label, label # "make", NEW l, Go(th, label, l), pc[th] \notin Noticing
    PROVE  NoticedInv'
BY TameNotices DEF Notices, Noticing

LEMMA TameReturns ==
    ASSUME TInv, MembersInv, NoticedInv, NEW th \in Threads, Tame,
           Return(th), pc[th] \notin Noticing
    PROVE  NoticedInv'
BY TameAway DEF Return

----------------------------------------------------------------------------
(* Checking a subscription.                                                 *)

\* A subscription that has been checked is not behind.
LEMMA CheckedNotices ==
    ASSUME TInv, MembersInv, NoticedInv, NEW th \in Threads, NEW s \in Subscriptions,
           NEW old, NEW after, after # "make", CheckTracks(th, s, old, after),
           UNCHANGED <<subscriptions, present, pub, events>>,
           \A key \in Camera : Notices(th, key) /\ subscriptions[key] # Nil => subscriptions[key] = s
    PROVE  NoticedInv'
<1>1. PICK pick \in Checked(s) :
        LET todo == {k \in Kinds : k \in Changed(s)}
        IN  /\ subs' = [subs EXCEPT ![s].track = pick]
            /\ Go(th, IF todo = {} THEN after ELSE "request",
                  [loc[th] EXCEPT !.subs = s, !.old = old,
                                  !.todo = todo, !.after = after])
  BY DEF CheckTracks
<1> DEFINE todo == {k \in Kinds : k \in Changed(s)}
           label == IF todo = {} THEN after ELSE "request"
           l == [loc[th] EXCEPT !.subs = s, !.old = old, !.todo = todo, !.after = after]
<1>2. label # "make" /\ Go(th, label, l)
  BY <1>1
<1>3. /\ subs'[s].key = subs[s].key /\ subs'[s].track = pick
      /\ \A x \in Subscriptions : x # s => subs'[x] = subs[x]
  BY <1>1, LocalsOf DEF DataTyped, SubscriptionType
<1>4. ASSUME NEW k \in Kinds, pick[k] = Nil
      PROVE  subs[s].track[k] = Nil /\ Visible(subs[s].key, k) = {}
  <2>1. Visible(subs[s].key, k) \subseteq Tracks /\ Nil \notin Tracks
    BY NilAssumption DEF Visible
  <2>2. k \notin Changed(s) /\ pick[k] = subs[s].track[k]
    BY <1>4, <2>1 DEF Checked
  <2> QED
    BY <1>4, <2>1, <2>2 DEF Changed
<1>5. Tame
  BY <1>3, <1>4 DEF Tame, EventFor
<1>6. ASSUME NEW key \in Camera, NEW k \in Kinds, Behind(key, k)'
      PROVE  ~ Notices(th, key)
  <2>1. Behind(key, k)
    BY <1>5, <1>6, TameBehind
  <2>2. CASE subscriptions[key] = s
    <3>1. subs[s].key = key
      BY <2>1, <2>2, CameraKeys, TableOf DEF Behind
    <3>2. pick[k] = Nil
      BY <1>3, <1>6, <2>2 DEF Behind
    <3> QED
      BY <1>4, <2>1, <3>1, <3>2 DEF Behind
  <2> QED
    BY <2>1, <2>2 DEF Behind
<1> HIDE DEF label, l
<1> QED
  BY <1>2, <1>5, <1>6, TameNotices

LEMMA CheckPublishedNotices ==
    ASSUME TInv, MembersInv, NoticedInv, NEW h \in Threads, CheckPublished(h)
    PROVE  NoticedInv'
<1>1. /\ pc[h] = "published" /\ loc[h].subs \in Subscriptions
      /\ UNCHANGED <<subscriptions, present, pub, events>>
      /\ CheckTracks(h, loc[h].subs, subs[loc[h].subs].track, "leave")
  BY LocalsOf DEF CheckPublished, LocatedAt, AtSubs, tables, sdk
<1>2. \A key \in Camera : Notices(h, key) => subscriptions[key] = loc[h].subs
  BY <1>1 DEF Notices
<1> QED
  BY <1>1, <1>2, CheckedNotices

LEMMA CheckConnectedNotices ==
    ASSUME TInv, MembersInv, NoticedInv, NEW h \in Threads, CheckConnected(h)
    PROVE  NoticedInv'
<1> DEFINE s     == subscriptions[loc[h].key]
           after == IF pc[h] = "check" THEN "recheck" ELSE "leave"
<1>1. /\ pc[h] \in {"check", "recheck"}
      /\ UNCHANGED <<subscriptions, present, pub, events>>
      /\ loc[h].key \in Keys /\ s \in Maybe(Subscriptions)
      /\ after # "make"
  BY LocalsOf DEF CheckConnected, LocatedAt, AtKey, DataTyped, tables, sdk
<1>2. \A key \in Camera : Notices(h, key) => subscriptions[key] = s
  BY <1>1 DEF Notices
<1>3. CASE s = Nil
  <2>1. UNCHANGED subs /\ Go(h, after, loc[h])
    BY <1>3 DEF CheckConnected
  <2>2. Tame
    BY <1>1, <2>1, TameAlone
  <2>3. \A key \in Camera, k \in Kinds : Behind(key, k)' => ~ Notices(h, key)
    BY <1>1, <1>2, <1>3 DEF Behind
  <2> HIDE DEF s, after
  <2> QED
    BY <1>1, <2>1, <2>2, <2>3, TameNotices
<1>4. CASE s # Nil
  <2>1. s \in Subscriptions /\ CheckTracks(h, s, subs[s].track, after)
    BY <1>1, <1>4 DEF CheckConnected, Maybe
  <2> HIDE DEF s, after
  <2> QED
    BY <1>1, <1>2, <2>1, CheckedNotices
<1> QED
  BY <1>3, <1>4

\* makeSubscription may leave the tracks of a participant that is not there: it
\* has published none.
LEMMA MakeSubscriptionNotices ==
    ASSUME TInv, MembersInv, NoticedInv, NEW c \in Threads, MakeSubscription(c)
    PROVE  NoticedInv'
<1>1. /\ pc[c] = "make" /\ loc[c].subs \in Subscriptions
      /\ loc[c].key \in Keys /\ subs[loc[c].subs].key = loc[c].key
      /\ UNCHANGED <<subscriptions, present, pub, events>>
  BY LocalsOf DEF MakeSubscription, LocatedAt, AtSubs, AtKey, NoticedInv, Named, tables, sdk
<1>2. \A key \in Camera : Notices(c, key) => subscriptions[key] = loc[c].subs
  BY <1>1 DEF Notices
<1>3. CASE CheckTracks(c, loc[c].subs, NoTracks, "append")
  BY <1>1, <1>2, <1>3, CheckedNotices
<1>4. CASE /\ loc[c].key[1] \notin present
           /\ Go(c, "append", loc[c]) /\ UNCHANGED subs
  <2>1. Tame
    BY <1>1, <1>4, TameAlone
  <2>2. ASSUME NEW key \in Camera, NEW k \in Kinds, Behind(key, k)'
        PROVE  ~ Notices(c, key)
    <3>1. Behind(key, k)
      BY <2>1, <2>2, TameBehind
    <3>2. subscriptions[key] # Nil /\ key \in Keys
      BY <3>1, CameraKeys DEF Behind
    <3>3. Notices(c, key) => key = loc[c].key
      BY <1>1, <1>2, <3>2, TableOf
    <3>4. key[1] \in present
      <4>1. PICK t \in Tracks : KeyOf(t) = key /\ pub[t].status = "published"
        BY <3>1 DEF Behind, Visible
      <4> QED
        BY <4>1 DEF NoticedInv, Announced, KeyOf
    <3> QED
      BY <1>4, <3>3, <3>4
  <2> QED
    BY <1>4, <2>1, <2>2, TameNotices
<1> QED
  BY <1>3, <1>4 DEF MakeSubscription

----------------------------------------------------------------------------
(* The table and the events.                                                *)

LEMMA AddSubscriptionNotices ==
    ASSUME TInv, MembersInv, NoticedInv, NEW c \in Threads, AddSubscription(c)
    PROVE  NoticedInv'
<1>1. PICK s \in Subscriptions :
          /\ subs[s].key = Nil
          /\ subs' = [subs EXCEPT ![s].key = loc[c].key]
          /\ subscriptions' = [subscriptions EXCEPT ![loc[c].key] = s]
          /\ Go(c, "make", [loc[c] EXCEPT !.subs = s])
  BY DEF AddSubscription
<1> DEFINE l == [loc[c] EXCEPT !.subs = s]
<1>2. /\ pc[c] = "lookup" /\ loc[c].key \in Keys /\ UNCHANGED <<present, pub, events>>
      /\ l.subs = s /\ l.key = loc[c].key
  BY LocalsOf DEF AddSubscription, LocatedAt, AtKey, LocalsType, sdk
<1>3. /\ pc'[c] = "make" /\ loc'[c].subs = s /\ loc'[c].key = loc[c].key
      /\ \A x \in Threads : x # c => pc'[x] = pc[x] /\ loc'[x] = loc[x]
  <2>1. Go(c, "make", l)
    BY <1>1
  <2> HIDE DEF l
  <2> QED BY <1>2, <2>1, GoMoves
<1>4. /\ subs'[s].key = loc[c].key /\ subscriptions'[loc[c].key] = s
      /\ \A y \in Keys : y # loc[c].key => subscriptions'[y] = subscriptions[y]
      /\ \A x \in Subscriptions : x # s => subs'[x] = subs[x]
      /\ \A x \in Subscriptions : subs'[x].track = subs[x].track
  BY <1>1, <1>2, LocalsOf DEF DataTyped, SubscriptionType
<1>5. KeysOnce /\ Announced' /\ Named(c)'
  BY <1>1, <1>2, <1>3, <1>4 DEF KeysOnce, Announced, NoticedInv, Named
<1>6. ASSUME NEW key \in Camera, NEW k \in Kinds, Behind(key, k)'
      PROVE  \/ EventFor(key)' \/ Notices(c, key)'
             \/ /\ Behind(key, k) /\ ~ EventFor(key) /\ ~ Notices(c, key)
                /\ subscriptions'[key] = subscriptions[key]
  <2>1. CASE key = loc[c].key
    BY <1>3, <1>4, <2>1 DEF Notices
  <2>2. CASE key # loc[c].key
    <3>1. key \in Keys /\ subscriptions'[key] = subscriptions[key]
      BY <1>4, <2>2, CameraKeys
    <3>2. subscriptions[key] \in Subscriptions
      BY <1>6, <3>1, TableOf DEF Behind
    <3>3. Visible(key, k)' = Visible(key, k) /\ EventFor(key)' = EventFor(key)
      BY <1>2 DEF Visible, EventFor, KeyOf
    <3>4. Behind(key, k)
      BY <1>4, <1>6, <3>1, <3>2, <3>3 DEF Behind
    <3>5. ~ Notices(c, key)
      BY <1>2 DEF Notices
    <3> QED
      BY <3>1, <3>3, <3>4, <3>5
  <2> QED
    BY <2>1, <2>2
<1> QED
  BY <1>3, <1>5, <1>6, NoticedKept

LEMMA RemoveSubscriptionNotices ==
    ASSUME TInv, MembersInv, NoticedInv, NEW c \in Threads, RemoveSubscription(c)
    PROVE  NoticedInv'
<1> DEFINE s == loc[c].subs
<1>1. /\ pc[c] = "drop" /\ s \in Subscriptions /\ UNCHANGED <<subs, present, pub, events>>
      /\ subscriptions' = [subscriptions EXCEPT ![subs[s].key] = Nil]
      /\ Go(c, "idle", NoLocals)
  BY LocalsOf DEF RemoveSubscription, Return, LocatedAt, AtSubs, sdk
<1>2. /\ pc'[c] = "idle"
      /\ \A x \in Threads : x # c => pc'[x] = pc[x] /\ loc'[x] = loc[x]
  BY <1>1, GoMoves
<1>3. InTable(s)
  BY <1>1 DEF MembersInv, ThreadInv, Emptied
<1>4. /\ subscriptions'[subs[s].key] = Nil
      /\ \A y \in Keys : y # subs[s].key => subscriptions'[y] = subscriptions[y]
  BY <1>1, <1>3, LocalsOf DEF DataTyped, InTable
<1>5. KeysOnce /\ Announced' /\ Named(c)'
  BY <1>1, <1>2 DEF KeysOnce, Announced, NoticedInv, Named
<1>6. ASSUME NEW key \in Camera, NEW k \in Kinds, Behind(key, k)', ~ EventFor(key)'
      PROVE  /\ Behind(key, k) /\ ~ EventFor(key) /\ ~ Notices(c, key)
             /\ subscriptions'[key] = subscriptions[key]
  <2>1. key \in Keys /\ key # subs[s].key /\ subscriptions'[key] = subscriptions[key]
    BY <1>4, <1>6, CameraKeys DEF Behind
  <2>2. Visible(key, k)' = Visible(key, k) /\ EventFor(key)' = EventFor(key)
    BY <1>1 DEF Visible, EventFor, KeyOf
  <2>3. Behind(key, k)
    BY <1>1, <1>6, <2>1, <2>2 DEF Behind
  <2>4. ~ Notices(c, key)
    BY <1>1, <2>1, <2>3, TableOf DEF Notices, Behind
  <2> QED
    BY <1>6, <2>1, <2>2, <2>3, <2>4
<1> QED
  BY <1>2, <1>5, <1>6, NoticedKept

\* A track goes from a slot only while its subscription is taken down.
LEMMA UnwireNotices ==
    ASSUME TInv, MembersInv, NoticedInv, NEW c \in Threads, Unwire(c)
    PROVE  NoticedInv'
<1> DEFINE s == loc[c].subs
           k0 == FirstKind(loc[c].todo)
           t == subs[s].track[k0]
           label == IF k0 = "audio" THEN "unwire" ELSE "drop"
           l == [loc[c] EXCEPT !.todo = @ \ {k0}]
           m == [loc[c] EXCEPT !.track = t]
<1>1. /\ pc[c] = "unwire" /\ s \in Subscriptions
      /\ UNCHANGED <<subscriptions, present, pub, events>>
      /\ l.subs = s /\ m.subs = s
      /\ label \in {"unwire", "drop"}
  BY LocalsOf DEF Unwire, LocatedAt, AtSubs, sdk, LocalsType
<1>2. CASE BreakWriter(s, k0, Nil) /\ Go(c, "release", m)
  <2>1. /\ pc'[c] = "release" /\ loc'[c].subs = s
        /\ \A x \in Threads : x # c => pc'[x] = pc[x] /\ loc'[x] = loc[x]
    <3> HIDE DEF m
    <3> QED BY <1>1, <1>2, GoMoves
  <2>2. /\ subs'[s].key = subs[s].key
        /\ \A x \in Subscriptions : x # s => subs'[x] = subs[x]
    BY <1>1, <1>2, LocalsOf DEF BreakWriter, DataTyped, SubscriptionType
  <2>3. KeysOnce /\ Announced' /\ Named(c)'
    BY <1>1, <2>1, <2>2 DEF KeysOnce, Announced, NoticedInv, Named
  <2>4. ASSUME NEW key \in Camera, NEW k \in Kinds, Behind(key, k)', ~ Notices(c, key)',
               ~ EventFor(key)'
        PROVE  /\ Behind(key, k) /\ ~ EventFor(key) /\ ~ Notices(c, key)
               /\ subscriptions'[key] = subscriptions[key]
    <3>1. subscriptions'[key] = subscriptions[key] /\ subscriptions[key] # s
      BY <1>1, <2>1, <2>4 DEF Notices
    <3>2. subscriptions[key] \in Subscriptions
      BY <2>4, <3>1, CameraKeys, TableOf DEF Behind
    <3>3. Visible(key, k)' = Visible(key, k) /\ EventFor(key)' = EventFor(key)
      BY <1>1 DEF Visible, EventFor, KeyOf
    <3>4. Behind(key, k)
      BY <2>2, <2>4, <3>1, <3>2, <3>3 DEF Behind
    <3>5. ~ Notices(c, key)
      BY <1>1, <3>1 DEF Notices
    <3> QED
      BY <2>4, <3>1, <3>3, <3>4, <3>5
  <2> QED
    BY <2>1, <2>3, <2>4, NoticedKept
<1>3. CASE UNCHANGED subs /\ Go(c, label, l)
  <2>1. Tame
    BY <1>1, <1>3, TameAlone
  <2> HIDE DEF l, label
  <2>2. pc'[c] = label /\ loc'[c] = l
    BY <1>3, GoMoves
  <2>3. \A key \in Camera : Notices(c, key) => Notices(c, key)'
    BY <1>1, <2>2 DEF Notices
  <2> QED
    BY <1>1, <1>3, <2>1, <2>3, TameNotices
<1> QED
  BY <1>2, <1>3 DEF Unwire

LEMMA ReleaseNotices ==
    ASSUME TInv, MembersInv, NoticedInv, NEW c \in Threads, Release(c)
    PROVE  NoticedInv'
<1> DEFINE k == FirstKind(loc[c].todo)
           label == IF k = "audio" THEN "unwire" ELSE "drop"
           l == [loc[c] EXCEPT !.track = Nil, !.todo = @ \ {k}]
<1>1. /\ pc[c] = "release" /\ UNCHANGED <<subscriptions, subs, present, events>>
      /\ l.subs = loc[c].subs /\ label \in {"unwire", "drop"} /\ Go(c, label, l)
      /\ pub' = [pub EXCEPT ![loc[c].track] = Unwanted(@)]
  BY LocalsOf DEF Release, tables, LocalsType
<1>2. \A t \in Tracks : pub'[t].status = pub[t].status
  BY <1>1, LocalsOf DEF Unwanted, DataTyped, PublicationType
<1>3. Tame
  BY <1>1, <1>2, TameAlone
<1> HIDE DEF l, label
<1>4. pc'[c] = label /\ loc'[c] = l
  BY <1>1, GoMoves
<1>5. \A key \in Camera : Notices(c, key) => Notices(c, key)'
  BY <1>1, <1>4 DEF Notices
<1> QED
  BY <1>1, <1>3, <1>5, TameNotices

\* A callback that begins takes the place of its event.
LEMMA OnTrackPublishedNotices ==
    ASSUME TInv, MembersInv, NoticedInv, NEW h \in Threads, NEW t \in Tracks,
           OnTrackPublished(h, t)
    PROVE  NoticedInv'
<1> DEFINE s == subscriptions[KeyOf(t)]
           l == [NoLocals EXCEPT !.key = KeyOf(t), !.subs = s]
<1>1. /\ pc[h] = "idle" /\ events' = events \ {<<"published", t>>}
      /\ UNCHANGED <<subscriptions, subs, present, pub>>
      /\ IF s = Nil THEN Return(h) ELSE Go(h, "published", l)
      /\ l.key = KeyOf(t) /\ l.subs = s
  BY DEF OnTrackPublished, Take, tables, NoLocals
<1>2. /\ s = Nil => pc'[h] = "idle"
      /\ s # Nil => pc'[h] = "published" /\ loc'[h].key = KeyOf(t) /\ loc'[h].subs = s
      /\ \A x \in Threads : x # h => pc'[x] = pc[x] /\ loc'[x] = loc[x]
  <2>1. s = Nil => Go(h, "idle", NoLocals)
    BY <1>1 DEF Return
  <2>2. s # Nil => Go(h, "published", l)
    BY <1>1
  <2> HIDE DEF l, s
  <2> QED
    BY <1>1, <2>1, <2>2, GoMoves
<1>3. KeysOnce /\ Announced' /\ Named(h)'
  BY <1>1, <1>2 DEF KeysOnce, Announced, NoticedInv, Named
<1>4. ASSUME NEW key \in Camera, NEW k \in Kinds, Behind(key, k)', ~ EventFor(key)',
             ~ Notices(h, key)'
      PROVE  /\ Behind(key, k) /\ ~ EventFor(key) /\ ~ Notices(h, key)
             /\ subscriptions'[key] = subscriptions[key]
  <2>1. Behind(key, k) /\ subscriptions'[key] = subscriptions[key]
    BY <1>1, <1>4 DEF Behind, Visible, KeyOf
  <2>2. key # KeyOf(t)
    BY <1>1, <1>2, <1>4, <2>1 DEF Behind, Notices
  <2>3. ~ EventFor(key)
    BY <1>1, <1>4, <2>2 DEF EventFor, KeyOf
  <2>4. ~ Notices(h, key)
    BY <1>1 DEF Notices
  <2> QED
    BY <2>1, <2>3, <2>4
<1> QED
  BY <1>2, <1>3, <1>4, NoticedKept

LEMMA OnParticipantConnectedNotices ==
    ASSUME TInv, MembersInv, NoticedInv, NEW h \in Threads, NEW p \in Participants,
           OnParticipantConnected(h, p)
    PROVE  NoticedInv'
<1> DEFINE l == [NoLocals EXCEPT !.key = <<p, FALSE>>]
<1>1. /\ pc[h] = "idle" /\ events' = events \ {<<"connected", p>>}
      /\ UNCHANGED <<subscriptions, subs, present, pub>>
      /\ Go(h, "connected", l) /\ l.key = <<p, FALSE>>
  BY DEF OnParticipantConnected, Take, tables, NoLocals
<1>2. /\ pc'[h] = "connected" /\ loc'[h].key = <<p, FALSE>>
      /\ \A x \in Threads : x # h => pc'[x] = pc[x] /\ loc'[x] = loc[x]
  <2> HIDE DEF l
  <2> QED
    BY <1>1, GoMoves
<1>3. KeysOnce /\ Announced' /\ Named(h)'
  BY <1>1, <1>2 DEF KeysOnce, Announced, NoticedInv, Named
<1>4. ASSUME NEW key \in Camera, NEW k \in Kinds, Behind(key, k)', ~ EventFor(key)',
             ~ Notices(h, key)'
      PROVE  /\ Behind(key, k) /\ ~ EventFor(key) /\ ~ Notices(h, key)
             /\ subscriptions'[key] = subscriptions[key]
  <2>1. Behind(key, k) /\ subscriptions'[key] = subscriptions[key]
    BY <1>1, <1>4 DEF Behind, Visible, KeyOf
  <2>2. key[1] # p
    BY <1>2, <1>4, CameraKeys DEF Notices
  <2>3. ~ EventFor(key)
    BY <1>1, <1>4, <2>2 DEF EventFor, KeyOf
  <2>4. ~ Notices(h, key)
    BY <1>1 DEF Notices
  <2> QED
    BY <2>1, <2>3, <2>4
<1> QED
  BY <1>2, <1>3, <1>4, NoticedKept

LEMMA LockConnectedNotices ==
    ASSUME TInv, MembersInv, NoticedInv, NEW h \in Threads, LockConnected(h)
    PROVE  NoticedInv'
<1>1. /\ pc[h] = "connected" /\ UNCHANGED <<subscriptions, subs, present, pub, events>>
      /\ Go(h, "check", loc[h])
  BY DEF LockConnected, tables, sdk
<1>2. pc'[h] = "check" /\ loc'[h] = loc[h]
  BY <1>1, GoMoves
<1>3. Tame
  BY <1>1, TameAlone
<1>4. \A key \in Camera : Notices(h, key) => Notices(h, key)'
  BY <1>1, <1>2 DEF Notices
<1> QED
  BY <1>1, <1>3, <1>4, TameNotices

----------------------------------------------------------------------------
(* Steps of threads that nobody waits for.                                  *)

GoesOn(th) == \E label, l : label # "make" /\ Go(th, label, l)

LEMMA ElsewhereNotices ==
    ASSUME TInv, MembersInv, NoticedInv, NEW th \in Threads, Tame,
           Return(th) \/ GoesOn(th), pc[th] \notin Noticing
    PROVE  NoticedInv'
<1>1. CASE Return(th)
  BY <1>1, TameReturns
<1>2. CASE GoesOn(th)
  <2>1. PICK label, l : label # "make" /\ Go(th, label, l)
    BY <1>2 DEF GoesOn
  <2> QED
    BY <2>1, TameAway
<1> QED
  BY <1>1, <1>2

\* The steps of the calls that leave the tracks of every subscription alone.
LEMMA ClientAwayNotices ==
    ASSUME TInv, MembersInv, NoticedInv, NEW c \in Threads,
           \/ \E key \in Keys : Subscribe(c, key)
           \/ \E u \in Subscribers : Unsubscribe(c, u)
           \/ ReuseSubscription(c) \/ BuildAudio(c) \/ CheckVideo(c) \/ BuildVideo(c)
           \/ Register(c) \/ RemoveSubscriber(c) \/ DestroySubscriber(c)
    PROVE  NoticedInv'
<1>1. UNCHANGED <<subscriptions, subs, sdk>> /\ pc[c] \notin Noticing
  BY DEF Subscribe, Unsubscribe, ReuseSubscription, BuildAudio, CheckVideo, BuildVideo,
         Register, RemoveSubscriber, DestroySubscriber, tables, Noticing
<1>2. Tame
  BY <1>1, TameAlone DEF sdk
<1>3. Return(c) \/ GoesOn(c)
  BY DEF Subscribe, Unsubscribe, ReuseSubscription, BuildAudio, CheckVideo, BuildVideo,
         Register, RemoveSubscriber, DestroySubscriber, GoesOn
<1> QED
  BY <1>1, <1>2, <1>3, ElsewhereNotices

LEMMA AttachedNotices ==
    ASSUME TInv, MembersInv, NoticedInv, NEW c \in Threads, AddSubscriber(c) \/ Detach(c)
    PROVE  NoticedInv'
<1>1. /\ UNCHANGED <<subscriptions, sdk>> /\ pc[c] \notin Noticing
      /\ loc[c].subs \in Subscriptions
  BY LocalsOf DEF AddSubscriber, Detach, tables, Noticing, LocatedAt, AtSubs
<1>2. \A s \in Subscriptions : subs'[s].key = subs[s].key /\ subs'[s].track = subs[s].track
  <2>1. PICK a \in SUBSET Subscribers : subs' = [subs EXCEPT ![loc[c].subs].attached = a]
    <3>1. CASE AddSubscriber(c)
      BY <1>1, <3>1, LocalsOf DEF AddSubscriber, DataTyped, SubscriptionType, LocatedAt, AtUser
    <3>2. CASE Detach(c)
      BY <1>1, <3>2, LocalsOf DEF Detach, DataTyped, SubscriptionType
    <3> QED
      BY <3>1, <3>2
  <2> QED
    BY <1>1, <2>1, LocalsOf DEF DataTyped, SubscriptionType
<1>3. Tame
  BY <1>1, <1>2, TameAlone DEF sdk
<1>4. Return(c) \/ GoesOn(c)
  BY DEF AddSubscriber, Detach, GoesOn
<1> QED
  BY <1>1, <1>3, <1>4, ElsewhereNotices

\* Requesting a track changes only what is wanted of publications.
LEMMA RequestNotices ==
    ASSUME TInv, MembersInv, NoticedInv, NEW th \in Threads, Request(th) \/ Record(th)
    PROVE  NoticedInv'
<1>1. /\ UNCHANGED <<subscriptions, subs, present, events>> /\ pc[th] \in {"request", "record"}
      /\ pc[th] \notin Noticing
      /\ loc[th].after # "make"
  BY LocalsOf DEF Request, Record, tables, sdk, Noticing, LocalsType
<1>2. \A t \in Tracks : pub'[t].status = pub[t].status
  <2>1. CASE Record(th)
    BY <2>1 DEF Record, sdk
  <2>2. CASE Request(th)
    <3> DEFINE old == loc[th].old[FirstKind(loc[th].todo)]
               n == subs[loc[th].subs].track[FirstKind(loc[th].todo)]
               dropped == [x \in Tracks |-> IF x = old THEN Unwanted(pub[x]) ELSE pub[x]]
    <3>1. dropped \in [Tracks -> PublicationType]
          /\ \A t \in Tracks : dropped[t].status = pub[t].status
      BY LocalsOf DEF DataTyped, PublicationType, Unwanted
    <3>2. pub' = [dropped EXCEPT ![n].want = TRUE] \/ pub' = dropped
      BY <2>2 DEF Request
    <3> HIDE DEF dropped, n
    <3> QED
      BY <3>1, <3>2 DEF PublicationType
  <2> QED
    BY <2>1, <2>2
<1>3. Tame
  BY <1>1, <1>2, TameAlone
<1>4. GoesOn(th)
  BY <1>1 DEF Request, Record, GoesOn
<1> QED
  BY <1>1, <1>3, <1>4, ElsewhereNotices

\* The callbacks that check nothing.
LEMMA HandlerAwayNotices ==
    ASSUME TInv, MembersInv, NoticedInv, NEW h \in Threads,
           \/ Leave(h) \/ RefuseWriter(h) \/ WireReady(h)
           \/ \E u \in Subscribers : WireAudio(h, u) /\ ~ Panic
           \/ \E u \in Subscribers : CheckWireVideo(h, u)
           \/ WireVideo(h) /\ ~ Panic
    PROVE  NoticedInv'
<1>1. UNCHANGED <<subscriptions, subs, sdk>> /\ pc[h] \notin Noticing
  BY DEF Leave, RefuseWriter, WireReady, WireAudio, CheckWireVideo, WireVideo, Wiring,
         tables, Noticing
<1>2. Tame
  BY <1>1, TameAlone DEF sdk
<1>3. Return(h) \/ GoesOn(h)
  BY DEF Leave, RefuseWriter, WireReady, WireAudio, CheckWireVideo, WireVideo, GoesOn
<1> QED
  BY <1>1, <1>2, <1>3, ElsewhereNotices

LEMMA UnpublishedNotices ==
    ASSUME TInv, MembersInv, NoticedInv, NEW h \in Threads, Unpublished(h)
    PROVE  NoticedInv'
<1>1. /\ UNCHANGED <<subscriptions, subs, present, events>> /\ pc[h] \notin Noticing
      /\ pub' = [pub EXCEPT ![loc[h].track] = Unwanted(@)] /\ Return(h)
  BY DEF Unpublished, tables, Noticing
<1>2. \A t \in Tracks : pub'[t].status = pub[t].status
  BY <1>1, LocalsOf DEF Unwanted, DataTyped, PublicationType
<1>3. Tame
  BY <1>1, <1>2, TameAlone
<1> QED
  BY <1>1, <1>3, ElsewhereNotices

\* A writer comes and goes, the track of its slot stays or is set.
LEMMA WriterNotices ==
    ASSUME TInv, MembersInv, NoticedInv, NEW h \in Threads,
           Unsubscribed(h) \/ CreateWriter(h) \/ FinishWriter(h)
    PROVE  NoticedInv'
<1>1. /\ UNCHANGED <<subscriptions, sdk>> /\ pc[h] \notin Noticing
      /\ loc[h].subs \in Subscriptions
      /\ pc[h] # "wire" => loc[h].track \in Tracks
  BY LocalsOf DEF Unsubscribed, CreateWriter, FinishWriter, tables, Noticing, LocatedAt,
                  AtSubs, AtTrack
<1>2. \A s \in Subscriptions :
         /\ subs'[s].key = subs[s].key
         /\ \A k \in Kinds : subs'[s].track[k] = Nil => subs[s].track[k] = Nil
  <2>1. CASE Unsubscribed(h)
    <3>1. Kind[loc[h].track] \in Kinds
      BY <1>1, <2>1, TracksAssumption DEF Unsubscribed
    <3> QED
      BY <1>1, <2>1, <3>1, LocalsOf DEF Unsubscribed, BreakWriter, DataTyped, SubscriptionType
  <2>2. CASE CreateWriter(h)
    <3>1. Kind[loc[h].track] \in Kinds /\ loc[h].track # Nil
      BY <1>1, <2>2, TracksAssumption, NilAssumption DEF CreateWriter
    <3> DEFINE s == loc[h].subs
               k == Kind[loc[h].track]
               n == IF subs[s].track[k] = Nil THEN loc[h].track ELSE subs[s].track[k]
    <3>2. PICK w \in Writers :
             subs' = [subs EXCEPT ![s] = [@ EXCEPT !.writer[k] = w, !.lock = h, !.track[k] = n]]
      BY <2>2 DEF CreateWriter
    <3>3. n # Nil /\ s \in Subscriptions /\ k \in Kinds
      BY <1>1, <3>1
    <3> HIDE DEF n, k, s
    <3>4. /\ \A x \in Subscriptions : x # s => subs'[x] = subs[x]
          /\ subs'[s].key = subs[s].key
          /\ subs'[s].track = [subs[s].track EXCEPT ![k] = n]
      BY <3>2, <3>3, LocalsOf DEF DataTyped, SubscriptionType
    <3>5. ASSUME NEW j \in Kinds, subs'[s].track[j] = Nil
          PROVE  subs[s].track[j] = Nil
      <4>1. subs[s].track \in [Kinds -> Maybe(Tracks)]
        BY <3>3, LocalsOf DEF DataTyped, SubscriptionType
      <4> QED
        BY <3>3, <3>4, <3>5, <4>1
    <3> QED
      BY <3>4, <3>5
  <2>3. CASE FinishWriter(h)
    BY <1>1, <2>3, LocalsOf DEF FinishWriter, DataTyped, SubscriptionType
  <2> QED
    BY <2>1, <2>2, <2>3
<1>3. Tame
  BY <1>1, <1>2 DEF Tame, sdk, EventFor
<1>4. Return(h) \/ GoesOn(h)
  BY DEF Unsubscribed, CreateWriter, FinishWriter, GoesOn
<1> QED
  BY <1>1, <1>3, <1>4, ElsewhereNotices

\* An event that announces no publication is taken.
LEMMA OnTrackEventNotices ==
    ASSUME TInv, MembersInv, NoticedInv, NEW h \in Threads, NEW t \in Tracks,
           NEW type \in TrackEvents, OnTrackEvent(h, type, t)
    PROVE  NoticedInv'
<1>1. /\ UNCHANGED <<subscriptions, subs, present, pub>> /\ pc[h] \notin Noticing
      /\ events' = events \ {<<type, t>>} /\ type # "published" /\ type # "connected"
      /\ type # "make"
  BY DEF OnTrackEvent, Take, tables, Noticing, TrackEvents
<1>2. Tame
  BY <1>1 DEF Tame, EventFor
<1>3. Return(h) \/ GoesOn(h)
  BY <1>1 DEF OnTrackEvent, GoesOn
<1> QED
  BY <1>1, <1>2, <1>3, ElsewhereNotices

----------------------------------------------------------------------------
(* The SDK.                                                                 *)

\* A publication comes with an event for it, or with one for its participant.
LEMMA SdkNotices ==
    ASSUME TInv, MembersInv, NoticedInv, SdkNext
    PROVE  NoticedInv'
<1>1. UNCHANGED <<subscriptions, subs, pc, loc>> /\ events \subseteq events'
      /\ present \subseteq present'
  BY DEF SdkNext, Join, Publish, Unpublish, Attach, Loses, SdkStep, tables
<1>2. ASSUME NEW t \in Tracks, pub'[t].status = "published", pub[t].status # "published"
      PROVE  /\ <<"published", t>> \in events' \/ <<"connected", Owner[t]>> \in events'
             /\ Owner[t] \in present'
  <2> pub \in [Tracks -> PublicationType] /\ Owner \in [Tracks -> Participants]
    BY TracksAssumption DEF TInv, TypeOK
  <2>1. ASSUME NEW p \in Participants, Join(p)
        PROVE  <<"connected", Owner[t]>> \in events' /\ Owner[t] \in present'
    <3>1. PICK brought \in SUBSET {x \in Tracks : Owner[x] = p} :
             /\ pub' = [x \in Tracks |-> IF x \in brought
                                           THEN [pub[x] EXCEPT !.status = "published"]
                                           ELSE pub[x]]
             /\ present' = present \cup {p} /\ <<"connected", p>> \in events'
      BY <2>1 DEF Join, SdkStep
    <3>2. t \in brought
      BY <1>2, <3>1
    <3> QED
      BY <3>1, <3>2
  <2>2. ASSUME NEW x \in Tracks, Publish(x)
        PROVE  <<"published", t>> \in events' /\ Owner[t] \in present'
    <3>1. x = t
      BY <1>2, <2>2 DEF Publish, SdkStep
    <3> QED
      BY <2>2, <3>1 DEF Publish, SdkStep
  <2>3. ASSUME NEW x \in Tracks, Unpublish(x) \/ Attach(x) \/ Loses(x)
        PROVE  FALSE
    BY <1>2, <2>3 DEF Unpublish, Attach, Loses, SdkStep, PublicationType
  <2> QED
    BY <2>1, <2>2, <2>3 DEF SdkNext
<1>3. Announced'
  BY <1>1, <1>2 DEF NoticedInv, Announced
<1>4. ASSUME NEW key \in Camera, NEW k \in Kinds, Behind(key, k)', ~ EventFor(key)'
      PROVE  \E th \in Threads : Notices(th, key)'
  <2>1. \A t \in Tracks : KeyOf(t) = key /\ pub'[t].status = "published"
                            => pub[t].status = "published"
    BY <1>2, <1>4 DEF EventFor, KeyOf
  <2>2. Behind(key, k)
    BY <1>1, <1>4, <2>1 DEF Behind, Visible, KeyOf
  <2>3. ~ EventFor(key)
    BY <1>1, <1>4 DEF EventFor, KeyOf
  <2>4. PICK th \in Threads : Notices(th, key)
    BY <2>2, <2>3 DEF NoticedInv, Noticed
  <2> QED
    BY <1>1, <2>4 DEF Notices
<1>5. \A th \in Threads : Named(th)'
  BY <1>1 DEF NoticedInv, Named
<1> QED
  BY <1>3, <1>4, <1>5 DEF NoticedInv, Noticed

----------------------------------------------------------------------------
(* The theorem.                                                             *)

LEMMA NextNotices ==
    ASSUME TInv, MembersInv, NoticedInv, [Next]_vars
    PROVE  NoticedInv'
<1>1. ASSUME UNCHANGED <<subscriptions, subs, sdk, pc, loc>>
      PROVE  NoticedInv'
  BY <1>1 DEF NoticedInv, Noticed, Announced, Named, Behind, EventFor, Notices, Visible,
              KeyOf, sdk
<1>2. CASE UNCHANGED vars
  BY <1>1, <1>2 DEF vars, tables
<1>3. CASE SdkNext
  BY <1>3, SdkNotices
<1>4. CASE Start
  BY <1>4, ClientAwayNotices, OnTrackPublishedNotices, OnParticipantConnectedNotices,
     OnTrackEventNotices DEF Start, Threads
<1>5. ASSUME NEW c \in Clients, ClientStep(c)
      PROVE  NoticedInv'
  <2> c \in Threads
    BY DEF Threads
  <2> QED
    BY <1>5, ClientAwayNotices, AttachedNotices, AddSubscriptionNotices,
       MakeSubscriptionNotices, RequestNotices, UnwireNotices, ReleaseNotices,
       RemoveSubscriptionNotices
    DEF ClientStep
<1>6. ASSUME NEW h \in Handlers, HandlerStep(h)
      PROVE  NoticedInv'
  <2> h \in Threads
    BY DEF Threads
  <2>1. CASE Panic
    BY <1>1, <2>1 DEF Panic, tables
  <2>2. CASE ~ Panic
    BY <1>6, <2>2, HandlerAwayNotices, CheckPublishedNotices, LockConnectedNotices,
       CheckConnectedNotices, RequestNotices, UnpublishedNotices, WriterNotices
    DEF HandlerStep
  <2> QED
    BY <2>1, <2>2
<1> QED
  BY <1>2, <1>3, <1>4, <1>5, <1>6 DEF Next

\* While nobody holds the room's lock, a thread that will still look at a
\* subscription is in one of the callbacks.
LEMMA NoticedMeans ==
    ASSUME TInv, MembersInv, NoticedInv
    PROVE  NoMissedPublication
<1> SUFFICES ASSUME NEW p \in Participants, Missed(<<p, FALSE>>)
             PROVE  FALSE
  BY DEF NoMissedPublication
<1> DEFINE key == <<p, FALSE>>
<1>1. key \in Camera
  BY CameraKeys
<1> HIDE DEF key
<1>2. Missed(key)
  BY DEF key
<1>3. PICK k \in Kinds : Behind(key, k)
  BY <1>2 DEF Missed, Behind
<1>4. roomLock = Nil /\ ~ EventFor(key)
  BY <1>2 DEF Missed, FreeRoom, Unnoticed, EventFor
<1>5. PICK th \in Threads : Notices(th, key)
  BY <1>1, <1>3, <1>4 DEF NoticedInv, Noticed
<1>6. pc[th] \notin {"make", "unwire", "release", "drop"}
  BY <1>4, NilAssumption DEF MembersInv, ThreadInv, Locking
<1> QED
  BY <1>2, <1>5, <1>6 DEF Notices, Missed, Unnoticed

\* Whichever of the subscription, the participant and the publication comes
\* first, one of makeSubscription, lkTrackPublished and lkParticipantConnected
\* still has to look at a camera's or microphone's publication until the
\* subscription has a track of its kind.
THEOREM NothingMissed == Spec => []NoMissedPublication
<1>1. Init => NoticedInv
  BY DEF Init, NoticedInv, Noticed, Announced, Named, Behind, Camera
<1>2. TInv /\ MembersInv /\ NoticedInv /\ [Next]_vars => NoticedInv'
  BY NextNotices
<1>3. TInv /\ MembersInv /\ NoticedInv => NoMissedPublication
  BY NoticedMeans
<1> QED
  BY <1>1, <1>2, <1>3, TypedThroughout, MembersThroughout, PTL DEF Spec
=============================================================================
