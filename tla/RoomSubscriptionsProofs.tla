---------------------- MODULE RoomSubscriptionsProofs ----------------------
(***************************************************************************)
(* Theorems about RoomSubscriptions, for every number of threads, tracks   *)
(* and objects.                                                            *)
(***************************************************************************)
EXTENDS RoomSubscriptions, TLAPS

LEMMA NoLocalsTyped == NoLocals \in LocalsType
BY DEF NoLocals, LocalsType, NoTracks, Maybe, Kinds

\* The variables have their types at the start.
LEMMA InitTyped == Init => TypeOK
<1> SUFFICES ASSUME Init PROVE TypeOK
  OBVIOUS
<1>1. subs \in [Subscriptions -> SubscriptionType]
  BY DEF Init, SubscriptionType, NoTracks, Maybe
<1>2. user \in [Subscribers -> SubscriberType]
  BY DEF Init, SubscriberType, Maybe
<1>3. writers \in [Writers -> WriterType]
  BY DEF Init, WriterType, StoppedWriter, Maybe
<1>4. pub \in [Tracks -> PublicationType]
  BY DEF Init, PublicationType
<1>5. pc \in [Threads -> PCs] /\ loc \in [Threads -> LocalsType]
  BY NoLocalsTyped DEF Init, PCs
<1>6. /\ subscriptions \in [Keys -> Maybe(Subscriptions)]
      /\ subscribedTracks \in [Tracks -> Maybe(Subscriptions)]
      /\ roomLock \in Maybe(Threads)
      /\ rootSubscribers \subseteq Subscribers /\ present \subseteq Participants
      /\ events \subseteq EventType /\ crashed \in BOOLEAN
  BY DEF Init, Maybe
<1> QED
  BY <1>1, <1>2, <1>3, <1>4, <1>5, <1>6 DEF TypeOK

----------------------------------------------------------------------------
(* A thread that is under way has the local variables its next step reads.  *)

AtSubs  == {"make", "request", "record", "append", "build", "checkVideo",
            "buildVideo", "destroy", "detach", "unwire", "release", "drop",
            "published", "unpublished", "unsubscribed", "subscribed", "wire",
            "wireVideo", "wireReady"}
AtUser  == {"lookup", "make", "append", "build", "checkVideo", "buildVideo",
            "register", "lockRoom", "destroy", "detach", "wireVideo", "wireReady"}
AtKey   == {"lookup", "make", "connected", "check", "recheck"}
AtTrack == {"release", "unpublished", "unsubscribed", "subscribed", "wire",
            "wireVideo", "wireReady"}
Placed  == {"build", "checkVideo", "buildVideo", "register", "lockRoom"}

LocatedAt(label, l) ==
    /\ label \in AtSubs  => l.subs \in Subscriptions
    /\ label \in AtUser  => l.user \in Subscribers
    /\ label \in AtKey   => l.key \in Keys
    /\ label \in AtTrack => l.track \in Tracks
    /\ label \in {"request", "record"} =>
          /\ l.after = "append"  => l.user \in Subscribers
          /\ l.after = "recheck" => l.key \in Keys

Located == \A th \in Threads : LocatedAt(pc[th], loc[th])

\* A subscriber that has been handed out, or is about to be, is attached to
\* a subscription or has been.
HasSubscription ==
    /\ \A u \in rootSubscribers : user[u].subscription \in Subscriptions
    /\ \A th \in Threads : pc[th] \in Placed
          => user[loc[th].user].subscription \in Subscriptions

TInv == TypeOK /\ Located /\ HasSubscription

LEMMA GoLocated ==
    ASSUME TInv, NEW th \in Threads, NEW label \in PCs, NEW l \in LocalsType,
           LocatedAt(label, l), Go(th, label, l)
    PROVE  /\ pc' \in [Threads -> PCs] /\ loc' \in [Threads -> LocalsType]
           /\ Located'
BY DEF TInv, TypeOK, Located, Go

LEMMA ReturnLocated ==
    ASSUME TInv, NEW th \in Threads, Return(th)
    PROVE  /\ pc' \in [Threads -> PCs] /\ loc' \in [Threads -> LocalsType]
           /\ Located'
<1>1. LocatedAt("idle", NoLocals)
  BY DEF LocatedAt, AtSubs, AtUser, AtKey, AtTrack
<1>2. "idle" \in PCs
  BY DEF PCs
<1> QED
  BY <1>1, <1>2, NoLocalsTyped, GoLocated DEF Return

\* The subscription of a subscriber, once there, stays.
Keeps == \A u \in Subscribers : user[u].subscription \in Subscriptions
                                  => user'[u].subscription \in Subscriptions

LEMMA KeepsHasSubscription ==
    ASSUME TInv, NEW th \in Threads, NEW label, NEW l, Go(th, label, l), Keeps,
           label \in Placed => user'[l.user].subscription \in Subscriptions,
           \A u \in rootSubscribers' : user'[u].subscription \in Subscriptions
    PROVE  HasSubscription'
<1> SUFFICES ASSUME NEW x \in Threads, pc'[x] \in Placed
             PROVE  user'[loc'[x].user].subscription \in Subscriptions
  BY DEF HasSubscription
<1>1. CASE x = th
  BY <1>1 DEF Go, TInv, TypeOK
<1>2. CASE x # th
  <2>1. pc[x] \in Placed /\ loc'[x] = loc[x]
    BY <1>2 DEF Go, TInv, TypeOK
  <2>2. loc[x].user \in Subscribers
    BY <2>1 DEF TInv, Located, LocatedAt, Placed, AtUser
  <2> QED
    BY <2>1, <2>2 DEF TInv, HasSubscription, Keeps
<1> QED
  BY <1>1, <1>2

----------------------------------------------------------------------------
(* Steps of a thread.                                                       *)

DataTyped ==
    /\ subscriptions \in [Keys -> Maybe(Subscriptions)]
    /\ rootSubscribers \subseteq Subscribers
    /\ subscribedTracks \in [Tracks -> Maybe(Subscriptions)]
    /\ roomLock \in Maybe(Threads)
    /\ subs \in [Subscriptions -> SubscriptionType]
    /\ user \in [Subscribers -> SubscriberType]
    /\ writers \in [Writers -> WriterType]
    /\ present \subseteq Participants
    /\ pub \in [Tracks -> PublicationType]
    /\ events \subseteq EventType
    /\ crashed \in BOOLEAN

\* A step that leaves the subscribers' own data alone.
LEMMA StepTyped ==
    ASSUME TInv, NEW th \in Threads, NEW label \in PCs, NEW l \in LocalsType,
           LocatedAt(label, l), Go(th, label, l), DataTyped',
           UNCHANGED <<user, rootSubscribers>>,
           label \in Placed => pc[th] \in Placed /\ l.user = loc[th].user
    PROVE  TInv'
<1>1. /\ pc' \in [Threads -> PCs] /\ loc' \in [Threads -> LocalsType]
      /\ Located'
  BY GoLocated
<1>2. HasSubscription'
  BY KeepsHasSubscription DEF Keeps, TInv, HasSubscription
<1> QED
  BY <1>1, <1>2 DEF TInv, TypeOK, DataTyped

\* A step that changes them but not what they are attached to.
LEMMA UserStepTyped ==
    ASSUME TInv, NEW th \in Threads, NEW label \in PCs, NEW l \in LocalsType,
           LocatedAt(label, l), Go(th, label, l), DataTyped',
           \A u \in Subscribers : user'[u].subscription = user[u].subscription,
           rootSubscribers' \subseteq rootSubscribers,
           label \in Placed => \/ pc[th] \in Placed /\ l.user = loc[th].user
                               \/ l.user \in rootSubscribers
    PROVE  TInv'
<1>1. /\ pc' \in [Threads -> PCs] /\ loc' \in [Threads -> LocalsType]
      /\ Located'
  BY GoLocated
<1>2. rootSubscribers \subseteq Subscribers
  BY DEF TInv, TypeOK
<1>3. label \in Placed => user'[l.user].subscription \in Subscriptions
  <2> SUFFICES ASSUME label \in Placed
               PROVE  user'[l.user].subscription \in Subscriptions
    OBVIOUS
  <2>1. l.user \in Subscribers
    BY DEF LocatedAt, Placed, AtUser
  <2> QED
    BY <2>1 DEF TInv, HasSubscription
<1>4. HasSubscription'
  BY <1>2, <1>3, KeepsHasSubscription DEF Keeps, TInv, HasSubscription
<1> QED
  BY <1>1, <1>4 DEF TInv, TypeOK, DataTyped

LEMMA IdleLocated == "idle" \in PCs /\ LocatedAt("idle", NoLocals) /\ "idle" \notin Placed
BY DEF PCs, LocatedAt, AtSubs, AtUser, AtKey, AtTrack, Placed

\* What TInv says of the thread that steps.
LEMMA LocalsOf ==
    ASSUME TInv, NEW th \in Threads
    PROVE  /\ pc[th] \in PCs /\ loc[th] \in LocalsType
           /\ LocatedAt(pc[th], loc[th]) /\ DataTyped
           /\ pc[th] \in Placed => user[loc[th].user].subscription \in Subscriptions
BY DEF TInv, TypeOK, Located, DataTyped, HasSubscription

\* The next kind is requested, or the thread goes where it was to go after.
Continues(th, left) ==
    Go(th, IF left = {} THEN loc[th].after ELSE "request",
       [loc[th] EXCEPT !.todo = left])

LEMMA ContinuesTyped ==
    ASSUME TInv, NEW th \in Threads, NEW left \in SUBSET Kinds,
           pc[th] \in {"request", "record"}, Continues(th, left),
           DataTyped', UNCHANGED <<user, rootSubscribers>>
    PROVE  TInv'
<1> DEFINE l == [loc[th] EXCEPT !.todo = left]
           label == IF left = {} THEN loc[th].after ELSE "request"
<1>1. /\ l \in LocalsType /\ l.subs = loc[th].subs /\ l.user = loc[th].user
      /\ l.key = loc[th].key /\ l.after = loc[th].after
  BY LocalsOf DEF LocalsType
<1>2. /\ label \in {"append", "recheck", "leave", "request"}
      /\ label \in {"append", "recheck", "leave"} => label = loc[th].after
  BY LocalsOf DEF LocalsType
<1>3. LocatedAt(label, l) /\ label \in PCs /\ label \notin Placed
  BY <1>1, <1>2, LocalsOf DEF LocatedAt, AtSubs, AtUser, AtKey, AtTrack, Placed, PCs
<1>4. Go(th, label, l)
  BY DEF Continues
<1> QED
  BY <1>1, <1>3, <1>4, StepTyped

LEMMA UnwantedTyped ==
    \A p \in PublicationType : Unwanted(p) \in PublicationType
BY DEF PublicationType, Unwanted

LEMMA RequestTyped ==
    ASSUME TInv, NEW th \in Threads, Request(th)
    PROVE  TInv'
<1>1. pub' \in [Tracks -> PublicationType]
  <2> DEFINE old == loc[th].old[FirstKind(loc[th].todo)]
             t == subs[loc[th].subs].track[FirstKind(loc[th].todo)]
             dropped == [x \in Tracks |-> IF x = old THEN Unwanted(pub[x]) ELSE pub[x]]
  <2>1. dropped \in [Tracks -> PublicationType]
    BY UnwantedTyped, LocalsOf DEF DataTyped
  <2>2. [dropped EXCEPT ![t].want = TRUE] \in [Tracks -> PublicationType]
    <3> HIDE DEF dropped, t
    <3> QED BY <2>1 DEF PublicationType
  <2>3. pub' \in {dropped, [dropped EXCEPT ![t].want = TRUE]}
    BY DEF Request
  <2> QED
    BY <2>1, <2>2, <2>3
<1>2. DataTyped'
  BY <1>1, LocalsOf DEF Request, DataTyped, tables
<1>3. CASE Go(th, "record", loc[th])
  <2>1. LocatedAt("record", loc[th]) /\ "record" \in PCs \ Placed
    BY LocalsOf DEF Request, LocatedAt, AtSubs, AtUser, AtKey, AtTrack, Placed, PCs
  <2> QED
    BY <1>2, <1>3, <2>1, StepTyped, LocalsOf DEF Request, tables
<1>4. CASE Continues(th, loc[th].todo \ {FirstKind(loc[th].todo)})
  <2>1. loc[th].todo \ {FirstKind(loc[th].todo)} \in SUBSET Kinds
    BY LocalsOf DEF LocalsType
  <2> QED
    BY <1>2, <1>4, <2>1, ContinuesTyped DEF Request, tables
<1> QED
  BY <1>3, <1>4 DEF Request, Continues

LEMMA RecordTyped ==
    ASSUME TInv, NEW th \in Threads, Record(th)
    PROVE  TInv'
<1>1. DataTyped'
  BY LocalsOf DEF Record, DataTyped, tables, sdk, LocalsType
<1>2. loc[th].todo \ {FirstKind(loc[th].todo)} \in SUBSET Kinds
  BY LocalsOf DEF LocalsType
<1> QED
  BY <1>1, <1>2, ContinuesTyped DEF Record, Continues

\* The single fields of a subscription that a step may assign.
LEMMA SubscriptionEdits ==
    \A r \in SubscriptionType :
        /\ \A key \in Keys : [r EXCEPT !.key = key] \in SubscriptionType
        /\ \A some \in SUBSET Subscribers :
              [r EXCEPT !.attached = some] \in SubscriptionType
        /\ \A pick \in [Kinds -> Maybe(Tracks)] :
              [r EXCEPT !.track = pick] \in SubscriptionType
        /\ [r EXCEPT !.lock = Nil] \in SubscriptionType
<1> TAKE r \in SubscriptionType
<1>1. \A key \in Keys : [r EXCEPT !.key = key] \in SubscriptionType
  BY DEF SubscriptionType, Maybe
<1>2. \A some \in SUBSET Subscribers :
        [r EXCEPT !.attached = some] \in SubscriptionType
  BY DEF SubscriptionType
<1>3. \A pick \in [Kinds -> Maybe(Tracks)] :
        [r EXCEPT !.track = pick] \in SubscriptionType
  BY DEF SubscriptionType
<1>4. [r EXCEPT !.lock = Nil] \in SubscriptionType
  BY DEF SubscriptionType, Maybe
<1> QED
  BY <1>1, <1>2, <1>3, <1>4

LEMMA OneSubscriptionTyped ==
    ASSUME TInv, NEW s \in Subscriptions, NEW r \in SubscriptionType,
           subs' = [subs EXCEPT ![s] = r]
    PROVE  subs' \in [Subscriptions -> SubscriptionType]
BY DEF TInv, TypeOK

\* Checking the tracks of a subscription.
LEMMA CheckTracksTyped ==
    ASSUME TInv, NEW th \in Threads, NEW s \in Subscriptions,
           NEW old \in [Kinds -> Maybe(Tracks)],
           NEW after \in {"append", "recheck", "leave"},
           CheckTracks(th, s, old, after),
           after = "append" => loc[th].user \in Subscribers,
           after = "recheck" => loc[th].key \in Keys,
           subs' \in [Subscriptions -> SubscriptionType] => DataTyped',
           UNCHANGED <<user, rootSubscribers>>
    PROVE  TInv'
<1>1. PICK pick \in Checked(s) :
        LET todo == {k \in Kinds : k \in Changed(s)}
        IN  /\ subs' = [subs EXCEPT ![s].track = pick]
            /\ Go(th, IF todo = {} THEN after ELSE "request",
                  [loc[th] EXCEPT !.subs = s, !.old = old,
                                  !.todo = todo, !.after = after])
  BY DEF CheckTracks
<1> DEFINE todo == {k \in Kinds : k \in Changed(s)}
           label == IF todo = {} THEN after ELSE "request"
           l == [loc[th] EXCEPT !.subs = s, !.old = old, !.todo = todo, !.after = after]
<1>2. pick \in [Kinds -> Maybe(Tracks)]
  BY DEF Checked
<1>3. subs' \in [Subscriptions -> SubscriptionType]
  <2>1. subs[s] \in SubscriptionType
    BY <1>2, LocalsOf DEF DataTyped
  <2>2. [subs[s] EXCEPT !.track = pick] \in SubscriptionType
    BY <1>2, <2>1, SubscriptionEdits
  <2>3. subs' = [subs EXCEPT ![s] = [subs[s] EXCEPT !.track = pick]]
    BY <1>1, LocalsOf DEF DataTyped
  <2> QED
    BY <1>2, <2>2, <2>3, OneSubscriptionTyped
<1>4. /\ l \in LocalsType /\ l.subs = s /\ l.user = loc[th].user
      /\ l.key = loc[th].key /\ l.after = after
  BY LocalsOf DEF LocalsType, Maybe
<1>5. label \in {after, "request"}
  OBVIOUS
<1>6. LocatedAt(label, l) /\ label \in PCs /\ label \notin Placed
  BY <1>4, <1>5 DEF LocatedAt, AtSubs, AtUser, AtKey, AtTrack, Placed, PCs
<1>7. Go(th, label, l)
  BY <1>1
<1> QED
  BY <1>3, <1>4, <1>6, <1>7, StepTyped

----------------------------------------------------------------------------
(* Steps of SubscribeParticipant.                                           *)

LEMMA SubscribeTyped ==
    ASSUME TInv, NEW c \in Threads, NEW key \in Keys, Subscribe(c, key)
    PROVE  TInv'
<1>1. PICK u \in Subscribers : Go(c, "lookup", [NoLocals EXCEPT !.key = key, !.user = u])
  BY DEF Subscribe
<1> DEFINE l == [NoLocals EXCEPT !.key = key, !.user = u]
<1>2. l \in LocalsType /\ l.key = key /\ l.user = u
  BY NoLocalsTyped DEF LocalsType, Maybe
<1>3. LocatedAt("lookup", l) /\ "lookup" \in PCs /\ "lookup" \notin Placed
  BY <1>2 DEF LocatedAt, AtSubs, AtUser, AtKey, AtTrack, Placed, PCs
<1>4. DataTyped'
  BY LocalsOf DEF Subscribe, DataTyped, tables, sdk, Maybe
<1> QED
  BY <1>1, <1>2, <1>3, <1>4, StepTyped DEF Subscribe, tables

LEMMA ReuseSubscriptionTyped ==
    ASSUME TInv, NEW c \in Threads, ReuseSubscription(c)
    PROVE  TInv'
<1> DEFINE s == subscriptions[loc[c].key]
           l == [loc[c] EXCEPT !.subs = s]
<1>1. loc[c].key \in Keys /\ loc[c].user \in Subscribers
  BY LocalsOf DEF ReuseSubscription, LocatedAt, AtKey, AtUser
<1>2. s \in Subscriptions
  BY <1>1, LocalsOf DEF ReuseSubscription, DataTyped, Maybe
<1>3. l \in LocalsType /\ l.user = loc[c].user /\ l.subs = s
  BY <1>2, LocalsOf DEF LocalsType, Maybe
<1>4. LocatedAt("append", l) /\ "append" \in PCs /\ "append" \notin Placed
  BY <1>1, <1>2, <1>3 DEF LocatedAt, AtSubs, AtUser, AtKey, AtTrack, Placed, PCs
<1>5. DataTyped'
  BY LocalsOf DEF ReuseSubscription, DataTyped, tables, sdk
<1> QED
  BY <1>3, <1>4, <1>5, StepTyped DEF ReuseSubscription, tables

LEMMA AddSubscriptionTyped ==
    ASSUME TInv, NEW c \in Threads, AddSubscription(c)
    PROVE  TInv'
<1>1. PICK s \in Subscriptions :
          /\ subs' = [subs EXCEPT ![s].key = loc[c].key]
          /\ subscriptions' = [subscriptions EXCEPT ![loc[c].key] = s]
          /\ Go(c, "make", [loc[c] EXCEPT !.subs = s])
  BY DEF AddSubscription
<1> DEFINE l == [loc[c] EXCEPT !.subs = s]
<1>2. loc[c].key \in Keys /\ loc[c].user \in Subscribers
  BY LocalsOf DEF AddSubscription, LocatedAt, AtKey, AtUser
<1>3. /\ l \in LocalsType /\ l.user = loc[c].user /\ l.subs = s
      /\ l.key = loc[c].key
  BY LocalsOf DEF LocalsType, Maybe
<1>4. LocatedAt("make", l) /\ "make" \in PCs /\ "make" \notin Placed
  BY <1>2, <1>3 DEF LocatedAt, AtSubs, AtUser, AtKey, AtTrack, Placed, PCs
<1>5. subs' \in [Subscriptions -> SubscriptionType]
  <2>1. subs[s] \in SubscriptionType
    BY <1>2, LocalsOf DEF DataTyped
  <2>2. [subs[s] EXCEPT !.key = loc[c].key] \in SubscriptionType
    BY <1>2, <2>1, SubscriptionEdits
  <2>3. subs' = [subs EXCEPT ![s] = [subs[s] EXCEPT !.key = loc[c].key]]
    BY <1>1, LocalsOf DEF DataTyped
  <2> QED
    BY <1>2, <2>2, <2>3, OneSubscriptionTyped
<1>6. subscriptions' \in [Keys -> Maybe(Subscriptions)]
  BY <1>1, LocalsOf DEF DataTyped, Maybe
<1>7. DataTyped'
  BY <1>5, <1>6, LocalsOf DEF AddSubscription, DataTyped, sdk
<1> QED
  BY <1>1, <1>3, <1>4, <1>7, StepTyped DEF AddSubscription

LEMMA MakeSubscriptionTyped ==
    ASSUME TInv, NEW c \in Threads, MakeSubscription(c)
    PROVE  TInv'
<1>1. /\ loc[c].key \in Keys /\ loc[c].user \in Subscribers
      /\ loc[c].subs \in Subscriptions
  BY LocalsOf DEF MakeSubscription, LocatedAt, AtKey, AtUser, AtSubs
<1>2. CASE CheckTracks(c, loc[c].subs, NoTracks, "append")
  <2>1. NoTracks \in [Kinds -> Maybe(Tracks)]
    BY DEF NoTracks, Maybe
  <2>2. subs' \in [Subscriptions -> SubscriptionType] => DataTyped'
    BY LocalsOf DEF MakeSubscription, DataTyped, tables, sdk
  <2> QED
    BY <1>1, <1>2, <2>1, <2>2, CheckTracksTyped DEF MakeSubscription, tables
<1>3. CASE Go(c, "append", loc[c]) /\ UNCHANGED subs
  <2>1. LocatedAt("append", loc[c]) /\ "append" \in PCs /\ "append" \notin Placed
    BY <1>1 DEF LocatedAt, AtSubs, AtUser, AtKey, AtTrack, Placed, PCs
  <2>2. DataTyped'
    BY <1>3, LocalsOf DEF MakeSubscription, DataTyped, tables, sdk
  <2> QED
    BY <1>3, <2>1, <2>2, LocalsOf, StepTyped DEF MakeSubscription, tables
<1> QED
  BY <1>2, <1>3 DEF MakeSubscription

LEMMA AddSubscriberTyped ==
    ASSUME TInv, NEW c \in Threads, AddSubscriber(c)
    PROVE  TInv'
<1> DEFINE s == loc[c].subs
           u == loc[c].user
<1>1. s \in Subscriptions
  BY LocalsOf DEF AddSubscriber, LocatedAt, AtSubs
<1>2. u \in Subscribers
  BY LocalsOf DEF AddSubscriber, LocatedAt, AtUser
<1>3. subs' \in [Subscriptions -> SubscriptionType]
  <2> DEFINE some == subs[s].attached \cup {u}
  <2>1. subs[s] \in SubscriptionType
    BY <1>1, LocalsOf DEF DataTyped
  <2>2. some \in SUBSET Subscribers
    BY <1>2, <2>1 DEF SubscriptionType
  <2>3. subs' = [subs EXCEPT ![s] = [subs[s] EXCEPT !.attached = some]]
    BY <1>1, LocalsOf DEF AddSubscriber, DataTyped
  <2> HIDE DEF some, s
  <2>4. [subs[s] EXCEPT !.attached = some] \in SubscriptionType
    BY <2>1, <2>2, SubscriptionEdits
  <2> QED
    BY <1>1, <2>3, <2>4, OneSubscriptionTyped
<1>4. /\ user' \in [Subscribers -> SubscriberType]
      /\ user'[u].subscription = s
      /\ \A v \in Subscribers : v # u => user'[v] = user[v]
  <2> DEFINE r == [user[u] EXCEPT !.subscription = s, !.bin = TRUE]
  <2>1. user[u] \in SubscriberType
    BY <1>2, LocalsOf DEF DataTyped
  <2>2. r \in SubscriberType /\ r.subscription = s
    BY <1>1, <2>1 DEF SubscriberType, Maybe
  <2>3. user' = [user EXCEPT ![u] = r]
    BY <1>2, LocalsOf DEF AddSubscriber, DataTyped
  <2> HIDE DEF r, u, s
  <2> QED
    BY <1>2, <2>2, <2>3, LocalsOf DEF DataTyped
<1>5. DataTyped'
  BY <1>3, <1>4, LocalsOf DEF AddSubscriber, DataTyped, tables, sdk, Maybe
<1>6. LocatedAt("build", loc[c]) /\ "build" \in PCs
  BY <1>1, <1>2 DEF LocatedAt, AtSubs, AtUser, AtKey, AtTrack, Placed, PCs
<1>7. /\ pc' \in [Threads -> PCs] /\ loc' \in [Threads -> LocalsType]
      /\ Located'
  BY <1>6, LocalsOf, GoLocated DEF AddSubscriber
<1>8. Keeps
  BY <1>1, <1>4 DEF Keeps
<1>9. \A v \in rootSubscribers' : user'[v].subscription \in Subscriptions
  BY <1>8 DEF AddSubscriber, tables, Keeps, TInv, TypeOK, HasSubscription
<1>10. HasSubscription'
  BY <1>1, <1>4, <1>8, <1>9, KeepsHasSubscription DEF AddSubscriber
<1> QED
  BY <1>5, <1>7, <1>10 DEF TInv, TypeOK, DataTyped

LEMMA OneUserTyped ==
    ASSUME TInv, NEW u \in Subscribers, NEW r \in SubscriberType,
           r.subscription = user[u].subscription,
           user' = [user EXCEPT ![u] = r]
    PROVE  /\ user' \in [Subscribers -> SubscriberType]
           /\ \A v \in Subscribers : user'[v].subscription = user[v].subscription
BY DEF TInv, TypeOK

LEMMA ReadyTyped ==
    \A r \in SubscriberType, b \in BOOLEAN :
        LET q == [r EXCEPT !.lock = Nil, !.ready["video"] = b]
        IN  q \in SubscriberType /\ q.subscription = r.subscription
BY DEF SubscriberType, Maybe

LEMMA ReadyBuiltTyped ==
    \A r \in SubscriberType, n \in Nat :
        LET q == [r EXCEPT !.lock = Nil, !.ready["video"] = TRUE, !.built["video"] = n]
        IN  q \in SubscriberType /\ q.subscription = r.subscription
BY DEF SubscriberType, Maybe

LEMMA BuiltTyped ==
    \A r \in SubscriberType, k \in Kinds :
        /\ Built(r, k) \in SubscriberType
        /\ Built(r, k).subscription = r.subscription
BY DEF SubscriberType, Built

LEMMA BuildAudioTyped ==
    ASSUME TInv, NEW c \in Threads, BuildAudio(c)
    PROVE  TInv'
<1> DEFINE u == loc[c].user
<1>1. loc[c].subs \in Subscriptions /\ u \in Subscribers /\ pc[c] \in Placed
  BY LocalsOf DEF BuildAudio, LocatedAt, AtSubs, AtUser, Placed
<1>2. PICK r \in {user[u], Built(user[u], "audio")} :
          user' = [user EXCEPT ![u] = [r EXCEPT !.lock = c]]
  BY <1>1, LocalsOf, Zenon DEF BuildAudio, DataTyped
<1>3. r \in SubscriberType /\ r.subscription = user[u].subscription
  BY <1>1, <1>2, BuiltTyped, LocalsOf DEF DataTyped, Kinds
<1>4. /\ [r EXCEPT !.lock = c] \in SubscriberType
      /\ [r EXCEPT !.lock = c].subscription = user[u].subscription
  BY <1>3 DEF SubscriberType, Maybe
<1>5. /\ user' \in [Subscribers -> SubscriberType]
      /\ \A v \in Subscribers : user'[v].subscription = user[v].subscription
  BY <1>1, <1>2, <1>4, OneUserTyped
<1>6. DataTyped'
  BY <1>5, LocalsOf DEF BuildAudio, DataTyped, tables, sdk
<1>7. LocatedAt("checkVideo", loc[c]) /\ "checkVideo" \in PCs
  BY <1>1 DEF LocatedAt, AtSubs, AtUser, AtKey, AtTrack, Placed, PCs
<1> QED
  BY <1>1, <1>5, <1>6, <1>7, LocalsOf, UserStepTyped DEF BuildAudio, tables

LEMMA CheckVideoTyped ==
    ASSUME TInv, NEW c \in Threads, CheckVideo(c)
    PROVE  TInv'
<1> DEFINE u == loc[c].user
<1>1. loc[c].subs \in Subscriptions /\ u \in Subscribers /\ pc[c] \in Placed
  BY LocalsOf DEF CheckVideo, LocatedAt, AtSubs, AtUser, Placed
<1>2. PICK label \in {"buildVideo", "register"} : Go(c, label, loc[c])
  BY DEF CheckVideo
<1>3. /\ user' \in [Subscribers -> SubscriberType]
      /\ \A v \in Subscribers : user'[v].subscription = user[v].subscription
  <2>1. CASE UNCHANGED user
    BY <2>1, LocalsOf DEF DataTyped
  <2>2. CASE ~ UNCHANGED user
    <3>1. PICK needed \in BOOLEAN :
            user' = [user EXCEPT ![u] =
                       [@ EXCEPT !.lock = Nil,
                                 !.ready["video"] = user[u].ready["video"] \/ needed]]
      BY <2>2 DEF CheckVideo
    <3> DEFINE r == [user[u] EXCEPT !.lock = Nil,
                              !.ready["video"] = user[u].ready["video"] \/ needed]
    <3>2. user[u] \in SubscriberType
      BY <1>1, LocalsOf DEF DataTyped
    <3>3. r \in SubscriberType /\ r.subscription = user[u].subscription
      BY <3>2, ReadyTyped
    <3>4. user' = [user EXCEPT ![u] = r]
      BY <1>1, <3>1, LocalsOf DEF DataTyped
    <3> QED
      BY <1>1, <3>3, <3>4, OneUserTyped
  <2> QED
    BY <2>1, <2>2
<1>4. DataTyped'
  BY <1>3, LocalsOf DEF CheckVideo, DataTyped, tables, sdk
<1>5. LocatedAt(label, loc[c]) /\ label \in PCs
  BY <1>1 DEF LocatedAt, AtSubs, AtUser, AtKey, AtTrack, Placed, PCs
<1> QED
  BY <1>1, <1>2, <1>3, <1>4, <1>5, LocalsOf, UserStepTyped DEF CheckVideo, tables

LEMMA BuildVideoTyped ==
    ASSUME TInv, NEW c \in Threads, BuildVideo(c)
    PROVE  TInv'
<1>1. loc[c].user \in Subscribers /\ pc[c] \in Placed
  BY LocalsOf DEF BuildVideo, LocatedAt, AtUser, Placed
<1>2. /\ user' \in [Subscribers -> SubscriberType]
      /\ \A v \in Subscribers : user'[v].subscription = user[v].subscription
  <2> DEFINE u == loc[c].user
             r == [user[u] EXCEPT !.lock = Nil, !.ready["video"] = TRUE,
                                  !.built["video"] = user[u].built["video"] + 1]
  <2>1. user[u] \in SubscriberType
    BY <1>1, LocalsOf DEF DataTyped
  <2>2. r \in SubscriberType /\ r.subscription = user[u].subscription
    <3>1. user[u].built["video"] + 1 \in Nat
      BY <2>1 DEF SubscriberType, Kinds
    <3> QED
      BY <2>1, <3>1, ReadyBuiltTyped
  <2>3. user' = [user EXCEPT ![u] = r]
    BY <1>1, LocalsOf DEF BuildVideo, DataTyped
  <2> QED
    BY <1>1, <2>2, <2>3, OneUserTyped
<1>3. DataTyped'
  BY <1>2, LocalsOf DEF BuildVideo, DataTyped, tables, sdk
<1>4. LocatedAt("register", loc[c]) /\ "register" \in PCs
  BY <1>1 DEF LocatedAt, AtSubs, AtUser, AtKey, AtTrack, Placed, PCs
<1> QED
  BY <1>1, <1>2, <1>3, <1>4, LocalsOf, UserStepTyped DEF BuildVideo, tables

LEMMA RegisterTyped ==
    ASSUME TInv, NEW c \in Threads, Register(c)
    PROVE  TInv'
<1>1. loc[c].user \in Subscribers /\ pc[c] \in Placed
  BY LocalsOf DEF Register, LocatedAt, AtUser, Placed
<1>2. DataTyped'
  BY <1>1, LocalsOf DEF Register, DataTyped, sdk
<1>3. /\ pc' \in [Threads -> PCs] /\ loc' \in [Threads -> LocalsType]
      /\ Located'
  BY ReturnLocated DEF Register
<1>4. \A u \in rootSubscribers' : user'[u].subscription \in Subscriptions
  BY <1>1, LocalsOf DEF Register, TInv, HasSubscription
<1>5. HasSubscription'
  BY <1>4, IdleLocated, KeepsHasSubscription DEF Register, Return, Keeps
<1> QED
  BY <1>2, <1>3, <1>5 DEF TInv, TypeOK, DataTyped

----------------------------------------------------------------------------
(* Steps of UnsubscribeParticipant.                                         *)

LEMMA UnsubscribeTyped ==
    ASSUME TInv, NEW c \in Threads, NEW u \in Subscribers, Unsubscribe(c, u)
    PROVE  TInv'
<1> DEFINE l == [NoLocals EXCEPT !.user = u]
<1>1. l \in LocalsType /\ l.user = u
  BY NoLocalsTyped DEF LocalsType, Maybe
<1>2. LocatedAt("lockRoom", l) /\ "lockRoom" \in PCs
  BY <1>1 DEF LocatedAt, AtSubs, AtUser, AtKey, AtTrack, Placed, PCs
<1>3. DataTyped'
  BY LocalsOf DEF Unsubscribe, DataTyped, sdk
<1> QED
  BY <1>1, <1>2, <1>3, UserStepTyped DEF Unsubscribe

LEMMA RemoveSubscriberTyped ==
    ASSUME TInv, NEW c \in Threads, RemoveSubscriber(c)
    PROVE  TInv'
<1> DEFINE s == user[loc[c].user].subscription
           l == [loc[c] EXCEPT !.subs = s]
<1>1. loc[c].user \in Subscribers /\ s \in Subscriptions
  BY LocalsOf DEF RemoveSubscriber, LocatedAt, AtUser, Placed
<1>2. l \in LocalsType /\ l.user = loc[c].user /\ l.subs = s
  BY <1>1, LocalsOf DEF LocalsType, Maybe
<1>3. LocatedAt("destroy", l) /\ "destroy" \in PCs /\ "destroy" \notin Placed
  BY <1>1, <1>2 DEF LocatedAt, AtSubs, AtUser, AtKey, AtTrack, Placed, PCs
<1>4. DataTyped'
  BY LocalsOf DEF RemoveSubscriber, DataTyped, tables, sdk, Maybe
<1> QED
  BY <1>2, <1>3, <1>4, StepTyped DEF RemoveSubscriber, tables

LEMMA DestroyedTyped ==
    \A r \in SubscriberType :
        LET q == [r EXCEPT !.ready = [k \in Kinds |-> FALSE],
                           !.built = [k \in Kinds |-> 0], !.bin = FALSE]
        IN  q \in SubscriberType /\ q.subscription = r.subscription
BY DEF SubscriberType

LEMMA DestroySubscriberTyped ==
    ASSUME TInv, NEW c \in Threads, DestroySubscriber(c)
    PROVE  TInv'
<1>1. loc[c].subs \in Subscriptions /\ loc[c].user \in Subscribers
  BY LocalsOf DEF DestroySubscriber, LocatedAt, AtSubs, AtUser
<1>2. /\ user' \in [Subscribers -> SubscriberType]
      /\ \A v \in Subscribers : user'[v].subscription = user[v].subscription
  <2> DEFINE u == loc[c].user
             r == [user[u] EXCEPT !.ready = [k \in Kinds |-> FALSE],
                                  !.built = [k \in Kinds |-> 0], !.bin = FALSE]
  <2>1. user[u] \in SubscriberType
    BY <1>1, LocalsOf DEF DataTyped
  <2>2. r \in SubscriberType /\ r.subscription = user[u].subscription
    BY <2>1, DestroyedTyped
  <2>3. user' = [user EXCEPT ![u] = r]
    BY <1>1, LocalsOf DEF DestroySubscriber, DataTyped
  <2> QED
    BY <1>1, <2>2, <2>3, OneUserTyped
<1>3. DataTyped'
  BY <1>2, LocalsOf DEF DestroySubscriber, DataTyped, tables, sdk
<1>4. LocatedAt("detach", loc[c]) /\ "detach" \in PCs /\ "detach" \notin Placed
  BY <1>1 DEF LocatedAt, AtSubs, AtUser, AtKey, AtTrack, Placed, PCs
<1> QED
  BY <1>2, <1>3, <1>4, LocalsOf, UserStepTyped DEF DestroySubscriber, tables

LEMMA DetachTyped ==
    ASSUME TInv, NEW c \in Threads, Detach(c)
    PROVE  TInv'
<1> DEFINE left == subs[loc[c].subs].attached \ {loc[c].user}
           l == [loc[c] EXCEPT !.todo = Kinds]
<1>1. loc[c].subs \in Subscriptions /\ loc[c].user \in Subscribers
  BY LocalsOf DEF Detach, LocatedAt, AtSubs, AtUser
<1>2. left \in SUBSET Subscribers
  BY <1>1, LocalsOf DEF DataTyped, SubscriptionType
<1>3. subs' = [subs EXCEPT ![loc[c].subs].attached = left]
  BY DEF Detach
<1>4. subs' \in [Subscriptions -> SubscriptionType]
  <2> HIDE DEF left
  <2>1. subs[loc[c].subs] \in SubscriptionType
    BY <1>1, <1>2, LocalsOf DEF DataTyped
  <2>2. [subs[loc[c].subs] EXCEPT !.attached = left] \in SubscriptionType
    BY <1>1, <1>2, <2>1, SubscriptionEdits
  <2>3. subs' = [subs EXCEPT ![loc[c].subs] = [subs[loc[c].subs] EXCEPT !.attached = left]]
    BY <1>1, <1>3, LocalsOf DEF DataTyped
  <2> QED
    BY <1>1, <1>2, <2>2, <2>3, OneSubscriptionTyped
<1>5. DataTyped'
  BY <1>4, LocalsOf DEF Detach, DataTyped, tables, sdk, Maybe
<1>6. CASE Return(c)
  BY <1>5, <1>6, IdleLocated, NoLocalsTyped, StepTyped DEF Detach, Return, tables
<1>7. CASE Go(c, "unwire", l)
  <2>1. l \in LocalsType /\ l.subs = loc[c].subs /\ l.user = loc[c].user
    BY LocalsOf DEF LocalsType
  <2>2. LocatedAt("unwire", l) /\ "unwire" \in PCs /\ "unwire" \notin Placed
    BY <1>1, <2>1 DEF LocatedAt, AtSubs, AtUser, AtKey, AtTrack, Placed, PCs
  <2> QED
    BY <1>5, <1>7, <2>1, <2>2, StepTyped DEF Detach, tables
<1> QED
  BY <1>6, <1>7 DEF Detach

LEMMA BreakWriterTyped ==
    ASSUME TInv, NEW s \in Subscriptions, NEW k \in Kinds,
           NEW track \in Maybe(Tracks), BreakWriter(s, k, track)
    PROVE  /\ subs' \in [Subscriptions -> SubscriptionType]
           /\ writers' \in [Writers -> WriterType]
<1> DEFINE r == [subs[s] EXCEPT !.writer[k] = Nil, !.track[k] = track]
<1>1. subs[s] \in SubscriptionType
  BY DEF TInv, TypeOK
<1>2. r \in SubscriptionType
  BY <1>1 DEF SubscriptionType, Maybe
<1>3. subs' = [subs EXCEPT ![s] = r]
  BY DEF BreakWriter, TInv, TypeOK
<1>4. subs' \in [Subscriptions -> SubscriptionType]
  <2> HIDE DEF r
  <2> QED
    BY <1>2, <1>3 DEF TInv, TypeOK
<1>5. StoppedWriter \in WriterType
  BY DEF StoppedWriter, WriterType, Maybe
<1> QED
  BY <1>4, <1>5 DEF BreakWriter, TInv, TypeOK

LEMMA UnwireTyped ==
    ASSUME TInv, NEW c \in Threads, Unwire(c)
    PROVE  TInv'
<1> DEFINE s == loc[c].subs
           k == FirstKind(loc[c].todo)
           t == subs[s].track[k]
<1>1. s \in Subscriptions /\ k \in Kinds
  BY LocalsOf DEF Unwire, LocatedAt, AtSubs, FirstKind, Kinds
<1>2. t \in Maybe(Tracks)
  BY <1>1, LocalsOf DEF DataTyped, SubscriptionType
<1>3. CASE t # Nil
  <2> DEFINE l == [loc[c] EXCEPT !.track = t]
  <2>1. /\ BreakWriter(s, k, Nil)
        /\ subscribedTracks' = [subscribedTracks EXCEPT ![t] = Nil]
        /\ Go(c, "release", l)
    BY <1>3 DEF Unwire
  <2>2. DataTyped'
    BY <1>1, <2>1, BreakWriterTyped, LocalsOf DEF Unwire, DataTyped, sdk, Maybe
  <2>3. l \in LocalsType /\ l.subs = s /\ l.track = t
    BY <1>2, LocalsOf DEF LocalsType
  <2>4. LocatedAt("release", l) /\ "release" \in PCs /\ "release" \notin Placed
    BY <1>1, <1>2, <1>3, <2>3 DEF LocatedAt, AtSubs, AtUser, AtKey, AtTrack, Placed, PCs, Maybe
  <2> QED
    BY <2>1, <2>2, <2>3, <2>4, StepTyped DEF Unwire
<1>4. CASE t = Nil
  <2> DEFINE l == [loc[c] EXCEPT !.todo = @ \ {k}]
             label == IF k = "audio" THEN "unwire" ELSE "drop"
  <2>1. Go(c, label, l) /\ UNCHANGED <<subs, writers, subscribedTracks>>
    BY <1>4 DEF Unwire
  <2>2. DataTyped'
    BY <2>1, LocalsOf DEF Unwire, DataTyped, sdk
  <2>3. l \in LocalsType /\ l.subs = s
    BY LocalsOf DEF LocalsType
  <2>4. LocatedAt(label, l) /\ label \in PCs /\ label \notin Placed
    BY <1>1, <2>3 DEF LocatedAt, AtSubs, AtUser, AtKey, AtTrack, Placed, PCs
  <2> QED
    BY <2>1, <2>2, <2>3, <2>4, StepTyped DEF Unwire
<1> QED
  BY <1>3, <1>4

\* A publication that is no longer wanted.
LEMMA DropsTyped ==
    ASSUME TInv, NEW t \in Tracks, pub' = [pub EXCEPT ![t] = Unwanted(@)]
    PROVE  pub' \in [Tracks -> PublicationType]
BY UnwantedTyped DEF TInv, TypeOK

LEMMA ReleaseTyped ==
    ASSUME TInv, NEW c \in Threads, Release(c)
    PROVE  TInv'
<1> DEFINE k == FirstKind(loc[c].todo)
           l == [loc[c] EXCEPT !.track = Nil, !.todo = @ \ {k}]
           label == IF k = "audio" THEN "unwire" ELSE "drop"
<1>1. loc[c].subs \in Subscriptions /\ loc[c].track \in Tracks
  BY LocalsOf DEF Release, LocatedAt, AtSubs, AtTrack
<1>2. DataTyped'
  BY <1>1, DropsTyped, LocalsOf DEF Release, DataTyped, tables
<1>3. l \in LocalsType /\ l.subs = loc[c].subs
  BY LocalsOf DEF LocalsType, Maybe
<1>4. LocatedAt(label, l) /\ label \in PCs /\ label \notin Placed
  BY <1>1, <1>3 DEF LocatedAt, AtSubs, AtUser, AtKey, AtTrack, Placed, PCs
<1>5. Go(c, label, l)
  BY DEF Release
<1> QED
  BY <1>2, <1>3, <1>4, <1>5, StepTyped DEF Release, tables

LEMMA RemoveSubscriptionTyped ==
    ASSUME TInv, NEW c \in Threads, RemoveSubscription(c)
    PROVE  TInv'
<1>1. DataTyped'
  BY LocalsOf DEF RemoveSubscription, DataTyped, sdk, Maybe
<1> QED
  BY <1>1, IdleLocated, NoLocalsTyped, StepTyped DEF RemoveSubscription, Return

----------------------------------------------------------------------------
(* Steps of the callbacks.                                                  *)

LEMMA ReturnTyped ==
    ASSUME TInv, NEW h \in Threads, Return(h), DataTyped',
           UNCHANGED <<user, rootSubscribers>>
    PROVE  TInv'
BY IdleLocated, NoLocalsTyped, StepTyped DEF Return

LEMMA OnTrackPublishedTyped ==
    ASSUME TInv, NEW h \in Threads, NEW t \in Tracks, OnTrackPublished(h, t)
    PROVE  TInv'
<1> DEFINE s == subscriptions[KeyOf(t)]
           l == [NoLocals EXCEPT !.key = KeyOf(t), !.subs = s]
<1>1. KeyOf(t) \in Keys
  BY TracksAssumption DEF KeyOf, Keys
<1>2. DataTyped'
  BY LocalsOf DEF OnTrackPublished, Take, DataTyped, tables
<1>3. CASE s = Nil
  BY <1>2, <1>3, ReturnTyped DEF OnTrackPublished, tables
<1>4. CASE s # Nil
  <2>1. s \in Subscriptions
    BY <1>1, <1>4, LocalsOf DEF DataTyped, Maybe
  <2>2. l \in LocalsType /\ l.subs = s
    BY <1>1, <2>1, NoLocalsTyped DEF LocalsType, Maybe
  <2>3. LocatedAt("published", l) /\ "published" \in PCs /\ "published" \notin Placed
    BY <2>1, <2>2 DEF LocatedAt, AtSubs, AtUser, AtKey, AtTrack, Placed, PCs
  <2>4. Go(h, "published", l)
    BY <1>4 DEF OnTrackPublished
  <2> QED
    BY <1>2, <2>2, <2>3, <2>4, StepTyped DEF OnTrackPublished, tables
<1> QED
  BY <1>3, <1>4

LEMMA CheckPublishedTyped ==
    ASSUME TInv, NEW h \in Threads, CheckPublished(h)
    PROVE  TInv'
<1>1. loc[h].subs \in Subscriptions
  BY LocalsOf DEF CheckPublished, LocatedAt, AtSubs
<1>2. subs[loc[h].subs].track \in [Kinds -> Maybe(Tracks)]
  BY <1>1, LocalsOf DEF DataTyped, SubscriptionType
<1>3. subs' \in [Subscriptions -> SubscriptionType] => DataTyped'
  BY LocalsOf DEF CheckPublished, DataTyped, tables, sdk, Maybe
<1> QED
  BY <1>1, <1>2, <1>3, CheckTracksTyped DEF CheckPublished, tables

LEMMA OnParticipantConnectedTyped ==
    ASSUME TInv, NEW h \in Threads, NEW p \in Participants,
           OnParticipantConnected(h, p)
    PROVE  TInv'
<1> DEFINE l == [NoLocals EXCEPT !.key = <<p, FALSE>>]
<1>1. l \in LocalsType /\ l.key \in Keys
  BY NoLocalsTyped DEF LocalsType, Maybe, Keys
<1>2. DataTyped'
  BY LocalsOf DEF OnParticipantConnected, Take, DataTyped, tables
<1>3. LocatedAt("connected", l) /\ "connected" \in PCs /\ "connected" \notin Placed
  BY <1>1 DEF LocatedAt, AtSubs, AtUser, AtKey, AtTrack, Placed, PCs
<1> QED
  BY <1>1, <1>2, <1>3, StepTyped DEF OnParticipantConnected, tables

LEMMA LockConnectedTyped ==
    ASSUME TInv, NEW h \in Threads, LockConnected(h)
    PROVE  TInv'
<1>1. LocatedAt("check", loc[h]) /\ "check" \in PCs /\ "check" \notin Placed
  BY LocalsOf DEF LockConnected, LocatedAt, AtSubs, AtUser, AtKey, AtTrack, Placed, PCs
<1>2. DataTyped'
  BY LocalsOf DEF LockConnected, DataTyped, tables, sdk, Maybe
<1> QED
  BY <1>1, <1>2, LocalsOf, StepTyped DEF LockConnected, tables

LEMMA CheckConnectedTyped ==
    ASSUME TInv, NEW h \in Threads, CheckConnected(h)
    PROVE  TInv'
<1> DEFINE s     == subscriptions[loc[h].key]
           after == IF pc[h] = "check" THEN "recheck" ELSE "leave"
<1>1. loc[h].key \in Keys
  BY LocalsOf DEF CheckConnected, LocatedAt, AtKey
<1>2. subs' \in [Subscriptions -> SubscriptionType] => DataTyped'
  BY LocalsOf DEF CheckConnected, DataTyped, tables, sdk
<1>3. CASE s = Nil
  <2>1. Go(h, after, loc[h]) /\ UNCHANGED subs
    BY <1>3 DEF CheckConnected
  <2>2. LocatedAt(after, loc[h]) /\ after \in PCs /\ after \notin Placed
    BY <1>1 DEF LocatedAt, AtSubs, AtUser, AtKey, AtTrack, Placed, PCs
  <2>3. DataTyped'
    BY <1>2, <2>1, LocalsOf DEF DataTyped
  <2> QED
    BY <2>1, <2>2, <2>3, LocalsOf, StepTyped DEF CheckConnected, tables
<1>4. CASE s # Nil
  <2>1. s \in Subscriptions
    BY <1>1, <1>4, LocalsOf DEF DataTyped, Maybe
  <2>2. subs[s].track \in [Kinds -> Maybe(Tracks)]
    BY <2>1, LocalsOf DEF DataTyped, SubscriptionType
  <2>3. CheckTracks(h, s, subs[s].track, after)
    BY <1>4 DEF CheckConnected
  <2>4. after \in {"append", "recheck", "leave"} /\ after # "append"
    OBVIOUS
  <2>5. UNCHANGED <<user, rootSubscribers>>
    BY DEF CheckConnected, tables
  <2> HIDE DEF s, after
  <2> QED
    BY <1>1, <1>2, <2>1, <2>2, <2>3, <2>4, <2>5, CheckTracksTyped
<1> QED
  BY <1>3, <1>4

LEMMA LeaveTyped ==
    ASSUME TInv, NEW h \in Threads, Leave(h)
    PROVE  TInv'
<1>1. DataTyped'
  BY LocalsOf DEF Leave, DataTyped, tables, sdk, Maybe
<1> QED
  BY <1>1, ReturnTyped DEF Leave, tables

LEMMA OnTrackEventTyped ==
    ASSUME TInv, NEW h \in Threads, NEW type \in TrackEvents, NEW t \in Tracks,
           OnTrackEvent(h, type, t)
    PROVE  TInv'
<1> DEFINE s == subscribedTracks[t]
           l == [NoLocals EXCEPT !.subs = s, !.track = t]
<1>1. DataTyped'
  BY LocalsOf DEF OnTrackEvent, Take, DataTyped, tables
<1>2. CASE s = Nil
  BY <1>1, <1>2, ReturnTyped DEF OnTrackEvent, tables
<1>3. CASE s # Nil
  <2>1. s \in Subscriptions
    BY <1>3, LocalsOf DEF DataTyped, Maybe
  <2>2. l \in LocalsType /\ l.subs = s /\ l.track = t
    BY <2>1, NoLocalsTyped DEF LocalsType, Maybe
  <2>3. type \in {"unpublished", "subscribed", "unsubscribed"}
    BY DEF OnTrackEvent, TrackEvents
  <2>4. LocatedAt(type, l) /\ type \in PCs /\ type \notin Placed
    BY <2>1, <2>2, <2>3 DEF LocatedAt, AtSubs, AtUser, AtKey, AtTrack, Placed, PCs
  <2>5. Go(h, type, l)
    BY <1>3 DEF OnTrackEvent
  <2> QED
    BY <1>1, <2>2, <2>4, <2>5, StepTyped DEF OnTrackEvent, tables
<1> QED
  BY <1>2, <1>3

LEMMA UnpublishedTyped ==
    ASSUME TInv, NEW h \in Threads, Unpublished(h)
    PROVE  TInv'
<1>1. loc[h].track \in Tracks
  BY LocalsOf DEF Unpublished, LocatedAt, AtTrack
<1>2. DataTyped'
  BY <1>1, DropsTyped, LocalsOf DEF Unpublished, DataTyped, tables
<1> QED
  BY <1>2, ReturnTyped DEF Unpublished, tables

LEMMA UnsubscribedTyped ==
    ASSUME TInv, NEW h \in Threads, Unsubscribed(h)
    PROVE  TInv'
<1> DEFINE s == loc[h].subs
           k == Kind[loc[h].track]
<1>1. s \in Subscriptions /\ k \in Kinds
  BY TracksAssumption, LocalsOf DEF Unsubscribed, LocatedAt, AtSubs, AtTrack
<1>2. subs[s].track[k] \in Maybe(Tracks)
  BY <1>1, LocalsOf DEF DataTyped, SubscriptionType
<1>3. BreakWriter(s, k, subs[s].track[k])
  BY DEF Unsubscribed
<1>4. DataTyped'
  BY <1>1, <1>2, <1>3, BreakWriterTyped, LocalsOf DEF Unsubscribed, DataTyped, tables, sdk
<1> QED
  BY <1>4, ReturnTyped DEF Unsubscribed, tables

LEMMA RefuseWriterTyped ==
    ASSUME TInv, NEW h \in Threads, RefuseWriter(h)
    PROVE  TInv'
<1>1. DataTyped'
  BY LocalsOf DEF RefuseWriter, DataTyped, tables, sdk
<1> QED
  BY <1>1, ReturnTyped DEF RefuseWriter, tables

LEMMA CreateWriterTyped ==
    ASSUME TInv, NEW h \in Threads, CreateWriter(h)
    PROVE  TInv'
<1> DEFINE s == loc[h].subs
           t == loc[h].track
           k == Kind[t]
           l == [loc[h] EXCEPT !.rest = subs[s].attached]
<1>1. s \in Subscriptions /\ t \in Tracks /\ k \in Kinds
  BY TracksAssumption, LocalsOf DEF CreateWriter, LocatedAt, AtSubs, AtTrack
<1>2. PICK w \in Writers :
         /\ writers' = [writers EXCEPT ![w] = [home |-> s, feed |-> t]]
         /\ subs' = [subs EXCEPT ![s] =
                       [@ EXCEPT !.writer[k] = w, !.lock = h,
                                 !.track[k] = IF subs[s].track[k] = Nil
                                                THEN t ELSE subs[s].track[k]]]
  BY DEF CreateWriter
<1>3. subs' \in [Subscriptions -> SubscriptionType]
  <2> DEFINE kept == IF subs[s].track[k] = Nil THEN t ELSE subs[s].track[k]
             r == [subs[s] EXCEPT !.writer[k] = w, !.lock = h, !.track[k] = kept]
  <2>1. subs[s] \in SubscriptionType /\ kept \in Maybe(Tracks)
    BY <1>1, LocalsOf DEF DataTyped, SubscriptionType, Maybe
  <2>2. r \in SubscriptionType
    <3> HIDE DEF kept
    <3> QED BY <2>1 DEF SubscriptionType, Maybe
  <2>3. subs' = [subs EXCEPT ![s] = r]
    BY <1>1, <1>2, LocalsOf DEF DataTyped
  <2> HIDE DEF r
  <2> QED
    BY <2>2, <2>3, LocalsOf DEF DataTyped
<1>4. writers' \in [Writers -> WriterType]
  BY <1>1, <1>2, LocalsOf DEF DataTyped, WriterType, Maybe
<1>5. DataTyped'
  BY <1>3, <1>4, LocalsOf DEF CreateWriter, DataTyped, tables, sdk
<1>6. /\ l \in LocalsType /\ l.subs = s /\ l.track = t
  BY <1>1, LocalsOf DEF LocalsType, DataTyped, SubscriptionType
<1>7. LocatedAt("wire", l) /\ "wire" \in PCs /\ "wire" \notin Placed
  BY <1>1, <1>6 DEF LocatedAt, AtSubs, AtUser, AtKey, AtTrack, Placed, PCs
<1> QED
  BY <1>5, <1>6, <1>7, StepTyped DEF CreateWriter, tables

\* The subscriber a writer has been wired to is done with.
LEMMA WiredTyped ==
    ASSUME TInv, NEW h \in Threads, NEW u, pc[h] \in {"wire", "wireReady"},
           Go(h, "wire", Wired(h, u)), DataTyped',
           \A v \in Subscribers : user'[v].subscription = user[v].subscription,
           UNCHANGED rootSubscribers
    PROVE  TInv'
<1>1. /\ Wired(h, u) \in LocalsType
      /\ Wired(h, u).subs = loc[h].subs /\ Wired(h, u).track = loc[h].track
  BY LocalsOf DEF LocalsType, Wired, Maybe
<1>2. LocatedAt("wire", Wired(h, u)) /\ "wire" \in PCs /\ "wire" \notin Placed
  BY <1>1, LocalsOf DEF LocatedAt, AtSubs, AtUser, AtKey, AtTrack, Placed, PCs
<1> QED
  BY <1>1, <1>2, UserStepTyped

LEMMA PanicTyped ==
    ASSUME TInv, Panic
    PROVE  TInv'
BY DEF Panic, TInv, TypeOK, Located, HasSubscription, tables, sdk

LEMMA WireAudioTyped ==
    ASSUME TInv, NEW h \in Threads, NEW u \in Subscribers, WireAudio(h, u)
    PROVE  TInv'
<1>1. CASE Panic
  BY <1>1, PanicTyped
<1>2. CASE ~ Panic
  <2>1. /\ user' = [user EXCEPT ![u] = Built(@, "audio")]
        /\ Go(h, "wire", Wired(h, u)) /\ pc[h] = "wire"
        /\ UNCHANGED <<tables, roomLock, subs, writers, sdk, crashed>>
    BY <1>2 DEF WireAudio, Wiring
  <2>2. /\ user' \in [Subscribers -> SubscriberType]
        /\ \A v \in Subscribers : user'[v].subscription = user[v].subscription
    <3>1. /\ Built(user[u], "audio") \in SubscriberType
          /\ Built(user[u], "audio").subscription = user[u].subscription
      BY BuiltTyped, LocalsOf DEF DataTyped, Kinds
    <3> QED
      BY <2>1, <3>1, OneUserTyped
  <2>3. DataTyped'
    BY <2>1, <2>2, LocalsOf DEF DataTyped, tables, sdk
  <2> QED
    BY <2>1, <2>2, <2>3, WiredTyped DEF tables
<1> QED
  BY <1>1, <1>2

LEMMA CheckWireVideoTyped ==
    ASSUME TInv, NEW h \in Threads, NEW u \in Subscribers, CheckWireVideo(h, u)
    PROVE  TInv'
<1> DEFINE l == [loc[h] EXCEPT !.user = u]
           label == IF user[u].built["video"] = 0 THEN "wireVideo" ELSE "wireReady"
<1>1. /\ l \in LocalsType /\ l.user = u
      /\ l.subs = loc[h].subs /\ l.track = loc[h].track
  BY LocalsOf DEF LocalsType, Maybe
<1>2. LocatedAt(label, l) /\ label \in PCs /\ label \notin Placed
  BY <1>1, LocalsOf DEF CheckWireVideo, Wiring, LocatedAt, AtSubs, AtUser, AtKey, AtTrack, Placed, PCs
<1>3. DataTyped'
  BY LocalsOf DEF CheckWireVideo, DataTyped, tables, sdk
<1>4. Go(h, label, l)
  BY DEF CheckWireVideo
<1> QED
  BY <1>1, <1>2, <1>3, <1>4, StepTyped DEF CheckWireVideo, tables

LEMMA VideoBuiltTyped ==
    \A r \in SubscriberType, n \in Nat :
        LET q == [r EXCEPT !.built["video"] = n]
        IN  q \in SubscriberType /\ q.subscription = r.subscription
BY DEF SubscriberType

LEMMA WireVideoTyped ==
    ASSUME TInv, NEW h \in Threads, WireVideo(h)
    PROVE  TInv'
<1> DEFINE u == loc[h].user
<1>1. CASE Panic
  BY <1>1, PanicTyped
<1>2. CASE ~ Panic
  <2>1. /\ user' = [user EXCEPT ![u].built["video"] = @ + 1]
        /\ Go(h, "wireReady", loc[h])
        /\ UNCHANGED <<tables, roomLock, subs, writers, sdk, crashed>>
    BY <1>2 DEF WireVideo
  <2>2. u \in Subscribers /\ loc[h].subs \in Subscriptions /\ loc[h].track \in Tracks
    BY LocalsOf DEF WireVideo, LocatedAt, AtUser, AtSubs, AtTrack
  <2>3. user[u] \in SubscriberType /\ user[u].built["video"] + 1 \in Nat
    BY <2>2, LocalsOf DEF DataTyped, SubscriberType, Kinds
  <2>4. /\ user' \in [Subscribers -> SubscriberType]
        /\ \A v \in Subscribers : user'[v].subscription = user[v].subscription
    <3> DEFINE r == [user[u] EXCEPT !.built["video"] = user[u].built["video"] + 1]
    <3>1. r \in SubscriberType /\ r.subscription = user[u].subscription
      BY <2>3, VideoBuiltTyped
    <3>2. user' = [user EXCEPT ![u] = r]
      BY <2>1, <2>2, LocalsOf DEF DataTyped
    <3> QED
      BY <2>2, <3>1, <3>2, OneUserTyped
  <2>5. DataTyped'
    BY <2>1, <2>4, LocalsOf DEF DataTyped, tables, sdk
  <2>6. LocatedAt("wireReady", loc[h]) /\ "wireReady" \in PCs /\ "wireReady" \notin Placed
    BY <2>2 DEF LocatedAt, AtSubs, AtUser, AtKey, AtTrack, Placed, PCs
  <2> QED
    BY <2>1, <2>4, <2>5, <2>6, LocalsOf, UserStepTyped DEF tables
<1> QED
  BY <1>1, <1>2

LEMMA VideoReadyTyped ==
    \A r \in SubscriberType :
        LET q == [r EXCEPT !.ready["video"] = TRUE]
        IN  q \in SubscriberType /\ q.subscription = r.subscription
BY DEF SubscriberType

LEMMA WireReadyTyped ==
    ASSUME TInv, NEW h \in Threads, WireReady(h)
    PROVE  TInv'
<1> DEFINE u == loc[h].user
           r == [user[u] EXCEPT !.ready["video"] = TRUE]
<1>1. u \in Subscribers
  BY LocalsOf DEF WireReady, LocatedAt, AtUser
<1>2. r \in SubscriberType /\ r.subscription = user[u].subscription
  <2>1. user[u] \in SubscriberType
    BY <1>1, LocalsOf DEF DataTyped
  <2> QED
    BY <2>1, VideoReadyTyped
<1>3. user' = [user EXCEPT ![u] = r]
  BY <1>1, LocalsOf DEF WireReady, DataTyped
<1>4. /\ user' \in [Subscribers -> SubscriberType]
      /\ \A v \in Subscribers : user'[v].subscription = user[v].subscription
  BY <1>1, <1>2, <1>3, OneUserTyped
<1>5. DataTyped'
  BY <1>4, LocalsOf DEF WireReady, DataTyped, tables, sdk
<1> QED
  BY <1>4, <1>5, WiredTyped DEF WireReady, tables

LEMMA FinishWriterTyped ==
    ASSUME TInv, NEW h \in Threads, FinishWriter(h)
    PROVE  TInv'
<1>1. DataTyped'
  <2>1. subs' \in [Subscriptions -> SubscriptionType]
    BY SubscriptionEdits, LocalsOf DEF FinishWriter, DataTyped
  <2> QED
    BY <2>1, LocalsOf DEF FinishWriter, DataTyped, tables, sdk
<1> QED
  BY <1>1, ReturnTyped DEF FinishWriter, tables

----------------------------------------------------------------------------
(* Steps of the SDK.                                                        *)

LEMMA SdkStepTyped ==
    ASSUME TInv, NEW p \in SUBSET Participants, NEW q \in [Tracks -> PublicationType],
           NEW e \in SUBSET EventType, SdkStep(p, q, e)
    PROVE  TInv'
BY DEF SdkStep, TInv, TypeOK, Located, HasSubscription, tables

LEMMA StatusTyped ==
    \A p \in PublicationType : /\ [p EXCEPT !.status = "published"] \in PublicationType
                               /\ [p EXCEPT !.status = "gone"] \in PublicationType
                               /\ [p EXCEPT !.got = TRUE] \in PublicationType
                               /\ [p EXCEPT !.got = FALSE] \in PublicationType
BY DEF PublicationType

LEMMA SdkNextTyped ==
    ASSUME TInv, SdkNext
    PROVE  TInv'
<1>1. /\ pub \in [Tracks -> PublicationType] /\ present \subseteq Participants
      /\ events \subseteq EventType
  BY DEF TInv, TypeOK
<1>2. ASSUME NEW p \in Participants, Join(p)
      PROVE  TInv'
  <2>1. PICK brought \in SUBSET {t \in Tracks : Owner[t] = p} :
         \E announced \in SUBSET brought :
            SdkStep(present \cup {p},
                    [t \in Tracks |-> IF t \in brought
                                        THEN [pub[t] EXCEPT !.status = "published"]
                                        ELSE pub[t]],
                    events \cup {<<"connected", p>>} \cup {<<"published", t>> : t \in announced})
    BY <1>2 DEF Join
  <2>2. PICK announced \in SUBSET brought :
            SdkStep(present \cup {p},
                    [t \in Tracks |-> IF t \in brought
                                        THEN [pub[t] EXCEPT !.status = "published"]
                                        ELSE pub[t]],
                    events \cup {<<"connected", p>>} \cup {<<"published", t>> : t \in announced})
    BY <2>1
  <2>3. [t \in Tracks |-> IF t \in brought
                           THEN [pub[t] EXCEPT !.status = "published"]
                           ELSE pub[t]] \in [Tracks -> PublicationType]
    BY <1>1, StatusTyped
  <2>4. events \cup {<<"connected", p>>} \cup {<<"published", t>> : t \in announced}
          \subseteq EventType
    <3>1. <<"connected", p>> \in EventType
      BY DEF EventType
    <3>2. \A t \in announced : <<"published", t>> \in EventType
      BY DEF EventType, TrackEvents
    <3> QED
      BY <1>1, <3>1, <3>2
  <2> QED
    BY <1>1, <2>2, <2>3, <2>4, SdkStepTyped
<1>3. ASSUME NEW t \in Tracks, Publish(t) \/ Unpublish(t) \/ Attach(t) \/ Loses(t)
      PROVE  TInv'
  <2>1. \A type \in TrackEvents : events \cup {<<type, t>>} \in SUBSET EventType
    BY <1>1 DEF EventType
  <2>2. {"published", "unpublished", "subscribed", "unsubscribed"} = TrackEvents
    BY DEF TrackEvents
  <2>3. /\ [pub EXCEPT ![t].status = "published"] \in [Tracks -> PublicationType]
        /\ [pub EXCEPT ![t].status = "gone"] \in [Tracks -> PublicationType]
        /\ [pub EXCEPT ![t].got = TRUE] \in [Tracks -> PublicationType]
        /\ [pub EXCEPT ![t].got = FALSE] \in [Tracks -> PublicationType]
    BY <1>1, StatusTyped
  <2>4. CASE Publish(t)
    BY <1>1, <2>1, <2>2, <2>3, <2>4, SdkStepTyped DEF Publish
  <2>5. CASE Unpublish(t)
    BY <1>1, <2>1, <2>2, <2>3, <2>5, SdkStepTyped DEF Unpublish
  <2>6. CASE Attach(t)
    BY <1>1, <2>1, <2>2, <2>3, <2>6, SdkStepTyped DEF Attach
  <2>7. CASE Loses(t)
    BY <1>1, <2>1, <2>2, <2>3, <2>7, SdkStepTyped DEF Loses
  <2> QED
    BY <1>3, <2>4, <2>5, <2>6, <2>7
<1> QED
  BY <1>2, <1>3 DEF SdkNext

----------------------------------------------------------------------------
(* Every step.                                                              *)

LEMMA InitLocated == Init => Located /\ HasSubscription
BY IdleLocated DEF Init, Located, HasSubscription

LEMMA StutterTyped ==
    ASSUME TInv, UNCHANGED vars
    PROVE  TInv'
BY DEF TInv, TypeOK, Located, HasSubscription, vars, tables, sdk

LEMMA NextTyped ==
    ASSUME TInv, Next
    PROVE  TInv'
<1>1. CASE Start
  <2>1. ASSUME NEW c \in Clients, NEW key \in Keys, Subscribe(c, key) PROVE TInv'
    BY <2>1, SubscribeTyped DEF Threads
  <2>2. ASSUME NEW c \in Clients, NEW u \in Subscribers, Unsubscribe(c, u) PROVE TInv'
    BY <2>2, UnsubscribeTyped DEF Threads
  <2>3. ASSUME NEW h \in Handlers, NEW t \in Tracks, OnTrackPublished(h, t) PROVE TInv'
    BY <2>3, OnTrackPublishedTyped DEF Threads
  <2>4. ASSUME NEW h \in Handlers, NEW p \in Participants, OnParticipantConnected(h, p)
        PROVE  TInv'
    BY <2>4, OnParticipantConnectedTyped DEF Threads
  <2>5. ASSUME NEW h \in Handlers, NEW t \in Tracks, NEW type \in TrackEvents,
               OnTrackEvent(h, type, t)
        PROVE  TInv'
    BY <2>5, OnTrackEventTyped DEF Threads
  <2> QED
    BY <1>1, <2>1, <2>2, <2>3, <2>4, <2>5 DEF Start
<1>2. CASE SdkNext
  BY <1>2, SdkNextTyped
<1>3. ASSUME NEW c \in Clients, ClientStep(c) PROVE TInv'
  <2>1. c \in Threads
    BY DEF Threads
  <2> QED
    BY <1>3, <2>1, ReuseSubscriptionTyped, AddSubscriptionTyped,
       MakeSubscriptionTyped, AddSubscriberTyped, BuildAudioTyped,
       CheckVideoTyped, BuildVideoTyped, RegisterTyped, RequestTyped,
       RecordTyped, RemoveSubscriberTyped, DestroySubscriberTyped, DetachTyped,
       UnwireTyped, ReleaseTyped, RemoveSubscriptionTyped DEF ClientStep
<1>4. ASSUME NEW h \in Handlers, HandlerStep(h) PROVE TInv'
  <2>1. h \in Threads
    BY DEF Threads
  <2>2. ASSUME NEW u \in Subscribers, WireAudio(h, u) \/ CheckWireVideo(h, u)
        PROVE  TInv'
    BY <2>1, <2>2, WireAudioTyped, CheckWireVideoTyped
  <2> QED
    BY <1>4, <2>1, <2>2, CheckPublishedTyped, LockConnectedTyped,
       CheckConnectedTyped, RequestTyped, RecordTyped, LeaveTyped,
       UnpublishedTyped, UnsubscribedTyped, RefuseWriterTyped,
       CreateWriterTyped, WireVideoTyped, WireReadyTyped, FinishWriterTyped
    DEF HandlerStep
<1> QED
  BY <1>1, <1>2, <1>3, <1>4 DEF Next

LEMMA TypedThroughout == Spec => []TInv
<1>1. Init => TInv
  BY InitTyped, InitLocated DEF TInv
<1>2. TInv /\ [Next]_vars => TInv'
  BY NextTyped, StutterTyped
<1> QED
  BY <1>1, <1>2, PTL DEF Spec

\* Every variable keeps its type in every behaviour of the room: no thread
\* reads a local variable, a table entry or an object that is not there.
THEOREM TypeCorrect == Spec => []TypeOK
<1>1. TInv => TypeOK
  BY DEF TInv
<1> QED
  BY <1>1, TypedThroughout, PTL
=============================================================================
