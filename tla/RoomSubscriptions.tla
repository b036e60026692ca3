------------------------- MODULE RoomSubscriptions -------------------------
(***************************************************************************)
(* The subscriptions of one LiveKit room (ov3room.go, ov3subscription.go,  *)
(* the building of ov3subscriber.go, and the root tables they share).      *)
(*                                                                         *)
(* Client threads are the callers of SubscribeParticipant and              *)
(* UnsubscribeParticipant; handler threads are the goroutines in which the *)
(* LiveKit SDK runs the room's callbacks.  Every action is the part of a   *)
(* call between two points where another thread can get in: acquiring a    *)
(* lock, releasing one, or touching shared state that the held locks do    *)
(* not protect.                                                            *)
(*                                                                         *)
(* There are three kinds of lock: the room's, one per subscription and one *)
(* per subscriber.  The root's lock is held for one table access at a      *)
(* time, so that each access is atomic.                                    *)
(***************************************************************************)
EXTENDS Naturals, FiniteSets

CONSTANTS
    Clients,        \* threads that call the exported functions
    Handlers,       \* goroutines of the SDK that run callbacks
    Participants,   \* remote participants of the room
    Tracks,         \* track publications; a SID is never used twice
    Owner,          \* [Tracks -> Participants]
    Shared,         \* [Tracks -> BOOLEAN]: comes from a screen share
    Kind,           \* [Tracks -> {"audio", "video"}]
    Subscriptions,  \* ov3Subscription objects that can be allocated
    Subscribers,    \* ov3Subscriber objects: bounds the calls of Subscribe
    Writers,        \* AppWriter objects that can run at the same time
    MaxPending,     \* callbacks that can be pending at the same time
    Nil

Threads == Clients \cup Handlers
Kinds   == {"audio", "video"}
Keys    == Participants \X BOOLEAN   \* participant, screen share?

ASSUME ThreadsAssumption == Clients \cap Handlers = {}
ASSUME TracksAssumption ==
    /\ Owner  \in [Tracks -> Participants]
    /\ Shared \in [Tracks -> BOOLEAN]
    /\ Kind   \in [Tracks -> Kinds]
ASSUME PendingAssumption == MaxPending \in Nat
ASSUME NilAssumption ==
    Nil \notin Threads \cup Keys \cup Participants \cup Tracks
               \cup Subscriptions \cup Subscribers \cup Writers

KeyOf(t) == <<Owner[t], Shared[t]>>

VARIABLES
    subscriptions,     \* the room's two maps, as one table over Keys
    roomLock,          \* the thread that holds the room's lock
    subs,              \* the ov3Subscription objects
    user,              \* the ov3Subscriber objects
    writers,           \* the AppWriter objects
    rootSubscribers,   \* root.subscribers: ids a client can name
    subscribedTracks,  \* root.subscribedTracks: SID -> subscription
    present,           \* SDK: participants known to the room
    pub,               \* SDK: the track publications
    events,            \* SDK: callbacks not yet started
    pc, loc,           \* where each thread is, and its local variables
    crashed            \* a panic in a goroutine that does not recover

tables == <<subscriptions, rootSubscribers, subscribedTracks>>
sdk    == <<present, pub, events>>
vars   == <<tables, roomLock, subs, user, writers, sdk, pc, loc, crashed>>

----------------------------------------------------------------------------
(* Objects and their initial values. *)

Maybe(S) == S \cup {Nil}

\* lkTrack.subscribed is left out: only the wait loop of
\* unsubscribeFromParticipant reads it, and that loop never runs.
SubscriptionType ==
    [key: Maybe(Keys), attached: SUBSET Subscribers,
     track: [Kinds -> Maybe(Tracks)], writer: [Kinds -> Maybe(Writers)],
     lock: Maybe(Threads)]

\* built counts the pipelines put in the bin of a kind; 0 is a nil RtpSource.
SubscriberType ==
    [subscription: Maybe(Subscriptions), ready: [Kinds -> BOOLEAN],
     built: [Kinds -> Nat], bin: BOOLEAN, lock: Maybe(Threads)]

WriterType == [home: Maybe(Subscriptions), feed: Maybe(Tracks)]

PublicationType ==
    [status: {"new", "published", "gone"}, want: BOOLEAN, got: BOOLEAN]

LocalsType ==
    [key: Maybe(Keys), subs: Maybe(Subscriptions), user: Maybe(Subscribers),
     track: Maybe(Tracks), old: [Kinds -> Maybe(Tracks)],
     todo: SUBSET Kinds, rest: SUBSET Subscribers,
     after: {"append", "recheck", "leave"}]

TrackEvents == {"published", "unpublished", "subscribed", "unsubscribed"}
EventType == (TrackEvents \X Tracks) \cup ({"connected"} \X Participants)

NoTracks    == [k \in Kinds |-> Nil]
NoLocals    == [key |-> Nil, subs |-> Nil, user |-> Nil, track |-> Nil,
                old |-> NoTracks, todo |-> {}, rest |-> {}, after |-> "leave"]
StoppedWriter == [home |-> Nil, feed |-> Nil]

Init ==
    /\ subscriptions = [key \in Keys |-> Nil]
    /\ roomLock = Nil
    /\ subs = [s \in Subscriptions |->
                 [key |-> Nil, attached |-> {}, track |-> NoTracks,
                  writer |-> [k \in Kinds |-> Nil], lock |-> Nil]]
    /\ user = [u \in Subscribers |->
                 [subscription |-> Nil, ready |-> [k \in Kinds |-> FALSE],
                  built |-> [k \in Kinds |-> 0], bin |-> FALSE, lock |-> Nil]]
    /\ writers = [w \in Writers |-> StoppedWriter]
    /\ rootSubscribers = {}
    /\ subscribedTracks = [t \in Tracks |-> Nil]
    /\ present = {}
    /\ pub = [t \in Tracks |->
                 [status |-> "new", want |-> FALSE, got |-> FALSE]]
    /\ events = {}
    /\ pc = [th \in Threads |-> "idle"]
    /\ loc = [th \in Threads |-> NoLocals]
    /\ crashed = FALSE

----------------------------------------------------------------------------
(* Thread control. *)

\* No thread of a process that has panicked goes anywhere.
Go(th, label, locals) ==
    /\ ~ crashed
    /\ pc' = [pc EXCEPT ![th] = label]
    /\ loc' = [loc EXCEPT ![th] = locals]

Return(th) == Go(th, "idle", NoLocals)

FreeRoom        == roomLock = Nil
FreeSubs(s)     == subs[s].lock = Nil
FreeUser(u)     == user[u].lock = Nil
FirstKind(todo) == IF "audio" \in todo THEN "audio" ELSE "video"

----------------------------------------------------------------------------
(* What a subscription subscribes to. *)

\* Mutant: camera and screen share are not told apart.
VisibleOfOwner(key, k) ==
    {t \in Tracks : /\ Owner[t] = key[1] /\ Kind[t] = k
                    /\ pub[t].status = "published"}

Visible(key, k) ==
    {t \in Tracks : /\ KeyOf(t) = key /\ Kind[t] = k
                    /\ pub[t].status = "published"}

\* checkTracksToSubscribe replaces the track of a kind by each publication in
\* turn whose SID differs, in the random order of a Go map: the last one stays.
Changed(s) ==
    {k \in Kinds : ~ (Visible(subs[s].key, k) \subseteq {subs[s].track[k]})}

Checked(s) ==
    {pick \in [Kinds -> Maybe(Tracks)] :
        \A k \in Kinds : IF k \in Changed(s)
                           THEN pick[k] \in Visible(subs[s].key, k)
                           ELSE pick[k] = subs[s].track[k]}

\* Thread th, in the room's lock, checks the tracks of s; for the kinds in
\* todo it then requests the new track and drops the one in old.
CheckTracks(th, s, old, after) ==
    \E pick \in Checked(s) :
        LET todo == {k \in Kinds : k \in Changed(s)}
        IN  /\ subs' = [subs EXCEPT ![s].track = pick]
            /\ Go(th, IF todo = {} THEN after ELSE "request",
                  [loc[th] EXCEPT !.subs = s, !.old = old,
                                  !.todo = todo, !.after = after])

Unwanted(p) == IF p.got THEN [p EXCEPT !.want = FALSE] ELSE p

\* subscribe / updateSubscription: SetSubscribed(false) on the replaced track,
\* SetSubscribed(true) on the new one, which may fail.
Request(th) ==
    LET k    == FirstKind(loc[th].todo)
        t    == subs[loc[th].subs].track[k]
        old  == loc[th].old[k]
        dropped == [x \in Tracks |-> IF x = old THEN Unwanted(pub[x]) ELSE pub[x]]
        left == loc[th].todo \ {k}
    IN  /\ pc[th] = "request"
        /\ \/ /\ pub' = [dropped EXCEPT ![t].want = TRUE]
              /\ Go(th, "record", loc[th])
           \/ /\ pub' = dropped
              /\ Go(th, IF left = {} THEN loc[th].after ELSE "request",
                    [loc[th] EXCEPT !.todo = left])
        /\ UNCHANGED <<tables, roomLock, subs, user, writers, present, events, crashed>>

\* root.addSubscribedTrack, once the SDK has accepted the request.
Record(th) ==
    LET k    == FirstKind(loc[th].todo)
        t    == subs[loc[th].subs].track[k]
        left == loc[th].todo \ {k}
    IN  /\ pc[th] = "record"
        /\ subscribedTracks' = [subscribedTracks EXCEPT ![t] = loc[th].subs]
        /\ Go(th, IF left = {} THEN loc[th].after ELSE "request",
              [loc[th] EXCEPT !.todo = left])
        /\ UNCHANGED <<subscriptions, rootSubscribers, roomLock, subs, user,
                       writers, sdk, crashed>>

----------------------------------------------------------------------------
(* SubscribeParticipant. *)

Unused(u) == /\ user[u].subscription = Nil
             /\ \A th \in Threads : loc[th].user # u

\* Mutant: the room is read without its lock.
SubscribeUnlocked(c, key) ==
    /\ pc[c] = "idle"
    /\ \E u \in Subscribers : /\ Unused(u)
                              /\ Go(c, "lookup", [NoLocals EXCEPT !.key = key, !.user = u])
    /\ UNCHANGED <<tables, roomLock, subs, user, writers, sdk, crashed>>

Subscribe(c, key) ==
    /\ pc[c] = "idle" /\ FreeRoom
    /\ roomLock' = c
    /\ \E u \in Subscribers : /\ Unused(u)
                              /\ Go(c, "lookup", [NoLocals EXCEPT !.key = key, !.user = u])
    /\ UNCHANGED <<tables, subs, user, writers, sdk, crashed>>

ReuseSubscription(c) ==
    LET s == subscriptions[loc[c].key]
    IN  /\ pc[c] = "lookup" /\ s # Nil
        /\ Go(c, "append", [loc[c] EXCEPT !.subs = s])
        /\ UNCHANGED <<tables, roomLock, subs, user, writers, sdk, crashed>>

AddSubscription(c) ==
    /\ pc[c] = "lookup" /\ subscriptions[loc[c].key] = Nil
    /\ \E s \in Subscriptions :
          /\ subs[s].key = Nil
          /\ subs' = [subs EXCEPT ![s].key = loc[c].key]
          /\ subscriptions' = [subscriptions EXCEPT ![loc[c].key] = s]
          /\ Go(c, "make", [loc[c] EXCEPT !.subs = s])
    /\ UNCHANGED <<rootSubscribers, subscribedTracks, roomLock, user, writers, sdk, crashed>>

\* Mutant: the tracks published so far are left to the callbacks.
MakeSubscriptionLater(c) ==
    /\ pc[c] = "make"
    /\ Go(c, "append", loc[c])
    /\ UNCHANGED <<tables, roomLock, subs, user, writers, sdk, crashed>>

\* makeSubscription looks at the participant only if the SDK knows it.
MakeSubscription(c) ==
    /\ pc[c] = "make"
    /\ IF loc[c].key[1] \in present
         THEN CheckTracks(c, loc[c].subs, NoTracks, "append")
         ELSE /\ Go(c, "append", loc[c])
              /\ UNCHANGED subs
    /\ UNCHANGED <<tables, roomLock, user, writers, sdk, crashed>>

\* Mutant: building the new subscriber is left to createWriter.
AddSubscriberUnbuilt(c) ==
    LET s == loc[c].subs
        u == loc[c].user
    IN  /\ pc[c] = "append" /\ FreeSubs(s)
        /\ subs' = [subs EXCEPT ![s].attached = @ \cup {u}]
        /\ user' = [user EXCEPT ![u] = [@ EXCEPT !.subscription = s, !.bin = TRUE]]
        /\ roomLock' = Nil
        /\ Go(c, "register", loc[c])
        /\ UNCHANGED <<tables, writers, sdk, crashed>>

\* The new subscriber joins the subscription and the room's lock is released.
AddSubscriber(c) ==
    LET s == loc[c].subs
        u == loc[c].user
    IN  /\ pc[c] = "append" /\ FreeSubs(s)
        /\ subs' = [subs EXCEPT ![s].attached = @ \cup {u}]
        /\ user' = [user EXCEPT ![u] = [@ EXCEPT !.subscription = s, !.bin = TRUE]]
        /\ roomLock' = Nil
        /\ Go(c, "build", loc[c])
        /\ UNCHANGED <<tables, writers, sdk, crashed>>

\* Mutant: the pipelines are counted down.
BuiltDown(r, k) == [r EXCEPT !.ready[k] = TRUE, !.built[k] = @ - 1]

\* addAudioAppSrcBin / addVideoAppSrcBin return at once when a source exists.
Built(r, k) == [r EXCEPT !.ready[k] = TRUE,
                         !.built[k] = IF @ = 0 THEN 1 ELSE @]

\* buildSubscriber takes the subscriber's lock and reads the subscription's
\* writers without the subscription's.
BuildAudio(c) ==
    LET u == loc[c].user
        s == loc[c].subs
        needed == subs[s].writer["audio"] # Nil /\ ~ user[u].ready["audio"]
    IN  /\ pc[c] = "build" /\ FreeUser(u)
        /\ user' = [user EXCEPT ![u] =
                      [(IF needed THEN Built(@, "audio") ELSE @) EXCEPT !.lock = c]]
        /\ Go(c, "checkVideo", loc[c])
        /\ UNCHANGED <<tables, roomLock, subs, writers, sdk, crashed>>

\* The test of videoReady and of videoRtpSource ...
CheckVideo(c) ==
    LET u == loc[c].user
        s == loc[c].subs
        needed == subs[s].writer["video"] # Nil /\ ~ user[u].ready["video"]
    IN  /\ pc[c] = "checkVideo"
        /\ \/ /\ needed /\ user[u].built["video"] = 0
              /\ Go(c, "buildVideo", loc[c])
              /\ UNCHANGED user
           \/ /\ ~ (needed /\ user[u].built["video"] = 0)
              /\ user' = [user EXCEPT ![u] =
                           [@ EXCEPT !.lock = Nil,
                                     !.ready["video"] = user[u].ready["video"] \/ needed]]
              /\ Go(c, "register", loc[c])
        /\ UNCHANGED <<tables, roomLock, subs, writers, sdk, crashed>>

\* ... and the pipeline built after it.
BuildVideo(c) ==
    LET u == loc[c].user
    IN  /\ pc[c] = "buildVideo"
        /\ user' = [user EXCEPT ![u] =
                      [@ EXCEPT !.lock = Nil, !.ready["video"] = TRUE,
                                !.built["video"] = user[u].built["video"] + 1]]
        /\ Go(c, "register", loc[c])
        /\ UNCHANGED <<tables, roomLock, subs, writers, sdk, crashed>>

\* root.addSubscriber: only now does the caller's id mean something.
Register(c) ==
    /\ pc[c] = "register"
    /\ rootSubscribers' = rootSubscribers \cup {loc[c].user}
    /\ Return(c)
    /\ UNCHANGED <<subscriptions, subscribedTracks, roomLock, subs, user,
                   writers, sdk, crashed>>

----------------------------------------------------------------------------
(* UnsubscribeParticipant. *)

\* root.getSubscriber and root.deleteSubscriber: an id is released once, by
\* the element that owns it.
Unsubscribe(c, u) ==
    /\ pc[c] = "idle" /\ u \in rootSubscribers
    /\ rootSubscribers' = rootSubscribers \ {u}
    /\ Go(c, "lockRoom", [NoLocals EXCEPT !.user = u])
    /\ UNCHANGED <<subscriptions, subscribedTracks, roomLock, subs, user,
                   writers, sdk, crashed>>

RemoveSubscriber(c) ==
    /\ pc[c] = "lockRoom" /\ FreeRoom
    /\ roomLock' = c
    /\ Go(c, "destroy", [loc[c] EXCEPT !.subs = user[loc[c].user].subscription])
    /\ UNCHANGED <<tables, subs, user, writers, sdk, crashed>>

DestroySubscriber(c) ==
    LET u == loc[c].user
    IN  /\ pc[c] = "destroy" /\ FreeUser(u)
        /\ user' = [user EXCEPT ![u] =
                      [@ EXCEPT !.ready = [k \in Kinds |-> FALSE],
                                !.built = [k \in Kinds |-> 0], !.bin = FALSE]]
        /\ Go(c, "detach", loc[c])
        /\ UNCHANGED <<tables, roomLock, subs, writers, sdk, crashed>>

\* Mutant: the subscription goes with any of its subscribers.
DetachAll(c) ==
    LET s == loc[c].subs
    IN  /\ pc[c] = "detach" /\ FreeSubs(s)
        /\ subs' = [subs EXCEPT ![s].attached = @ \ {loc[c].user}]
        /\ Go(c, "unwire", [loc[c] EXCEPT !.todo = Kinds])
        /\ UNCHANGED <<tables, roomLock, user, writers, sdk, crashed>>

\* Mutant: the subscription stays when its last subscriber goes.
DetachOnly(c) ==
    LET s == loc[c].subs
    IN  /\ pc[c] = "detach" /\ FreeSubs(s)
        /\ subs' = [subs EXCEPT ![s].attached = @ \ {loc[c].user}]
        /\ roomLock' = Nil
        /\ Return(c)
        /\ UNCHANGED <<tables, user, writers, sdk, crashed>>

Detach(c) ==
    LET s    == loc[c].subs
        left == subs[s].attached \ {loc[c].user}
    IN  /\ pc[c] = "detach" /\ FreeSubs(s)
        /\ subs' = [subs EXCEPT ![s].attached = left]
        /\ \/ /\ left # {}
              /\ roomLock' = Nil
              /\ Return(c)
           \/ /\ left = {}
              /\ Go(c, "unwire", [loc[c] EXCEPT !.todo = Kinds])
              /\ UNCHANGED roomLock
        /\ UNCHANGED <<tables, user, writers, sdk, crashed>>

\* endStream.Break on the writer in a slot, and the slot emptied.
BreakWriter(s, k, track) ==
    LET w == subs[s].writer[k]
    IN  /\ subs' = [subs EXCEPT ![s] =
                      [@ EXCEPT !.writer[k] = Nil, !.track[k] = track]]
        /\ writers' = [x \in Writers |-> IF x = w THEN StoppedWriter ELSE writers[x]]

\* unsubscribeFromParticipant, one kind at a time: writer, route and track go
\* under the subscription's lock ...
Unwire(c) ==
    LET s == loc[c].subs
        k == FirstKind(loc[c].todo)
        t == subs[s].track[k]
    IN  /\ pc[c] = "unwire" /\ FreeSubs(s)
        /\ \/ /\ t # Nil
              /\ BreakWriter(s, k, Nil)
              /\ subscribedTracks' = [subscribedTracks EXCEPT ![t] = Nil]
              /\ Go(c, "release", [loc[c] EXCEPT !.track = t])
           \/ /\ t = Nil
              /\ Go(c, IF k = "audio" THEN "unwire" ELSE "drop",
                    [loc[c] EXCEPT !.todo = @ \ {k}])
              /\ UNCHANGED <<subs, writers, subscribedTracks>>
        /\ UNCHANGED <<subscriptions, rootSubscribers, roomLock, user, sdk, crashed>>

\* ... and the SDK is told afterwards, if the track has been attached.
Release(c) ==
    LET k == FirstKind(loc[c].todo)
    IN  /\ pc[c] = "release"
        /\ pub' = [pub EXCEPT ![loc[c].track] = Unwanted(@)]
        /\ Go(c, IF k = "audio" THEN "unwire" ELSE "drop",
              [loc[c] EXCEPT !.track = Nil, !.todo = @ \ {k}])
        /\ UNCHANGED <<tables, roomLock, subs, user, writers, present, events, crashed>>

RemoveSubscription(c) ==
    /\ pc[c] = "drop"
    /\ subscriptions' = [subscriptions EXCEPT ![subs[loc[c].subs].key] = Nil]
    /\ roomLock' = Nil
    /\ Return(c)
    /\ UNCHANGED <<rootSubscribers, subscribedTracks, subs, user, writers, sdk, crashed>>

----------------------------------------------------------------------------
(* Callbacks of the SDK.  A handler takes an event that is pending; the     *)
(* order is the SDK's, each callback has its own goroutine.                 *)

Take(h, type, x) ==
    /\ pc[h] = "idle"
    /\ <<type, x>> \in events
    /\ events' = events \ {<<type, x>>}

\* lkTrackPublished looks the subscription up before it takes the room's lock.
OnTrackPublished(h, t) ==
    LET s == subscriptions[KeyOf(t)]
    IN  /\ Take(h, "published", t)
        /\ IF s = Nil THEN Return(h)
                      ELSE Go(h, "published", [NoLocals EXCEPT !.key = KeyOf(t), !.subs = s])
        /\ UNCHANGED <<tables, roomLock, subs, user, writers, present, pub, crashed>>

CheckPublished(h) ==
    /\ pc[h] = "published" /\ FreeRoom
    /\ roomLock' = h
    /\ CheckTracks(h, loc[h].subs, subs[loc[h].subs].track, "leave")
    /\ UNCHANGED <<tables, user, writers, sdk, crashed>>

OnParticipantConnected(h, p) ==
    /\ Take(h, "connected", p)
    /\ Go(h, "connected", [NoLocals EXCEPT !.key = <<p, FALSE>>])
    /\ UNCHANGED <<tables, roomLock, subs, user, writers, present, pub, crashed>>

LockConnected(h) ==
    /\ pc[h] = "connected" /\ FreeRoom
    /\ roomLock' = h
    /\ Go(h, "check", loc[h])
    /\ UNCHANGED <<tables, subs, user, writers, sdk, crashed>>

\* lkParticipantConnected looks up the same key twice, never the screen share.
CheckConnected(h) ==
    LET s     == subscriptions[loc[h].key]
        after == IF pc[h] = "check" THEN "recheck" ELSE "leave"
    IN  /\ pc[h] \in {"check", "recheck"}
        /\ IF s = Nil
             THEN /\ Go(h, after, loc[h])
                  /\ UNCHANGED subs
             ELSE CheckTracks(h, s, subs[s].track, after)
        /\ UNCHANGED <<tables, roomLock, user, writers, sdk, crashed>>

\* Mutant: a callback returns with the room locked.
LeaveLocked(h) ==
    /\ pc[h] = "leave"
    /\ Return(h)
    /\ UNCHANGED <<tables, roomLock, subs, user, writers, sdk, crashed>>

Leave(h) ==
    /\ pc[h] = "leave"
    /\ roomLock' = Nil
    /\ Return(h)
    /\ UNCHANGED <<tables, subs, user, writers, sdk, crashed>>

\* The other track callbacks start with root.getSubscribedTrack.
OnTrackEvent(h, type, t) ==
    LET s == subscribedTracks[t]
    IN  /\ type # "published"
        /\ Take(h, type, t)
        /\ IF s = Nil THEN Return(h)
                      ELSE Go(h, type, [NoLocals EXCEPT !.subs = s, !.track = t])
        /\ UNCHANGED <<tables, roomLock, subs, user, writers, present, pub, crashed>>

\* lkTrackUnpublished: subscription.unsubscribe in the room's lock.
Unpublished(h) ==
    /\ pc[h] = "unpublished" /\ FreeRoom
    /\ pub' = [pub EXCEPT ![loc[h].track] = Unwanted(@)]
    /\ Return(h)
    /\ UNCHANGED <<tables, roomLock, subs, user, writers, present, events, crashed>>

\* lkTrackUnsubscribed empties the slot of the track's kind, whichever track
\* the writer in it reads.
Unsubscribed(h) ==
    LET s == loc[h].subs
        k == Kind[loc[h].track]
    IN  /\ pc[h] = "unsubscribed" /\ FreeSubs(s)
        /\ BreakWriter(s, k, subs[s].track[k])
        /\ Return(h)
        /\ UNCHANGED <<tables, roomLock, user, sdk, crashed>>

\* createWriter: a second writer is refused, and so is an unknown codec.
RefuseWriter(h) ==
    /\ pc[h] = "subscribed" /\ FreeSubs(loc[h].subs)
    /\ Return(h)
    /\ UNCHANGED <<tables, roomLock, subs, user, writers, sdk, crashed>>

\* Mutant: the slot of the kind is not looked at first.
CreateSecondWriter(h) ==
    LET s == loc[h].subs
        t == loc[h].track
        k == Kind[t]
    IN  /\ pc[h] = "subscribed" /\ FreeSubs(s)
        /\ \E w \in Writers :
              /\ writers[w] = StoppedWriter
              /\ writers' = [writers EXCEPT ![w] = [home |-> s, feed |-> t]]
              /\ subs' = [subs EXCEPT ![s].writer[k] = w, ![s].lock = h]
        /\ Go(h, "wire", [loc[h] EXCEPT !.rest = subs[s].attached])
        /\ UNCHANGED <<tables, roomLock, user, sdk, crashed>>

CreateWriter(h) ==
    LET s == loc[h].subs
        t == loc[h].track
        k == Kind[t]
    IN  /\ pc[h] = "subscribed" /\ FreeSubs(s)
        /\ subs[s].writer[k] = Nil
        /\ \E w \in Writers :
              /\ writers[w] = StoppedWriter
              /\ writers' = [writers EXCEPT ![w] = [home |-> s, feed |-> t]]
              /\ subs' = [subs EXCEPT ![s] =
                            [@ EXCEPT !.writer[k] = w, !.lock = h,
                                      !.track[k] = IF subs[s].track[k] = Nil
                                                     THEN t ELSE subs[s].track[k]]]
        /\ Go(h, "wire", [loc[h] EXCEPT !.rest = subs[s].attached])
        /\ UNCHANGED <<tables, roomLock, user, sdk, crashed>>

Wiring(h, u, k) == /\ pc[h] = "wire" /\ u \in loc[h].rest
                   /\ Kind[loc[h].track] = k

Wired(h, u) == [loc[h] EXCEPT !.user = Nil, !.rest = @ \ {u}]

\* A nil bin is a nil pointer in prepareTrackGstBin, and the SDK's goroutine
\* does not recover.
Panic ==
    /\ ~ crashed /\ crashed' = TRUE
    /\ UNCHANGED <<tables, roomLock, subs, user, writers, sdk, pc, loc>>

\* The audio pipeline is tested for and built in the subscriber's lock.
WireAudio(h, u) ==
    /\ Wiring(h, u, "audio") /\ FreeUser(u)
    /\ \/ /\ ~ user[u].bin /\ user[u].built["audio"] = 0
          /\ Panic
       \/ /\ user[u].bin \/ user[u].built["audio"] > 0
          /\ user' = [user EXCEPT ![u] = Built(@, "audio")]
          /\ Go(h, "wire", Wired(h, u))
          /\ UNCHANGED <<tables, roomLock, subs, writers, sdk, crashed>>

\* The video pipeline is tested for and built without it, ...
CheckWireVideo(h, u) ==
    /\ Wiring(h, u, "video")
    /\ Go(h, IF user[u].built["video"] = 0 THEN "wireVideo" ELSE "wireReady",
          [loc[h] EXCEPT !.user = u])
    /\ UNCHANGED <<tables, roomLock, subs, user, writers, sdk, crashed>>

WireVideo(h) ==
    LET u == loc[h].user
    IN  /\ pc[h] = "wireVideo"
        /\ \/ /\ ~ user[u].bin
              /\ Panic
           \/ /\ user[u].bin
              /\ user' = [user EXCEPT ![u].built["video"] = @ + 1]
              /\ Go(h, "wireReady", loc[h])
              /\ UNCHANGED <<tables, roomLock, subs, writers, sdk, crashed>>

\* ... and videoReady is set in it.
WireReady(h) ==
    LET u == loc[h].user
    IN  /\ pc[h] = "wireReady" /\ FreeUser(u)
        /\ user' = [user EXCEPT ![u].ready["video"] = TRUE]
        /\ Go(h, "wire", Wired(h, u))
        /\ UNCHANGED <<tables, roomLock, subs, writers, sdk, crashed>>

FinishWriter(h) ==
    /\ pc[h] = "wire" /\ loc[h].rest = {}
    /\ subs' = [subs EXCEPT ![loc[h].subs].lock = Nil]
    /\ Return(h)
    /\ UNCHANGED <<tables, roomLock, user, writers, sdk, crashed>>

----------------------------------------------------------------------------
(* The LiveKit SDK and server, from how the callbacks and calls above use   *)
(* them.                                                                    *)

\* Bound: MaxPending callbacks wait to be run.
SdkStep(p, q, e) == /\ ~ crashed /\ Cardinality(e) <= MaxPending
                    /\ present' = p /\ pub' = q /\ events' = e
                    /\ UNCHANGED <<tables, roomLock, subs, user, writers, pc, loc, crashed>>

\* A participant joins with some tracks already published, and any of them
\* may or may not be announced by a callback of its own.
Join(p) ==
    /\ p \notin present
    /\ \E brought \in SUBSET {t \in Tracks : Owner[t] = p} :
         \E announced \in SUBSET brought :
            SdkStep(present \cup {p},
                    [t \in Tracks |-> IF t \in brought
                                        THEN [pub[t] EXCEPT !.status = "published"]
                                        ELSE pub[t]],
                    events \cup {<<"connected", p>>} \cup {<<"published", t>> : t \in announced})

Publish(t) ==
    /\ Owner[t] \in present /\ pub[t].status = "new"
    /\ SdkStep(present, [pub EXCEPT ![t].status = "published"],
               events \cup {<<"published", t>>})

Unpublish(t) ==
    /\ pub[t].status = "published"
    /\ SdkStep(present, [pub EXCEPT ![t].status = "gone"],
               events \cup {<<"unpublished", t>>})

\* Bound: at most one event of a type is pending per track.
Attach(t) ==
    /\ pub[t].status = "published" /\ pub[t].want /\ ~ pub[t].got
    /\ <<"subscribed", t>> \notin events
    /\ SdkStep(present, [pub EXCEPT ![t].got = TRUE],
               events \cup {<<"subscribed", t>>})

Loses(t) ==
    /\ pub[t].got /\ (~ pub[t].want \/ pub[t].status = "gone")
    /\ <<"unsubscribed", t>> \notin events
    /\ SdkStep(present, [pub EXCEPT ![t].got = FALSE],
               events \cup {<<"unsubscribed", t>>})

----------------------------------------------------------------------------
(* The specification. *)

\* A call or a callback begins.
Start ==
    \/ \E c \in Clients, key \in Keys : Subscribe(c, key)
    \/ \E c \in Clients, u \in Subscribers : Unsubscribe(c, u)
    \/ \E h \in Handlers, t \in Tracks : OnTrackPublished(h, t)
    \/ \E h \in Handlers, p \in Participants : OnParticipantConnected(h, p)
    \/ \E h \in Handlers, t \in Tracks, type \in TrackEvents : OnTrackEvent(h, type, t)

\* A client goes on with its call.
ClientStep(c) ==
    \/ ReuseSubscription(c) \/ AddSubscription(c) \/ MakeSubscription(c)
    \/ AddSubscriber(c) \/ BuildAudio(c) \/ CheckVideo(c) \/ BuildVideo(c)
    \/ Register(c) \/ Request(c) \/ Record(c)
    \/ RemoveSubscriber(c) \/ DestroySubscriber(c) \/ Detach(c)
    \/ Unwire(c) \/ Release(c) \/ RemoveSubscription(c)

\* A handler goes on with its callback.
HandlerStep(h) ==
    \/ CheckPublished(h) \/ LockConnected(h) \/ CheckConnected(h) \/ Request(h)
    \/ Record(h) \/ Leave(h) \/ Unpublished(h) \/ Unsubscribed(h) \/ RefuseWriter(h) \/ CreateWriter(h)
    \/ \E u \in Subscribers : WireAudio(h, u) \/ CheckWireVideo(h, u)
    \/ WireVideo(h) \/ WireReady(h) \/ FinishWriter(h)

SdkNext ==
    \/ \E p \in Participants : Join(p)
    \/ \E t \in Tracks : Publish(t) \/ Unpublish(t) \/ Attach(t) \/ Loses(t)

Next == \/ Start \/ SdkNext
        \/ \E c \in Clients : ClientStep(c)
        \/ \E h \in Handlers : HandlerStep(h)

Spec == Init /\ [][Next]_vars

\* A thread blocked on a lock gets it some time: sync.Mutex hands the lock
\* over to a waiter that has starved for a millisecond.
Fairness == /\ \A c \in Clients : SF_vars(ClientStep(c))
            /\ \A h \in Handlers : SF_vars(HandlerStep(h))
FairSpec == Spec /\ Fairness

----------------------------------------------------------------------------
(* Properties. *)

PCs == {"idle", "lookup", "make", "request", "record", "append", "build",
        "checkVideo", "buildVideo", "register", "lockRoom", "destroy", "detach",
        "unwire", "release", "drop", "published", "connected", "check",
        "recheck", "leave", "unpublished", "unsubscribed", "subscribed", "wire",
        "wireVideo", "wireReady"}

\* Every variable has its type: tables and objects of the room, the SDK's
\* state, and the threads.
TypeOK ==
    /\ subscriptions \in [Keys -> Maybe(Subscriptions)]
    /\ rootSubscribers \subseteq Subscribers
    /\ subscribedTracks \in [Tracks -> Maybe(Subscriptions)]
    /\ roomLock \in Maybe(Threads)
    /\ subs \in [Subscriptions -> SubscriptionType]
    /\ user \in [Subscribers -> SubscriberType]
    /\ writers \in [Writers -> WriterType]
    /\ present \subseteq Participants
    /\ pub \in [Tracks -> PublicationType]
    /\ events \subseteq EventType
    /\ pc \in [Threads -> PCs]
    /\ loc \in [Threads -> LocalsType]
    /\ crashed \in BOOLEAN

\* A subscriber whose id a client holds can be served: it is attached to the
\* subscription the room's table names for its stream, and its bins are there.
\* (addSubscriber registers the id last, unsubscribeParticipantImpl withdraws
\* it first, and both re-read the room under its lock.)
RegisteredIsLive ==
    \A u \in rootSubscribers :
        LET s == user[u].subscription
        IN  /\ s # Nil /\ user[u].bin
            /\ u \in subs[s].attached
            /\ subscriptions[subs[s].key] = s

\* While nobody holds the room's lock, every subscription in the table has a
\* subscriber: the last removeSubscriber and the first addSubscriber leave no
\* empty subscription behind for a later call to find.
NoEmptySubscription ==
    FreeRoom => \A key \in Keys : subscriptions[key] # Nil
                                    => subs[subscriptions[key]].attached # {}

\* A writer's goroutine that nobody has told to stop is the one in its
\* subscription's slot of its kind: replacing, unsubscribing and a late
\* TrackSubscribed never leave a second writer pushing to the same subscribers.
RunningWriterInSlot ==
    \A w \in Writers : writers[w].home # Nil
        => subs[writers[w].home].writer[Kind[writers[w].feed]] = w

\* No subscriber is overlooked: an attached subscriber that has no pipeline for
\* a kind its subscription has a writer of is one that some thread is still
\* building, wiring or removing.  (createWriter ranges over the subscribers in
\* the subscription's lock, buildSubscriber reads the writers outside it.)
NoForgottenSubscriber ==
    \A s \in Subscriptions, k \in Kinds : \A u \in subs[s].attached :
        subs[s].writer[k] # Nil /\ ~ user[u].ready[k]
          => \E th \in Threads :
                \/ loc[th].user = u /\ pc[th] \in {"build", "detach"}
                \/ loc[th].user = u /\ k = "video" /\ pc[th] \in {"checkVideo", "buildVideo"}
                \/ /\ pc[th] \in {"wire", "wireVideo", "wireReady"}
                   /\ loc[th].subs = s /\ Kind[loc[th].track] = k
                   /\ u \in loc[th].rest

\* A subscriber never gets the media of another participant, or the screen of
\* one whose camera it asked for: what a writer reads belongs to the stream its
\* subscription is for, however late the event that created it was.
StreamsDoNotMix ==
    \A w \in Writers : writers[w].home # Nil
        => KeyOf(writers[w].feed) = subs[writers[w].home].key

\* The publications a handler has still to look at.
Unnoticed(key) ==
    \/ \E t \in Tracks : KeyOf(t) = key /\ <<"published", t>> \in events
    \/ <<"connected", key[1]>> \in events
    \/ \E th \in Threads : /\ loc[th].key = key
                           /\ pc[th] \in {"published", "connected", "check", "recheck"}

Missed(key) ==
    /\ FreeRoom /\ ~ Unnoticed(key) /\ subscriptions[key] # Nil
    /\ \E k \in Kinds : /\ Visible(key, k) # {}
                        /\ subs[subscriptions[key]].track[k] = Nil

\* Once the callbacks have run, a subscription to a participant's camera and
\* microphone has a track of each kind that is published, whichever of the
\* subscription, the participant and the publication came first.
NoMissedPublication == \A p \in Participants : ~ Missed(<<p, FALSE>>)

\* The same for the screen share ("Check if some pending subscription, perhaps
\* track published has arrived before this event", ov3room.go:163).
NoMissedScreenShare == \A p \in Participants : ~ Missed(<<p, TRUE>>)

\* The subscription that a thread works on in the room's lock is the one in the
\* room's table (getSubscription: "This must be called with room lock held",
\* ov3room.go:30).
LockedSubscriptionIsCurrent ==
    \A th \in Threads : pc[th] \in {"request", "record"}
        => subscriptions[subs[loc[th].subs].key] = loc[th].subs

\* The room implements the membership of streams: a stream is closed (leaves
\* the table) only when its last subscriber has gone, and nobody is attached to
\* a subscription that is not in the table.
openStreams == {key \in Keys : subscriptions[key] # Nil}
attachedTo  == [key \in Keys |-> IF subscriptions[key] = Nil THEN {}
                                   ELSE subs[subscriptions[key]].attached]
Membership == INSTANCE StreamMembership
                WITH Streams <- Keys, Users <- Subscribers,
                     open <- openStreams, members <- attachedTo
SharesStreams == Membership!Spec

\* Every call of a client and every callback returns: the locks of room,
\* subscription and subscriber, taken in any interleaving, do not block each
\* other for good.
CallsReturn ==
    \A th \in Threads : pc[th] # "idle" ~> (pc[th] = "idle" \/ crashed)

=============================================================================
