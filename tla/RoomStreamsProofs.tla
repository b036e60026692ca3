------------------------- MODULE RoomStreamsProofs -------------------------
(***************************************************************************)
(* What reaches a subscriber: the media of the stream it asked for, from   *)
(* one writer of each kind.  The proof follows a track from the check that *)
(* picks it to the writer that reads it.                                   *)
(***************************************************************************)
EXTENDS RoomSubscriptionsProofs

\* The track of a slot is one of the subscription's stream and of that kind.
SlotsMatch ==
    \A s \in Subscriptions, k \in Kinds :
        subs[s].track[k] # Nil => /\ KeyOf(subs[s].track[k]) = subs[s].key
                                  /\ Kind[subs[s].track[k]] = k

\* A SID leads to a subscription to its own stream.
TableMatches ==
    \A t \in Tracks : subscribedTracks[t] # Nil
        => subs[subscribedTracks[t]].key = KeyOf(t)

\* So does the callback that is about to create a writer.
CallbacksMatch ==
    \A th \in Threads : pc[th] = "subscribed"
        => subs[loc[th].subs].key = KeyOf(loc[th].track)

WritersMatch ==
    \A w \in Writers : writers[w].home # Nil
        => /\ writers[w].feed \in Tracks
           /\ KeyOf(writers[w].feed) = subs[writers[w].home].key
           /\ subs[writers[w].home].writer[Kind[writers[w].feed]] = w

StreamsInv == SlotsMatch /\ TableMatches /\ CallbacksMatch /\ WritersMatch

LEMMA InitStreams == Init => StreamsInv
BY DEF Init, StreamsInv, SlotsMatch, TableMatches, CallbacksMatch, WritersMatch,
       NoTracks, StoppedWriter

LEMMA KeyIsNotNil == \A t \in Tracks : KeyOf(t) \in Keys /\ KeyOf(t) # Nil
BY TracksAssumption, NilAssumption DEF KeyOf, Keys

----------------------------------------------------------------------------
(* Each part, for a step that leaves alone what it speaks of.               *)

\* A subscription's key is written once.
KeysKept == \A s \in Subscriptions :
    subs[s].key # Nil => subs'[s].key = subs[s].key

LEMMA SlotsKept ==
    ASSUME TInv, SlotsMatch, KeysKept,
           \A s \in Subscriptions, k \in Kinds :
               subs'[s].track[k] \in {subs[s].track[k], Nil}
    PROVE  SlotsMatch'
<1> SUFFICES ASSUME NEW s \in Subscriptions, NEW k \in Kinds, subs'[s].track[k] # Nil
             PROVE  /\ KeyOf(subs'[s].track[k]) = subs'[s].key
                    /\ Kind[subs'[s].track[k]] = k
  BY DEF SlotsMatch, KeyOf
<1>1. subs'[s].track[k] = subs[s].track[k]
  OBVIOUS
<1>2. KeyOf(subs[s].track[k]) = subs[s].key /\ Kind[subs[s].track[k]] = k
  BY <1>1 DEF SlotsMatch
<1>3. subs[s].track[k] \in Tracks
  BY <1>1 DEF TInv, TypeOK, SubscriptionType, Maybe
<1> QED
  BY <1>1, <1>2, <1>3, KeyIsNotNil DEF KeysKept

LEMMA TableKept ==
    ASSUME TInv, TableMatches, KeysKept,
           \A t \in Tracks : subscribedTracks'[t] \in {subscribedTracks[t], Nil}
    PROVE  TableMatches'
BY KeyIsNotNil DEF TInv, TypeOK, Maybe, TableMatches, KeysKept, KeyOf

LEMMA CallbacksKept ==
    ASSUME TInv, CallbacksMatch, KeysKept, NEW th \in Threads,
           NEW label, NEW l, Go(th, label, l), label # "subscribed"
    PROVE  CallbacksMatch'
<1> SUFFICES ASSUME NEW x \in Threads, pc'[x] = "subscribed"
             PROVE  subs'[loc'[x].subs].key = KeyOf(loc'[x].track)
  BY DEF CallbacksMatch, KeyOf
<1>1. pc[x] = "subscribed" /\ loc'[x] = loc[x]
  BY DEF Go, TInv, TypeOK
<1>2. loc[x].subs \in Subscriptions /\ loc[x].track \in Tracks
  BY <1>1 DEF TInv, Located, LocatedAt, AtSubs, AtTrack
<1> QED
  BY <1>1, <1>2, KeyIsNotNil DEF CallbacksMatch, KeysKept

LEMMA WritersKept ==
    ASSUME TInv, WritersMatch, KeysKept, UNCHANGED writers,
           \A s \in Subscriptions, k \in Kinds :
               subs'[s].writer[k] = subs[s].writer[k]
    PROVE  WritersMatch'
<1> SUFFICES ASSUME NEW w \in Writers, writers[w].home # Nil
             PROVE  /\ writers[w].feed \in Tracks
                    /\ KeyOf(writers[w].feed) = subs'[writers[w].home].key
                    /\ subs'[writers[w].home].writer[Kind[writers[w].feed]] = w
  BY DEF WritersMatch, KeyOf
<1>1. writers[w].home \in Subscriptions
  BY DEF TInv, TypeOK, WriterType, Maybe
<1>2. writers[w].feed \in Tracks /\ Kind[writers[w].feed] \in Kinds
  BY TracksAssumption DEF WritersMatch
<1> QED
  BY <1>1, <1>2, KeyIsNotNil DEF WritersMatch, KeysKept

\* A step of a thread that changes only keys, locks and attachments.
LEMMA StreamsKept ==
    ASSUME TInv, StreamsInv, NEW th \in Threads, NEW label, NEW l,
           Go(th, label, l), label # "subscribed", UNCHANGED writers, KeysKept,
           \A t \in Tracks : subscribedTracks'[t] \in {subscribedTracks[t], Nil},
           \A s \in Subscriptions, k \in Kinds :
               /\ subs'[s].track[k] \in {subs[s].track[k], Nil}
               /\ subs'[s].writer[k] = subs[s].writer[k]
    PROVE  StreamsInv'
BY SlotsKept, TableKept, CallbacksKept, WritersKept DEF StreamsInv

\* A step of a thread that changes none of them.
LEMMA StreamsAlone ==
    ASSUME TInv, StreamsInv, NEW th \in Threads, NEW label, NEW l,
           Go(th, label, l), label # "subscribed",
           UNCHANGED <<subs, subscribedTracks, writers>>
    PROVE  StreamsInv'
BY StreamsKept DEF KeysKept

----------------------------------------------------------------------------
(* The steps that touch a subscription, its writers or the table of SIDs.   *)

LEMMA RecordStreams ==
    ASSUME TInv, StreamsInv, NEW th \in Threads, Record(th)
    PROVE  StreamsInv'
<1> DEFINE s == loc[th].subs
           t == subs[s].track[FirstKind(loc[th].todo)]
<1>1. s \in Subscriptions /\ FirstKind(loc[th].todo) \in Kinds
  BY LocalsOf DEF Record, LocatedAt, AtSubs, FirstKind, Kinds
<1>2. subscribedTracks' = [subscribedTracks EXCEPT ![t] = s]
  BY DEF Record
<1>3. t # Nil => KeyOf(t) = subs[s].key
  BY <1>1 DEF StreamsInv, SlotsMatch
<1>4. TableMatches'
  <2> SUFFICES ASSUME NEW x \in Tracks, subscribedTracks'[x] # Nil
               PROVE  subs[subscribedTracks'[x]].key = KeyOf(x)
    BY DEF TableMatches, KeyOf, Record
  <2>1. subscribedTracks \in [Tracks -> Maybe(Subscriptions)] /\ x # Nil
    BY NilAssumption DEF TInv, TypeOK
  <2> QED
    BY <1>2, <1>3, <2>1 DEF StreamsInv, TableMatches
<1>5. KeysKept
  BY DEF Record, KeysKept
<1>6. PICK l : \E label : label # "subscribed" /\ Go(th, label, l)
  BY LocalsOf DEF Record, LocalsType
<1> QED
  BY <1>4, <1>5, <1>6, SlotsKept, CallbacksKept, WritersKept DEF Record, StreamsInv

LEMMA AddSubscriptionStreams ==
    ASSUME TInv, StreamsInv, NEW c \in Threads, AddSubscription(c)
    PROVE  StreamsInv'
<1>1. PICK s \in Subscriptions :
          /\ subs[s].key = Nil
          /\ subs' = [subs EXCEPT ![s].key = loc[c].key]
          /\ Go(c, "make", [loc[c] EXCEPT !.subs = s])
  BY DEF AddSubscription
<1>2. \A x \in Subscriptions : /\ x # s => subs'[x] = subs[x]
                                /\ subs'[x].track = subs[x].track
                                /\ subs'[x].writer = subs[x].writer
  BY <1>1 DEF TInv, TypeOK, SubscriptionType
<1>3. KeysKept
  BY <1>1, <1>2 DEF KeysKept
<1> QED
  BY <1>1, <1>2, <1>3, StreamsKept DEF AddSubscription

\* Only a publication of the subscription's own stream is picked.
LEMMA CheckTracksStreams ==
    ASSUME TInv, StreamsInv, NEW th \in Threads, NEW s \in Subscriptions,
           NEW old, NEW after \in {"append", "recheck", "leave"},
           CheckTracks(th, s, old, after), UNCHANGED <<subscribedTracks, writers>>
    PROVE  StreamsInv'
<1>1. PICK pick \in Checked(s) :
        LET todo == {k \in Kinds : k \in Changed(s)}
        IN  /\ subs' = [subs EXCEPT ![s].track = pick]
            /\ Go(th, IF todo = {} THEN after ELSE "request",
                  [loc[th] EXCEPT !.subs = s, !.old = old,
                                  !.todo = todo, !.after = after])
  BY DEF CheckTracks
<1>2. PICK l : \E label : label # "subscribed" /\ Go(th, label, l)
  BY <1>1
<1>3. /\ subs'[s].track = pick
      /\ \A x \in Subscriptions : /\ x # s => subs'[x] = subs[x]
                                  /\ subs'[x].key = subs[x].key
                                  /\ subs'[x].writer = subs[x].writer
  BY <1>1 DEF TInv, TypeOK, SubscriptionType
<1>4. KeysKept
  BY <1>3 DEF KeysKept
<1>5. \A k \in Kinds : pick[k] # Nil => KeyOf(pick[k]) = subs[s].key /\ Kind[pick[k]] = k
  BY DEF Checked, Visible, StreamsInv, SlotsMatch
<1>6. SlotsMatch'
  BY <1>3, <1>5 DEF StreamsInv, SlotsMatch, KeyOf
<1> QED
  BY <1>2, <1>3, <1>4, <1>6, TableKept, CallbacksKept, WritersKept DEF StreamsInv

\* A callback starts from the table of SIDs.
LEMMA OnTrackEventStreams ==
    ASSUME TInv, StreamsInv, NEW h \in Threads, NEW type \in TrackEvents,
           NEW t \in Tracks, OnTrackEvent(h, type, t)
    PROVE  StreamsInv'
<1> DEFINE s == subscribedTracks[t]
<1>1. CASE s = Nil
  BY <1>1, StreamsAlone DEF OnTrackEvent, Return, tables
<1>2. CASE s # Nil
  <2> DEFINE l == [NoLocals EXCEPT !.subs = s, !.track = t]
  <2>1. Go(h, type, l) /\ UNCHANGED <<subs, subscribedTracks, writers>>
    BY <1>2 DEF OnTrackEvent, tables
  <2>2. l.subs = s /\ l.track = t
    BY DEF NoLocals
  <2>3. subs[s].key = KeyOf(t)
    BY <1>2 DEF StreamsInv, TableMatches
  <2>4. CallbacksMatch'
    <3> SUFFICES ASSUME NEW x \in Threads, pc'[x] = "subscribed"
                 PROVE  subs[loc'[x].subs].key = KeyOf(loc'[x].track)
      BY <2>1 DEF CallbacksMatch, KeyOf
    <3>1. CASE x = h
      BY <2>1, <2>2, <2>3, <3>1 DEF Go, TInv, TypeOK
    <3>2. CASE x # h
      BY <2>1, <3>2 DEF Go, TInv, TypeOK, StreamsInv, CallbacksMatch
    <3> QED
      BY <3>1, <3>2
  <2>5. KeysKept
    BY <2>1 DEF KeysKept
  <2> QED
    BY <2>1, <2>4, <2>5, SlotsKept, TableKept, WritersKept DEF StreamsInv
<1> QED
  BY <1>1, <1>2

\* Stopping the writer in a slot empties that slot and no other.
LEMMA BreakWriterStreams ==
    ASSUME TInv, StreamsInv, NEW th \in Threads, NEW label, NEW l,
           Go(th, label, l), label # "subscribed",
           NEW s \in Subscriptions, NEW k \in Kinds,
           NEW t, t \in {subs[s].track[k], Nil}, BreakWriter(s, k, t),
           \A x \in Tracks : subscribedTracks'[x] \in {subscribedTracks[x], Nil}
    PROVE  StreamsInv'
<1> DEFINE w == subs[s].writer[k]
<1>1. /\ \A x \in Subscriptions : /\ x # s => subs'[x] = subs[x]
                                  /\ subs'[x].key = subs[x].key
      /\ \A j \in Kinds : /\ subs'[s].track[j] = IF j = k THEN t ELSE subs[s].track[j]
                          /\ subs'[s].writer[j] = IF j = k THEN Nil ELSE subs[s].writer[j]
  BY DEF BreakWriter, TInv, TypeOK, SubscriptionType
<1>2. writers' = [x \in Writers |-> IF x = w THEN StoppedWriter ELSE writers[x]]
  BY DEF BreakWriter
<1>3. KeysKept
  BY <1>1 DEF KeysKept
<1>4. WritersMatch'
  <2> SUFFICES ASSUME NEW x \in Writers, writers'[x].home # Nil
               PROVE  /\ writers'[x].feed \in Tracks
                      /\ KeyOf(writers'[x].feed) = subs'[writers'[x].home].key
                      /\ subs'[writers'[x].home].writer[Kind[writers'[x].feed]] = x
    BY DEF WritersMatch, KeyOf
  <2>1. x # w /\ writers'[x] = writers[x]
    BY <1>2 DEF StoppedWriter
  <2>2. /\ writers[x].home \in Subscriptions /\ writers[x].feed \in Tracks
        /\ Kind[writers[x].feed] \in Kinds
    BY <2>1, TracksAssumption DEF TInv, TypeOK, WriterType, Maybe, StreamsInv, WritersMatch
  <2>3. subs[writers[x].home].writer[Kind[writers[x].feed]] = x
    BY <2>1 DEF StreamsInv, WritersMatch
  <2>4. ~ (writers[x].home = s /\ Kind[writers[x].feed] = k)
    BY <2>1, <2>3
  <2>5. subs'[writers[x].home].writer[Kind[writers[x].feed]] = x
    BY <1>1, <2>2, <2>3, <2>4
  <2> QED
    BY <1>1, <2>1, <2>2, <2>5 DEF StreamsInv, WritersMatch
<1>5. \A x \in Subscriptions, j \in Kinds : subs'[x].track[j] \in {subs[x].track[j], Nil}
  BY <1>1
<1> QED
  BY <1>3, <1>4, <1>5, SlotsKept, TableKept, CallbacksKept DEF StreamsInv

LEMMA UnwireStreams ==
    ASSUME TInv, StreamsInv, NEW c \in Threads, Unwire(c)
    PROVE  StreamsInv'
<1> DEFINE s == loc[c].subs
           k == FirstKind(loc[c].todo)
           t == subs[s].track[k]
<1>1. s \in Subscriptions /\ k \in Kinds
  BY LocalsOf DEF Unwire, LocatedAt, AtSubs, FirstKind, Kinds
<1>2. CASE t # Nil
  <2>1. /\ BreakWriter(s, k, Nil) /\ Go(c, "release", [loc[c] EXCEPT !.track = t])
        /\ subscribedTracks' = [subscribedTracks EXCEPT ![t] = Nil]
    BY <1>2 DEF Unwire
  <2>2. \A x \in Tracks : subscribedTracks'[x] \in {subscribedTracks[x], Nil}
    BY <2>1 DEF TInv, TypeOK
  <2> QED
    BY <1>1, <2>1, <2>2, BreakWriterStreams
<1>3. CASE t = Nil
  <2>1. /\ Go(c, IF k = "audio" THEN "unwire" ELSE "drop", [loc[c] EXCEPT !.todo = @ \ {k}])
        /\ UNCHANGED <<subs, writers, subscribedTracks>>
    BY <1>3 DEF Unwire
  <2> QED
    BY <2>1, StreamsAlone
<1> QED
  BY <1>2, <1>3

LEMMA UnsubscribedStreams ==
    ASSUME TInv, StreamsInv, NEW h \in Threads, Unsubscribed(h)
    PROVE  StreamsInv'
<1> DEFINE s == loc[h].subs
           k == Kind[loc[h].track]
<1>1. s \in Subscriptions /\ k \in Kinds
  BY LocalsOf, TracksAssumption DEF Unsubscribed, LocatedAt, AtSubs, AtTrack
<1>2. BreakWriter(s, k, subs[s].track[k]) /\ Go(h, "idle", NoLocals)
  BY DEF Unsubscribed, Return
<1>3. UNCHANGED subscribedTracks
  BY DEF Unsubscribed, tables
<1> QED
  BY <1>1, <1>2, <1>3, BreakWriterStreams

Filled(r, k, w, h, t) == [r EXCEPT !.writer[k] = w, !.lock = h, !.track[k] = t]

LEMMA FilledSlot ==
    \A r \in SubscriptionType, k \in Kinds : \A w, h, t :
        LET q == Filled(r, k, w, h, t)
        IN  /\ q.key = r.key
            /\ \A j \in Kinds : /\ q.track[j] = IF j = k THEN t ELSE r.track[j]
                                /\ q.writer[j] = IF j = k THEN w ELSE r.writer[j]
BY DEF SubscriptionType, Filled

\* A new writer reads the callback's track, which is of the stream, and
\* enters a slot that no running writer is in.
LEMMA CreateWriterStreams ==
    ASSUME TInv, StreamsInv, NEW h \in Threads, CreateWriter(h)
    PROVE  StreamsInv'
<1> DEFINE s == loc[h].subs
           t == loc[h].track
           k == Kind[t]
<1>1. s \in Subscriptions /\ t \in Tracks /\ k \in Kinds
  BY LocalsOf, TracksAssumption DEF CreateWriter, LocatedAt, AtSubs, AtTrack
<1>2. PICK w \in Writers :
          /\ writers[w] = StoppedWriter
          /\ writers' = [writers EXCEPT ![w] = [home |-> s, feed |-> t]]
          /\ subs' = [subs EXCEPT ![s] =
                        [@ EXCEPT !.writer[k] = w, !.lock = h,
                                  !.track[k] = IF subs[s].track[k] = Nil
                                                 THEN t ELSE subs[s].track[k]]]
  BY DEF CreateWriter
<1>3. /\ \A x \in Subscriptions : /\ x # s => subs'[x] = subs[x]
                                  /\ subs'[x].key = subs[x].key
      /\ \A j \in Kinds :
            /\ subs'[s].track[j] = IF j = k /\ subs[s].track[k] = Nil
                                     THEN t ELSE subs[s].track[j]
            /\ subs'[s].writer[j] = IF j = k THEN w ELSE subs[s].writer[j]
  <2> DEFINE v == IF subs[s].track[k] = Nil THEN t ELSE subs[s].track[k]
             q == Filled(subs[s], k, w, h, v)
  <2>1. subs \in [Subscriptions -> SubscriptionType]
    BY DEF TInv, TypeOK
  <2>2. /\ q.key = subs[s].key
        /\ \A j \in Kinds : /\ q.track[j] = IF j = k THEN v ELSE subs[s].track[j]
                            /\ q.writer[j] = IF j = k THEN w ELSE subs[s].writer[j]
    <3>1. subs[s] \in SubscriptionType
      BY <1>1, <2>1
    <3>2. k \in Kinds
      BY <1>1
    <3> HIDE DEF v, k, s
    <3> QED
      BY <3>1, <3>2, FilledSlot
  <2>3. subs' = [subs EXCEPT ![s] = q]
    BY <1>2 DEF Filled
  <2> HIDE DEF q
  <2>4. subs'[s] = q /\ \A x \in Subscriptions : x # s => subs'[x] = subs[x]
    BY <1>1, <2>1, <2>3
  <2> QED
    BY <2>2, <2>4
<1>4. KeyOf(t) = subs[s].key
  BY DEF CreateWriter, StreamsInv, CallbacksMatch
<1>5. SlotsMatch'
  BY <1>3, <1>4 DEF StreamsInv, SlotsMatch, KeyOf
<1>6. subs[s].writer[k] = Nil
  BY DEF CreateWriter
<1>7. WritersMatch'
  <2> SUFFICES ASSUME NEW x \in Writers, writers'[x].home # Nil
               PROVE  /\ writers'[x].feed \in Tracks
                      /\ KeyOf(writers'[x].feed) = subs'[writers'[x].home].key
                      /\ subs'[writers'[x].home].writer[Kind[writers'[x].feed]] = x
    BY DEF WritersMatch, KeyOf
  <2>1. CASE x = w
    <3>1. writers'[x] = [home |-> s, feed |-> t]
      BY <1>2, <2>1 DEF TInv, TypeOK
    <3> QED
      BY <1>1, <1>3, <1>4, <2>1, <3>1
  <2>2. CASE x # w
    <3>1. writers'[x] = writers[x]
      BY <1>2, <2>2 DEF TInv, TypeOK
    <3>2. /\ writers[x].home \in Subscriptions /\ writers[x].feed \in Tracks
          /\ Kind[writers[x].feed] \in Kinds
      BY <3>1, TracksAssumption DEF TInv, TypeOK, WriterType, Maybe, StreamsInv, WritersMatch
    <3>3. subs[writers[x].home].writer[Kind[writers[x].feed]] = x
      BY <3>1 DEF StreamsInv, WritersMatch
    <3>4. ~ (writers[x].home = s /\ Kind[writers[x].feed] = k)
      BY <1>6, <3>3, NilAssumption
    <3>5. subs'[writers[x].home].writer[Kind[writers[x].feed]] = x
      BY <1>3, <3>2, <3>3, <3>4
    <3> QED
      BY <1>3, <3>1, <3>2, <3>5 DEF StreamsInv, WritersMatch
  <2> QED
    BY <2>1, <2>2
<1>8. KeysKept /\ subscribedTracks' = subscribedTracks
  BY <1>3 DEF KeysKept, CreateWriter, tables
<1>9. Go(h, "wire", [loc[h] EXCEPT !.rest = subs[s].attached])
  BY DEF CreateWriter
<1> QED
  BY <1>5, <1>7, <1>8, <1>9, TableKept, CallbacksKept DEF StreamsInv

\* Attaching, detaching and unlocking write none of these.
LEMMA AttachStreams ==
    ASSUME TInv, StreamsInv, NEW th \in Threads,
           AddSubscriber(th) \/ Detach(th) \/ FinishWriter(th)
    PROVE  StreamsInv'
<1>1. \A x \in Subscriptions : /\ subs'[x].key = subs[x].key
                                /\ subs'[x].track = subs[x].track
                                /\ subs'[x].writer = subs[x].writer
  <2>1. subs \in [Subscriptions -> SubscriptionType]
    BY DEF TInv, TypeOK
  <2>2. \A r \in SubscriptionType : \A v :
            /\ [r EXCEPT !.attached = v].key = r.key
            /\ [r EXCEPT !.attached = v].track = r.track
            /\ [r EXCEPT !.attached = v].writer = r.writer
            /\ [r EXCEPT !.lock = v].key = r.key
            /\ [r EXCEPT !.lock = v].track = r.track
            /\ [r EXCEPT !.lock = v].writer = r.writer
    BY DEF SubscriptionType
  <2>3. CASE AddSubscriber(th)
    BY <2>1, <2>2, <2>3 DEF AddSubscriber
  <2>4. CASE Detach(th)
    BY <2>1, <2>2, <2>4 DEF Detach
  <2>5. CASE FinishWriter(th)
    BY <2>1, <2>2, <2>5 DEF FinishWriter
  <2> QED
    BY <2>3, <2>4, <2>5
<1>2. KeysKept
  BY <1>1 DEF KeysKept
<1>3. PICK l : \E label : label # "subscribed" /\ Go(th, label, l)
  BY DEF AddSubscriber, Detach, FinishWriter, Return
<1> QED
  BY <1>1, <1>2, <1>3, StreamsKept DEF AddSubscriber, Detach, FinishWriter, tables

LEMMA CheckingStreams ==
    ASSUME TInv, StreamsInv, NEW th \in Threads,
           MakeSubscription(th) \/ CheckPublished(th) \/ CheckConnected(th)
    PROVE  StreamsInv'
<1>1. CASE MakeSubscription(th)
  <2>1. loc[th].subs \in Subscriptions
    BY <1>1, LocalsOf DEF MakeSubscription, LocatedAt, AtSubs
  <2>2. CASE loc[th].key[1] \in present
    BY <1>1, <2>1, <2>2, CheckTracksStreams DEF MakeSubscription, tables
  <2>3. CASE loc[th].key[1] \notin present
    BY <1>1, <2>3, StreamsAlone DEF MakeSubscription, tables
  <2> QED
    BY <2>2, <2>3
<1>2. CASE CheckPublished(th)
  <2>1. loc[th].subs \in Subscriptions
    BY <1>2, LocalsOf DEF CheckPublished, LocatedAt, AtSubs
  <2> QED
    BY <1>2, <2>1, CheckTracksStreams DEF CheckPublished, tables
<1>3. CASE CheckConnected(th)
  <2> DEFINE s == subscriptions[loc[th].key]
             after == IF pc[th] = "check" THEN "recheck" ELSE "leave"
  <2>1. after \in {"append", "recheck", "leave"} /\ after # "subscribed"
    OBVIOUS
  <2>2. UNCHANGED <<subscribedTracks, writers>>
    BY <1>3 DEF CheckConnected, tables
  <2>3. CASE s = Nil
    BY <1>3, <2>1, <2>2, <2>3, StreamsAlone DEF CheckConnected
  <2>4. CASE s # Nil
    <3>1. s \in Subscriptions
      BY <1>3, <2>4, LocalsOf DEF CheckConnected, LocatedAt, AtKey, DataTyped, Maybe
    <3>2. CheckTracks(th, s, subs[s].track, after)
      BY <1>3, <2>4 DEF CheckConnected
    <3> HIDE DEF s, after
    <3> QED
      BY <2>1, <2>2, <3>1, <3>2, CheckTracksStreams
  <2> QED
    BY <2>3, <2>4
<1> QED
  BY <1>1, <1>2, <1>3

\* The SDK's own steps and a panic move nothing of the room's.
LEMMA OutsideStreams ==
    ASSUME TInv, StreamsInv,
           UNCHANGED <<subs, subscribedTracks, writers, pc, loc>>
    PROVE  StreamsInv'
BY DEF StreamsInv, SlotsMatch, TableMatches, CallbacksMatch, WritersMatch, KeyOf

LEMMA SdkNextStreams ==
    ASSUME TInv, StreamsInv, SdkNext
    PROVE  StreamsInv'
<1>1. UNCHANGED <<subs, subscribedTracks, writers, pc, loc>>
  BY DEF SdkNext, Join, Publish, Unpublish, Attach, Loses, SdkStep, tables
<1> QED
  BY <1>1, OutsideStreams

LEMMA ClientStreams ==
    ASSUME TInv, StreamsInv, NEW c \in Threads, ClientStep(c)
    PROVE  StreamsInv'
<1>1. ASSUME ReuseSubscription(c) PROVE StreamsInv'
  BY <1>1, StreamsAlone DEF ReuseSubscription, tables
<1>2. ASSUME BuildAudio(c) PROVE StreamsInv'
  BY <1>2, StreamsAlone DEF BuildAudio, tables
<1>3. ASSUME CheckVideo(c) PROVE StreamsInv'
  BY <1>3, StreamsAlone DEF CheckVideo, tables
<1>4. ASSUME BuildVideo(c) PROVE StreamsInv'
  BY <1>4, StreamsAlone DEF BuildVideo, tables
<1>5. ASSUME Register(c) PROVE StreamsInv'
  BY <1>5, StreamsAlone DEF Register, Return
<1>6. ASSUME Request(c) PROVE StreamsInv'
  <2>1. PICK l : \E label : label # "subscribed" /\ Go(c, label, l)
    BY <1>6, LocalsOf DEF Request, LocalsType
  <2> QED
    BY <1>6, <2>1, StreamsAlone DEF Request, tables
<1>7. ASSUME RemoveSubscriber(c) PROVE StreamsInv'
  BY <1>7, StreamsAlone DEF RemoveSubscriber, tables
<1>8. ASSUME DestroySubscriber(c) PROVE StreamsInv'
  BY <1>8, StreamsAlone DEF DestroySubscriber, tables
<1>9. ASSUME Release(c) PROVE StreamsInv'
  <2>1. PICK l : \E label : label # "subscribed" /\ Go(c, label, l)
    BY <1>9 DEF Release
  <2> QED
    BY <1>9, <2>1, StreamsAlone DEF Release, tables
<1>10. ASSUME RemoveSubscription(c) PROVE StreamsInv'
  BY <1>10, StreamsAlone DEF RemoveSubscription, Return
<1> QED
  BY <1>1, <1>2, <1>3, <1>4, <1>5, <1>6, <1>7, <1>8, <1>9, <1>10,
     AddSubscriptionStreams, CheckingStreams, AttachStreams, RecordStreams,
     UnwireStreams DEF ClientStep

LEMMA HandlerStreams ==
    ASSUME TInv, StreamsInv, NEW h \in Threads, HandlerStep(h)
    PROVE  StreamsInv'
<1>1. ASSUME LockConnected(h) PROVE StreamsInv'
  BY <1>1, StreamsAlone DEF LockConnected, tables
<1>2. ASSUME Request(h) PROVE StreamsInv'
  <2>1. PICK l : \E label : label # "subscribed" /\ Go(h, label, l)
    BY <1>2, LocalsOf DEF Request, LocalsType
  <2> QED
    BY <1>2, <2>1, StreamsAlone DEF Request, tables
<1>3. ASSUME Leave(h) PROVE StreamsInv'
  BY <1>3, StreamsAlone DEF Leave, Return, tables
<1>4. ASSUME Unpublished(h) PROVE StreamsInv'
  BY <1>4, StreamsAlone DEF Unpublished, Return, tables
<1>5. ASSUME RefuseWriter(h) PROVE StreamsInv'
  BY <1>5, StreamsAlone DEF RefuseWriter, Return, tables
<1>6. ASSUME NEW u \in Subscribers, WireAudio(h, u) \/ CheckWireVideo(h, u)
      PROVE  StreamsInv'
  <2>1. CASE Panic
    BY <2>1, OutsideStreams DEF Panic, tables
  <2>2. CASE ~ Panic
    <3>1. PICK l : \E label : label # "subscribed" /\ Go(h, label, l)
      BY <1>6, <2>2 DEF WireAudio, CheckWireVideo
    <3>2. UNCHANGED <<subs, subscribedTracks, writers>>
      BY <1>6, <2>2 DEF WireAudio, CheckWireVideo, tables
    <3> QED
      BY <3>1, <3>2, StreamsAlone
  <2> QED
    BY <2>1, <2>2
<1>7. ASSUME WireVideo(h) PROVE StreamsInv'
  <2>1. CASE Panic
    BY <2>1, OutsideStreams DEF Panic, tables
  <2>2. CASE ~ Panic
    BY <1>7, <2>2, StreamsAlone DEF WireVideo, tables
  <2> QED
    BY <2>1, <2>2
<1>8. ASSUME WireReady(h) PROVE StreamsInv'
  BY <1>8, StreamsAlone DEF WireReady, tables
<1> QED
  BY <1>1, <1>2, <1>3, <1>4, <1>5, <1>6, <1>7, <1>8, CheckingStreams,
     RecordStreams, UnsubscribedStreams, CreateWriterStreams, AttachStreams
  DEF HandlerStep

LEMMA StartStreams ==
    ASSUME TInv, StreamsInv, Start
    PROVE  StreamsInv'
<1>1. ASSUME NEW c \in Threads, NEW key \in Keys, Subscribe(c, key) PROVE StreamsInv'
  BY <1>1, StreamsAlone DEF Subscribe, tables
<1>2. ASSUME NEW c \in Threads, NEW u \in Subscribers, Unsubscribe(c, u)
      PROVE  StreamsInv'
  BY <1>2, StreamsAlone DEF Unsubscribe
<1>3. ASSUME NEW h \in Threads, NEW t \in Tracks, OnTrackPublished(h, t)
      PROVE  StreamsInv'
  <2>1. PICK l : \E label : label # "subscribed" /\ Go(h, label, l)
    BY <1>3 DEF OnTrackPublished, Return
  <2> QED
    BY <1>3, <2>1, StreamsAlone DEF OnTrackPublished, tables
<1>4. ASSUME NEW h \in Threads, NEW p \in Participants, OnParticipantConnected(h, p)
      PROVE  StreamsInv'
  BY <1>4, StreamsAlone DEF OnParticipantConnected, tables
<1> QED
  BY <1>1, <1>2, <1>3, <1>4, OnTrackEventStreams DEF Start, Threads

LEMMA NextStreams ==
    ASSUME TInv, StreamsInv, [Next]_vars
    PROVE  StreamsInv'
<1>1. CASE UNCHANGED vars
  BY <1>1, OutsideStreams DEF vars, tables
<1> QED
  BY <1>1, StartStreams, SdkNextStreams, ClientStreams, HandlerStreams DEF Next, Threads

LEMMA StreamsThroughout == Spec => []StreamsInv
<1>1. TInv /\ StreamsInv /\ [Next]_vars => StreamsInv'
  BY NextStreams
<1> QED
  BY <1>1, InitStreams, TypedThroughout, PTL DEF Spec

----------------------------------------------------------------------------

\* A subscriber never gets the media of another participant, nor the screen
\* of one whose camera it asked for, whatever callbacks come late or together.
THEOREM StreamsStaySeparate == Spec => []StreamsDoNotMix
<1>1. StreamsInv => StreamsDoNotMix
  BY DEF StreamsInv, WritersMatch, StreamsDoNotMix
<1> QED
  BY <1>1, StreamsThroughout, PTL

\* No two goroutines push to the subscribers of a subscription for one kind:
\* a writer that has not been told to stop is the one its slot names.
THEOREM OneWriterPerSlot == Spec => []RunningWriterInSlot
<1>1. StreamsInv => RunningWriterInSlot
  BY DEF StreamsInv, WritersMatch, RunningWriterInSlot
<1> QED
  BY <1>1, StreamsThroughout, PTL
=============================================================================
