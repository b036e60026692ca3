--------------------------- MODULE TrackPublisher ---------------------------
(***************************************************************************)
(* One track publisher of an ov3publisher (ov3trackpublisher.go): its bin  *)
(* gets the media of a browser, finds out their caps, publishes a local    *)
(* track at LiveKit and reads samples into it, until it is unpublished.    *)
(*                                                                         *)
(* Four kinds of threads meet in it: the streaming thread of the bin,      *)
(* which runs the notify::caps handlers one after the other; the caller of *)
(* unpublishParticipant; a reader (ReadSamples) for each track that has    *)
(* been published; and LiveKit, which answers.  The publisher's lock is    *)
(* held by UnpublishLocalTrack and by the readers only.                    *)
(*                                                                         *)
(* The codec does not change: a caps filter with the codec of the first    *)
(* caps stands before the payloader.                                       *)
(***************************************************************************)
EXTENDS Naturals, Sequences, FiniteSets

CONSTANTS
    Caps,           \* what may arrive at the payloader: resolutions, channels
    Complete,       \* the caps that name them; others come before a header
    MaxTracks,      \* how many local tracks a run makes
    MaxSamples,     \* how many samples a run pulls
    Failures,       \* what may go wrong: "element", "create", "publish"
    Nil

Tracks == 1..MaxTracks
Maybe(S) == S \cup {Nil}

ASSUME CapsAssumption == Complete \subseteq Caps /\ Nil \notin Caps \cup Nat
ASSUME BoundsAssumption == MaxTracks \in Nat /\ MaxSamples \in Nat

VARIABLES
    bin,            \* tr.bin is not nil
    element,        \* tr.element and tr.sinkPad are not nil
    track, sid,     \* the local track; the SID last received
    opts,           \* the caps that the options of the track name
    currentCaps,
    endStream,      \* the fuse is broken
    notified,       \* "connected" of createSinkElementsForPublisher
    attached,       \* handlers of notify::caps that are connected
    pad,            \* GStreamer: the caps of the payloader's sink pad, once
    piped,          \* the pipeline has been completed
    made,           \* how many local tracks have been created
    published,      \* LiveKit: tracks that are published
    pulled, sent,   \* samples pulled, and those written, in order
    stream,         \* where the streaming thread is, and
    after,          \* where it goes after PublishLocalTrack
    caller,         \* where unpublishParticipant is
    reader,         \* track -> where the reader started for it is, and
    sample,         \* the sample it holds
    crashed,        \* a panic in a callback ended the process
    early,          \* history: caps were there before setupLocalTrack looked
    calm            \* history: no handler has overlapped unpublishParticipant

fields    == <<bin, element, track, sid, opts, currentCaps, endStream>>
gstreamer == <<notified, attached, pad, piped>>
samples   == <<pulled, sent, sample>>
vars == <<fields, gstreamer, samples, made, published, stream, after, caller,
          reader, crashed, early, calm>>

\* One type invariant: fields, threads and histories.
TypeOK ==
    /\ {bin, element, endStream, notified, piped, crashed, early, calm} \subseteq BOOLEAN
    /\ track \in Maybe(Tracks) /\ sid \in Maybe(Tracks) /\ published \subseteq Tracks
    /\ {opts, currentCaps, pad} \subseteq Maybe(Caps)
    /\ attached \subseteq {"input", "pad"}
    /\ made \in 0..MaxTracks /\ pulled \in 0..MaxSamples
    /\ sent \in Seq(1..MaxSamples)
    /\ stream \in {"idle", "complete", "setup", "pad", "listen", "changed",
                   "publish", "announce", "reply"}
    /\ after \in {"idle", "listen"}
    /\ caller \in {"idle", "withdraw", "destroy", "clear", "done"}
    /\ reader \in [Tracks -> {"none", "start", "element", "pull", "write", "ended"}]
    /\ sample \in [Tracks -> Maybe(1..MaxSamples)]

\* createTrackPublisher has returned.
Init ==
    /\ bin = TRUE /\ element = FALSE /\ endStream = FALSE
    /\ track = Nil /\ sid = Nil /\ opts = Nil /\ currentCaps = Nil
    /\ notified = FALSE /\ attached = {"input"} /\ pad = Nil /\ piped = FALSE
    /\ made = 0 /\ published = {}
    /\ pulled = 0 /\ sent = <<>>
    /\ stream = "idle" /\ after = "idle" /\ caller = "idle"
    /\ reader = [k \in Tracks |-> "none"] /\ sample = [k \in Tracks |-> Nil]
    /\ crashed = FALSE /\ early = FALSE /\ calm = TRUE

----------------------------------------------------------------------------
(* The streaming thread. *)

\* A handler begins.
Handle(label) ==
    /\ stream' = label
    /\ calm' = (calm /\ caller \in {"idle", "done"})

Panic == crashed' = TRUE /\ UNCHANGED <<fields, gstreamer, stream, early>>

\* The first caps at the bin's input; later ones return at once.
FirstCaps ==
    /\ stream = "idle" /\ "input" \in attached /\ ~notified
    /\ notified' = TRUE
    /\ Handle("complete")
    /\ UNCHANGED <<fields, attached, pad, piped, samples, made, published,
                   after, caller, reader, crashed, early>>

\* completePublisherPipeline: the bin may be gone by now, or there is no parser.
CompletePipeline ==
    /\ stream = "complete"
    /\ \/ ~bin /\ Panic
       \/ /\ bin /\ element' = TRUE /\ piped' = TRUE
          /\ pad' \in Maybe(Caps) /\ early' = (pad' # Nil)
          /\ stream' = "setup"
          /\ UNCHANGED <<bin, track, sid, opts, currentCaps, endStream,
                         notified, attached, crashed>>
       \/ /\ bin /\ "element" \in Failures
          /\ stream' = "setup"
          /\ UNCHANGED <<fields, gstreamer, crashed, early>>
    /\ UNCHANGED <<samples, made, published, after, caller, reader, calm>>

\* setupLocalTrack reads tr.element, and then tr.sinkPad.
SetupLocalTrack ==
    /\ stream = "setup"
    /\ stream' = IF element THEN "pad" ELSE "idle"
    /\ UNCHANGED <<fields, gstreamer, samples, made, published, after, caller,
                   reader, crashed, early, calm>>

\* Mutant: caps are compared with the current ones.
ReadyCompared(c) == c \in Complete /\ c # currentCaps

\* checkCapsAreReadyForPublish compares caps with themselves if there are
\* current ones.
Ready(c) == c \in Complete /\ currentCaps = Nil

CheckPad ==
    /\ stream = "pad"
    /\ stream' = IF ~element THEN "idle" ELSE IF Ready(pad) THEN "publish" ELSE "listen"
    /\ after' = "listen"
    /\ UNCHANGED <<fields, gstreamer, samples, made, published, caller, reader,
                   crashed, early, calm>>

Listen ==
    /\ stream = "listen" /\ stream' = "idle"
    /\ attached' = attached \cup {"pad"}
    /\ UNCHANGED <<fields, notified, pad, piped, samples, made, published, after,
                   caller, reader, crashed, early, calm>>

\* The payloader's elements stay in the bin when the publisher is destroyed.
CapsChange(c) ==
    /\ stream = "idle" /\ piped /\ c # pad
    /\ pad' = c
    /\ IF "pad" \in attached THEN Handle("changed") ELSE UNCHANGED <<stream, calm>>
    /\ UNCHANGED <<fields, notified, attached, piped, samples, made, published,
                   after, caller, reader, crashed, early>>

CheckChange ==
    /\ stream = "changed" /\ after' = "idle"
    /\ \/ /\ Ready(pad)
          /\ stream' = "publish" /\ currentCaps' = pad
       \/ /\ ~Ready(pad)
          /\ stream' = "idle" /\ UNCHANGED currentCaps
    /\ UNCHANGED <<bin, element, track, sid, opts, endStream, gstreamer, samples,
                   made, published, caller, reader, crashed, early, calm>>

\* PublishLocalTrack, without the lock.
CreateTrack ==
    /\ stream = "publish"
    /\ \/ /\ made < MaxTracks
          /\ made' = made + 1 /\ track' = made + 1 /\ opts' = pad
          /\ stream' = "announce"
       \/ /\ "create" \in Failures
          /\ stream' = after /\ UNCHANGED <<made, track, opts>>
    /\ UNCHANGED <<bin, element, sid, currentCaps, endStream, gstreamer, samples,
                   published, after, caller, reader, crashed, early, calm>>

\* tr.track is read again for PublishTrack, which a nil track makes panic.
Announce ==
    /\ stream = "announce"
    /\ IF track = Nil THEN Panic
       ELSE stream' = "reply" /\ UNCHANGED <<fields, gstreamer, crashed, early>>
    /\ UNCHANGED <<samples, made, published, after, caller, reader, calm>>

\* Mutant: the SID is not kept.
ReplyUnnamed ==
    /\ stream = "reply" /\ stream' = after
    /\ published' = published \cup {made}
    /\ reader' = [reader EXCEPT ![made] = "start"]
    /\ UNCHANGED <<fields, gstreamer, samples, made, after, caller, crashed, early, calm>>

\* Mutant: the SID is read from the options.
ReplyMisnamed ==
    /\ stream = "reply" /\ stream' = after
    /\ sid' = opts
    /\ UNCHANGED <<bin, element, track, opts, currentCaps, endStream, gstreamer, samples,
                   made, published, reader, after, caller, crashed, early, calm>>

\* PublishTrack returns.
Reply ==
    /\ stream = "reply" /\ stream' = after
    /\ \/ /\ published' = published \cup {made} /\ sid' = made
          /\ reader' = [reader EXCEPT ![made] = "start"]
          /\ UNCHANGED track
       \/ /\ "publish" \in Failures
          /\ track' = Nil /\ UNCHANGED <<published, sid, reader>>
    /\ UNCHANGED <<bin, element, opts, currentCaps, endStream, gstreamer, samples,
                   made, after, caller, crashed, early, calm>>

----------------------------------------------------------------------------
(* ReadSamples. *)

ReaderAt(k, from, to) == reader[k] = from /\ reader' = [reader EXCEPT ![k] = to]

\* A key frame is asked for.
StartReading(k) ==
    /\ ReaderAt(k, "start", "element")
    /\ UNCHANGED <<fields, gstreamer, samples, made, published, stream, after,
                   caller, crashed, early, calm>>

\* Mutant: a reader without an element waits for one.
GetElementForEver(k) ==
    /\ element /\ ReaderAt(k, "element", "pull")
    /\ UNCHANGED <<fields, gstreamer, samples, made, published, stream, after,
                   caller, crashed, early, calm>>

\* With neither an element nor the end ordered it sleeps and looks again.
GetElement(k) ==
    /\ \/ element /\ ReaderAt(k, "element", "pull")
       \/ ~element /\ endStream /\ ReaderAt(k, "element", "ended")
    /\ UNCHANGED <<fields, gstreamer, samples, made, published, stream, after,
                   caller, crashed, early, calm>>

\* TryPullSample returns a sample, or nothing after half a second.
PullSample(k) ==
    /\ ReaderAt(k, "pull", "write")
    /\ \/ /\ pulled < MaxSamples
          /\ pulled' = pulled + 1 /\ sample' = [sample EXCEPT ![k] = pulled + 1]
       \/ UNCHANGED <<pulled, sample>>
    /\ UNCHANGED <<fields, gstreamer, sent, made, published, stream, after,
                   caller, crashed, early, calm>>

\* Mutant: the sample that has been pulled is written before the end is seen.
WriteFirst(k) ==
    /\ ReaderAt(k, "write", IF endStream \/ track = Nil THEN "ended" ELSE "element")
    /\ sent' = IF sample[k] = Nil THEN sent ELSE Append(sent, sample[k])
    /\ sample' = [sample EXCEPT ![k] = Nil]
    /\ UNCHANGED <<fields, gstreamer, pulled, made, published, stream, after,
                   caller, crashed, early, calm>>

\* With the lock held.
WriteSample(k) ==
    /\ \/ /\ endStream \/ track = Nil
          /\ ReaderAt(k, "write", "ended") /\ UNCHANGED sent
       \/ /\ ~endStream /\ track # Nil
          /\ ReaderAt(k, "write", "element")
          /\ sent' = IF sample[k] = Nil THEN sent ELSE Append(sent, sample[k])
    /\ sample' = [sample EXCEPT ![k] = Nil]
    /\ UNCHANGED <<fields, gstreamer, pulled, made, published, stream, after,
                   caller, crashed, early, calm>>

Read(k) == StartReading(k) \/ GetElement(k) \/ PullSample(k) \/ WriteSample(k)

----------------------------------------------------------------------------
(* RemovePublisher: UnpublishLocalTrack and DestroyTrackPublisher. *)

\* With the lock held; without a track there is nothing to end.
UnpublishLocalTrack ==
    /\ caller = "idle"
    /\ calm' = (stream = "idle")
    /\ \/ /\ track = Nil /\ caller' = "destroy" /\ UNCHANGED <<track, endStream>>
       \/ /\ track # Nil /\ caller' = "withdraw"
          /\ track' = Nil /\ endStream' = TRUE
    /\ UNCHANGED <<bin, element, sid, opts, currentCaps, gstreamer, samples, made,
                   published, stream, after, reader, crashed, early>>

UnpublishTrack ==
    /\ caller = "withdraw" /\ caller' = "destroy"
    /\ published' = published \ {sid}
    /\ UNCHANGED <<fields, gstreamer, samples, made, stream, after, reader,
                   crashed, early, calm>>

Disconnect ==
    /\ caller = "destroy" /\ caller' = "clear"
    /\ attached' = attached \ (IF element THEN {"input", "pad"} ELSE {"input"})
    /\ UNCHANGED <<fields, notified, pad, piped, samples, made, published, stream,
                   after, reader, crashed, early, calm>>

Clear ==
    /\ caller = "clear" /\ caller' = "done"
    /\ bin' = FALSE /\ element' = FALSE /\ currentCaps' = Nil
    /\ UNCHANGED <<track, sid, opts, endStream, gstreamer, samples, made, published,
                   stream, after, reader, crashed, early, calm>>

----------------------------------------------------------------------------
Next ==
    /\ ~crashed
    /\ \/ FirstCaps \/ CompletePipeline \/ SetupLocalTrack \/ CheckPad \/ Listen
       \/ \E c \in Caps : CapsChange(c)
       \/ CheckChange \/ CreateTrack \/ Announce \/ Reply
       \/ \E k \in Tracks : Read(k)
       \/ UnpublishLocalTrack \/ UnpublishTrack \/ Disconnect \/ Clear

Spec == Init /\ [][Next]_vars

\* A reader is a runnable goroutine: a pull ends after half a second, and the
\* lock is never held for long.
FairSpec == Spec /\ \A k \in Tracks : WF_vars(~crashed /\ Read(k))

----------------------------------------------------------------------------
(* Properties. *)

\* Once UnpublishLocalTrack has ordered the end, no sample goes out: not even
\* one that a reader had pulled before, since the fuse is tested under the lock
\* that is held to break it (ov3trackpublisher.go:360, :508).
NothingAfterTheEnd == [][endStream => sent' = sent]_vars

\* There is one reader at work, so that samples go out in the order in which
\* they came, however often the caps change.  Not so if the pad had caps before
\* setupLocalTrack looked: it publishes, but does not record them as current.
InOrder ==
    ~early => \A i, j \in DOMAIN sent : i < j => sent[i] < sent[j]

\* If no caps handler overlaps it, unpublishParticipant does not bring the
\* process down and leaves neither a track at LiveKit nor a reader that has not
\* been told to end, wherever the publisher had got to and whatever had failed.
LeavesNothing ==
    calm => /\ ~crashed
            /\ caller = "done" /\ ~early =>
                  /\ published = {}
                  /\ \A k \in Tracks : reader[k] \in {"none", "ended"} \/ endStream

\* Once the end is ordered every reader ends, also one that is started for a
\* track whose publication was under way then.
ReadersEnd ==
    endStream ~> (crashed \/ \A k \in Tracks : reader[k] \in {"none", "ended"})

\* "Caps have changed, create a new local track if not match with previous
\* caps" (ov3trackpublisher.go:587): the published track is of the caps that
\* arrive.
CapsFollowed ==
    stream = "idle" /\ "pad" \in attached /\ track # Nil /\ pad \in Complete
        => opts = pad
=============================================================================
