------------------------ MODULE TrackPublisherProofs ------------------------
(***************************************************************************)
(* Theorems about TrackPublisher, for any number of caps, tracks and       *)
(* samples and whatever fails.                                             *)
(***************************************************************************)
EXTENDS TrackPublisher, TLAPS

----------------------------------------------------------------------------
(* Types. *)

Streams == {"idle", "complete", "setup", "pad", "listen", "changed",
            "publish", "announce", "reply"}
Callers == {"idle", "withdraw", "destroy", "clear", "done"}
Readers == {"none", "start", "element", "pull", "write", "ended"}

Flags ==
    /\ bin \in BOOLEAN /\ element \in BOOLEAN /\ endStream \in BOOLEAN
    /\ notified \in BOOLEAN /\ piped \in BOOLEAN
    /\ crashed \in BOOLEAN /\ early \in BOOLEAN /\ calm \in BOOLEAN

FieldsTyped ==
    /\ track \in Maybe(Tracks) /\ sid \in Maybe(Tracks)
    /\ opts \in Maybe(Caps) /\ currentCaps \in Maybe(Caps) /\ pad \in Maybe(Caps)
    /\ attached \subseteq {"input", "pad"}
    /\ stream \in Streams /\ after \in {"idle", "listen"} /\ caller \in Callers

TracksTyped ==
    /\ made \in 0..MaxTracks /\ published \subseteq 1..made
    /\ reader \in [Tracks -> Readers]
    /\ \A k \in Tracks : k > made => reader[k] = "none"
    /\ stream \in {"announce", "reply"} =>
          made \in Tracks /\ made \notin published /\ reader[made] = "none"

SamplesTyped ==
    /\ pulled \in 0..MaxSamples
    /\ sent \in Seq(1..MaxSamples)
    /\ sample \in [Tracks -> Maybe(1..MaxSamples)]

TInv == Flags /\ FieldsTyped /\ TracksTyped /\ SamplesTyped

LEMMA InvTyped == TInv => TypeOK
<1> SUFFICES ASSUME TInv PROVE TypeOK
  OBVIOUS
<1>1. {bin, element, endStream, notified, piped, crashed, early, calm} \subseteq BOOLEAN
  BY Zenon DEF TInv, Flags
<1>2. published \subseteq Tracks
  BY BoundsAssumption DEF TInv, TracksTyped, Tracks
<1> QED
  BY <1>1, <1>2 DEF TInv, FieldsTyped, TracksTyped, SamplesTyped, TypeOK,
                    Streams, Callers, Readers

LEMMA InitTyped == Init => TInv
<1> SUFFICES ASSUME Init PROVE TInv
  OBVIOUS
<1>1. Flags
  BY DEF Init, Flags
<1>2. FieldsTyped
  BY DEF Init, FieldsTyped, Maybe, Streams, Callers
<1>3. TracksTyped
  BY BoundsAssumption DEF Init, TracksTyped, Readers
<1>4. SamplesTyped
  BY BoundsAssumption DEF Init, SamplesTyped, Maybe
<1> QED
  BY <1>1, <1>2, <1>3, <1>4 DEF TInv

LEMMA FlagsTyped ==
    ASSUME TInv, [Next]_vars PROVE Flags'
<1> USE DEF TInv, Flags, fields, gstreamer, Panic, Handle
<1>1. CASE UNCHANGED vars
  BY <1>1 DEF vars
<1>2. CASE FirstCaps
  BY <1>2, Zenon DEF FirstCaps
<1>3. CASE CompletePipeline
  BY <1>3, Zenon DEF CompletePipeline
<1>4. CASE SetupLocalTrack \/ CheckPad \/ Listen
  BY <1>4, Zenon DEF SetupLocalTrack, CheckPad, Listen
<1>5. CASE \E c \in Caps : CapsChange(c)
  BY <1>5, Zenon DEF CapsChange
<1>6. CASE CheckChange \/ CreateTrack \/ Announce \/ Reply
  BY <1>6, Zenon DEF CheckChange, CreateTrack, Announce, Reply
<1>7. CASE \E k \in Tracks : Read(k)
  BY <1>7, Zenon DEF Read, StartReading, GetElement, PullSample, WriteSample
<1>8. CASE UnpublishLocalTrack \/ UnpublishTrack \/ Disconnect \/ Clear
  BY <1>8, Zenon DEF UnpublishLocalTrack, UnpublishTrack, Disconnect, Clear
<1> QED
  BY <1>1, <1>2, <1>3, <1>4, <1>5, <1>6, <1>7, <1>8 DEF Next

LEMMA FieldsKept ==
    ASSUME TInv, [Next]_vars PROVE FieldsTyped'
<1> USE DEF TInv, FieldsTyped, fields, gstreamer, Panic, Handle, Maybe, Streams, Callers
<1>1. CASE UNCHANGED vars
  BY <1>1 DEF vars
<1>2. CASE FirstCaps
  BY <1>2 DEF FirstCaps
<1>3. CASE CompletePipeline
  BY <1>3 DEF CompletePipeline
<1>4. CASE SetupLocalTrack \/ CheckPad \/ Listen
  BY <1>4 DEF SetupLocalTrack, CheckPad, Listen
<1>5. CASE \E c \in Caps : CapsChange(c)
  BY <1>5 DEF CapsChange
<1>6. CASE CheckChange \/ Announce
  BY <1>6 DEF CheckChange, Announce
<1>7. CASE CreateTrack
  BY <1>7, BoundsAssumption DEF CreateTrack, TracksTyped, Tracks
<1>8. CASE Reply
  BY <1>8 DEF Reply, TracksTyped
<1>9. CASE \E k \in Tracks : Read(k)
  BY <1>9 DEF Read, StartReading, GetElement, PullSample, WriteSample
<1>10. CASE UnpublishLocalTrack \/ UnpublishTrack \/ Disconnect \/ Clear
  BY <1>10 DEF UnpublishLocalTrack, UnpublishTrack, Disconnect, Clear
<1> QED
  BY <1>1, <1>2, <1>3, <1>4, <1>5, <1>6, <1>7, <1>8, <1>9, <1>10 DEF Next

LEMMA TracksKept ==
    ASSUME TInv, [Next]_vars PROVE TracksTyped'
<1> USE DEF TInv, TracksTyped, fields, gstreamer, Panic, Handle
<1>1. CASE UNCHANGED vars
  BY <1>1 DEF vars
<1>2. CASE FirstCaps \/ CompletePipeline
  BY <1>2 DEF FirstCaps, CompletePipeline
<1>3. CASE SetupLocalTrack \/ CheckPad \/ Listen
  BY <1>3 DEF SetupLocalTrack, CheckPad, Listen
<1>4. CASE \E c \in Caps : CapsChange(c)
  BY <1>4 DEF CapsChange
<1>5. CASE CheckChange \/ Announce
  BY <1>5 DEF CheckChange, Announce
<1>6. CASE CreateTrack
  <2>1. after \notin {"announce", "reply"}
    BY DEF FieldsTyped
  <2> QED
    BY <1>6, <2>1, BoundsAssumption DEF CreateTrack, Tracks
<1>7. CASE Reply
  <2>1. after \notin {"announce", "reply"}
    BY DEF FieldsTyped
  <2>2. /\ stream' \notin {"announce", "reply"} /\ made' = made
        /\ made \in Nat /\ made \in Tracks /\ made \in 1..made
    BY <1>7, <2>1, BoundsAssumption DEF Reply, Tracks
  <2>3. CASE UNCHANGED <<published, reader>>
    BY <2>2, <2>3
  <2>4. CASE /\ published' = published \cup {made}
             /\ reader' = [reader EXCEPT ![made] = "start"]
    <3>1. published' \subseteq 1..made'
      BY <2>2, <2>4
    <3>2. reader' \in [Tracks -> Readers]
      BY <2>4 DEF Readers
    <3>3. \A k \in Tracks : k > made' => reader'[k] = "none"
      BY <2>2, <2>4 DEF Tracks
    <3> QED
      BY <2>2, <3>1, <3>2, <3>3
  <2> QED
    BY <1>7, <2>3, <2>4 DEF Reply
<1>8. ASSUME NEW k \in Tracks, Read(k) PROVE TracksTyped'
  <2>1. /\ UNCHANGED <<made, published, stream>>
        /\ reader[k] # "none"
        /\ \E to \in Readers : reader' = [reader EXCEPT ![k] = to]
    BY <1>8 DEF Read, StartReading, GetElement, PullSample, WriteSample, ReaderAt, Readers
  <2>2. PICK to \in Readers : reader' = [reader EXCEPT ![k] = to]
    BY <2>1
  <2>3. \A j \in Tracks : reader[j] = "none" => reader'[j] = "none"
    BY <2>1, <2>2
  <2> QED
    BY <2>1, <2>2, <2>3
<1>9. CASE UnpublishLocalTrack \/ UnpublishTrack \/ Disconnect \/ Clear
  BY <1>9 DEF UnpublishLocalTrack, UnpublishTrack, Disconnect, Clear
<1> QED
  BY <1>1, <1>2, <1>3, <1>4, <1>5, <1>6, <1>7, <1>8, <1>9 DEF Next

LEMMA SamplesKept ==
    ASSUME TInv, [Next]_vars PROVE SamplesTyped'
<1> USE DEF TInv, SamplesTyped, samples
<1>1. CASE UNCHANGED samples
  BY <1>1
<1>2. ASSUME NEW k \in Tracks, PullSample(k) PROVE SamplesTyped'
  BY <1>2, BoundsAssumption DEF PullSample, Maybe
<1>3. ASSUME NEW k \in Tracks, WriteSample(k) PROVE SamplesTyped'
  <2>1. UNCHANGED pulled /\ sample' = [sample EXCEPT ![k] = Nil]
    BY <1>3 DEF WriteSample
  <2>2. sent' = sent \/ (sample[k] # Nil /\ sent' = Append(sent, sample[k]))
    BY <1>3 DEF WriteSample
  <2>3. sample[k] # Nil => sample[k] \in 1..MaxSamples
    BY DEF Maybe
  <2>4. sent' \in Seq(1..MaxSamples)
    <3>1. CASE sent' = sent
      BY <3>1
    <3>2. CASE sample[k] # Nil /\ sent' = Append(sent, sample[k])
      BY <2>3, <3>2
    <3> QED
      BY <2>2, <3>1, <3>2
  <2>5. sample' \in [Tracks -> Maybe(1..MaxSamples)]
    BY <2>1 DEF Maybe
  <2> QED
    BY <2>1, <2>4, <2>5
<1>4. UNCHANGED samples \/ \E k \in Tracks : PullSample(k) \/ WriteSample(k)
  BY DEF Next, vars, FirstCaps, CompletePipeline, SetupLocalTrack, CheckPad, Listen,
         CapsChange, CheckChange, CreateTrack, Announce, Reply, Read, StartReading,
         GetElement, UnpublishLocalTrack, UnpublishTrack, Disconnect, Clear
<1> QED
  BY <1>1, <1>2, <1>3, <1>4

LEMMA StepTyped == TInv /\ [Next]_vars => TInv'
BY FlagsTyped, FieldsKept, TracksKept, SamplesKept DEF TInv

\* Every variable of a track publisher keeps its type, and a track under way is
\* one that nothing reads yet (PublishLocalTrack, ov3trackpublisher.go:433).
THEOREM TypeCorrect == Spec => []TypeOK
<1> QED
  BY InitTyped, StepTyped, InvTyped, PTL DEF Spec

\* Once the end has been ordered no sample goes out (UnpublishLocalTrack and
\* ReadSamples, ov3trackpublisher.go:360, :508).
THEOREM EndedIsSilent == Spec => NothingAfterTheEnd
<1>1. [Next]_vars => [endStream => sent' = sent]_vars
  BY DEF Next, vars, samples, FirstCaps, CompletePipeline, SetupLocalTrack, CheckPad,
         Listen, CapsChange, CheckChange, CreateTrack, Announce, Reply, Read,
         StartReading, GetElement, PullSample, WriteSample, UnpublishLocalTrack,
         UnpublishTrack, Disconnect, Clear
<1> QED
  BY <1>1, PTL DEF Spec, NothingAfterTheEnd

----------------------------------------------------------------------------
(* Order.  Without early caps the publisher makes one track as long as it  *)
(* has its bin, and after that no reader finds an element to pull from.    *)

\* What the pad has had at each stage.
Staged ==
    /\ ~notified => stream = "idle" /\ ~piped
    /\ stream = "complete" => ~piped
    /\ ~piped => pad = Nil /\ ~early
    /\ ~bin => ~element
    /\ stream \in {"setup", "pad"} /\ ~early => pad = Nil

OneTrack ==
    bin /\ ~early =>
        /\ made <= 1
        /\ stream = "publish" => made = 0
        /\ currentCaps = Nil => made = 0 /\ stream \notin {"publish", "announce", "reply"}

Pulling(k) == reader[k] \in {"pull", "write"}

OneReader == ~early => \A j, k \in Tracks : Pulling(j) /\ Pulling(k) => j = k

Ordered ==
    ~early =>
        /\ \A i, j \in DOMAIN sent : i < j => sent[i] < sent[j]
        /\ \A i \in DOMAIN sent : sent[i] <= pulled
        /\ \A k \in Tracks : sample[k] # Nil =>
              /\ reader[k] = "write" /\ sample[k] <= pulled
              /\ \A i \in DOMAIN sent : sent[i] < sample[k]

LEMMA StagedKept ==
    ASSUME TInv, Staged, [Next]_vars PROVE Staged'
<1> USE DEF TInv, Staged, fields, gstreamer, Panic, Handle
<1>1. CASE UNCHANGED vars
  BY <1>1 DEF vars
<1>2. CASE FirstCaps
  BY <1>2 DEF FirstCaps
<1>3. CASE CompletePipeline
  <2>1. notified' = notified /\ notified
    BY <1>3 DEF CompletePipeline
  <2>3. CASE Panic
    BY <1>3, <2>3 DEF CompletePipeline
  <2>4. CASE stream' = "setup" /\ UNCHANGED <<fields, gstreamer, early>>
    BY <1>3, <2>4 DEF CompletePipeline
  <2>5. CASE /\ bin /\ piped' = TRUE /\ UNCHANGED <<bin, notified>>
             /\ stream' = "setup" /\ early' = (pad' # Nil)
    <3>1. ~early' => pad' = Nil
      BY <2>5, Zenon
    <3> QED
      BY <2>1, <2>5, <3>1
  <2> QED
    BY <1>3, <2>3, <2>4, <2>5 DEF CompletePipeline
<1>4. CASE SetupLocalTrack \/ CheckPad \/ Listen
  BY <1>4 DEF SetupLocalTrack, CheckPad, Listen
<1>5. CASE \E c \in Caps : CapsChange(c)
  BY <1>5 DEF CapsChange
<1>6. CASE CheckChange \/ CreateTrack \/ Announce \/ Reply
  BY <1>6 DEF CheckChange, CreateTrack, Announce, Reply, FieldsTyped
<1>7. CASE \E k \in Tracks : Read(k)
  BY <1>7 DEF Read, StartReading, GetElement, PullSample, WriteSample
<1>8. CASE UnpublishLocalTrack \/ UnpublishTrack \/ Disconnect \/ Clear
  BY <1>8 DEF UnpublishLocalTrack, UnpublishTrack, Disconnect, Clear
<1> QED
  BY <1>1, <1>2, <1>3, <1>4, <1>5, <1>6, <1>7, <1>8 DEF Next

LEMMA OneTrackKept ==
    ASSUME TInv, Staged, OneTrack, [Next]_vars PROVE OneTrack'
<1> USE DEF TInv, OneTrack, fields, gstreamer, Panic, Handle
<1>1. CASE UNCHANGED vars
  BY <1>1 DEF vars
<1>2. CASE FirstCaps
  BY <1>2 DEF FirstCaps
<1>3. CASE CompletePipeline
  BY <1>3 DEF CompletePipeline, Staged
<1>4. CASE SetupLocalTrack \/ CheckPad \/ Listen
  BY <1>4, CapsAssumption DEF SetupLocalTrack, CheckPad, Listen, Staged, Ready
<1>5. CASE \E c \in Caps : CapsChange(c)
  BY <1>5 DEF CapsChange
<1>6. CASE CheckChange
  BY <1>6, CapsAssumption DEF CheckChange, Ready
<1>7. CASE CreateTrack \/ Announce \/ Reply
  <2>1. UNCHANGED <<bin, early, currentCaps>>
    BY <1>7 DEF CreateTrack, Announce, Reply
  <2>2. stream \in {"publish", "announce", "reply"} /\ stream' # "publish"
    BY <1>7 DEF CreateTrack, Announce, Reply, FieldsTyped
  <2>3. made' = made \/ (stream = "publish" /\ made' = made + 1)
    BY <1>7 DEF CreateTrack, Announce, Reply
  <2> QED
    BY <2>1, <2>2, <2>3
<1>8. CASE \E k \in Tracks : Read(k)
  <2>1. UNCHANGED <<fields, made, stream, early>>
    BY <1>8 DEF Read, StartReading, GetElement, PullSample, WriteSample
  <2> QED
    BY <2>1
<1>9. CASE UnpublishLocalTrack \/ UnpublishTrack \/ Disconnect \/ Clear
  BY <1>9 DEF UnpublishLocalTrack, UnpublishTrack, Disconnect, Clear
<1> QED
  BY <1>1, <1>2, <1>3, <1>4, <1>5, <1>6, <1>7, <1>8, <1>9 DEF Next

\* Who moves readers and samples.
LEMMA ReadersMove ==
    ASSUME TInv, Staged, [Next]_vars
    PROVE  /\ ~early' => ~early
           /\ \/ UNCHANGED <<reader, samples>>
              \/ UNCHANGED samples /\ reader' = [reader EXCEPT ![made] = "start"]
              \/ UNCHANGED early /\ \E k \in Tracks : Read(k)
<1>1. CASE UNCHANGED vars
  BY <1>1 DEF vars
<1>2. CASE Reply
  BY <1>2 DEF Reply
<1>3. CASE \E k \in Tracks : Read(k)
  BY <1>3 DEF Read, StartReading, GetElement, PullSample, WriteSample
<1>4. CASE CompletePipeline
  BY <1>4 DEF CompletePipeline, Staged
<1>5. CASE \/ FirstCaps \/ SetupLocalTrack \/ CheckPad \/ Listen
           \/ \E c \in Caps : CapsChange(c)
           \/ CheckChange \/ CreateTrack \/ Announce
           \/ UnpublishLocalTrack \/ UnpublishTrack \/ Disconnect \/ Clear
  BY <1>5 DEF FirstCaps, SetupLocalTrack, CheckPad, Listen, CapsChange, CheckChange,
              CreateTrack, Announce, Panic, UnpublishLocalTrack, UnpublishTrack,
              Disconnect, Clear
<1> QED
  BY <1>1, <1>2, <1>3, <1>4, <1>5 DEF Next

LEMMA OneReaderKept ==
    ASSUME TInv, Staged, OneTrack, OneReader, [Next]_vars PROVE OneReader'
<1> SUFFICES ASSUME ~early, ~early' PROVE OneReader'
  BY ReadersMove DEF OneReader
<1> USE DEF TInv, OneReader, Pulling
<1>1. reader \in [Tracks -> Readers]
  BY DEF TracksTyped
<1>2. CASE UNCHANGED reader
  BY <1>2
<1>3. CASE reader' = [reader EXCEPT ![made] = "start"]
  BY <1>1, <1>3
<1>4. ASSUME NEW k \in Tracks, StartReading(k) \/ PullSample(k) \/ WriteSample(k)
      PROVE  OneReader'
  <2>1. /\ \A j \in Tracks : j # k => reader'[j] = reader[j]
        /\ Pulling(k)' => Pulling(k)
    BY <1>1, <1>4 DEF StartReading, PullSample, WriteSample, ReaderAt
  <2> QED
    BY <2>1
<1>5. ASSUME NEW k \in Tracks, GetElement(k) PROVE OneReader'
  <2>1. CASE ~element
    BY <1>1, <1>5, <2>1 DEF GetElement, ReaderAt
  <2>2. CASE element
    <3>1. made \in Nat /\ made <= 1
      BY <2>2, BoundsAssumption DEF Staged, OneTrack, TracksTyped
    <3>2. \A j \in Tracks : reader[j] # "none" => j = 1
      BY <3>1 DEF TracksTyped, Tracks
    <3>3. \A j \in Tracks : reader'[j] # "none" => reader[j] # "none"
      BY <1>1, <1>5 DEF GetElement, ReaderAt
    <3> QED
      BY <3>2, <3>3
  <2> QED
    BY <2>1, <2>2
<1> QED
  BY <1>2, <1>3, <1>4, <1>5, ReadersMove DEF Read, samples

LEMMA OrderedKept ==
    ASSUME TInv, TInv', Staged, OneReader, Ordered, [Next]_vars PROVE Ordered'
<1> SUFFICES ASSUME ~early, ~early' PROVE Ordered'
  BY ReadersMove DEF Ordered
<1>1. /\ reader \in [Tracks -> Readers] /\ pulled \in Nat
      /\ sent \in Seq(Nat) /\ sample \in [Tracks -> Maybe(1..MaxSamples)]
      /\ \A k \in Tracks : sample[k] # Nil => sample[k] \in Nat
  <2>1. sent \in Seq(Nat)
    BY BoundsAssumption DEF TInv, SamplesTyped
  <2> QED
    BY <2>1, BoundsAssumption DEF TInv, TracksTyped, SamplesTyped, Maybe
<1> USE DEF Ordered
<1>2. CASE UNCHANGED <<reader, samples>>
  BY <1>2 DEF samples
<1>3. CASE ~(\E k \in Tracks : Read(k)) /\ ~UNCHANGED <<reader, samples>>
  <2>1. UNCHANGED samples /\ reader' = [reader EXCEPT ![made] = "start"]
    BY <1>3, ReadersMove
  <2>2. \A k \in Tracks : reader[k] = "write" => reader'[k] = "write"
    <3>1. stream = "reply" => reader[made] = "none"
      BY DEF TInv, TracksTyped
    <3>2. UNCHANGED reader \/ stream = "reply"
      BY <1>3 DEF Next, vars, FirstCaps, CompletePipeline, SetupLocalTrack, CheckPad,
             Listen, CapsChange, CheckChange, CreateTrack, Announce, Reply,
             UnpublishLocalTrack, UnpublishTrack, Disconnect, Clear
    <3> QED
      BY <1>1, <2>1, <3>1, <3>2
  <2> QED
    BY <2>1, <2>2 DEF samples
<1>4. ASSUME NEW k \in Tracks, StartReading(k) \/ GetElement(k) PROVE Ordered'
  <2>1. UNCHANGED samples
    BY <1>4 DEF StartReading, GetElement
  <2>2. \A j \in Tracks : reader[j] = "write" => reader'[j] = "write"
    BY <1>1, <1>4 DEF StartReading, GetElement, ReaderAt
  <2> QED
    BY <2>1, <2>2 DEF samples
<1>5. ASSUME NEW k \in Tracks, PullSample(k) PROVE Ordered'
  <2>1. /\ UNCHANGED sent /\ reader'[k] = "write"
        /\ \A j \in Tracks : j # k => reader'[j] = reader[j]
    BY <1>1, <1>5 DEF PullSample, ReaderAt
  <2>2. CASE UNCHANGED <<pulled, sample>>
    BY <2>1, <2>2
  <2>3. CASE pulled' = pulled + 1 /\ sample' = [sample EXCEPT ![k] = pulled + 1]
    <3>1. /\ sample'[k] = pulled + 1
          /\ \A j \in Tracks : j # k => sample'[j] = sample[j]
      BY <1>1, <2>3
    <3>2. \A i \in DOMAIN sent : sent[i] \in Nat /\ sent[i] <= pulled
      BY <1>1
    <3> QED
      BY <1>1, <2>1, <2>3, <3>1, <3>2
  <2> QED
    BY <1>5, <2>2, <2>3 DEF PullSample
<1>6. ASSUME NEW k \in Tracks, WriteSample(k) PROVE Ordered'
  <2>1. /\ UNCHANGED pulled /\ sample'[k] = Nil /\ reader[k] = "write"
        /\ \A j \in Tracks : j # k => reader'[j] = reader[j] /\ sample'[j] = sample[j]
    BY <1>1, <1>6 DEF WriteSample, ReaderAt
  <2>2. \A j \in Tracks : sample'[j] = Nil
    BY <2>1 DEF OneReader, Pulling
  <2>3. CASE sent' = sent
    BY <2>1, <2>2, <2>3
  <2>4. CASE sample[k] # Nil /\ sent' = Append(sent, sample[k])
    <3>1. sample[k] \in Nat /\ sample[k] <= pulled /\ Len(sent) \in Nat
      BY <1>1, <2>4
    <3>2. /\ DOMAIN sent' = 1..Len(sent) + 1 /\ DOMAIN sent = 1..Len(sent)
          /\ \A i \in 1..Len(sent) : sent'[i] = sent[i]
          /\ sent'[Len(sent) + 1] = sample[k]
      BY <1>1, <2>4, <3>1
    <3>3. \A i \in 1..Len(sent) : sent[i] < sample[k]
      BY <2>4, <3>2
    <3>4. \A i, j \in DOMAIN sent' : i < j => sent'[i] < sent'[j]
      BY <3>1, <3>2, <3>3
    <3>5. \A i \in DOMAIN sent' : sent'[i] <= pulled'
      BY <2>1, <3>1, <3>2
    <3> QED
      BY <2>2, <3>4, <3>5
  <2> QED
    BY <1>6, <2>3, <2>4 DEF WriteSample
<1> QED
  BY <1>2, <1>3, <1>4, <1>5, <1>6 DEF Read

OrderInv == TInv /\ Staged /\ OneTrack /\ OneReader /\ Ordered

LEMMA OrderInit == Init => OrderInv
<1> SUFFICES ASSUME Init PROVE OrderInv
  OBVIOUS
<1>1. sent = <<>> /\ DOMAIN sent = {}
  BY DEF Init
<1>2. Staged /\ OneTrack
  BY DEF Init, Staged, OneTrack
<1>3. OneReader /\ Ordered
  BY <1>1 DEF Init, OneReader, Pulling, Ordered
<1> QED
  BY <1>2, <1>3, InitTyped DEF OrderInv

LEMMA OrderKept == OrderInv /\ [Next]_vars => OrderInv'
BY StepTyped, StagedKept, OneTrackKept, OneReaderKept, OrderedKept DEF OrderInv

\* However often the caps change and whenever the publisher is destroyed, samples
\* go out in the order in which they came: a second reader never pulls from the
\* sink of the first (ReadSamples, ov3trackpublisher.go:332).
THEOREM SamplesInOrder == Spec => []InOrder
<1>1. OrderInv => InOrder
  BY DEF OrderInv, Ordered, InOrder
<1> QED
  BY <1>1, OrderInit, OrderKept, PTL DEF Spec

----------------------------------------------------------------------------
(* Leaving.  As long as no handler has overlapped unpublishParticipant, the *)
(* streaming thread is idle from the moment it begins, and stays so since   *)
(* no handler is left when it is done.                                      *)

Attached ==
    /\ caller # "done" => bin
    /\ caller # "done" =>
          ("pad" \in attached \/ stream = "listen" => element)
    /\ caller # "done" =>
          (stream \in {"publish", "announce", "reply"} /\ after = "listen" => element)

Still ==
    /\ caller = "idle" => calm
    /\ calm => /\ ~crashed
               /\ caller # "idle" => stream = "idle"
               /\ caller \in {"clear", "done"} => attached = {}
               /\ stream \in {"announce", "reply"} => track = made

\* Which tracks are published and read.
Known ==
    caller = "idle" => \A k \in Tracks : reader[k] # "none" => k \in published

Withdrawn ==
    calm /\ ~early =>
        /\ caller = "idle" => published = {} \/ (track # Nil /\ published = {sid})
        /\ caller = "withdraw" => endStream /\ published \in {{}, {sid}}
        /\ caller \in {"destroy", "clear", "done"} =>
              published = {} /\ (endStream \/ \A k \in Tracks : reader[k] = "none")

LEMMA AttachedKept ==
    ASSUME TInv, Attached, [Next]_vars PROVE Attached'
<1> USE DEF TInv, Attached, FieldsTyped, fields, gstreamer, Panic, Handle
<1>1. CASE UNCHANGED vars
  BY <1>1 DEF vars
<1>2. CASE FirstCaps
  BY <1>2 DEF FirstCaps
<1>3. CASE CompletePipeline
  BY <1>3 DEF CompletePipeline
<1>4. CASE SetupLocalTrack \/ CheckPad \/ Listen
  BY <1>4 DEF SetupLocalTrack, CheckPad, Listen
<1>5. CASE \E c \in Caps : CapsChange(c)
  BY <1>5 DEF CapsChange
<1>6. CASE CheckChange \/ CreateTrack \/ Announce \/ Reply
  BY <1>6 DEF CheckChange, CreateTrack, Announce, Reply
<1>7. CASE \E k \in Tracks : Read(k)
  BY <1>7 DEF Read, StartReading, GetElement, PullSample, WriteSample
<1>8. CASE UnpublishLocalTrack \/ UnpublishTrack \/ Disconnect \/ Clear
  BY <1>8 DEF UnpublishLocalTrack, UnpublishTrack, Disconnect, Clear
<1> QED
  BY <1>1, <1>2, <1>3, <1>4, <1>5, <1>6, <1>7, <1>8 DEF Next

LEMMA StillKept ==
    ASSUME TInv, Attached, Still, [Next]_vars PROVE Still'
<1> USE DEF TInv, Flags, Still, fields, gstreamer, Handle
<1>1. CASE UNCHANGED vars
  BY <1>1 DEF vars
<1>2. CASE FirstCaps
  <2>1. calm' <=> calm /\ caller \in {"idle", "done"}
    BY <1>2, Zenon DEF FirstCaps
  <2> QED
    BY <1>2, <2>1 DEF FirstCaps
<1>3. CASE CompletePipeline
  <2>1. calm => bin /\ caller = "idle"
    BY <1>3 DEF CompletePipeline, Attached
  <2>2. UNCHANGED <<calm, caller, attached>> /\ stream' \in {"complete", "setup"}
    BY <1>3 DEF CompletePipeline, Panic
  <2>3. calm => ~crashed'
    BY <1>3, <2>1 DEF CompletePipeline
  <2> QED
    BY <2>1, <2>2, <2>3
<1>4. CASE SetupLocalTrack \/ CheckPad \/ Listen
  BY <1>4 DEF SetupLocalTrack, CheckPad, Listen
<1>5. ASSUME NEW c \in Caps, CapsChange(c) PROVE Still'
  <2>1. CASE "pad" \in attached
    <3>1. calm' <=> calm /\ caller \in {"idle", "done"}
      BY <1>5, <2>1, Zenon DEF CapsChange
    <3> QED
      BY <1>5, <2>1, <3>1 DEF CapsChange
  <2>2. CASE "pad" \notin attached
    BY <1>5, <2>2 DEF CapsChange
  <2> QED
    BY <2>1, <2>2
<1>6. CASE CheckChange
  BY <1>6 DEF CheckChange
<1>7. CASE CreateTrack
  BY <1>7 DEF CreateTrack, FieldsTyped
<1>8. CASE Announce
  <2>1. calm => track # Nil
    <3>1. stream = "announce" => made \in Nat /\ Nil \notin Nat
      BY CapsAssumption, BoundsAssumption DEF TracksTyped
    <3> QED
      BY <1>8, <3>1 DEF Announce
  <2> QED
    BY <1>8, <2>1 DEF Announce
<1>9. CASE Reply
  BY <1>9 DEF Reply, FieldsTyped
<1>10. CASE \E k \in Tracks : Read(k)
  BY <1>10 DEF Read, StartReading, GetElement, PullSample, WriteSample
<1>11. CASE UnpublishLocalTrack
  <2>1. calm' => stream = "idle"
    BY <1>11, Zenon DEF UnpublishLocalTrack
  <2>2. caller = "idle" /\ caller' \in {"destroy", "withdraw"}
        /\ UNCHANGED <<stream, crashed>>
    BY <1>11 DEF UnpublishLocalTrack
  <2> QED
    BY <2>1, <2>2
<1>12. CASE UnpublishTrack
  BY <1>12 DEF UnpublishTrack
<1>13. CASE Disconnect
  <2>1. calm => attached' = {}
    BY <1>13 DEF Disconnect, Attached, FieldsTyped
  <2> QED
    BY <1>13, <2>1 DEF Disconnect
<1>14. CASE Clear
  BY <1>14 DEF Clear
<1> QED
  BY <1>1, <1>2, <1>3, <1>4, <1>5, <1>6, <1>7, <1>8, <1>9, <1>10, <1>11, <1>12,
     <1>13, <1>14 DEF Next

LEMMA KnownKept ==
    ASSUME TInv, Known, [Next]_vars PROVE Known'
<1> USE DEF Known
<1>1. reader \in [Tracks -> Readers]
  BY DEF TInv, TracksTyped
<1>2. CASE UNCHANGED <<published, reader>> /\ (caller' = "idle" => caller = "idle")
  BY <1>2
<1>3. CASE Reply
  BY <1>1, <1>3 DEF Reply
<1>4. ASSUME NEW k \in Tracks, Read(k) PROVE Known'
  <2>1. /\ UNCHANGED <<published, caller>> /\ reader[k] # "none"
        /\ \A j \in Tracks : j # k => reader'[j] = reader[j]
    BY <1>1, <1>4 DEF Read, StartReading, GetElement, PullSample, WriteSample, ReaderAt
  <2> QED
    BY <2>1
<1>5. CASE UnpublishTrack
  BY <1>5 DEF UnpublishTrack
<1>6. \/ UNCHANGED <<published, reader>> /\ (caller' = "idle" => caller = "idle")
      \/ Reply \/ (\E k \in Tracks : Read(k)) \/ UnpublishTrack
  BY DEF Next, vars, FirstCaps, CompletePipeline, SetupLocalTrack, CheckPad, Listen,
         CapsChange, CheckChange, CreateTrack, Announce, UnpublishLocalTrack,
         Disconnect, Clear
<1> QED
  BY <1>2, <1>3, <1>4, <1>5, <1>6

LEMMA WithdrawnKept ==
    ASSUME TInv, Staged, OneTrack, Attached, Still, Known, Withdrawn, [Next]_vars
    PROVE  Withdrawn'
<1> SUFFICES ASSUME calm', ~early', ~early PROVE Withdrawn'
  BY ReadersMove DEF Withdrawn
<1> USE DEF TInv, Flags, Withdrawn, fields, samples
<1>1. CASE UNCHANGED vars
  BY <1>1 DEF vars
<1>2. CASE FirstCaps
  <2>1. calm
    BY <1>2, Zenon DEF FirstCaps, Handle
  <2> QED
    BY <1>2, <2>1 DEF FirstCaps
<1>3. ASSUME NEW c \in Caps, CapsChange(c) PROVE Withdrawn'
  <2>1. calm
    BY <1>3, Zenon DEF CapsChange, Handle
  <2> QED
    BY <1>3, <2>1 DEF CapsChange
<1>4. CASE CompletePipeline \/ SetupLocalTrack \/ CheckPad \/ Listen
  BY <1>4 DEF CompletePipeline, SetupLocalTrack, CheckPad, Listen, Panic
<1>5. CASE CheckChange \/ Announce
  BY <1>5 DEF CheckChange, Announce, Panic
<1>6. CASE CreateTrack
  <2>1. caller = "idle" /\ bin /\ stream = "publish"
    BY <1>6 DEF CreateTrack, Still, Attached, FieldsTyped
  <2>2. made = 0 /\ published = {}
    BY <2>1, BoundsAssumption DEF OneTrack, TracksTyped
  <2> QED
    BY <1>6, <2>1, <2>2 DEF CreateTrack
<1>7. CASE Reply
  <2>1. caller = "idle" /\ bin /\ stream = "reply" /\ track = made
    BY <1>7 DEF Reply, Still, Attached
  <2>2. made = 1 /\ published = {}
    BY <2>1, BoundsAssumption DEF OneTrack, TracksTyped, Tracks
  <2>3. Nil # 1
    BY CapsAssumption
  <2> QED
    BY <1>7, <2>1, <2>2, <2>3 DEF Reply
<1>8. ASSUME NEW k \in Tracks, Read(k) PROVE Withdrawn'
  <2>1. /\ UNCHANGED <<fields, published, caller, calm>> /\ reader[k] # "none"
    BY <1>8 DEF Read, StartReading, GetElement, PullSample, WriteSample, ReaderAt
  <2> QED
    BY <2>1
<1>9. CASE UnpublishLocalTrack
  <2>1. calm /\ caller = "idle"
    BY <1>9 DEF UnpublishLocalTrack, Still
  <2>2. CASE track = Nil /\ caller' = "destroy" /\ UNCHANGED <<track, endStream>>
    <3>1. published = {} /\ \A k \in Tracks : reader[k] = "none"
      BY <2>1, <2>2 DEF Known
    <3> QED
      BY <1>9, <2>2, <3>1 DEF UnpublishLocalTrack
  <2>3. CASE track # Nil /\ caller' = "withdraw" /\ track' = Nil /\ endStream' = TRUE
    BY <1>9, <2>1, <2>3 DEF UnpublishLocalTrack
  <2> QED
    BY <1>9, <2>2, <2>3 DEF UnpublishLocalTrack
<1>10. CASE UnpublishTrack
  BY <1>10 DEF UnpublishTrack
<1>11. CASE Disconnect \/ Clear
  BY <1>11 DEF Disconnect, Clear
<1> QED
  BY <1>1, <1>2, <1>3, <1>4, <1>5, <1>6, <1>7, <1>8, <1>9, <1>10, <1>11 DEF Next

LeaveInv == OrderInv /\ Attached /\ Still /\ Known /\ Withdrawn

\* A participant that stops publishing while no caps handler runs leaves neither
\* a track nor a reader behind, and no panic, at whatever stage its publisher was
\* and whatever had failed (UnpublishLocalTrack and DestroyTrackPublisher,
\* ov3trackpublisher.go:507, :613).
THEOREM NothingStays == Spec => []LeavesNothing
<1>1. Init => LeaveInv
  <2> SUFFICES ASSUME Init PROVE LeaveInv
    OBVIOUS
  <2>1. Attached /\ Still /\ Known /\ Withdrawn
    BY DEF Init, Attached, Still, Known, Withdrawn
  <2> QED
    BY <2>1, OrderInit DEF LeaveInv
<1>2. LeaveInv /\ [Next]_vars => LeaveInv'
  BY OrderKept, AttachedKept, StillKept, KnownKept, WithdrawnKept DEF LeaveInv, OrderInv
<1>3. LeaveInv => LeavesNothing
  BY DEF LeaveInv, Still, Withdrawn, LeavesNothing
<1> QED
  BY <1>1, <1>2, <1>3, PTL DEF Spec
=============================================================================
