----------------------------- MODULE AppWriter -----------------------------
(***************************************************************************)
(* One AppWriter: the goroutine of run, which reads the packets of a track *)
(* and pushes them to the subscribers, and those who steer it through its  *)
(* mute flag and its fuses (appwriter.go).                                 *)
(*                                                                         *)
(* To whom a packet is pushed is left to RoomSubscriptions, when a key     *)
(* frame is asked for to KeyFrameRequests, and the requests for lost       *)
(* packets to Retransmissions, which extends this module.                  *)
(***************************************************************************)
EXTENDS Naturals

CONSTANTS
    Drainers,       \* threads that call Drain; none does in the repository
    Failures        \* the ways in which a read may fail before the track ends

\* "small": the buffer is too small; "failed": any error not named here.
ASSUME FailuresAssumption == Failures \subseteq {"timeout", "small", "failed"}

VARIABLES
    pc,         \* where run is
    err,        \* run: the error of ReadRTP, while it is handled
    state,      \* what run does with the track
    ticker,     \* paces run while it is muted
    muted,      \* set by the callbacks of the room
    over,       \* SDK: the track has ended, reads return io.EOF
    draining, endStream, finished,  \* the fuses; draining may be "busy"
    timer,      \* Drain: endStream.Break is due after drainTimeout
    drain,      \* where each call of Drain is
    rtx,        \* requests for lost packets are taken
    late        \* history: packets pushed although endStream was broken

control == <<muted, over>>
fuses   == <<draining, endStream, finished>>
wvars   == <<pc, err, state, ticker, control, fuses, timer, drain, rtx, late>>

\* One type invariant: what run, its callers and the fuses can be.
TypeOK ==
    /\ pc \in {"start", "test", "read", "push", "error", "errorMuted", "paused",
               "pausedMuted", "tick", "end", "drained", "finish", "done"}
    /\ err \in Failures \cup {"none", "eof"}
    /\ state \in {"playing", "muted", "unmuting"}
    /\ ticker \in {"none", "running", "stopped"}
    /\ muted \in BOOLEAN /\ over \in BOOLEAN
    /\ draining \in {"whole", "busy", "broken"}
    /\ endStream \in BOOLEAN /\ finished \in BOOLEAN
    /\ timer \in BOOLEAN
    /\ drain \in [Drainers -> {"idle", "forced", "gentle", "close", "returned"}]
    /\ rtx \in BOOLEAN
    /\ late \in Nat

\* createWriter, up to the start of the goroutine.
Init ==
    /\ pc = "start" /\ err = "none"
    /\ state = "playing" /\ ticker = "none"
    /\ muted = FALSE /\ over = FALSE
    /\ draining = "whole" /\ endStream = FALSE /\ finished = FALSE
    /\ timer = FALSE
    /\ drain = [d \in Drainers |-> "idle"]
    /\ rtx = TRUE
    /\ late = 0

----------------------------------------------------------------------------
(* The goroutine of run. *)

Goto(label) == pc' = label

\* EnterInGap changes nothing for the codecs that createWriter accepts but the
\* flag of an audio writer, which only the probes of a video bin read.
Start ==
    /\ pc = "start" /\ Goto("test")
    /\ UNCHANGED <<err, state, ticker, control, fuses, timer, drain, rtx, late>>

TestEnd ==
    /\ pc = "test"
    /\ Goto(IF endStream THEN "end" ELSE IF state = "muted" THEN "paused" ELSE "read")
    /\ UNCHANGED <<err, state, ticker, control, fuses, timer, drain, rtx, late>>

\* ReadRTP, which its deadline ends after half a second; a packet ends the
\* unmuting in pushSamples.
HandlePlaying ==
    /\ pc = "read"
    /\ \/ /\ ~over
          /\ state' = IF state = "unmuting" THEN "playing" ELSE state
          /\ Goto("push") /\ UNCHANGED err
       \/ /\ err' \in IF over THEN {"eof"} ELSE Failures
          /\ Goto("error") /\ UNCHANGED state
    /\ UNCHANGED <<ticker, control, fuses, timer, drain, rtx, late>>

\* Mutant: the packets that have come are pushed without a look at the fuse.
PushesOn ==
    /\ pc = "push" /\ Goto("read")
    /\ late' = IF endStream THEN late + 1 ELSE late
    /\ UNCHANGED <<err, state, ticker, control, fuses, timer, drain, rtx>>

PushPacket ==
    /\ pc = "push" /\ Goto("test")
    /\ late' = IF endStream THEN late + 1 ELSE late
    /\ UNCHANGED <<err, state, ticker, control, fuses, timer, drain, rtx>>

\* A packet that cannot be marshalled: draining.Once(endStream.Break), which
\* waits for a Drain that has begun and does nothing after it.
PushFails ==
    /\ pc = "push" /\ Goto("test")
    /\ draining # "busy"
    /\ draining' = "broken"
    /\ endStream' = (endStream \/ draining = "whole")
    /\ UNCHANGED <<err, state, ticker, control, finished, timer, drain, rtx, late>>

\* handleReadError, up to the test of the mute flag.
HandleReadError ==
    /\ pc = "error"
    /\ \/ /\ draining = "broken"
          /\ endStream' = TRUE
          /\ Goto("test") /\ err' = "none"
       \/ /\ draining # "broken" /\ err = "small"
          /\ Goto("test") /\ err' = "none"
          /\ UNCHANGED endStream
       \/ /\ draining # "broken" /\ err # "small"
          /\ Goto("errorMuted")
          /\ UNCHANGED <<err, endStream>>
    /\ UNCHANGED <<state, ticker, control, draining, finished, timer, drain, rtx, late>>

\* Mutant: the ticker of the first pause is kept.
KeepsTicker ==
    /\ pc = "errorMuted" /\ Goto("test")
    /\ \/ /\ muted
          /\ ticker' = (IF ticker = "none" THEN "running" ELSE ticker)
          /\ state' = "muted"
          /\ UNCHANGED endStream
       \/ /\ ~muted
          /\ endStream' = (endStream \/ err # "timeout")
          /\ UNCHANGED <<ticker, state>>
    /\ err' = "none"
    /\ UNCHANGED <<control, draining, finished, timer, drain, rtx, late>>

\* Mutant: any error is taken for a timeout, and the track read again.
RetriesAlways ==
    /\ pc = "errorMuted" /\ Goto("test")
    /\ IF muted THEN ticker' = "running" /\ state' = "muted"
                ELSE UNCHANGED <<ticker, state>>
    /\ err' = "none"
    /\ UNCHANGED <<control, fuses, timer, drain, rtx, late>>

\* Mutant: an error puts the writer into a state that run does not know.
EndedState ==
    /\ pc = "errorMuted" /\ Goto("test")
    /\ ticker' = (IF muted THEN "running" ELSE ticker)
    /\ state' = (IF muted THEN "muted" ELSE IF err = "timeout" THEN state ELSE "ended")
    /\ err' = "none"
    /\ UNCHANGED <<control, fuses, timer, drain, rtx, late>>

\* The rest of handleReadError: a muted writer pauses whatever the error was.
PauseOrEnd ==
    /\ pc = "errorMuted" /\ Goto("test")
    /\ \/ /\ muted
          /\ ticker' = "running" /\ state' = "muted"
          /\ UNCHANGED endStream
       \/ /\ ~muted
          /\ endStream' = (endStream \/ err # "timeout")
          /\ UNCHANGED <<ticker, state>>
    /\ err' = "none"
    /\ UNCHANGED <<control, draining, finished, timer, drain, rtx, late>>

HandleMuted ==
    /\ pc = "paused"
    /\ \/ /\ draining = "broken"
          /\ ticker' = "stopped" /\ endStream' = TRUE
          /\ Goto("test")
       \/ /\ draining # "broken"
          /\ Goto("pausedMuted")
          /\ UNCHANGED <<ticker, endStream>>
    /\ UNCHANGED <<err, state, control, draining, finished, timer, drain, rtx, late>>

\* Mutant: the writer waits for its ticker before it looks at the mute flag.
TicksOn ==
    /\ pc = "pausedMuted" /\ Goto("tick")
    /\ UNCHANGED <<err, state, ticker, control, fuses, timer, drain, rtx, late>>

ResumeOrTick ==
    /\ pc = "pausedMuted"
    /\ \/ /\ ~muted
          /\ ticker' = "stopped" /\ state' = "unmuting"
          /\ Goto("test")
       \/ /\ muted
          /\ Goto("tick")
          /\ UNCHANGED <<ticker, state>>
    /\ UNCHANGED <<err, control, fuses, timer, drain, rtx, late>>

Tick ==
    /\ pc = "tick" /\ ticker = "running" /\ Goto("test")
    /\ UNCHANGED <<err, state, ticker, control, fuses, timer, drain, rtx, late>>

\* The channel of the retransmissions stays open: its close is commented out.
EndRetransmissions ==
    /\ pc = "end" /\ Goto("drained")
    /\ rtx' = FALSE
    /\ UNCHANGED <<err, state, ticker, control, fuses, timer, drain, late>>

BreakDraining ==
    /\ pc = "drained" /\ Goto("finish")
    /\ draining # "busy" /\ draining' = "broken"
    /\ UNCHANGED <<err, state, ticker, control, endStream, finished, timer, drain, rtx, late>>

Finish ==
    /\ pc = "finish" /\ Goto("done")
    /\ finished' = TRUE
    /\ UNCHANGED <<err, state, ticker, control, draining, endStream, timer, drain, rtx, late>>

Run == \/ Start \/ TestEnd \/ HandlePlaying \/ PushPacket \/ PushFails
       \/ HandleReadError \/ PauseOrEnd \/ HandleMuted \/ ResumeOrTick \/ Tick
       \/ EndRetransmissions \/ BreakDraining \/ Finish

----------------------------------------------------------------------------
(* Drain, and the timer that it may leave behind. *)

\* The first caller runs the function of the fuse; another waits for it to
\* finish, or returns at once.
Drain(d, force) ==
    /\ drain[d] = "idle"
    /\ \/ /\ draining = "whole" /\ draining' = "busy"
          /\ drain' = [drain EXCEPT ![d] = IF force THEN "forced" ELSE "gentle"]
       \/ /\ draining = "broken" /\ UNCHANGED draining
          /\ drain' = [drain EXCEPT ![d] = "returned"]
    /\ UNCHANGED <<pc, err, state, ticker, control, endStream, finished, timer, rtx, late>>

\* Mutant: a gentle Drain leaves it to run to find out.
WaitsOnly(d) ==
    /\ drain[d] \in {"forced", "gentle"}
    /\ drain' = [drain EXCEPT ![d] = "close"]
    /\ endStream' = (endStream \/ drain[d] = "forced" \/ muted)
    /\ UNCHANGED <<pc, err, state, ticker, control, draining, finished, timer, rtx, late>>

EndOrWait(d) ==
    /\ drain[d] \in {"forced", "gentle"}
    /\ drain' = [drain EXCEPT ![d] = "close"]
    /\ \/ /\ drain[d] = "forced" \/ muted
          /\ endStream' = TRUE /\ UNCHANGED timer
       \/ /\ drain[d] = "gentle" /\ ~muted
          /\ timer' = TRUE /\ UNCHANGED endStream
    /\ UNCHANGED <<pc, err, state, ticker, control, draining, finished, rtx, late>>

CloseDraining(d) ==
    /\ drain[d] = "close"
    /\ drain' = [drain EXCEPT ![d] = "returned"]
    /\ draining' = "broken"
    /\ UNCHANGED <<pc, err, state, ticker, control, endStream, finished, timer, rtx, late>>

DrainTimeout ==
    /\ timer /\ timer' = FALSE
    /\ endStream' = TRUE
    /\ UNCHANGED <<pc, err, state, ticker, control, draining, finished, drain, rtx, late>>

----------------------------------------------------------------------------
(* The room and the SDK. *)

SetTrackMuted(m) ==
    /\ muted # m /\ muted' = m
    /\ UNCHANGED <<pc, err, state, ticker, over, fuses, timer, drain, rtx, late>>

\* The room unsubscribes, or the SDK reports that it has.
Unsubscribed ==
    /\ ~endStream /\ endStream' = TRUE
    /\ UNCHANGED <<pc, err, state, ticker, control, draining, finished, timer, drain, rtx, late>>

TrackOver ==
    /\ ~over /\ over' = TRUE
    /\ UNCHANGED <<pc, err, state, ticker, muted, fuses, timer, drain, rtx, late>>

Next == \/ Run
        \/ \E d \in Drainers : \/ \E force \in BOOLEAN : Drain(d, force)
                               \/ EndOrWait(d) \/ CloseDraining(d)
        \/ DrainTimeout
        \/ \E m \in BOOLEAN : SetTrackMuted(m)
        \/ Unsubscribed \/ TrackOver

\* Goroutines are scheduled, reads have a deadline, tickers and timers fire.
Fairness == /\ WF_wvars(Run)
            /\ \A d \in Drainers : WF_wvars(EndOrWait(d)) /\ WF_wvars(CloseDraining(d))
            /\ WF_wvars(DrainTimeout)

Spec     == Init /\ [][Next]_wvars
FairSpec == Spec /\ Fairness

----------------------------------------------------------------------------
(* Properties. *)

\* Whoever breaks endStream, and wherever run is then, at most the packet that
\* is being read is still pushed (run tests the fuse between two packets).
AtMostOneLate == late <= 1

\* A paused writer never waits for a ticker that has been stopped, however
\* often it has been muted and unmuted: it would not see that it has to end.
PausedTicks == pc = "tick" => ticker = "running"

\* A writer that has been told to end ends: from a pause, from a read, from an
\* error, and while a Drain is under way.
WriterEnds == endStream ~> finished

\* A drained writer ends, by the timer at the latest.
DrainEnds == \A d \in Drainers : drain[d] = "returned" ~> finished

\* A paused writer notices that its track has been unmuted.
UnmutedResumes ==
    (state = "muted" /\ ~muted) ~> (state # "muted" \/ muted \/ finished)

\* The writer of a track that has ended ends, unless it has been muted: a muted
\* writer takes any error, io.EOF too, for the silence of a muted track.
EndOfTrackEnds == (over /\ ~muted) ~> (muted \/ finished)
=============================================================================
