-------------------------- MODULE AppWriterProofs --------------------------
(***************************************************************************)
(* What a writer does after it has been told to end, that it never waits   *)
(* for a stopped ticker, and that its retransmission task changes nothing  *)
(* of this and keeps within its channel, for any number of calls and       *)
(* probes.                                                                 *)
(***************************************************************************)
EXTENDS Retransmissions, TLAPS

\* What has been pushed late was pushed with the fuse broken, and none of it
\* while run is between the test of the fuse and the push.
LateInv == /\ late \in {0, 1}
           /\ late = 1 => endStream
           /\ pc \in {"read", "push"} => late = 0

\* The ticker runs while the writer is paused, or the next test ends it.
TickerInv ==
    /\ pc \in {"start", "read", "push", "error", "errorMuted"} => state # "muted"
    /\ pc \in {"paused", "pausedMuted", "tick"} => state = "muted" /\ ticker = "running"
    /\ pc = "test" /\ state = "muted" => ticker = "running" \/ endStream

WInv == TypeOK /\ LateInv /\ TickerInv

LEMMA InitWriter == Init => WInv
<1>1. Init => TypeOK
  <2>1. Init => /\ muted \in BOOLEAN /\ over \in BOOLEAN /\ timer \in BOOLEAN
                /\ endStream \in BOOLEAN /\ finished \in BOOLEAN /\ rtx \in BOOLEAN
    BY Zenon DEF Init
  <2> QED
    BY <2>1 DEF Init, TypeOK
<1>2. Init => LateInv
  BY DEF Init, LateInv
<1>3. Init => TickerInv
  BY DEF Init, TickerInv
<1> QED
  BY <1>1, <1>2, <1>3 DEF WInv

\* The steps of run.
LEMMA RunKeeps ==
    ASSUME WInv, Run
    PROVE  WInv'
<1> USE FailuresAssumption DEF WInv, TypeOK, LateInv, TickerInv, Goto, control, fuses
<1>1. CASE Start
  BY <1>1 DEF Start
<1>2. CASE TestEnd
  BY <1>2 DEF TestEnd
<1>3. CASE HandlePlaying
  BY <1>3 DEF HandlePlaying
<1>4. CASE PushPacket
  BY <1>4 DEF PushPacket
<1>5. CASE PushFails
  BY <1>5 DEF PushFails
<1>6. CASE HandleReadError
  <2>1. TypeOK'
    <3>1. endStream' \in BOOLEAN
      BY <1>6 DEF HandleReadError
    <3> QED
      BY <1>6, <3>1 DEF HandleReadError
  <2>2. LateInv'
    BY <1>6 DEF HandleReadError
  <2>3. TickerInv'
    BY <1>6 DEF HandleReadError
  <2> QED
    BY <2>1, <2>2, <2>3
<1>7. CASE PauseOrEnd
  <2>1. TypeOK'
    BY <1>7 DEF PauseOrEnd
  <2>2. LateInv'
    BY <1>7 DEF PauseOrEnd
  <2>3. TickerInv'
    BY <1>7 DEF PauseOrEnd
  <2> QED
    BY <2>1, <2>2, <2>3
<1>8. CASE HandleMuted
  BY <1>8 DEF HandleMuted
<1>9. CASE ResumeOrTick
  BY <1>9 DEF ResumeOrTick
<1>10. CASE Tick
  BY <1>10 DEF Tick
<1>11. CASE EndRetransmissions
  <2>1. TypeOK'
    BY <1>11 DEF EndRetransmissions
  <2>2. LateInv'
    BY <1>11 DEF EndRetransmissions
  <2>3. TickerInv'
    BY <1>11 DEF EndRetransmissions
  <2> QED
    BY <2>1, <2>2, <2>3
<1>12. CASE BreakDraining
  BY <1>12 DEF BreakDraining
<1>13. CASE Finish
  BY <1>13 DEF Finish
<1> QED
  BY <1>1, <1>2, <1>3, <1>4, <1>5, <1>6, <1>7, <1>8, <1>9, <1>10, <1>11,
     <1>12, <1>13 DEF Run

\* The steps of Drain.
LEMMA DrainKeeps ==
    ASSUME WInv, NEW d \in Drainers,
           \/ \E force \in BOOLEAN : Drain(d, force)
           \/ EndOrWait(d) \/ CloseDraining(d)
    PROVE  WInv'
<1> USE DEF WInv, TypeOK, LateInv, TickerInv, control, fuses
<1>1. ASSUME NEW force \in BOOLEAN, Drain(d, force)
      PROVE  WInv'
  BY <1>1 DEF Drain
<1>2. CASE EndOrWait(d)
  <2>1. CASE endStream' = TRUE /\ UNCHANGED timer
    <3>1. endStream' \in BOOLEAN /\ timer' \in BOOLEAN
      BY <2>1
    <3> QED
      BY <1>2, <2>1, <3>1 DEF EndOrWait
  <2>2. CASE timer' = TRUE /\ UNCHANGED endStream
    <3>1. endStream' \in BOOLEAN /\ timer' \in BOOLEAN
      BY <2>2
    <3> QED
      BY <1>2, <2>2, <3>1 DEF EndOrWait
  <2> QED
    BY <1>2, <2>1, <2>2 DEF EndOrWait
<1>3. CASE CloseDraining(d)
  BY <1>3 DEF CloseDraining
<1> QED
  BY <1>1, <1>2, <1>3

\* The timer, the room and the SDK.
LEMMA OthersKeep ==
    ASSUME WInv,
           \/ DrainTimeout \/ \E m \in BOOLEAN : SetTrackMuted(m)
           \/ Unsubscribed \/ TrackOver
    PROVE  WInv'
<1> USE DEF WInv, TypeOK, LateInv, TickerInv, control, fuses
<1>1. CASE DrainTimeout
  <2>1. timer' \in BOOLEAN /\ endStream' \in BOOLEAN
    BY <1>1 DEF DrainTimeout
  <2> QED
    BY <1>1, <2>1 DEF DrainTimeout
<1>2. ASSUME NEW m \in BOOLEAN, SetTrackMuted(m)
      PROVE  WInv'
  <2>1. muted' \in BOOLEAN
    BY <1>2 DEF SetTrackMuted
  <2> QED
    BY <1>2, <2>1 DEF SetTrackMuted
<1>3. CASE Unsubscribed
  <2>1. endStream' \in BOOLEAN
    BY <1>3 DEF Unsubscribed
  <2> QED
    BY <1>3, <2>1 DEF Unsubscribed
<1>4. CASE TrackOver
  <2>1. over' \in BOOLEAN
    BY <1>4 DEF TrackOver
  <2> QED
    BY <1>4, <2>1 DEF TrackOver
<1> QED
  BY <1>1, <1>2, <1>3, <1>4

LEMMA WriterInvariant == Spec => []WInv
<1>1. ASSUME WInv, [Next]_wvars
      PROVE  WInv'
  <2>1. CASE UNCHANGED wvars
    BY <1>1, <2>1 DEF WInv, TypeOK, LateInv, TickerInv, wvars, control, fuses
  <2> QED
    BY <1>1, <2>1, RunKeeps, DrainKeeps, OthersKeep DEF Next
<1> QED
  BY InitWriter, <1>1, PTL DEF Spec

\* Every variable of a writer keeps its type.
THEOREM WriterTypes == Spec => []TypeOK
<1>1. WInv => TypeOK
  BY DEF WInv
<1> QED
  BY <1>1, WriterInvariant, PTL

\* A writer pushes at most the packet it is reading when it is told to end.
THEOREM LateAtMostOnce == Spec => []AtMostOneLate
<1>1. WInv => AtMostOneLate
  BY DEF WInv, LateInv, AtMostOneLate
<1> QED
  BY <1>1, WriterInvariant, PTL

\* A paused writer waits for a ticker that ticks.
THEOREM PausesTick == Spec => []PausedTicks
<1>1. WInv => PausedTicks
  BY DEF WInv, TickerInv, PausedTicks
<1> QED
  BY <1>1, WriterInvariant, PTL

----------------------------------------------------------------------------
(* The writer with its retransmission task.                                *)

\* The task and the probes read the writer's flags and change none of them: a
\* writer with them is a writer, and what is proved of run holds with them.
THEOREM TaskOnlyReads == RtxSpec => Spec
<1>1. RtxInit => Init
  BY DEF RtxInit
<1>2. ASSUME [RtxNext]_vars
      PROVE  [Next]_wvars
  <2>1. CASE UNCHANGED vars
    BY <2>1 DEF vars
  <2>2. CASE Next /\ UNCHANGED rvars
    BY <2>2
  <2>3. CASE \E p \in Probes : Enqueue(p) \/ \E n \in SeqNums : Lost(p, n)
    BY <2>3 DEF Enqueue, Lost
  <2>4. CASE Task
    BY <2>4 DEF Task, TestTask, ReceiveFirst, ReceiveMore, EndBurst, Nap, SendNack
  <2> QED
    BY <1>2, <2>1, <2>2, <2>3, <2>4 DEF RtxNext
<1> QED
  BY <1>1, <1>2, PTL DEF Spec, RtxSpec

\* What a receive takes from the channel.
LEMMA ReceiveTypes ==
    ASSUME RtxTypeOK, Receive
    PROVE  /\ Head(queue) \in SeqNums
           /\ queue' \in Seq(SeqNums) /\ Len(queue') <= Burst
BY BurstAssumption DEF RtxTypeOK, Receive

LEMMA ProbesKeepTypes ==
    ASSUME RtxTypeOK, NEW p \in Probes, Enqueue(p) \/ \E n \in SeqNums : Lost(p, n)
    PROVE  RtxTypeOK'
<1>1. CASE Enqueue(p)
  <2>1. probe[p] \in SeqNums
    BY <1>1 DEF Enqueue, RtxTypeOK
  <2>2. queue' \in Seq(SeqNums) /\ Len(queue') <= Burst
    <3>1. CASE Len(queue) < Burst
      BY <1>1, <2>1, <3>1, BurstAssumption DEF Enqueue, RtxTypeOK
    <3>2. CASE ~ (Len(queue) < Burst)
      BY <1>1, <3>2 DEF Enqueue, RtxTypeOK
    <3> QED
      BY <3>1, <3>2
  <2> QED
    BY <1>1, <2>2 DEF Enqueue, RtxTypeOK
<1>2. CASE \E n \in SeqNums : Lost(p, n)
  BY <1>2 DEF Lost, RtxTypeOK
<1> QED
  BY <1>1, <1>2

LEMMA TaskKeepsTypes ==
    ASSUME RtxTypeOK, Task
    PROVE  RtxTypeOK'
<1>1. CASE TestTask
  BY <1>1 DEF TestTask, RtxTypeOK
<1>2. CASE ReceiveFirst
  BY <1>2, ReceiveTypes, BurstAssumption DEF ReceiveFirst, RtxTypeOK, Blank
<1>3. CASE ReceiveMore
  BY <1>3, ReceiveTypes, BurstAssumption DEF ReceiveMore, RtxTypeOK
<1>4. CASE EndBurst
  BY <1>4, BurstAssumption DEF EndBurst, RtxTypeOK
<1>5. CASE Nap
  BY <1>5, BurstAssumption DEF Nap, RtxTypeOK, Blank
<1>6. CASE SendNack
  BY <1>6 DEF SendNack, RtxTypeOK
<1> QED
  BY <1>1, <1>2, <1>3, <1>4, <1>5, <1>6 DEF Task

\* The channel never holds more than its capacity, however many probes ask at
\* once, and a burst takes no more than its size: what retransmitPacket drops
\* is all that can be lost.
THEOREM ChannelBounded == RtxSpec => []RtxTypeOK
<1>1. RtxInit => RtxTypeOK
  BY BurstAssumption DEF RtxInit, RtxTypeOK
<1>2. ASSUME RtxTypeOK, [RtxNext]_vars
      PROVE  RtxTypeOK'
  <2>1. CASE UNCHANGED rvars
    BY <1>2, <2>1 DEF rvars, RtxTypeOK
  <2> QED
    BY <1>2, <2>1, ProbesKeepTypes, TaskKeepsTypes DEF RtxNext, vars
<1> QED
  BY <1>1, <1>2, PTL DEF RtxSpec
=============================================================================
