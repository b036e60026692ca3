-------------------------- MODULE Retransmissions --------------------------
(***************************************************************************)
(* The retransmissions of an AppWriter: probes in the pipelines of the     *)
(* subscribers ask for lost packets (retransmitPacket), the goroutine of   *)
(* RetransmissionsTask collects what they ask for and sends it as one      *)
(* NACK.  They share a channel, and with run the flag rtx and the fuse     *)
(* endStream.                                                              *)
(***************************************************************************)
EXTENDS AppWriter, Sequences, SequencesExt

CONSTANTS
    Probes,         \* streaming threads that call retransmitPacket
    SeqNums,        \* sequence numbers of packets
    Burst           \* 20 in the code: capacity of the channel, size of a burst

ASSUME BurstAssumption == Burst \in Nat \ {0, 1}
ASSUME SeqNumsAssumption == SeqNums \subseteq Nat \ {0}

VARIABLES
    queue,      \* the channel retransmit
    task,       \* where RetransmissionsTask is
    batch,      \* task: the numbers in seqnums
    left,       \* task: receives left in AccumulateNumSeqs
    probe,      \* the number each probe is asking for, 0 when it is not
    nack        \* the numbers in the NACK that has just been sent

rvars == <<queue, task, batch, left, probe, nack>>
vars  == <<wvars, rvars>>

\* AccumulateNumSeqs appends to a slice of 20 zeros, which are sent along.
Blank == {0}

\* One type invariant: the channel is bounded, and so is a burst.
RtxTypeOK ==
    /\ queue \in Seq(SeqNums) /\ Len(queue) <= Burst
    /\ task \in {"test", "wait", "gather", "nap", "more", "send", "done"}
    /\ batch \subseteq SeqNums \cup {0}
    /\ left \in 0..Burst
    /\ probe \in [Probes -> SeqNums \cup {0}]
    /\ nack \subseteq SeqNums \cup {0}

RtxInit ==
    /\ Init
    /\ queue = << >> /\ task = "test" /\ batch = {} /\ left = 0
    /\ probe = [p \in Probes |-> 0]
    /\ nack = {}

----------------------------------------------------------------------------
(* retransmitPacket. *)

\* The event of the jitter buffer arrives; rtx is read without a lock.
Lost(p, n) ==
    /\ probe[p] = 0 /\ rtx
    /\ probe' = [probe EXCEPT ![p] = n]
    /\ UNCHANGED <<wvars, queue, task, batch, left, nack>>

\* Mutant: the capacity of the channel is not looked at.
Overflow(p) ==
    /\ probe[p] # 0
    /\ queue' = Append(queue, probe[p])
    /\ probe' = [probe EXCEPT ![p] = 0]
    /\ UNCHANGED <<wvars, task, batch, left, nack>>

\* A request is dropped when the channel is full.
Enqueue(p) ==
    /\ probe[p] # 0
    /\ queue' = IF Len(queue) < Burst THEN Append(queue, probe[p]) ELSE queue
    /\ probe' = [probe EXCEPT ![p] = 0]
    /\ UNCHANGED <<wvars, task, batch, left, nack>>

----------------------------------------------------------------------------
(* RetransmissionsTask. *)

TestTask ==
    /\ task = "test"
    /\ task' = IF endStream THEN "done" ELSE "wait"
    /\ nack' = {}
    /\ UNCHANGED <<wvars, queue, batch, left, probe>>

Receive == queue # << >> /\ queue' = Tail(queue)

\* AccumulateNumSeqs(true): the first receive blocks.
ReceiveFirst ==
    /\ task = "wait" /\ Receive /\ task' = "gather"
    /\ batch' = Blank \cup {Head(queue)}
    /\ left' = Burst - 1
    /\ UNCHANGED <<wvars, probe, nack>>

\* One of the receives that do not block, of either call.
ReceiveMore ==
    /\ task \in {"gather", "more"} /\ left > 0 /\ Receive
    /\ batch' = batch \cup {Head(queue)}
    /\ left' = left - 1
    /\ UNCHANGED <<wvars, task, probe, nack>>

EndBurst ==
    /\ task \in {"gather", "more"} /\ (left = 0 \/ queue = << >>)
    /\ task' = IF task = "gather" THEN "nap" ELSE "send"
    /\ left' = 0
    /\ UNCHANGED <<wvars, queue, batch, probe, nack>>

\* Mutant: the second burst replaces the first.
NapForgets ==
    /\ task = "nap" /\ task' = "more"
    /\ batch' = Blank
    /\ left' = Burst
    /\ UNCHANGED <<wvars, queue, probe, nack>>

\* After two milliseconds, AccumulateNumSeqs(false).
Nap ==
    /\ task = "nap" /\ task' = "more"
    /\ batch' = batch \cup Blank
    /\ left' = Burst
    /\ UNCHANGED <<wvars, queue, probe, nack>>

SendNack ==
    /\ task = "send" /\ task' = "test"
    /\ nack' = batch
    /\ batch' = {}
    /\ UNCHANGED <<wvars, queue, left, probe>>

Task == \/ TestTask \/ ReceiveFirst \/ ReceiveMore \/ EndBurst \/ Nap \/ SendNack

RtxNext == \/ Next /\ UNCHANGED rvars
           \/ \E p \in Probes : Enqueue(p) \/ \E n \in SeqNums : Lost(p, n)
           \/ Task

RtxFairness == Fairness /\ WF_vars(Task)

RtxSpec == RtxInit /\ [][RtxNext]_vars /\ RtxFairness

----------------------------------------------------------------------------
(* Properties. *)

\* A request that got into the channel gets into a NACK while the writer
\* lives, whichever of the two bursts picks it up.
AcceptedIsNacked ==
    \A n \in SeqNums : n \in ToSet(queue) ~> (n \in nack \/ endStream)
=============================================================================
