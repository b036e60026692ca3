-------------------------- MODULE KeyFrameRequests --------------------------
(***************************************************************************)
(* sendPLI of a video writer: who needs a key frame asks the publisher of  *)
(* the track for one with a PLI, and a limiter drops what comes too fast   *)
(* (appwriter.go).  run calls it after a failed read, the probe of each    *)
(* subscriber on a key-frame event, requestKeyFrame for each subscriber;   *)
(* they share lastPLI without a lock.  The calls of forceSendPLI past the  *)
(* limiter, in EnterInGap, are not made for the codecs that have one.      *)
(***************************************************************************)
EXTENDS Naturals

CONSTANTS
    Callers,        \* threads that call sendPLI
    Second,         \* ticks of the clock in a second
    MaxClock        \* TLC: the clock stops here

ASSUME SecondAssumption == Second \in Nat \ {0}
ASSUME ClockAssumption  == MaxClock \in Nat

\* createWriter sets lastPLI ten seconds back.
Lead == 10 * Second

VARIABLES
    clock,      \* time.Now()
    lastPLI,    \* when the limiter has last let a PLI pass
    pc,         \* where each caller is
    now,        \* caller: the time it has read
    sent,       \* history: when each caller last sent a PLI, 0 for never
    latest      \* history: when a PLI was last sent, 0 for never

vars == <<clock, lastPLI, pc, now, sent, latest>>

\* One type invariant: no time that has been recorded is still to come.
TypeOK == /\ clock \in Nat /\ lastPLI \in 0..clock /\ latest \in 0..clock
          /\ pc \in [Callers -> {"idle", "compare", "send", "stamp"}]
          /\ now \in [Callers -> 0..clock] /\ sent \in [Callers -> 0..clock]

\* Mutant: the limiter starts as if a PLI had been sent.
InitStamped ==
        /\ clock = Lead + 1 /\ lastPLI = clock /\ latest = 0
        /\ pc = [c \in Callers |-> "idle"]
        /\ now = [c \in Callers |-> 0] /\ sent = [c \in Callers |-> 0]

Init == /\ clock = Lead + 1 /\ lastPLI = 1 /\ latest = 0
        /\ pc = [c \in Callers |-> "idle"]
        /\ now = [c \in Callers |-> 0] /\ sent = [c \in Callers |-> 0]

Goto(c, label) == pc' = [pc EXCEPT ![c] = label]

ReadClock(c) ==
    /\ pc[c] = "idle" /\ Goto(c, "compare")
    /\ now' = [now EXCEPT ![c] = clock]
    /\ UNCHANGED <<clock, lastPLI, sent, latest>>

\* Sub may be negative: another caller has been faster.
Passes(c) == now[c] > lastPLI + Second

Refuse(c) ==
    /\ pc[c] = "compare" /\ ~Passes(c)
    /\ Goto(c, "idle")
    /\ UNCHANGED <<clock, lastPLI, now, sent, latest>>

Pass(c) ==
    /\ pc[c] = "compare" /\ Passes(c)
    /\ Goto(c, "send")
    /\ UNCHANGED <<clock, lastPLI, now, sent, latest>>

\* WritePLI.
Send(c) ==
    /\ pc[c] = "send" /\ Goto(c, "stamp")
    /\ sent' = [sent EXCEPT ![c] = clock] /\ latest' = clock
    /\ UNCHANGED <<clock, lastPLI, now>>

\* Mutant: the time at which the PLI was asked for is recorded.
StampAsked(c) ==
    /\ pc[c] = "stamp" /\ Goto(c, "idle")
    /\ lastPLI' = now[c]
    /\ UNCHANGED <<clock, now, sent, latest>>

\* Mutant: it is recorded until when the limiter is closed.
StampAhead(c) ==
    /\ pc[c] = "stamp" /\ Goto(c, "idle")
    /\ lastPLI' = clock + Second
    /\ UNCHANGED <<clock, now, sent, latest>>

\* The clock is read again, after the PLI.
Stamp(c) ==
    /\ pc[c] = "stamp" /\ Goto(c, "idle")
    /\ lastPLI' = clock
    /\ UNCHANGED <<clock, now, sent, latest>>

Tick == /\ clock < MaxClock /\ clock' = clock + 1
        /\ UNCHANGED <<lastPLI, pc, now, sent, latest>>

Next == \/ \E c \in Callers : \/ ReadClock(c) \/ Refuse(c) \/ Pass(c)
                              \/ Send(c) \/ Stamp(c)
        \/ Tick

Spec == Init /\ [][Next]_vars

----------------------------------------------------------------------------
(* Properties. *)

Sends(c) == pc[c] = "send" /\ pc'[c] = "stamp"

\* The limiter holds for each caller by itself, although any other may pass it
\* and set lastPLI in between: two PLIs of one caller are more than a second
\* apart.
CallerSpaced ==
    [][\A c \in Callers : Sends(c) => sent[c] = 0 \/ clock > sent[c] + Second]_vars

\* ov3subscription.go:73: the first PLI should not be stopped by the limiter:
\* who is refused comes after a PLI that has been sent.
FirstPasses ==
    [][\A c \in Callers : pc[c] = "compare" /\ pc'[c] = "idle" => latest # 0]_vars
=============================================================================
