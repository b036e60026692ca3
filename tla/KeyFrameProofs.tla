--------------------------- MODULE KeyFrameProofs ---------------------------
(***************************************************************************)
(* How far the limiter of KeyFrameRequests holds, for any number of        *)
(* callers and for a clock that need not stop.                             *)
(***************************************************************************)
EXTENDS KeyFrameRequests, TLAPS

\* A caller that is not about to record its last PLI finds it recorded, or a
\* later one of another caller: lastPLI never goes back.
Recorded ==
    \A c \in Callers : pc[c] # "stamp" => sent[c] <= lastPLI

\* A caller that has passed did so on a time that is a second past its own
\* last PLI, whoever has set lastPLI since.
PassedOwn ==
    \A c \in Callers : pc[c] = "send" /\ sent[c] # 0 => now[c] > sent[c] + Second

\* No PLI has been recorded without being sent, so that the first is not
\* refused: until then the limiter stands ten seconds back.
Unsent ==
    /\ \A c \in Callers : pc[c] = "stamp" => latest # 0
    /\ latest = 0 => /\ lastPLI = 1
                     /\ \A c \in Callers : pc[c] = "compare" => now[c] > Lead
    /\ clock > Lead

KInv == TypeOK /\ Recorded /\ PassedOwn /\ Unsent

LEMMA InitKeyFrames == Init => KInv
BY SecondAssumption DEF Init, KInv, TypeOK, Recorded, PassedOwn, Unsent, Lead

LEMMA NextKeyFrames ==
    ASSUME KInv, [Next]_vars
    PROVE  KInv'
<1> USE SecondAssumption DEF KInv, TypeOK, Recorded, PassedOwn, Unsent, Goto, Lead
<1>1. ASSUME NEW c \in Callers, ReadClock(c)
      PROVE  KInv'
  BY <1>1 DEF ReadClock
<1>2. ASSUME NEW c \in Callers, Refuse(c)
      PROVE  KInv'
  BY <1>2 DEF Refuse
<1>3. ASSUME NEW c \in Callers, Pass(c)
      PROVE  KInv'
  BY <1>3 DEF Pass, Passes
<1>4. ASSUME NEW c \in Callers, Send(c)
      PROVE  KInv'
  BY <1>4 DEF Send
<1>5. ASSUME NEW c \in Callers, Stamp(c)
      PROVE  KInv'
  BY <1>5 DEF Stamp
<1>6. CASE Tick
  BY <1>6 DEF Tick
<1>7. CASE UNCHANGED vars
  BY <1>7 DEF vars
<1> QED
  BY <1>1, <1>2, <1>3, <1>4, <1>5, <1>6, <1>7 DEF Next

LEMMA KeyFrameInvariant == Spec => []KInv
BY InitKeyFrames, NextKeyFrames, PTL DEF Spec

\* Every recorded time has passed.
THEOREM TimesPassed == Spec => []TypeOK
<1>1. KInv => TypeOK
  BY DEF KInv
<1> QED
  BY <1>1, KeyFrameInvariant, PTL

\* Two PLIs of a caller are more than a second apart, whatever the others do.
THEOREM SpacedByCaller == Spec => CallerSpaced
<1>1. ASSUME KInv, KInv', [Next]_vars
      PROVE  [\A c \in Callers : Sends(c) => sent[c] = 0 \/ clock > sent[c] + Second]_vars
  <2>1. ASSUME NEW c \in Callers, Sends(c), sent[c] # 0
        PROVE  clock > sent[c] + Second
    BY <1>1, <2>1, SecondAssumption DEF KInv, TypeOK, PassedOwn, Sends
  <2> QED
    BY <2>1
<1> QED
  BY <1>1, KeyFrameInvariant, PTL DEF Spec, CallerSpaced

\* The first key frame that anybody asks for is asked for.
THEOREM FirstNotRefused == Spec => FirstPasses
<1>1. ASSUME KInv, [Next]_vars
      PROVE  [\A c \in Callers : pc[c] = "compare" /\ pc'[c] = "idle" => latest # 0]_vars
  <2>1. ASSUME NEW c \in Callers, pc[c] = "compare", pc'[c] = "idle", latest = 0
        PROVE  UNCHANGED vars
    <3>1. Passes(c)
      BY <1>1, <2>1, SecondAssumption DEF KInv, TypeOK, Unsent, Passes, Lead
    <3> QED
      BY <1>1, <2>1, <3>1 DEF Next, ReadClock, Refuse, Pass, Send, Stamp, Tick, Goto,
                              vars, KInv, TypeOK
  <2> QED
    BY <2>1
<1> QED
  BY <1>1, KeyFrameInvariant, PTL DEF Spec, FirstPasses
=============================================================================
