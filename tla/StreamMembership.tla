-------------------------- MODULE StreamMembership --------------------------
(***************************************************************************)
(* What the subscriptions of a room promise to their callers, without      *)
(* locks, callbacks or objects: a stream (a participant's camera and       *)
(* microphone, or its screen share) is opened for the first subscriber,    *)
(* shared by all of them, and closed only when the last one has left.      *)
(***************************************************************************)
CONSTANTS Streams, Users

VARIABLES open,      \* the streams the room is subscribed to
          members    \* [Streams -> SUBSET Users]: who receives each

vars == <<open, members>>

Init == open = {} /\ members = [x \in Streams |-> {}]

Open(x) == /\ x \notin open
           /\ open' = open \cup {x}
           /\ UNCHANGED members

\* A user receives one stream, and only one that is open.
Join(x, u) == /\ x \in open
              /\ \A y \in Streams : u \notin members[y]
              /\ members' = [members EXCEPT ![x] = @ \cup {u}]
              /\ UNCHANGED open

Leave(x, u) == /\ u \in members[x]
               /\ members' = [members EXCEPT ![x] = @ \ {u}]
               /\ UNCHANGED open

Close(x) == /\ x \in open /\ members[x] = {}
            /\ open' = open \ {x}
            /\ UNCHANGED members

Next == \E x \in Streams :
          \/ Open(x) \/ Close(x)
          \/ \E u \in Users : Join(x, u) \/ Leave(x, u)

Spec == Init /\ [][Next]_vars
=============================================================================
