------------------------ MODULE MCRoomSubscriptions ------------------------
(***************************************************************************)
(* Instances of RoomSubscriptions for TLC: the tracks and their attributes *)
(* are definitions here, the rest are model values of the cfg files.       *)
(***************************************************************************)
EXTENDS RoomSubscriptions, TLC

CONSTANTS p1, cam, cam2, mic, screen

\* Who publishes what, restricted to the tracks of a cfg.
MCOwner  == [t \in Tracks |-> p1]
MCShared == [t \in Tracks |-> t = screen]
MCKind   == [t \in Tracks |-> IF t = mic THEN "audio" ELSE "video"]

\* Threads, objects of a pool and writers are interchangeable.
Symmetry == Permutations(Clients) \cup Permutations(Handlers)
              \cup Permutations(Subscriptions) \cup Permutations(Subscribers)
              \cup Permutations(Writers)
=============================================================================
