------------------------- MODULE MCRoomConnections -------------------------
(***************************************************************************)
(* Instances of RoomConnections for TLC: who is for which room, and as     *)
(* which participant.                                                      *)
(***************************************************************************)
EXTENDS RoomConnections, TLC

CONSTANTS here, there,      \* two rooms
          away,             \* a publisher for the other room
          alice, other      \* participants; other is the one of away

MCRoomName == [e \in Elements |-> IF e = away THEN there ELSE here]
MCParticipant == [e \in Publishers |-> IF e = away THEN other ELSE alice]

\* Subscribers, objects and egress ids are interchangeable.
Symmetry == Permutations(Subscribers) \cup Permutations(Services)
              \cup Permutations(Rooms) \cup Permutations(Ingresses)
              \cup Permutations(EgressIds)
=============================================================================
