\* Three subscribers of one stream, and a connection that LiveKit ends.
SPECIFICATION Spec
CONSTANTS
    Nil = Nil
    here = here
    there = there
    away = away
    alice = alice
    other = Nil
    Subscribers = {s1, s2, s3}
    Publishers = {}
    RoomName <- MCRoomName
    Participant <- MCParticipant
    ScreenSharing = {}
    Services = {v1}
    Rooms = {r1}
    Ingresses = {}
    EgressIds = {c1}
    GivenIds = {}
    FreshIds = {}
    Failures = {"drop"}
    MaxCalls = 1
    MaxFaults = 1
CHECK_DEADLOCK FALSE
SYMMETRY Symmetry
INVARIANT LostIsRemoved
