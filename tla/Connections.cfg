\* Three subscribers and a participant's two publishers in one room, another
\* publisher in a second room; one call at a time, into which LiveKit's faults
\* and callbacks come.
SPECIFICATION Spec
CONSTANTS
    Nil = Nil
    here = here
    there = there
    away = away
    alice = alice
    other = Nil
    Subscribers = {s1, s2, s3}
    Publishers = {p1, p2, away}
    RoomName <- MCRoomName
    Participant <- MCParticipant
    ScreenSharing = {p2}
    Services = {v1}
    Rooms = {r1, r2}
    Ingresses = {i1, i2}
    EgressIds = {c1, c2}
    GivenIds = {alice}
    FreshIds = {g1}
    Failures = {"join", "remove", "drop"}
    MaxCalls = 1
    MaxFaults = 2
CHECK_DEADLOCK FALSE
SYMMETRY Symmetry
INVARIANTS
    TypeOK  OneConnectionInQuiet StaysConnected
    NothingLeft 
