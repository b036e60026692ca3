\* A client and the callbacks of a microphone and a screen share compete for the locks.
SPECIFICATION FairSpec
CONSTANTS
    p1 = p1
    cam = cam
    cam2 = cam2
    mic = mic
    screen = screen
    Nil = Nil
    Clients = {c1}
    Handlers = {h1}
    Participants = {p1}
    Tracks = {mic, screen}
    Owner <- MCOwner
    Shared <- MCShared
    Kind <- MCKind
    Subscriptions = {s1, s2}
    Subscribers = {u1}
    Writers = {w1, w2}
    MaxPending = 1
CHECK_DEADLOCK FALSE
INVARIANTS TypeOK StreamsDoNotMix
PROPERTY CallsReturn
