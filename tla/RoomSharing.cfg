\* One camera, two clients that come and go, one callback at a time.
SPECIFICATION Spec
CONSTANTS
    p1 = p1
    cam = cam
    cam2 = cam2
    mic = mic
    screen = screen
    Nil = Nil
    Clients = {c1, c2}
    Handlers = {h1}
    Participants = {p1}
    Tracks = {cam}
    Owner <- MCOwner
    Shared <- MCShared
    Kind <- MCKind
    Subscriptions = {s1, s2}
    Subscribers = {u1, u2}
    Writers = {w1, w2}
    MaxPending = 2
CHECK_DEADLOCK FALSE
SYMMETRY Symmetry
INVARIANTS
    RegisteredIsLive
    NoEmptySubscription
    NoForgottenSubscriber
PROPERTY SharesStreams
