\* A participant joins with its screen already shared.
SPECIFICATION Spec
CONSTANTS
    p1 = p1
    cam = cam
    cam2 = cam2
    mic = mic
    screen = screen
    Nil = Nil
    Clients = {c1}
    Handlers = {h1}
    Participants = {p1}
    Tracks = {screen}
    Owner <- MCOwner
    Shared <- MCShared
    Kind <- MCKind
    Subscriptions = {s1}
    Subscribers = {u1}
    Writers = {w1}
    MaxPending = 3
CHECK_DEADLOCK FALSE
INVARIANT NoMissedScreenShare
