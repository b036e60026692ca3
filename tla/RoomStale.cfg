\* TrackPublished against the last Unsubscribe.
SPECIFICATION Spec
CONSTANTS
    p1 = p1
    cam = cam
    cam2 = cam2
    mic = mic
    screen = screen
    Nil = Nil
    Clients = {c1}
    Handlers = {h1}
    Participants = {p1}
    Tracks = {cam}
    Owner <- MCOwner
    Shared <- MCShared
    Kind <- MCKind
    Subscriptions = {s1}
    Subscribers = {u1}
    Writers = {w1}
    MaxPending = 3
CHECK_DEADLOCK FALSE
INVARIANT LockedSubscriptionIsCurrent
