\* A camera published, withdrawn and published again, two callbacks at a time.
SPECIFICATION Spec
CONSTANTS
    p1 = p1
    cam = cam
    cam2 = cam2
    mic = mic
    screen = screen
    Nil = Nil
    Clients = {c1}
    Handlers = {h1, h2}
    Participants = {p1}
    Tracks = {cam, cam2}
    Owner <- MCOwner
    Shared <- MCShared
    Kind <- MCKind
    Subscriptions = {s1}
    Subscribers = {u1}
    Writers = {w1, w2}
    MaxPending = 1
CHECK_DEADLOCK FALSE
SYMMETRY Symmetry
INVARIANTS
    RunningWriterInSlot
    
