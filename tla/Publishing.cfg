\* Two resolutions, caps without one, and every failure.
SPECIFICATION FairSpec
CONSTANTS
    Nil = Nil
    Caps = {none, small, large}
    Complete = {small, large}
    MaxTracks = 2
    MaxSamples = 3
    Failures = {"element", "create", "publish"}
CHECK_DEADLOCK FALSE
INVARIANTS TypeOK InOrder LeavesNothing
PROPERTIES NothingAfterTheEnd ReadersEnd
