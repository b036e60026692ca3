\* Nothing fails; the resolution changes.
SPECIFICATION Spec
CONSTANTS
    Nil = Nil
    Caps = {small, large}
    Complete = {small, large}
    MaxTracks = 2
    MaxSamples = 1
    Failures = {}
CHECK_DEADLOCK FALSE
INVARIANT CapsFollowed
