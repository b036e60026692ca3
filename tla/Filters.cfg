\* Three requests at a time for two participants.
SPECIFICATION Spec
CONSTANTS
    Nil = Nil
    Requests = {r1, r2, r3}
    Keys = {k1, k2}
    Events = {e1}
    MaxFilters = 2
    MaxListeners = 2
SYMMETRY Symmetry
INVARIANTS TypeOK MappedIsLive NoLostPipeline 
