\* A writer with one drainer, and one probe that asks its task for packets.
SPECIFICATION RtxSpec
CONSTANTS
    Drainers = {d1}
    Failures = {"timeout", "small", "failed"}
    Probes = {q1}
    SeqNums = {1}
    Burst = 2
CHECK_DEADLOCK FALSE
INVARIANTS TypeOK  AtMostOneLate PausedTicks
PROPERTIES   UnmutedResumes  AcceptedIsNacked
