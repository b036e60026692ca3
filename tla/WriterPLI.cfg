\* Two callers, a clock of half seconds that runs for five seconds.
SPECIFICATION Spec
CONSTANTS
    Callers = {a, b}
    Second = 2
    MaxClock = 31
CHECK_DEADLOCK FALSE
INVARIANT TypeOK
PROPERTIES  FirstPasses
