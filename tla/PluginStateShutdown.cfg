\* One dispatch that changes the state, then ctrl-c. No call fails. README.md:35-36.
SPECIFICATION Spec
CONSTANTS
    s0 = s0
    s1 = s1
    s2 = s2
    j1 = j1
    j2 = j2
    Loop = Loop
    NoBytes = NoBytes
    Nobody = Nobody
    States = {s0, s1, s2}
    Fresh = s0
    Jobs = {}
    Queried = FALSE
    MaxWrites = 1
    MaxFaults = 0
    MaxStarts = 1
INVARIANTS StateSurvivesShutdown
CHECK_DEADLOCK FALSE
