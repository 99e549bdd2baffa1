\* The main loop and two jobs dispatch to one entity; two starts, two failing calls.
SPECIFICATION Spec
CONSTANTS
    s0 = s0
    s1 = s1
    s2 = s2
    j1 = j1
    j2 = j2
    Loop = Loop
    NoBytes = NoBytes
    Nobody = Nobody
    States = {s0, s1, s2}
    Fresh = s0
    Jobs = {j1, j2}
    Queried = TRUE
    MaxWrites = 3
    MaxFaults = 2
    MaxStarts = 2
SYMMETRY Alike
INVARIANTS PersistedIsStored DispatchesStore NothingLeftQueued ShutdownCatchesUp
CHECK_DEADLOCK FALSE
