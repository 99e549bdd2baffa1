\* Two starts of the daemon, one edit, one failing call of any kind: crashes and
\* restarts at every point, graceful shutdowns, requests that outlive the process.
SPECIFICATION Spec
CONSTANTS
    c0 = c0
    c1 = c1
    NoCid = NoCid
    Bare = Bare
    Cids = {c0, c1}
    Minimal = c0
    Overrides = {c1}
    FaultKinds = {"pin", "error", "timeout"}
    MaxEdits = 1
    MaxFaults = 1
    MaxStarts = 2
INVARIANTS PinFollowsHead CleanStop
PROPERTIES DurableName
CHECK_DEADLOCK FALSE
