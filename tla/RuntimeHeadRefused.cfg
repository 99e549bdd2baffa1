\* No call fails; the daemon may crash once. README.md:240-241 against main().
SPECIFICATION Spec
CONSTANTS
    c0 = c0
    c1 = c1
    NoCid = NoCid
    Bare = Bare
    Cids = {c0, c1}
    Minimal = c0
    Overrides = {}
    FaultKinds = {}
    MaxEdits = 1
    MaxFaults = 0
    MaxStarts = 2
PROPERTIES BootWithoutRecord
CHECK_DEADLOCK FALSE
