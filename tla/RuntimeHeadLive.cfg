\* One start, two edits (so that an edit can be taken back) and two failing calls:
\* what the periodic task skips, and where both names settle in the end.
SPECIFICATION FairSpec
CONSTANTS
    c0 = c0
    c1 = c1
    NoCid = NoCid
    Bare = Bare
    Cids = {c0, c1}
    Minimal = c0
    Overrides = {}
    FaultKinds = {"error", "timeout"}
    MaxEdits = 2
    MaxFaults = 2
    MaxStarts = 1
INVARIANTS SkipIsSound
PROPERTIES Converges
CHECK_DEADLOCK FALSE
