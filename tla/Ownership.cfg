\* Two principals race for the runtime, use CRUD, publish, and see it restart.
SPECIFICATION FairSpec
CONSTANTS
    ann = ann
    bob = bob
    NoList = NoList
    Dids = {ann, bob}
    Configured = {}
    MaxEdits = 2
    MaxStarts = 2
    MaxSent = 1
INVARIANTS AuthorityIsGiven NoLateClaim OwnersAreGranted
PROPERTIES ClaimIsAnswered PowerIsHandedOn
CHECK_DEADLOCK FALSE
