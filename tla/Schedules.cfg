\* One plugin, two requests of ten forms in each process, three bits, a clock of three ticks.
SPECIFICATION FairSpec
CONSTANTS
    Entities = {"plugin"}
    Asks <- MCAsks
    UnitSecs <- MCUnitSecs
    Width = 3
    MaxDefault = 2
    Gaps = {2}
    MaxAsks = 2
    MaxNow = 3
INVARIANTS InitIsHeard OneChain AtOnTime
PROPERTIES Rests EveryAskSettles JobsKeepFiring
CHECK_DEADLOCK FALSE
