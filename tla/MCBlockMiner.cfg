SPECIFICATION FairSpec
CONSTANTS
    MaxTip = 2
    MaxEvents = 2
INVARIANTS
    SearchSound
PROPERTIES
    StaleSearchEnds
    StopEnds
    MinerSettles
CHECK_DEADLOCK FALSE
