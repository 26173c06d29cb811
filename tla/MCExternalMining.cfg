SPECIFICATION FairSpec
CONSTANTS
    m1 = m1
    m2 = m2
    Miner = {m1, m2}
    Request = {"none", "custom"}
    AllowCustom = TRUE
    TTL = 1
    MaxTip = 1
    MaxSequence = 2
INVARIANTS
    SlotSound
    MinedOnce
PROPERTIES
    TipTemplateKept
    CallsAnswered
CHECK_DEADLOCK FALSE
