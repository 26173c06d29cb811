SPECIFICATION Spec
CONSTANTS
    Block <- MCBlock
    NoBlock = NoBlock
    Genesis = "g"
    MaxHeight <- MCMaxHeight
    Height <- MCHeight
    Anc <- MCAnc
    Work <- MCWork
    HashOf <- MCHashOf
    FinalityDepth = 2
    UndoDepth = 3
    ServingDepth = 3
    PruneLimit = 1
    MaxReplacement = 3
    HeaderWindow = 2
    SnapshotWindow = 3
INVARIANTS
    RestartResumes
    StoreConsistent
    InterruptedSuffixResumable
    StagedReorgCommits
    PruningSound
PROPERTIES
    ImplementsLedger
CHECK_DEADLOCK FALSE
