SPECIFICATION Spec
CONSTANTS
    Block <- MCBlock
    NoBlock = NoBlock
    Genesis = "g"
    MaxHeight <- MCMaxHeight
    Height <- MCHeight
    Anc <- MCAnc
    Work <- MCWork
    HashOf <- MCHashOf
    Bad <- MCBad
    Peer = {p}
    MaxNodes = 3
    MaxProviders = 1
    FinalityDepth = 1
    MaxAdvance = 1
    MaxPlan = 2
    RelationRoot = 1
INVARIANTS
    SuffixNonEmpty
CHECK_DEADLOCK FALSE
