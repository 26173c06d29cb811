SPECIFICATION Spec
CONSTANTS
    Block <- MCBlock
    NoBlock = NoBlock
    Genesis = "g"
    MaxHeight <- MCMaxHeight
    Height <- MCHeight
    Anc <- MCAnc
    Work <- MCWork
    HashOf <- MCHashOf
    Peer = {p}
    Domain <- Apart
    Required = 1
    TTL = 2
INVARIANTS
    LeaseOnAncestry
CHECK_DEADLOCK FALSE
