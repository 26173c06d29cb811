SPECIFICATION FairSpec
CONSTANTS
    g = g
    a1 = a1
    a2 = a2
    b1 = b1
    b2 = b2
    none = none
    t1 = t1
    t2 = t2
    t3 = t3
    t4 = t4
    t5 = t5
    nil = nil
    k1 = k1
    k2 = k2
    s1 = s1
    s2 = s2
    s3 = s3
    s4 = s4
    s5 = s5
    empty = empty
    Block <- MCBlock
    NoBlock = none
    Genesis = g
    MaxHeight <- MCMaxHeight
    Height <- MCHeight
    Anc <- MCAnc
    Work <- MCWork
    HashOf <- MCHashOf
    Tx <- MCTx
    Slot <- MCSlot
    Coin <- MCCoin
    Empty = empty
    Image <- MCImage
    TxsOf <- MCTxsOf
    Spent <- MCSpent
    Minted <- MCMinted
    AnchorOf <- MCAnchorOf
    Accepted <- MCAccepted
    RefusedFrom <- MCRefusedFrom
    FeeOf <- MCFeeOf
    RequiredFee <- MCRequiredFee
    SizeOf <- MCSizeOf
    Authorized <- MCAuthorized
    Task <- MCTask
    Capacity = 2
    MaxBytes = 3
    Workers = 1
    FloorWindow = 2
    MinFeeBase = 5
    MaxBlockTxs = 1
    NoTx = nil
INVARIANTS
    PoolSound
    TemplateApplies
PROPERTIES
    DeparturesAnnounced
    SubmissionAnswered
CHECK_DEADLOCK TRUE
