SPECIFICATION FairSpec
CONSTANTS
    Body <- MCBody
    Terminal <- MCTerminal
    Peer = {1, 2, 3}
    Domain <- DistinctDomains
    Encoding = {1, 2}
    Inventory <- WholeInventories
    MaxObjectsPerRequest = 2
    DiscoveryRounds = 2
    Setup <- MCSetup
INVARIANTS
    SourcesSound
    LeaseHasRequest
PROPERTIES
    PlanEnds
