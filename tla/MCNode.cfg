SPECIFICATION Spec
CONSTANTS
    Block <- ForkBlock
    Genesis = 1
    Parent <- ForkParent
    HeightOf <- ForkHeight
    ViewOf <- ForkView
    MaxHeight = 3
    None = 0
    Updates = {3, 6}
    FinalTip = 6
    CertEpoch <- ForkCert
    MaxView = 7
    MaxRefusals = 1
    MaxCrashes = 2
CONSTRAINT Explored
INVARIANTS
    TypeOK
    AppFollowsChain
    CheckpointMatchesApp
    TipIsCommitted
    StoreCoversCheckpoint
    HeadersExtendChain
    EpochsFollowChain
CHECK_DEADLOCK FALSE
