SPECIFICATION Spec
CONSTANTS
    n1 = n1
    n2 = n2
    n3 = n3
    z = z
    Honest <- PairHonest
    Byzantine <- PairByzantine
    Quorum <- PairQuorum
    Leader <- PairLeader
    Block <- PairBlock
    Genesis = 1
    Parent <- PairParent
    ViewOf <- PairView
    Height <- PairHeight
    AppHash <- PairApp
    MaxView = 3
    MaxProposeView = 2
    MaxWishView = 2
    MaxWishes = 1
    MaxCrashes = 1
    LockedGenesisRestart = FALSE
INVARIANTS
    NoDoubleSign
    OneCertificatePerView
    CommitsNeverConflict
    LockCoversVote2
    IndInv
PROPERTY
    ImplementsLedger
CHECK_DEADLOCK FALSE
