SPECIFICATION Spec
CONSTANTS
    n1 = n1
    n2 = n2
    n3 = n3
    z = z
    Honest <- FourHonest
    Byzantine <- FourByzantine
    Quorum <- FourQuorum
    Leader <- FourLeader
    Block <- FourBlock
    Genesis = 1
    Parent <- FourParent
    ViewOf <- FourView
    Height <- FourHeight
    AppHash <- FourApp
    MaxView = 3
    MaxProposeView = 2
    MaxWishView = 2
    MaxWishes = 1
    MaxCrashes = 1
    LockedGenesisRestart = FALSE
SYMMETRY FourSymmetry
INVARIANTS
    Agreement
CHECK_DEADLOCK FALSE
