SPECIFICATION Spec
CONSTANTS
    n1 = n1
    n2 = n2
    n3 = n3
    z = z
    Honest <- PairHonest
    Byzantine <- PairByzantine
    Quorum <- RestartQuorum
    Leader <- RestartLeader
    Block <- RestartBlock
    Genesis = 1
    Parent <- RestartParent
    ViewOf <- RestartView
    Height <- RestartHeight
    AppHash <- RestartApp
    MaxView = 4
    MaxProposeView = 2
    MaxWishView = 2
    MaxWishes = 1
    MaxCrashes = 1
    LockedGenesisRestart = TRUE
INVARIANT
    Agreement
CHECK_DEADLOCK FALSE
