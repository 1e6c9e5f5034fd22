SPECIFICATION Spec
CONSTANTS
    n1 = n1
    n2 = n2
    n3 = n3
    z = z
    Honest <- PairHonest
    Byzantine <- PairByzantine
    Quorum <- RestartQuorum
    Leader <- RestartLeader
    Block <- ResumeBlock
    Genesis = 1
    Parent <- ResumeParent
    ViewOf <- ResumeView
    Height <- ResumeHeight
    AppHash <- ResumeApp
    MaxView = 3
    MaxProposeView = 3
    MaxWishView = 2
    MaxWishes = 1
    MaxCrashes = 1
    LockedGenesisRestart = FALSE
INVARIANTS
    VotingSafetyRule
CHECK_DEADLOCK FALSE
