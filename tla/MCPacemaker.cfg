SPECIFICATION Spec
CONSTANTS
    Validator = {1, 2, 3, 4}
    Node = {1, 2, 3}
    Power <- MCPower
    Leader <- MCFaultyAt3
    EpochOf <- MCEpoch
    MaxView = 3
    FaultyWishes <- MCFaultyWishes
    FaultyProposals <- MCFaultyProposals
    Prepares <- MCPrepares
    Cuts <- MCCut
    CutKinds = {"wish", "tc"}
INVARIANTS
    TypeOK
    ViewsAreEarned
PROPERTIES
    ViewsAdvance
CHECK_DEADLOCK FALSE
