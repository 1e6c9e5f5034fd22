SPECIFICATION Spec
CONSTANTS
    Validator = {1, 2, 3, 4}
    Node = {1, 2, 3}
    Power <- MCPower
    Leader <- MCHonestAt3
    EpochOf <- MCEpoch
    MaxView = 4
    FaultyWishes = {}
    FaultyProposals = {}
    Prepares <- MCPreparesLast
    Cuts <- MCNoCut
    CutKinds = {}
PROPERTIES
    ViewsAdvance
CHECK_DEADLOCK FALSE
