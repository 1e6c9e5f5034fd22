SPECIFICATION Spec
CONSTANTS
    Block <- LineBlock
    Genesis = 1
    Parent <- LineParent
    HeightOf <- LineHeight
    ViewOf <- LineView
    MaxHeight = 3
    None = 0
    Updates = {2, 3}
    FinalTip = 4
    CertEpoch <- LineCert
    MaxView = 5
    MaxRefusals = 0
    MaxCrashes = 0
INVARIANT
    EpochsAgree
CHECK_DEADLOCK FALSE
