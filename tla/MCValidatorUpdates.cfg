SPECIFICATION Spec
CONSTANTS
    MaxPower = 9
    Id <- MCId
    Key <- MCKey
    Power <- MCPower
    MaxUpdates = 2
    GenesisSet <- MCGenesis
INVARIANTS
    TypeOK
    QuorumsShareHonestPower
    HonestPowerSuffices
    RotationIsProportional
