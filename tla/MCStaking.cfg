SPECIFICATION Spec
CONSTANTS
    MaxPower = 3
    Id = {1, 2}
    Key = {1, 2}
    Staker = {1, 2}
    Evidence = {e1}
    Reason = {"downtime", "double"}
    SlashRate <- MCRate
    MaxValidators = 1
    MinSelfStake = 1
    JailDuration = 1
    BlockReward = 1
    UnbondingPeriod = 1
    Genesis <- MCGenesis
    Amount = {1}
    MaxTokens = 3
    MaxView = 3
INVARIANTS
    TypeOK
    StakeIsConserved
    DelegationsAddUp
    UnbondingStaysSlashable
PROPERTIES
    UpdatesReachFormalList
CHECK_DEADLOCK FALSE
