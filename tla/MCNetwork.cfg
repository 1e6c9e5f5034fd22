SPECIFICATION Spec
CONSTANTS
    pa = pa
    pb = pb
    pc = pc
    pd = pd
    t1 = t1
    t2 = t2
    t3 = t3
    Peer <- MCPeer
    OnChain <- MCOnChain
    Sets <- MCSets
    LeaderOf <- MCLeaderOf
    DedupLimit = 1
    Settings <- MCSettings
    Message <- MCMessage
    OwnMessage <- MCOwnMessage
    Tx <- MCTx
    HashOrder <- MCHashOrder
    SizeOf <- MCSizeOf
    MaxTxBytes = 4
    MaxSkipped = 2
    Verdict <- MCVerdict
    TxQueueBound = 1
    MaxFaults = 1
    Budgets <- MCBudgets
INVARIANTS
    TypeOK
    RoutesMatchSet
    SlotsAreForValidators
    StreamsAreAdmitted
    NoEchoFlood
    PoolIsCurrent
    PayloadIsGreedy
PROPERTY
    TxLeavesForAReason
CHECK_DEADLOCK FALSE
