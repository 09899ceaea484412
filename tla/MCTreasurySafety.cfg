SPECIFICATION Spec
CONSTANTS
    l1 = l1  l2 = l2  d1 = d1  d2 = d2
    Lanes = {l1, l2}
    Deployers = {d1, d2}
    Targets = {1}
    NoOne = NoOne
    Ghost = Ghost
    NoTx = 0
    Prefund = 1
    Multiplier = 1
    FloatTarget = 2
    TopUpMax = 2
    TransferGas = 1
    DeployGas = 1
    Floor = 1
    Deposit = 6
    Batches = 1
    MaxTx = 3
    MaxFaults = 2
    StallWeight = 2
    ProbesFail = FALSE
    PoolInBalance = TRUE
SYMMETRY Symmetry
INVARIANTS
    TypeOK
    PendingIsPrepared
    OneTopUpOutstanding
    TreasuryKeepsFloor
    ReadyIsFunded
CHECK_DEADLOCK FALSE
