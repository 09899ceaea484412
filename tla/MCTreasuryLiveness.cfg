SPECIFICATION FairSpec
CONSTANTS
    l1 = l1  l2 = l2  d1 = d1  d2 = d2
    Lanes = {l1, l2}
    Deployers = {}
    Targets = {}
    NoOne = NoOne
    Ghost = Ghost
    NoTx = 0
    Prefund = 1
    Multiplier = 1
    FloatTarget = 1
    TopUpMax = 1
    TransferGas = 1
    DeployGas = 1
    Floor = 1
    Deposit = 20
    Batches = 1
    MaxTx = 4
    MaxFaults = 1
    StallWeight = 2
    ProbesFail = FALSE
    PoolInBalance = FALSE
PROPERTY
    EveryLaneFunded
CHECK_DEADLOCK FALSE
