SPECIFICATION FairSpec
CONSTANTS
    l1 = l1  l2 = l2  d1 = d1  d2 = d2
    Lanes = {l1}
    Deployers = {d1}
    Targets = {1}
    NoOne = NoOne
    Ghost = Ghost
    NoTx = 0
    Prefund = 2
    Multiplier = 1
    FloatTarget = 3
    TopUpMax = 3
    TransferGas = 1
    DeployGas = 1
    Floor = 1
    Deposit = 8
    Batches = 1
    MaxTx = 4
    MaxFaults = 1
    StallWeight = 2
    ProbesFail = FALSE
    PoolInBalance = FALSE
PROPERTY
    EveryTargetDeployed
CHECK_DEADLOCK FALSE
