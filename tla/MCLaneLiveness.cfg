SPECIFICATION FairSpec
CONSTANTS
    a = a  b = b  c = c  w1 = w1  w2 = w2  r1 = r1
    Ops = {a, b}
    Invalid = {}
    Early = {}
    Workers = {w1}
    Reconcilers = {r1}
    NoOne = NoOne
    Ghost = Ghost
    NoTx = 0
    NoRecord = NoRecord
    MaxTx = 5
    Tx = {1, 2, 3, 4, 5}
    MaxFaults = 1
    BundlesRevert = TRUE
    Redelivery = FALSE
    Stalls = FALSE
    ProbesFail = FALSE
    MaxExpired = 0
PROPERTY
    EverySettles
CHECK_DEADLOCK FALSE
