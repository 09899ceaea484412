SPECIFICATION Spec
CONSTANTS
    a = a  b = b  c = c  w1 = w1  w2 = w2  r1 = r1
    Ops = {a, b}
    Invalid = {}
    Early = {}
    Workers = {w1, w2}
    Reconcilers = {r1}
    NoOne = NoOne
    Ghost = Ghost
    NoTx = 0
    NoRecord = NoRecord
    MaxTx = 3
    Tx = {1, 2, 3}
    MaxFaults = 0
    BundlesRevert = FALSE
    Redelivery = TRUE
    Stalls = FALSE
    ProbesFail = FALSE
    MaxExpired = 0
SYMMETRY Symmetry
INVARIANT
    InclusionIsTrue
CHECK_DEADLOCK FALSE
