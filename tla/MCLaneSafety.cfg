SPECIFICATION Spec
CONSTANTS
    a = a  b = b  c = c  w1 = w1  w2 = w2  r1 = r1
    Ops = {a, b}
    Invalid = {}
    Early = {}
    Workers = {w1, w2}
    Reconcilers = {r1}
    NoOne = NoOne
    Ghost = Ghost
    NoTx = 0
    NoRecord = NoRecord
    MaxTx = 2
    Tx = {1, 2}
    MaxFaults = 2
    BundlesRevert = FALSE
    Redelivery = FALSE
    Stalls = TRUE
    ProbesFail = FALSE
    MaxExpired = 1
SYMMETRY Symmetry
INVARIANTS
    TypeOK
    PendingIsPrepared
    SubmittedIsTracked
    InclusionIsTrue
    AckedIsDurable
CHECK_DEADLOCK FALSE
