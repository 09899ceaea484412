SPECIFICATION Spec
CONSTANTS
  Ops = {o1}
  NoOp = NoOp
  Tx = {t1, t2}
  NoTx = NoTx
  NoRecord = NoRecord
  Patchers = {p1, p2}
  Submitters = {s1}
  LIFECYCLE_GUARD_ATTEMPTS = 4
  RecordsExpireAgain = FALSE
INVARIANTS TypeOK NeverExhausted NoLiveMemberLeftBehind IndexedUnderOneTx SubmittedIsIndexed
PROPERTY ImplementsRecordDO
SYMMETRY Symmetry
