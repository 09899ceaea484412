SPECIFICATION Spec
CONSTANTS
  a = a
  b = b
  c = c
  s = s
  r1 = r1
  r2 = r2
  r3 = r3
  Ops = {a, b, c}
  NoOp = NoOp
  Slots = {s}
  SlotOf <- OneSlot
  Requests = {r1, r2, r3}
  OpOf <- Distinct
  ADMISSION_GRACE = 2
  REQUEST_TIMEOUT = 1
  RECORD_TTL = 3
  TAKEOVER_ATTEMPTS = 2
  MaxTime = 3
  Faults = {"claim", "create", "enqueue", "mark"}
  MaxExpired = 1
  Tx = {}
  NoTx = NoTx
  NoRecord = NoRecord
INVARIANTS TypeOK OneLivePerNonce LiveIsQueuedOrSubmitted NoExecutableOrphan
CHECK_DEADLOCK FALSE
SYMMETRY Renamings
