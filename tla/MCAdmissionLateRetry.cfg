SPECIFICATION Spec
CONSTANTS
  a = a
  b = b
  c = c
  s = s
  r1 = r1
  r2 = r2
  r3 = r3
  Ops = {a, b}
  NoOp = NoOp
  Slots = {s}
  SlotOf <- OneSlot
  Requests = {r1, r2, r3}
  OpOf <- Resubmitted
  ADMISSION_GRACE = 2
  REQUEST_TIMEOUT = 1
  RECORD_TTL = 5
  TAKEOVER_ATTEMPTS = 3
  MaxTime = 4
  Faults = {}
  MaxExpired = 0
  Tx = {}
  NoTx = NoTx
  NoRecord = NoRecord
INVARIANTS OneLivePerNonce
CHECK_DEADLOCK FALSE
