------------------------------ MODULE Admission ------------------------------
(***************************************************************************)
(* Two-phase admission of UserOperations under one live operation per      *)
(* account nonce (vela-relay-core/src/admission.rs and nonce_slot.rs, with *)
(* the docker store and queue behind them).  Each eth_sendUserOperation    *)
(* request claims the operation's nonce slot, creates the `queued` record, *)
(* appends the envelope to the durable queue and marks the record          *)
(* admitted; requests interleave at every store or queue call, are dropped *)
(* by the HTTP timeout wherever they are, and race the executor.           *)
(***************************************************************************)
EXTENDS Records, FiniteSets

CONSTANTS Ops,                  \* operation hashes
          NoOp,
          Slots, SlotOf,        \* nonce slots, and the slot of each operation
          Requests, OpOf,       \* requests, and the operation each submits
          ADMISSION_GRACE,      \* how long a claim stands without a usable record
          REQUEST_TIMEOUT,      \* the HTTP layer drops a request this old
          RECORD_TTL,           \* the store drops a record this old
          TAKEOVER_ATTEMPTS,
          MaxTime,              \* bound of the clock
          Faults,               \* the calls that may fail
          MaxExpired            \* bound of the operations whose record expires

ASSUME AdmissionAssumption ==
    /\ NoOp \notin Ops
    /\ SlotOf \in [Ops -> Slots]
    /\ OpOf \in [Requests -> Ops]
    /\ {REQUEST_TIMEOUT, ADMISSION_GRACE, RECORD_TTL, MaxTime} \subseteq Nat
    /\ REQUEST_TIMEOUT < ADMISSION_GRACE /\ ADMISSION_GRACE < RECORD_TTL
    /\ TAKEOVER_ATTEMPTS \in Nat \ {0}
    /\ Faults \subseteq {"claim", "create", "enqueue", "mark"}
    /\ MaxExpired \in Nat

VARIABLES now,       \* the shells' clock
          slots,     \* slot -> the NonceHolder it names
          records,   \* operation -> stored record
          deadline,  \* operation -> when its record's TTL elapses
          queue,     \* operations with an unacknowledged envelope in the durable queue
          req,       \* the state of each admission
          expired,   \* history: operations whose record's TTL has elapsed
          late       \* history: operations resubmitted under a claim about to lapse

history == <<expired, late>>
vars == <<now, slots, records, deadline, queue, req, history>>

NonceHolder == [op : Ops, at : Nat]
NoHolder == [op |-> NoOp, at |-> 0]

Running == {"claim", "judge", "takeover", "create", "release", "existing", "enqueue", "mark"}

\* What the caller is told: the hash ("accepted", "already_queued"), the
\* refusal, or one of the errors that carry no hash.
Outcomes == {"none", "accepted", "already_queued", "nonce_in_flight", "unavailable"}

Request == [pc : Running \cup {"new", "done"}, now_ms : Nat, holder : NonceHolder \cup {NoHolder},
            attempt : Nat, fresh : BOOLEAN, outcome : Outcomes]

Op(r) == OpOf[r]
Slot(r) == SlotOf[OpOf[r]]

NewRequest == [pc |-> "new", now_ms |-> 0, holder |-> NoHolder, attempt |-> 1,
               fresh |-> FALSE, outcome |-> "none"]

Settle(r, outcome) ==
    req' = [req EXCEPT ![r] = [NewRequest EXCEPT !.pc = "done", !.outcome = outcome]]
Goto(r, label) == req' = [req EXCEPT ![r].pc = label]
------------------------------------------------------------------------------
(* nonce_slot.rs: one atomic step of a slot.  `write` is the slot after    *)
(* the step; `holder` is the holder the claimant was refused for, or       *)
(* NoHolder when the slot names the claimant.                              *)

SlotStep(write, fresh, holder) == [write |-> write, fresh |-> fresh, holder |-> holder]

claim(current, claimant) ==
    CASE current = NoHolder         -> SlotStep(claimant, TRUE, NoHolder)
      [] current.op = claimant.op   -> SlotStep(current, FALSE, NoHolder)
      [] OTHER                      -> SlotStep(current, FALSE, current)

\* Mutant: the takeover trusts the earlier judgement.
take_over_unchecked(current, judged, claimant) == SlotStep(claimant, TRUE, NoHolder)

take_over(current, judged, claimant) ==
    CASE current.op = claimant.op                    -> SlotStep(current, FALSE, NoHolder)
      [] current # NoHolder /\ current.op # judged   -> SlotStep(current, FALSE, current)
      [] OTHER                                       -> SlotStep(claimant, TRUE, NoHolder)

\* Mutant: the release leaves the claim's time behind.
release_halfway(current, op) == IF current.op = op THEN [current EXCEPT !.op = NoOp] ELSE current

release(current, op) == IF current.op = op THEN NoHolder ELSE current

\* Mutant: a claim without an admitted record has no grace.
holder_state_graceless(record, holder, now_ms) ==
    CASE record = NoRecord -> "abandoned"
      [] record # NoRecord /\ is_terminal(record.status) -> "final"
      [] OTHER -> IF record.admitted THEN "live" ELSE "abandoned"

\* What the holder of a slot is, from its record and the judge's clock.
holder_state(record, holder, now_ms) ==
    LET within_grace == now_ms < holder.at + ADMISSION_GRACE
        reached_the_executor == record.status # "queued" \/ record.attempted
    IN  CASE record = NoRecord -> IF within_grace THEN "live" ELSE "abandoned"
          [] record # NoRecord /\ is_terminal(record.status) -> "final"
          [] OTHER -> IF record.admitted \/ reached_the_executor \/ within_grace
                      THEN "live" ELSE "abandoned"
------------------------------------------------------------------------------
Init == /\ now = 0
        /\ slots = [s \in Slots |-> NoHolder]
        /\ records = [o \in Ops |-> NoRecord] /\ deadline = [o \in Ops |-> 0]
        /\ queue = {}
        /\ req = [r \in Requests |-> NewRequest]
        /\ expired = {} /\ late = {}

\* The request arrives and is validated; the clock is read once, here.
drive_admission(r) ==
    /\ req[r].pc = "new"
    /\ \/ req' = [req EXCEPT ![r].pc = "claim", ![r].now_ms = now]
       \/ Settle(r, "unavailable")
    /\ UNCHANGED <<now, slots, records, deadline, queue, history>>

\* SET ... EX of a new record.  MaxTime + 1 is never reached and stands for
\* every deadline after MaxTime.
Deadline == IF now + RECORD_TTL <= MaxTime THEN now + RECORD_TTL ELSE MaxTime + 1

Claimant(r) == [op |-> Op(r), at |-> req[r].now_ms]

\* A claim keeps the time it was first made, and may lapse before a request
\* that finds it standing is over.
Lapses(r, claimed_at) == claimed_at + ADMISSION_GRACE <= req[r].now_ms + REQUEST_TIMEOUT

\* hold_nonce_slot examines the reply of a claim or a takeover.
Examine(r, step, attempt) ==
    \/ /\ step.holder = NoHolder
       /\ req' = [req EXCEPT ![r].pc = "create", ![r].fresh = step.fresh,
                             ![r].holder = NoHolder]
       /\ late' = IF Lapses(r, step.write.at) THEN late \cup {Op(r)} ELSE late
    \/ /\ step.holder # NoHolder /\ attempt < TAKEOVER_ATTEMPTS
       /\ req' = [req EXCEPT ![r].pc = "judge", ![r].attempt = attempt,
                             ![r].holder = step.holder]
       /\ UNCHANGED late
    \/ /\ step.holder # NoHolder /\ attempt = TAKEOVER_ATTEMPTS
       /\ Settle(r, "nonce_in_flight") /\ UNCHANGED late

ClaimNonce(r) ==
    LET step == claim(slots[Slot(r)], Claimant(r)) IN
    /\ req[r].pc = "claim"
    /\ \/ slots' = [slots EXCEPT ![Slot(r)] = step.write] /\ Examine(r, step, 1)
       \/ /\ "claim" \in Faults
          /\ \/ UNCHANGED slots
             \/ slots' = [slots EXCEPT ![Slot(r)] = step.write]
          /\ Settle(r, "unavailable") /\ UNCHANGED late
    /\ UNCHANGED <<now, records, deadline, queue, expired>>

\* The holder is judged on its record; a live one is a refusal.
JudgeHolder(r) ==
    LET holder == req[r].holder IN
    /\ req[r].pc = "judge"
    /\ IF holder_state(records[holder.op], holder, req[r].now_ms) = "live"
       THEN Settle(r, "nonce_in_flight")
       ELSE Goto(r, "takeover")
    /\ UNCHANGED <<now, slots, records, deadline, queue, history>>

\* The slot may have changed hands since the holder was judged.
TakeOverNonce(r) ==
    LET step == take_over(slots[Slot(r)], req[r].holder.op, Claimant(r)) IN
    /\ req[r].pc = "takeover"
    /\ \/ /\ slots' = [slots EXCEPT ![Slot(r)] = step.write]
          /\ Examine(r, step, req[r].attempt + 1)
       \/ /\ "claim" \in Faults
          /\ \/ UNCHANGED slots
             \/ slots' = [slots EXCEPT ![Slot(r)] = step.write]
          /\ Settle(r, "unavailable") /\ UNCHANGED late
    /\ UNCHANGED <<now, records, deadline, queue, expired>>

\* SET NX of the queued record.  A failed write may have happened; the slot
\* this admission claimed itself is then given back.
CreateQueued(r) ==
    LET Created == /\ records[Op(r)] = NoRecord
                   /\ records' = [records EXCEPT ![Op(r)] = queued_record(FALSE)]
                   /\ deadline' = [deadline EXCEPT ![Op(r)] = Deadline]
    IN
    /\ req[r].pc = "create"
    /\ \/ Created /\ Goto(r, "enqueue")
       \/ /\ records[Op(r)] # NoRecord
          /\ Goto(r, "existing") /\ UNCHANGED <<records, deadline>>
       \/ /\ "create" \in Faults
          /\ Created \/ UNCHANGED <<records, deadline>>
          /\ IF req[r].fresh THEN Goto(r, "release") ELSE Settle(r, "unavailable")
    /\ UNCHANGED <<now, slots, queue, history>>

release_fresh_claim(r) ==
    /\ req[r].pc = "release"
    /\ slots' = [slots EXCEPT ![Slot(r)] = release(@, Op(r))]
    /\ Settle(r, "unavailable")
    /\ UNCHANGED <<now, records, deadline, queue, history>>

\* The record exists already: an admitted one is answered, an unadmitted one
\* is an admission that stopped half-way and is appended again.
LoadExisting(r) ==
    LET existing == records[Op(r)] IN
    /\ req[r].pc = "existing"
    /\ CASE existing = NoRecord                       -> Settle(r, "unavailable")
         [] existing # NoRecord /\ existing.admitted  -> Settle(r, "already_queued")
         [] OTHER                                     -> Goto(r, "enqueue")
    /\ UNCHANGED <<now, slots, records, deadline, queue, history>>

\* Mutant: an unconfirmed append is taken for a confirmed one.
EnqueueUnconfirmed(r) ==
    /\ req[r].pc = "enqueue"
    /\ queue' \in {queue, queue \cup {Op(r)}}
    /\ Goto(r, "mark")
    /\ UNCHANGED <<now, slots, records, deadline, history>>

\* Mutant: an unconfirmed append deletes the record it belongs to.
EnqueueRollsBack(r) ==
    /\ req[r].pc = "enqueue"
    /\ queue' = queue \cup {Op(r)}
    /\ \/ Goto(r, "mark") /\ UNCHANGED records
       \/ Settle(r, "unavailable") /\ records' = [records EXCEPT ![Op(r)] = NoRecord]
    /\ UNCHANGED <<now, slots, deadline, history>>

\* An append that was not acknowledged may have happened.
Enqueue(r) ==
    /\ req[r].pc = "enqueue"
    /\ \/ queue' = queue \cup {Op(r)} /\ Goto(r, "mark")
       \/ /\ "enqueue" \in Faults
          /\ queue' \in {queue, queue \cup {Op(r)}}
          /\ Settle(r, "unavailable")
    /\ UNCHANGED <<now, slots, records, deadline, history>>

MarkAdmitted(r) ==
    LET marked == [records EXCEPT ![Op(r)].admitted = TRUE] IN
    /\ req[r].pc = "mark"
    /\ \/ /\ records[Op(r)] # NoRecord
          /\ records' = marked
          /\ Settle(r, "accepted")
       \/ /\ records[Op(r)] = NoRecord
          /\ UNCHANGED records
          /\ Settle(r, "unavailable")
       \/ /\ "mark" \in Faults
          /\ \/ UNCHANGED records
             \/ records[Op(r)] # NoRecord /\ records' = marked
          /\ Settle(r, "unavailable")
    /\ UNCHANGED <<now, slots, queue, deadline, history>>

\* The HTTP timeout, or a crash, drops the admission between two calls.
Drop(r) ==
    /\ req[r].pc \in Running
    /\ Settle(r, "unavailable")
    /\ UNCHANGED <<now, slots, records, deadline, queue, history>>

\* Time passes, but never past the timeout of a running request.
Tick ==
    /\ now < MaxTime
    /\ \A r \in Requests : req[r].pc \in Running => now < req[r].now_ms + REQUEST_TIMEOUT
    /\ now' = now + 1
    /\ UNCHANGED <<slots, records, deadline, queue, req, history>>
------------------------------------------------------------------------------
(* The executor, as far as admission sees it. *)

Unsettled(o) == o \in queue /\ records[o] # NoRecord /\ ~is_terminal(records[o].status)

\* Triage finalises an admission that stopped before its marker.
Recover(o) ==
    /\ Unsettled(o) /\ ~records[o].admitted
    /\ records' = [records EXCEPT ![o].admitted = TRUE]
    /\ UNCHANGED <<now, slots, queue, req, deadline, history>>

\* A retryable executor outcome is recorded without a transition.
record_deferred(o) ==
    /\ Unsettled(o) /\ records[o].admitted
    /\ records' = [records EXCEPT ![o].attempted = TRUE]
    /\ UNCHANGED <<now, slots, queue, req, deadline, history>>

\* The statuses the executor and the receipt checks write.
ExecutorStatuses == {"submitted", "rejected", "included", "failed"}

\* The executor, or a receipt, moves the operation along the table.
Execute(o, status) ==
    /\ records[o] # NoRecord /\ records[o].admitted
    /\ o \in queue \/ records[o].status = "submitted"
    /\ status # records[o].status /\ transition_is_allowed(records[o].status, status)
    /\ records' = [records EXCEPT ![o].status = status]
    /\ UNCHANGED <<now, slots, queue, req, deadline, history>>

\* The envelope of a durably settled operation is acknowledged.
Acknowledge(o) ==
    /\ o \in queue /\ records[o] # NoRecord /\ is_durable(records[o].status)
    /\ queue' = queue \ {o}
    /\ UNCHANGED <<now, slots, records, deadline, req, history>>

\* The record's TTL elapses, whoever is working on it: a request that created
\* it is long over, a resubmission may be between any two of its calls.
ExpireRecord(o) ==
    /\ records[o] # NoRecord /\ now >= deadline[o]
    /\ Cardinality(expired \cup {o}) <= MaxExpired
    /\ records' = [records EXCEPT ![o] = NoRecord]
    /\ deadline' = [deadline EXCEPT ![o] = 0]
    /\ expired' = expired \cup {o}
    /\ UNCHANGED <<now, slots, queue, req, late>>

\* Triage restores a record that is gone from the envelope, with a TTL of its own.
RestoreQueued(o) ==
    /\ o \in queue /\ records[o] = NoRecord
    /\ records' = [records EXCEPT ![o] = queued_record(TRUE)]
    /\ deadline' = [deadline EXCEPT ![o] = Deadline]
    /\ UNCHANGED <<now, slots, queue, req, history>>
------------------------------------------------------------------------------
RequestStep(r) == \/ drive_admission(r) \/ ClaimNonce(r) \/ JudgeHolder(r)
                  \/ TakeOverNonce(r) \/ CreateQueued(r) \/ release_fresh_claim(r)
                  \/ LoadExisting(r) \/ Enqueue(r) \/ MarkAdmitted(r)

Next == \/ \E r \in Requests : RequestStep(r) \/ Drop(r)
        \/ Tick
        \/ \E o \in Ops : \/ Recover(o) \/ record_deferred(o) \/ Acknowledge(o)
                          \/ \E s \in ExecutorStatuses : Execute(o, s)
                          \/ ExpireRecord(o) \/ RestoreQueued(o)

Spec == Init /\ [][Next]_vars
------------------------------------------------------------------------------
(* Properties. *)

\* Every variable has its type; a slot names an operation or is wholly empty.
TypeOK == /\ now \in Nat
          /\ slots \in [Slots -> NonceHolder \cup {NoHolder}]
          /\ records \in [Ops -> Record \cup {NoRecord}] /\ deadline \in [Ops -> Nat]
          /\ queue \subseteq Ops
          /\ req \in [Requests -> Request]
          /\ expired \subseteq Ops /\ late \subseteq Ops

\* The caller holds an answer that carries the hash: "sent".
Answered(o) == \E r \in Requests : OpOf[r] = o
                                    /\ req[r].outcome \in {"accepted", "already_queued"}

Live(o) == records[o] # NoRecord /\ records[o].admitted /\ ~is_terminal(records[o].status)

BothLive(a, b) == /\ a # b /\ SlotOf[a] = SlotOf[b]
                  /\ Answered(a) /\ Live(a) /\ Answered(b) /\ Live(b)

\* Two different operations at one nonce are never both answered with a hash
\* while both are live: the slot, its takeovers and the timeouts let only one
\* of them in (the promise of nonce_slot.rs).  An operation that outlives its
\* record's TTL loses its slot and is outside the promise.
OneLivePerNonce == \A a, b \in Ops \ expired : ~BothLive(a, b)

\* The same where operations are submitted again, for those whose every request
\* held a claim that outlasted it: claim (nonce_slot.rs) answers a resubmission
\* without renewing the claim, so a late one is not protected.
OneLivePerTimelyNonce == \A a, b \in Ops \ (expired \cup late) : ~BothLive(a, b)

\* An admitted operation is never stranded: until it is terminal its envelope
\* is in the durable queue, or its bundle is out and the receipt settles it.
\* Whatever call fails and whoever is dropped, `admitted` is never set on a
\* record no one will execute.
LiveIsQueuedOrSubmitted ==
    \A o \in Ops : Live(o) => o \in queue \/ records[o].status = "submitted"

\* An unconfirmed append never leaves an envelope without its record: the
\* record is created first, and only its TTL removes it.
NoExecutableOrphan == \A o \in queue \ expired : records[o] # NoRecord
==============================================================================
