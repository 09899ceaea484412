------------------------------- MODULE RecordDO -------------------------------
(***************************************************************************)
(* The RecordDOs: the Cloudflare durable objects, one per UserOperation,   *)
(* that own the stored records (vela-relay-cf/src/record_do.rs).  An       *)
(* object runs its commands one at a time on its own storage, so a command *)
(* is one atomic step of its record; different objects run in parallel, so *)
(* one step of the system may be a command of several of them.  This is    *)
(* also what a record promises anywhere: RecordStore, the Redis store of   *)
(* the docker shell, is shown to implement it although each of its writes  *)
(* is a read, a decision and a guarded script.                             *)
(***************************************************************************)
EXTENDS Records

CONSTANT Ops        \* operation hashes: the objects

VARIABLE records    \* the record each object stores, or NoRecord
------------------------------------------------------------------------------
Init == records = [o \in Ops |-> NoRecord]

Exists(o) == records[o] # NoRecord

CreateQueued(o) == ~Exists(o) /\ records'[o] = queued_record(FALSE)

RestoreQueued(o) == ~Exists(o) /\ records'[o] = queued_record(TRUE)

MarkAdmitted(o) == Exists(o) /\ records'[o] = [records[o] EXCEPT !.admitted = TRUE]

apply_patch(o, patch) ==
    /\ Exists(o)
    /\ decide_patch(records[o].status, patch.status)
    /\ records'[o] = Merge(records[o], patch)

\* A dead-lettered message: its record gives up unless the bundle is out.
give_up(o) ==
    /\ Exists(o)
    /\ dead_letter_gives_up(records[o].status)
    /\ records'[o] = [records[o] EXCEPT !.status = "rejected", !.attempted = TRUE]

apply_bundle_submission(o, t) ==
    /\ Exists(o)
    /\ decide_bundle_submission(records[o].status, records[o].tx, t) = "transition"
    /\ records'[o] = SubmittedAs(records[o], t)

\* The TTL alarm drops the record in whatever status it is.
alarm(o) == Exists(o) /\ records'[o] = NoRecord

Command(o) == \/ CreateQueued(o) \/ RestoreQueued(o) \/ MarkAdmitted(o)
              \/ \E p \in Patches : apply_patch(o, p)
              \/ give_up(o)
              \/ \E t \in Tx : apply_bundle_submission(o, t)
              \/ alarm(o)

Next == /\ records' \in [Ops -> Record \cup {NoRecord}]
        /\ \A o \in Ops : records'[o] = records[o] \/ Command(o)

Spec == Init /\ [][Next]_records
==============================================================================
