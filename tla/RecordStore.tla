----------------------------- MODULE RecordStore -----------------------------
(***************************************************************************)
(* The docker shell's record store (src/app/user_operation_store.rs).      *)
(* A status write is not one Redis command: `patch` GETs the record, asks  *)
(* the core whether the transition is legal, and EVALs a script that       *)
(* merges only while the stored status is still the one that was judged;   *)
(* a lost race re-reads, at most LIFECYCLE_GUARD_ATTEMPTS times.           *)
(* `mark_bundle_submitted` does the same for all members of a bundle at    *)
(* once and indexes them under the transaction hash.  Callers interleave   *)
(* at every command, and a command may time out after Redis applied it.    *)
(***************************************************************************)
EXTENDS Records, FiniteSets

CONSTANTS Ops, NoOp,                 \* operation hashes, and none
          Patchers, Submitters,      \* concurrent calls of patch and of mark_bundle_submitted
          LIFECYCLE_GUARD_ATTEMPTS,  \* rounds of the optimistic guard
          RecordsExpireAgain         \* bound: a record that was restored expires too

ASSUME StoreAssumption == /\ NoOp \notin Ops
                          /\ LIFECYCLE_GUARD_ATTEMPTS \in Nat
                          /\ LIFECYCLE_GUARD_ATTEMPTS > MaxRank
                          /\ RecordsExpireAgain \in BOOLEAN

VARIABLES records,    \* operation hash -> stored record
          index,      \* transaction hash -> members of its bundle index
          pcall,      \* the state of each patch call
          scall,      \* the state of each mark_bundle_submitted call
          expired     \* history: operations whose record's TTL has elapsed

vars == <<records, index, pcall, scall, expired>>

IdlePatch == [pc |-> "idle", op |-> NoOp, patch |-> AdmittedPatch,
              observed |-> "queued", failures |-> 0, exhausted |-> FALSE]

IdleSubmit == [pc |-> "idle", tx |-> NoTx, members |-> {}, remaining |-> {},
               planned |-> {}, observed |-> [o \in Ops |-> "queued"],
               failures |-> 0, indexed |-> {}]

BegunSubmit(t, members) ==
    [IdleSubmit EXCEPT !.pc = "read", !.tx = t, !.members = members, !.remaining = members]

DoneSubmit(t, members, indexed) ==
    [IdleSubmit EXCEPT !.pc = "done", !.tx = t, !.members = members, !.indexed = indexed]

PatchCall == [pc : {"idle", "read", "eval"}, op : Ops \cup {NoOp}, patch : Patches,
              observed : Status, failures : 0 .. LIFECYCLE_GUARD_ATTEMPTS, exhausted : BOOLEAN]

SubmitCall == [pc : {"idle", "read", "eval", "done"}, tx : Tx \cup {NoTx},
               members : SUBSET Ops, remaining : SUBSET Ops, planned : SUBSET Ops,
               observed : [Ops -> Status],
               failures : 0 .. LIFECYCLE_GUARD_ATTEMPTS, indexed : SUBSET Ops]
------------------------------------------------------------------------------
Init == /\ records = [o \in Ops |-> NoRecord]
        /\ index = [t \in Tx |-> {}]
        /\ pcall = [c \in Patchers |-> IdlePatch]
        /\ scall = [c \in Submitters |-> IdleSubmit]
        /\ expired = {}

\* SET NX with the record TTL: an existing record is never overwritten.
create_queued_with_admission(o, admitted) ==
    /\ records[o] = NoRecord
    /\ records' = [records EXCEPT ![o] = queued_record(admitted)]
    /\ UNCHANGED <<index, pcall, scall, expired>>

\* The TTL elapses, possibly under a call that has read the record.
Expire(o) ==
    /\ records[o] # NoRecord /\ (o \in expired => RecordsExpireAgain)
    /\ records' = [records EXCEPT ![o] = NoRecord]
    /\ expired' = expired \cup {o}
    /\ UNCHANGED <<index, pcall, scall>>
------------------------------------------------------------------------------
\* patch: the caller names an operation and a patch ...
patch_begin(c, o, p) ==
    /\ pcall[c].pc = "idle"
    /\ pcall' = [pcall EXCEPT ![c] = [IdlePatch EXCEPT !.pc = "read", !.op = o, !.patch = p]]
    /\ UNCHANGED <<records, index, scall, expired>>

\* The call is over, with an answer or with an error ...
PatchReturns(c) == pcall' = [pcall EXCEPT ![c] = IdlePatch]

\* ... or because the status kept changing.
PatchGivesUp(c) ==
    pcall' = [pcall EXCEPT ![c] = [IdlePatch EXCEPT !.op = pcall[c].op, !.exhausted = TRUE]]

\* ... GETs the record and judges the transition against the table ...
patch_read(c) ==
    LET call == pcall[c] IN
    /\ call.pc = "read"
    /\ IF \/ records[call.op] = NoRecord
          \/ ~decide_patch(records[call.op].status, call.patch.status)
       THEN PatchReturns(c)
       ELSE pcall' = [pcall EXCEPT ![c].pc = "eval",
                                   ![c].observed = records[call.op].status]
    /\ UNCHANGED <<records, index, scall, expired>>

\* ... and merges it under the guard (PATCH_RECORD_SCRIPT).  A lost reply is an
\* error to the caller although the merge happened; either way it returns.
patch_eval(c) ==
    LET call == pcall[c] IN
    /\ call.pc = "eval"
    /\ \/ /\ records[call.op] = NoRecord
          /\ PatchReturns(c)
          /\ UNCHANGED records
       \/ /\ records[call.op] # NoRecord
          /\ records[call.op].status = call.observed
          /\ records' = [records EXCEPT ![call.op] = Merge(@, call.patch)]
          /\ PatchReturns(c)
       \/ /\ records[call.op] # NoRecord
          /\ records[call.op].status # call.observed
          /\ IF call.failures + 1 < LIFECYCLE_GUARD_ATTEMPTS
             THEN pcall' = [pcall EXCEPT ![c].pc = "read", ![c].failures = @ + 1,
                                         ![c].observed = "queued"]
             ELSE PatchGivesUp(c)
          /\ UNCHANGED records
    /\ UNCHANGED <<index, scall, expired>>

\* A command times out or fails before Redis applies it.
patch_command_fails(c) ==
    /\ pcall[c].pc # "idle"
    /\ PatchReturns(c)
    /\ UNCHANGED <<records, index, scall, expired>>
------------------------------------------------------------------------------
\* mark_bundle_submitted: the caller names the transaction and its members ...
submit_begin(c, t, members) ==
    /\ scall[c].pc \notin {"read", "eval"}
    /\ members # {}
    /\ scall' = [scall EXCEPT ![c] = BegunSubmit(t, members)]
    /\ UNCHANGED <<records, index, pcall, expired>>

SubmitReturns(c, members, indexed) ==
    scall' = [scall EXCEPT ![c] = DoneSubmit(scall[c].tx, members, indexed)]

\* Redis timed out: the caller gets an error, whether or not the script ran.
SubmitFails(c) == scall' = [scall EXCEPT ![c] = IdleSubmit]

\* ... MGETs the remaining members and plans the ones the core decided to
\* touch; the skipped ones are skipped for good, the missing ones are no longer
\* members of the call ...
submit_read(c) ==
    LET call == scall[c]
        touched == {o \in call.remaining :
                      /\ records[o] # NoRecord
                      /\ decide_bundle_submission(records[o].status, records[o].tx, call.tx)
                           # "skip"}
        members == call.members \ {o \in call.remaining : records[o] = NoRecord}
    IN
    /\ call.pc = "read"
    /\ IF touched = {}
       THEN SubmitReturns(c, members, call.indexed)
       ELSE scall' = [scall EXCEPT
                        ![c].pc = "eval",
                        ![c].members = members,
                        ![c].planned = touched,
                        ![c].observed = [o \in Ops |-> IF o \in touched THEN records[o].status
                                                       ELSE "queued"]]
    /\ UNCHANGED <<records, index, pcall, expired>>

\* Mutant: the script applies the plan without its guard.
StillThere(call) == {o \in call.planned : records[o] # NoRecord}

\* The members whose record is still as it was judged.
StillAsJudged(call) ==
    {o \in call.planned :
       /\ records[o] # NoRecord
       /\ records[o].status = call.observed[o]
       /\ call.observed[o] = "submitted" => records[o].tx = call.tx}

\* ... and applies the plan in one script (MARK_BUNDLE_SUBMITTED_SCRIPT),
\* guarded member by member; the members that moved are read again.
submit_eval(c) ==
    LET call == scall[c]
        applied == StillAsJudged(call)
        moved == call.planned \ applied
    IN
    /\ call.pc = "eval"
    /\ records' = [o \in Ops |-> IF o \in applied /\ call.observed[o] # "submitted"
                                 THEN SubmittedAs(records[o], call.tx)
                                 ELSE records[o]]
    /\ index' = [index EXCEPT ![call.tx] = @ \cup applied]
    /\ \/ /\ moved = {} \/ call.failures + 1 >= LIFECYCLE_GUARD_ATTEMPTS
          /\ SubmitReturns(c, call.members, call.indexed \cup applied)
       \/ /\ moved # {} /\ call.failures + 1 < LIFECYCLE_GUARD_ATTEMPTS
          /\ scall' = [scall EXCEPT ![c].pc = "read", ![c].remaining = moved,
                                    ![c].indexed = @ \cup applied, ![c].failures = @ + 1]
       \/ SubmitFails(c)
    /\ UNCHANGED <<pcall, expired>>

submit_command_fails(c) ==
    /\ scall[c].pc \in {"read", "eval"}
    /\ SubmitFails(c)
    /\ UNCHANGED <<records, index, pcall, expired>>
------------------------------------------------------------------------------
Next == \/ \E o \in Ops : \/ \E admitted \in BOOLEAN : create_queued_with_admission(o, admitted)
                          \/ Expire(o)
        \/ \E c \in Patchers :
             \/ \E o \in Ops, p \in Patches : patch_begin(c, o, p)
             \/ patch_read(c) \/ patch_eval(c) \/ patch_command_fails(c)
        \/ \E c \in Submitters :
             \/ \E t \in Tx, members \in SUBSET Ops : submit_begin(c, t, members)
             \/ submit_read(c) \/ submit_eval(c) \/ submit_command_fails(c)

Spec == Init /\ [][Next]_vars
------------------------------------------------------------------------------
(* Properties. *)

\* Every variable has its type, and a running call names what it writes.
TypeOK == /\ records \in [Ops -> Record \cup {NoRecord}]
          /\ index \in [Tx -> SUBSET Ops]
          /\ pcall \in [Patchers -> PatchCall]
          /\ scall \in [Submitters -> SubmitCall]
          /\ expired \subseteq Ops
          /\ \A c \in Patchers : pcall[c].pc # "idle" => pcall[c].op \in Ops
          /\ \A c \in Submitters : scall[c].pc # "idle" => scall[c].tx \in Tx

\* No patch ever fails with "UserOperation status kept changing while
\* patching": statuses only move forward, so a patch loses its guard at most
\* MaxRank times however many writers race it, and the attempts of `patch`
\* are enough.  (A record that expired and was restored starts anew.)
NeverExhausted ==
    \A c \in Patchers : pcall[c].exhausted => pcall[c].op \in expired

\* mark_bundle_submitted gives up after the same number of rounds without
\* saying so; it never leaves a live member behind: when it returns, every
\* member it did not index had settled or belongs to another transaction.
NoLiveMemberLeftBehind ==
    \A c \in Submitters : scall[c].pc = "done" =>
        \A o \in (scall[c].members \ scall[c].indexed) \ expired :
            /\ records[o].status \notin {"queued", "not_submitted"}
            /\ records[o].status = "submitted" => records[o].tx # scall[c].tx

\* A bundle index names an operation only once: whatever submissions and
\* receipts race, no operation is indexed under two transactions, so no
\* receipt can settle an operation submitted under another transaction.
IndexedUnderOneTx ==
    \A t1, t2 \in Tx : t1 # t2 => index[t1] \cap index[t2] \subseteq expired

\* A submitted operation is in the index of the transaction its record names:
\* that index is all a receipt is applied to, so an operation missing from it
\* would stay `submitted` for ever.
SubmittedIsIndexed ==
    \A o \in Ops : (records[o] # NoRecord /\ records[o].status = "submitted")
                    => records[o].tx \in Tx /\ o \in index[records[o].tx]

\* The store implements the RecordDO of every operation: whatever commands
\* interleave, each record moves by the atomic, table-judged steps of the
\* durable object, as the comment on apply_patch claims of the two shells.
Durable == INSTANCE RecordDO
ImplementsRecordDO == Durable!Spec
==============================================================================
