------------------------------- MODULE Records -------------------------------
(***************************************************************************)
(* The stored record of a UserOperation and the writes the shells make to  *)
(* it (StoredUserOperation of vela-relay-core/src/task.rs, the patches of  *)
(* src/app/user_operation_store.rs).                                       *)
(***************************************************************************)
EXTENDS Lifecycle

CONSTANTS Tx,        \* hashes of outer transactions
          NoTx,      \* no transaction hash
          NoRecord   \* the record does not exist, or its TTL elapsed

\* The fields decisions depend on; the operation, receipt and diagnostics are
\* carried along by the code and never judged.
Record == [status : Status, tx : Tx \cup {NoTx}, admitted : BOOLEAN, attempted : BOOLEAN]

ASSUME NullsAssumption == NoTx \notin Tx /\ NoRecord \notin Record

queued_record(admitted) ==
    [status |-> "queued", tx |-> NoTx, admitted |-> admitted, attempted |-> FALSE]

\* The patches the shells write: a field that is NoStatus, NoTx or FALSE is
\* absent from the patch.
AdmittedPatch == [status |-> NoStatus, tx |-> NoTx, admitted |-> TRUE, attempted |-> FALSE]
DeferredPatch == [status |-> NoStatus, tx |-> NoTx, admitted |-> FALSE, attempted |-> TRUE]
NotSubmittedPatch ==
    [status |-> "not_submitted", tx |-> NoTx, admitted |-> TRUE, attempted |-> FALSE]
RejectedPatch == [status |-> "rejected", tx |-> NoTx, admitted |-> TRUE, attempted |-> TRUE]
receipt_patch(status, tx) ==
    [status |-> status, tx |-> tx, admitted |-> TRUE, attempted |-> FALSE]

Patches ==
    {AdmittedPatch, DeferredPatch, NotSubmittedPatch, RejectedPatch}
        \cup {receipt_patch(s, t) : s \in {"included", "rejected", "failed"}, t \in Tx}

\* Mutant: the absent status of a patch is written as well.
MergeAbsent(rec, patch) ==
    [status    |-> patch.status,
     tx        |-> IF patch.tx = NoTx THEN rec.tx ELSE patch.tx,
     admitted  |-> rec.admitted \/ patch.admitted,
     attempted |-> rec.attempted \/ patch.attempted]

\* The mechanical merge of a patch into a record.
Merge(rec, patch) ==
    [status    |-> IF patch.status = NoStatus THEN rec.status ELSE patch.status,
     tx        |-> IF patch.tx = NoTx THEN rec.tx ELSE patch.tx,
     admitted  |-> rec.admitted \/ patch.admitted,
     attempted |-> rec.attempted \/ patch.attempted]

\* Mutant: the submission forgets the transaction hash.
SubmittedWithoutHash(rec, t) == [rec EXCEPT !.status = "submitted", !.admitted = TRUE]

\* The 't' merge of a submitted bundle member.
SubmittedAs(rec, t) == [rec EXCEPT !.status = "submitted", !.tx = t, !.admitted = TRUE]
==============================================================================
