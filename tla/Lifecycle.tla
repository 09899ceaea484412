------------------------------ MODULE Lifecycle ------------------------------
(***************************************************************************)
(* The authoritative UserOperation lifecycle: the statuses a stored record *)
(* carries, the transition table, and the two decisions every durable      *)
(* status write goes through (vela-relay-core/src/lifecycle.rs and the     *)
(* status vocabulary of task.rs).  No state: every other module judges its *)
(* writes with these operators, as both shells do.                         *)
(***************************************************************************)
EXTENDS Naturals

\* The stored statuses.  NotFound is answered over RPC and never stored.
Status == {"queued", "not_submitted", "submitted", "rejected", "included", "failed"}

\* The `status` of a patch that requests no transition.
NoStatus == "unchanged"

is_terminal(s) == s \in {"rejected", "included", "failed"}

is_durable(s) == s = "submitted" \/ is_terminal(s)

\* Mutant: only the terminal statuses are protected.
transitions_unjudged(current, next) == current = next \/ ~is_terminal(current)

\* Same-status writes are field merges; terminal statuses lead nowhere.
transition_is_allowed(current, next) ==
    \/ current = next
    \/ current = "queued" /\ next \in {"not_submitted", "submitted", "rejected", "failed"}
    \/ current = "not_submitted" /\ next \in {"submitted", "rejected", "failed"}
    \/ current = "submitted" /\ next \in {"included", "rejected", "failed"}

\* TRUE: Apply.  FALSE: RefuseIllegalTransition.
decide_patch(current, requested) ==
    requested = NoStatus \/ transition_is_allowed(current, requested)

\* Mutant: only a `queued` member is submitted.
submission_skips_not_submitted(status, recordTx, tx) ==
    CASE status = "queued"                           -> "transition"
      [] status = "submitted" /\ recordTx = tx       -> "index_only"
      [] OTHER                                       -> "skip"

\* What submitting transaction `tx` does to one bundle member.  Records and
\* bundles of this model live on one chain, so the chain comparison of the
\* code is always the equal one.
decide_bundle_submission(status, recordTx, tx) ==
    CASE status \in {"queued", "not_submitted"}      -> "transition"
      [] status = "submitted" /\ recordTx = tx       -> "index_only"
      [] OTHER                                       -> "skip"

\* Whether a dead-lettered operation gives up: only one that never left the relay.
dead_letter_gives_up(status) == status \in {"queued", "not_submitted"}
------------------------------------------------------------------------------
\* How far along the table a status is.  Every transition that changes the
\* status raises the rank, which is what bounds the guard retries of the store.
Rank(s) == CASE s = "queued" -> 0
             [] s = "not_submitted" -> 1
             [] s = "submitted" -> 2
             [] OTHER -> 3

MaxRank == 3
==============================================================================
