---------------------------- MODULE LaneExecution ----------------------------
(***************************************************************************)
(* One relayer lane: the batches that execute UserOperations on it         *)
(* (vela-relay-core/src/execution.rs driven by the docker shell's          *)
(* src/worker/executor/engine.rs), the receipt reconciler that shares its  *)
(* outbox without taking the lane lease, the lane lease, the outbox of one *)
(* signed bundle, and the chain the bundles go to.  Records change with    *)
(* the atomic effects RecordStore is shown to implement.                   *)
(*                                                                         *)
(* Every step of an actor is one request of the core to the shell (or a    *)
(* run of requests of which only one touches shared state).  Whatever goes *)
(* wrong (a store or RPC failure, a wait, a lost lease, a crash) spends    *)
(* one unit of MaxFaults.                                                  *)
(***************************************************************************)
EXTENDS Records, FiniteSets, Sequences

CONSTANTS Ops,
          NoOne, Ghost,  \* no lease holder; a holder whose process died
          Invalid,       \* operations whose queued payload builds no candidate
          Early,         \* operations whose account nonce is ahead of the account at first
          Workers,       \* batches in flight (lane tasks, delayed-inbox passes)
          Reconcilers,   \* receipt reconcilers, one per process
          MaxTx,         \* bound: bundles ever signed
          MaxFaults,     \* bound: adverse events
          BundlesRevert, \* a simulated bundle can still revert as a whole on chain
          Redelivery,    \* at-least-once: one operation in two batches at once
          Stalls,        \* a lease can lapse before its holder's heartbeat notices
          ProbesFail,    \* a known-transaction probe can answer "no" on an RPC error
          MaxExpired     \* bound: operations whose record's TTL elapses while it is in use

ASSUME LaneAssumption ==
    /\ MaxTx \in Nat /\ MaxFaults \in Nat /\ MaxExpired \in Nat
    /\ Tx = 1..MaxTx
    /\ Early \subseteq Ops /\ Invalid \subseteq Ops
    /\ Workers \cap Reconcilers = {}
    /\ NoOne # Ghost /\ {NoOne, Ghost} \cap (Workers \cup Reconcilers) = {}
    /\ {BundlesRevert, Redelivery, Stalls, ProbesFail} \subseteq BOOLEAN

VARIABLES
    records,   \* [Ops -> Record or NoRecord]
    index,     \* <<transaction, operation>>: the bundle index of the store
    queue,     \* operations whose offset is uncommitted or that wait in the delayed inbox
    intent,    \* the lane's prepared bundle, or NoTx
    signed,    \* what was signed: signed[t] is the nonce and the members of t
    seen,      \* broadcasts confirmed within the last 30 s (per process; one process here)
    lease,     \* the worker holding the lane lease, or NoOne
    ex,        \* the local state of every actor
    latest,    \* the relayer account's next nonce on chain
    mempool,   \* transactions some node holds
    mined,     \* transactions in blocks
    reverted,  \* mined transactions whose handleOps reverted as a whole
    outcome,   \* what the EntryPoint did with an operation
    ahead,     \* operations whose account nonce the account has not reached
    faults,    \* adverse events so far
    expired    \* history: operations whose record's TTL has elapsed

chain == <<latest, mempool, mined, reverted, outcome, ahead>>
outbox == <<intent, signed, seen>>
store == <<records, index, queue, expired>>
vars == <<store, outbox, lease, ex, chain, faults>>
------------------------------------------------------------------------------
Actors == Workers \cup Reconcilers
TxIds == 1..Len(signed)
Bundle == [nonce : Nat, members : SUBSET Ops]

\* Where an actor is.  "finish" is the common exit of a batch.
WorkerSteps == {"lease", "load", "simulate", "reject", "bundle", "context", "settle",
                "sign", "save", "finish"}
ResumeSteps == {"audit", "broadcast", "probe", "stale", "mark"}
ReceiptSteps == {"receipt", "persist", "clear"}

\* batch: the operations delivered; cands: candidates, later survivors, or the
\* members a receipt is still to be written to; rejects: terminal simulation
\* verdicts still to be written; mismatch: nonce mismatches still to be
\* resolved; durable: results the offset may pass; tx: the bundle resumed or
\* broadcast; fresh: it is the batch's own; active: the audit found a live
\* member; low: the node said "nonce too low"; told: the heartbeat tripped the
\* lease latch.
Idle == [pc |-> "idle", batch |-> {}, cands |-> {}, rejects |-> {}, mismatch |-> {},
         durable |-> {}, nonce |-> 0, tx |-> NoTx, fresh |-> FALSE, active |-> TRUE,
         low |-> FALSE, told |-> FALSE]

At(p, step) == ex[p].pc = step

\* A request of a batch that is answered: the latch turns every later one into
\* Interrupted (BatchShell::execute_fenced).
Fenced(p, step) == At(p, step) /\ ~ex[p].told

Goto(p, local) == ex' = [ex EXCEPT ![p] = local]
Step(p, step) == Goto(p, [ex[p] EXCEPT !.pc = step])

\* The exit of an actor whose work ended with these durable results.
Ends(p, durable) ==
    Goto(p, IF p \in Workers
            THEN [Idle EXCEPT !.pc = "finish", !.batch = ex[p].batch, !.told = ex[p].told,
                              !.durable = ex[p].durable \cup durable]
            ELSE Idle)

Adverse == faults < MaxFaults /\ faults' = faults + 1
Smooth == UNCHANGED faults

Members(t) == signed[t].members
Live(o) == records[o] # NoRecord /\ ~is_terminal(records[o].status)
IsKnown(t) == t \in mempool \cup mined

Patched(o, patch) ==
    IF records[o] # NoRecord /\ decide_patch(records[o].status, patch.status)
    THEN Merge(records[o], patch) ELSE records[o]

Init ==
    /\ records = [o \in Ops |-> queued_record(FALSE)]
    /\ index = {} /\ queue = Ops
    /\ intent = NoTx /\ signed = << >> /\ seen = {}
    /\ lease = NoOne
    /\ ex = [p \in Actors |-> Idle]
    /\ latest = 0 /\ mempool = {} /\ mined = {} /\ reverted = {}
    /\ outcome = [o \in Ops |-> "none"] /\ ahead = Early
    /\ faults = 0 /\ expired = {}
------------------------------------------------------------------------------
(* Starting a batch: core drive_batch up to the lane lease. *)

\* The records are loaded and judged before the lease is held: durable ones
\* are done, a missing one is restored, the candidates are admitted and a
\* payload that builds no candidate is rejected.  An operation that could not
\* be restored or admitted, or does not fit the bundle, waits for a later batch.
drive_batch(w) ==
    /\ At(w, "idle")
    /\ \E batch \in SUBSET queue \ {{}} : \E triaged \in SUBSET batch :
         LET durable == {o \in batch : records[o] # NoRecord
                                         /\ is_durable(records[o].status)}
             cands == triaged \ (durable \cup Invalid)
             rejected == (triaged \cap Invalid) \ durable
             Admitted(o) == IF records[o] = NoRecord THEN queued_record(TRUE)
                            ELSE Merge(records[o], AdmittedPatch)
         IN  /\ Redelivery \/ \A v \in Workers : ex[v].batch \cap batch = {}
             /\ durable \subseteq triaged
             /\ IF triaged = batch THEN Smooth ELSE Adverse
             /\ records' = [o \in Ops |-> IF o \in rejected
                                          THEN Merge(Admitted(o), RejectedPatch)
                                          ELSE IF o \in cands THEN Admitted(o)
                                          ELSE records[o]]
             /\ Goto(w, [Idle EXCEPT !.pc = IF cands = {} THEN "finish" ELSE "lease",
                                     !.batch = batch, !.cands = cands,
                                     !.durable = durable \cup rejected])
    /\ UNCHANGED <<index, queue, expired, outbox, lease, chain>>

\* SET NX EX: refused while anyone else holds the lane.
AcquireLaneLease(w) ==
    /\ At(w, "lease")
    /\ IF lease = NoOne THEN lease' = w /\ Step(w, "load")
                        ELSE UNCHANGED lease /\ Ends(w, {})
    /\ UNCHANGED <<store, outbox, chain, faults>>

\* An outstanding bundle is resumed before anything else is signed.
LoadPreparedBundle(w) ==
    /\ Fenced(w, "load")
    /\ IF intent = NoTx THEN Step(w, "simulate")
       ELSE Goto(w, [ex[w] EXCEPT !.pc = "audit", !.tx = intent, !.fresh = FALSE])
    /\ UNCHANGED <<store, outbox, lease, chain, faults>>

\* The candidates that fail their account nonce (AA25): the chain has executed
\* them, or the account has not reached their nonce yet.
NonceMismatch(w) == {o \in ex[w].cands : outcome[o] # "none" \/ o \in ahead}

\* Each candidate's own verdict; the ones that neither succeed nor are rejected
\* wait (Pending, Transient).
SimulateIndividually(w) ==
    /\ Fenced(w, "simulate")
    /\ \E success \in SUBSET (ex[w].cands \ NonceMismatch(w)) :
       \E rejected \in SUBSET (ex[w].cands \ (NonceMismatch(w) \cup success)) :
         /\ IF success \cup rejected \cup NonceMismatch(w) = ex[w].cands
            THEN Smooth ELSE Adverse
         /\ Goto(w, [ex[w] EXCEPT !.pc = "reject", !.cands = success,
                                  !.rejects = rejected, !.mismatch = NonceMismatch(w)])
    /\ UNCHANGED <<store, outbox, lease, chain>>

\* MarkRejected for every terminal verdict, before anything is broadcast.  Of
\* the nonce mismatches, the account nonces fetched now tell the future ones,
\* which go to the delayed inbox, from the stale ones, which are rejected.
MarkRejected(w) ==
    LET stale == ex[w].mismatch \ ahead
        settled == ex[w].rejects \cup stale
    IN
    /\ Fenced(w, "reject")
    /\ records' = [o \in Ops |-> IF o \in settled THEN Patched(o, RejectedPatch)
                                                  ELSE records[o]]
    /\ IF ex[w].cands = {} THEN Ends(w, settled)
       ELSE Goto(w, [ex[w] EXCEPT !.pc = "bundle", !.rejects = {}, !.mismatch = {},
                                  !.durable = @ \cup settled])
    /\ UNCHANGED <<index, queue, expired, outbox, lease, chain, faults>>

\* Lease check, then several operations are simulated as one bundle; when they
\* do not fit together the first one goes alone.  A bundle of one is not
\* simulated again if its own simulation executed it in full; otherwise it is,
\* and waits if the chain has executed it since.
SimulateBundle(w) ==
    LET cands == ex[w].cands
        Proceed(members) == Goto(w, [ex[w] EXCEPT !.pc = "context", !.cands = members])
    IN
    /\ Fenced(w, "bundle") /\ lease = w
    /\ \/ Cardinality(cands) > 1 /\ (\A o \in cands : outcome[o] = "none") /\ Proceed(cands)
       \/ \E o \in cands, full_execution \in BOOLEAN :
            IF full_execution \/ outcome[o] = "none" THEN Proceed({o}) ELSE Ends(w, {})
    /\ UNCHANGED <<store, outbox, lease, chain, faults>>

\* The nonces a node may report as pending.
PendingNonces == {n \in latest..(latest + Cardinality(mempool)) :
                    \A k \in latest..(n - 1) : \E t \in mempool : signed[t].nonce = k}

\* Lease check, then balance, nonce and fees are fetched.
FetchTransactionContext(w) ==
    /\ Fenced(w, "context") /\ lease = w
    /\ \E n \in PendingNonces :
         Goto(w, [ex[w] EXCEPT !.pc = "settle", !.nonce = n])
    /\ UNCHANGED <<store, outbox, lease, chain, faults>>

\* Every survivor's reimbursement is judged: one that can never cover its cost
\* is rejected, one that cannot at today's price is held in the delayed inbox;
\* either ends the batch without a bundle.
Settle(w) ==
    /\ Fenced(w, "settle")
    /\ \E rejected \in SUBSET ex[w].cands : \E held \in SUBSET (ex[w].cands \ rejected) :
         /\ records' = [o \in Ops |-> IF o \in rejected THEN Patched(o, RejectedPatch)
                                                        ELSE records[o]]
         /\ IF held = {} THEN Smooth ELSE Adverse
         /\ IF rejected \cup held = {} THEN Step(w, "sign") ELSE Ends(w, rejected)
    /\ UNCHANGED <<index, queue, expired, outbox, lease, chain>>

\* Lease checks around signing; funding, when the relayer lacks gas, is a wait
\* (Fail) or done before this step.
SignBundle(w) ==
    /\ Fenced(w, "sign") /\ lease = w
    /\ Len(signed) < MaxTx
    /\ signed' = Append(signed, [nonce |-> ex[w].nonce, members |-> ex[w].cands])
    /\ Goto(w, [ex[w] EXCEPT !.pc = "save", !.tx = Len(signed) + 1, !.fresh = TRUE])
    /\ UNCHANGED <<store, intent, seen, lease, chain, faults>>

\* Mutant: the outbox is overwritten.
SaveOverPrepared(w) ==
    /\ Fenced(w, "save")
    /\ intent' = ex[w].tx /\ Step(w, "broadcast")
    /\ UNCHANGED <<store, signed, seen, lease, chain, faults>>

\* SET NX of the outbox; a loser resumes the winner's bundle and reports
\* nothing durable.
SavePreparedBundle(w) ==
    /\ Fenced(w, "save")
    /\ IF intent = NoTx THEN intent' = ex[w].tx /\ Step(w, "broadcast")
       ELSE /\ UNCHANGED intent
            /\ Goto(w, [ex[w] EXCEPT !.pc = "audit", !.tx = intent, !.fresh = FALSE,
                                     !.cands = {}])
    /\ UNCHANGED <<store, signed, seen, lease, chain, faults>>
------------------------------------------------------------------------------
(* Resuming and broadcasting a prepared bundle, by a worker or a reconciler. *)

\* The reconciler lists the outbox and resumes what it finds.
reconcile_prepared_bundles(r) ==
    /\ At(r, "idle") /\ intent # NoTx
    /\ Goto(r, [Idle EXCEPT !.pc = "audit", !.tx = intent])
    /\ UNCHANGED <<store, outbox, lease, chain, faults>>

\* What the members' records say about replaying the bundle.
SubmittedElsewhere(t) == \E o \in Members(t) :
    records[o] # NoRecord /\ records[o].status = "submitted" /\ records[o].tx # t
Unadmitted(t) == \E o \in Members(t) :
    /\ records[o] # NoRecord /\ ~records[o].admitted
    /\ records[o].status \in {"queued", "not_submitted"}
NoneActive(t) == \A o \in Members(t) : ~Live(o)
SomeTerminal(t) == \E o \in Members(t) :
    records[o] # NoRecord /\ is_terminal(records[o].status)

\* Mutant: the outbox is deleted whatever bundle it holds.
ClearAnyIntent(t) == intent' = NoTx /\ seen' = seen \ {t} /\ UNCHANGED signed

\* The compare-and-delete of the outbox, and the broadcast cache with it.
ClearIntent(t) ==
    /\ intent' = IF intent = t THEN NoTx ELSE intent
    /\ seen' = seen \ {t}
    /\ UNCHANGED signed

\* A bundle whose members are all settled is obsolete; any other is broadcast.
audit_bundle_replay(p) ==
    LET t == ex[p].tx
        refused == SubmittedElsewhere(t) \/ Unadmitted(t)
        obsolete == NoneActive(t) /\ SomeTerminal(t)
    IN
    /\ Fenced(p, "audit")
    /\ \/ refused /\ Ends(p, {}) /\ UNCHANGED outbox
       \/ ~refused /\ obsolete /\ ClearIntent(t) /\ Ends(p, ex[p].cands \cap Members(t))
       \/ /\ ~refused /\ ~obsolete /\ UNCHANGED outbox
          /\ Goto(p, [ex[p] EXCEPT !.pc = "broadcast", !.active = ~NoneActive(t)])
    /\ UNCHANGED <<store, lease, chain, faults>>

\* A confirmed broadcast goes on to MarkBundleSubmitted.
Confirmed(p) == seen' = seen \cup {ex[p].tx} /\ Step(p, "mark")

\* Whether a node takes the bytes as a new transaction.
Acceptable(t) == /\ ~IsKnown(t) /\ signed[t].nonce >= latest
                 /\ \A u \in mempool : signed[u].nonce # signed[t].nonce

\* eth_sendRawTransaction, skipped for a bundle confirmed within 30 s.  The
\* nodes take it and say so, take it and the answer is lost, refuse it, or
\* answer "already known", "underpriced" or "nonce too low".
broadcast_bundle(p) ==
    LET t == ex[p].tx
        Unproven(low) == /\ seen' = seen \ {t}
                         /\ Goto(p, [ex[p] EXCEPT !.pc = "probe", !.low = low])
    IN
    /\ Fenced(p, "broadcast")
    /\ \/ t \in seen /\ Step(p, "mark") /\ UNCHANGED <<seen, mempool>> /\ Smooth
       \/ /\ t \notin seen /\ Acceptable(t)
          /\ \/ mempool' = mempool \cup {t} /\ Confirmed(p) /\ Smooth
             \/ mempool' = mempool \cup {t} /\ Unproven(FALSE) /\ Adverse
             \/ UNCHANGED mempool /\ Unproven(FALSE) /\ Adverse
       \/ /\ t \notin seen /\ ~Acceptable(t)
          /\ \E low \in BOOLEAN :
               /\ low => signed[t].nonce < latest
               /\ ~low => IsKnown(t) \/ signed[t].nonce >= latest
               /\ Unproven(low)
          /\ UNCHANGED mempool /\ Smooth
    /\ UNCHANGED <<store, intent, signed, lease, latest, mined, reverted, outcome, ahead>>

\* Mutant: "nonce too low" is believed without looking for the bundle.
StaleWithoutProbe(p) ==
    /\ Fenced(p, "probe")
    /\ \/ IsKnown(ex[p].tx) /\ ~ex[p].low /\ Confirmed(p)
       \/ /\ ex[p].low \/ ~IsKnown(ex[p].tx)
          /\ IF ex[p].low THEN Step(p, "stale") ELSE Ends(p, {})
          /\ UNCHANGED seen
    /\ UNCHANGED <<store, intent, signed, lease, chain, faults>>

\* eth_getTransactionByHash, then resolve_unproven_broadcast: a known bundle is
\* confirmed, "nonce too low" asks for the account nonce, anything else keeps
\* the outbox for a later pass.  A failed probe counts as "not known".
ProbeTransactionKnown(p) ==
    LET t == ex[p].tx IN
    /\ Fenced(p, "probe")
    /\ \/ IsKnown(t) /\ Confirmed(p) /\ Smooth
       \/ /\ \/ ~IsKnown(t) /\ Smooth
             \/ IsKnown(t) /\ ProbesFail /\ Adverse
          /\ IF ex[p].low THEN Step(p, "stale") ELSE Ends(p, {})
          /\ UNCHANGED seen
    /\ UNCHANGED <<store, intent, signed, lease, chain>>

\* The account nonce has passed the bundle's: the bundle is dead, forget it.
ClearStaleIntent(p) ==
    LET t == ex[p].tx IN
    /\ Fenced(p, "stale")
    /\ IF signed[t].nonce < latest THEN ClearIntent(t) ELSE UNCHANGED outbox
    /\ Ends(p, {})
    /\ UNCHANGED <<store, lease, chain, faults>>

\* The members enter `submitted` under the bundle and the bundle index.  A
\* batch's own bundle must index every member; a resumed one re-audits what it
\* could not index; the reconciler goes on to the receipt while an intent is
\* still there.
MarkBundleSubmitted(p) ==
    LET t == ex[p].tx
        Decision(o) == IF records[o] = NoRecord THEN "skip"
                       ELSE decide_bundle_submission(records[o].status, records[o].tx, t)
        indexed == {o \in Members(t) : ex[p].active /\ Decision(o) # "skip"}
    IN
    /\ Fenced(p, "mark")
    /\ records' = [o \in Ops |-> IF o \in indexed /\ Decision(o) = "transition"
                                 THEN SubmittedAs(records[o], t) ELSE records[o]]
    /\ index' = index \cup {<<t, o>> : o \in indexed}
    /\ CASE ex[p].fresh
              -> UNCHANGED outbox /\ Ends(p, IF indexed = Members(t) THEN indexed ELSE {})
         [] ~ex[p].fresh /\ ex[p].active /\ SubmittedElsewhere(t)
              -> UNCHANGED outbox /\ Ends(p, {})
         [] ~ex[p].fresh /\ ex[p].active /\ NoneActive(t) /\ SomeTerminal(t)
              -> ClearIntent(t) /\ Ends(p, ex[p].cands \cap Members(t))
         [] OTHER
              -> /\ UNCHANGED outbox
                 /\ IF p \in Reconcilers /\ intent # NoTx THEN Step(p, "receipt")
                    ELSE Ends(p, ex[p].cands \cap Members(t))
    /\ UNCHANGED <<queue, expired, lease, chain, faults>>
------------------------------------------------------------------------------
(* The receipt, by a reconciler. *)

\* eth_getTransactionReceipt; null while the bundle is not mined.
FetchReceipt(r) ==
    LET t == ex[r].tx IN
    /\ At(r, "receipt")
    /\ IF t \in mined
       THEN Goto(r, [ex[r] EXCEPT !.pc = "persist",
                                  !.cands = {o \in Ops : <<t, o>> \in index}])
       ELSE Ends(r, {})
    /\ UNCHANGED <<store, outbox, lease, chain, faults>>

\* Mutant: a bundle that did not revert included all its members.
IncludedUnlessReverted(t, o) == IF t \in reverted THEN "failed" ELSE "included"

\* What the receipt says of one indexed member.
ReceiptStatus(t, o) == IF t \in reverted THEN "failed"
                       ELSE IF outcome[o] = "success" THEN "included" ELSE "rejected"

\* mark_bundle_failed and mark_bundle_confirmed write one member at a time.
PersistReceipt(r) ==
    LET t == ex[r].tx IN
    /\ At(r, "persist")
    /\ IF ex[r].cands = {} THEN Step(r, "clear") /\ UNCHANGED records
       ELSE \E o \in ex[r].cands :
              /\ records' = [records EXCEPT ![o] =
                               Patched(o, receipt_patch(ReceiptStatus(t, o), t))]
              /\ Goto(r, [ex[r] EXCEPT !.cands = @ \ {o}])
    /\ UNCHANGED <<index, queue, expired, outbox, lease, chain, faults>>

\* Only a persisted receipt clears the outbox.
ClearReconciled(r) ==
    /\ At(r, "clear")
    /\ ClearIntent(ex[r].tx) /\ Ends(r, {})
    /\ UNCHANGED <<store, lease, chain, faults>>
------------------------------------------------------------------------------
(* The end of a batch, and everything that can go wrong. *)

\* Mutant: the whole batch is acknowledged.
finish_acks_batch(w) ==
    /\ At(w, "finish")
    /\ lease' = IF lease = w THEN NoOne ELSE lease
    /\ queue' = queue \ ex[w].batch
    /\ Goto(w, Idle)
    /\ UNCHANGED <<records, index, expired, outbox, chain, faults>>

\* The lease is released by token and the durable operations are acknowledged.
finish(w) ==
    /\ At(w, "finish")
    /\ lease' = IF lease = w THEN NoOne ELSE lease
    /\ queue' = queue \ ex[w].durable
    /\ Goto(w, Idle)
    /\ UNCHANGED <<records, index, expired, outbox, chain, faults>>

\* A failed request or a funding wait ends the work early; what is not durable
\* yet is retried.
Fail(p) ==
    /\ ex[p].pc \notin {"idle", "finish"} /\ Adverse
    /\ Ends(p, {})
    /\ UNCHANGED <<store, outbox, lease, chain>>

\* So does the latch, or a lease check that finds the lease gone.
Interrupted(w) ==
    /\ ex[w].pc \notin {"idle", "lease", "finish"}
    /\ ex[w].told \/ lease # w
    /\ Ends(w, {})
    /\ UNCHANGED <<store, outbox, lease, chain, faults>>

\* The process dies.  What it had not committed is delivered again.
Crash(p) ==
    /\ ~At(p, "idle") /\ Adverse
    /\ lease' = IF lease = p THEN Ghost ELSE lease
    /\ Goto(p, Idle)
    /\ UNCHANGED <<store, outbox, chain>>

\* The TTL of a dead holder's lease elapses.
GhostLapses ==
    /\ lease = Ghost /\ lease' = NoOne
    /\ UNCHANGED <<store, outbox, ex, chain, faults>>

\* The TTL elapses under a live holder: the heartbeat failed to renew it and
\* tripped the latch first, unless the process stalled.
LeaseLapses ==
    /\ lease \in Workers /\ lease' = NoOne /\ Adverse
    /\ \/ Goto(lease, [ex[lease] EXCEPT !.told = TRUE])
       \/ Stalls /\ UNCHANGED ex
    /\ UNCHANGED <<store, outbox, chain>>

\* The next heartbeat of a holder that lost its lease.
Heartbeat(w) ==
    /\ ex[w].pc \notin {"idle", "lease", "finish"}
    /\ lease # w /\ ~ex[w].told
    /\ Goto(w, [ex[w] EXCEPT !.told = TRUE])
    /\ UNCHANGED <<store, outbox, lease, chain, faults>>

SeenLapses(t) ==
    /\ t \in seen /\ seen' = seen \ {t}
    /\ UNCHANGED <<store, intent, signed, lease, ex, chain, faults>>

\* The record's TTL counts from its creation, the bundle index's from the
\* submission: the index outlives the record.
ExpireRecord(o) ==
    /\ records[o] # NoRecord /\ Adverse
    /\ Cardinality(expired \cup {o}) <= MaxExpired
    /\ records' = [records EXCEPT ![o] = NoRecord]
    /\ expired' = expired \cup {o}
    /\ UNCHANGED <<index, queue, outbox, lease, ex, chain>>
------------------------------------------------------------------------------
(* The chain. *)

\* The next transaction of the relayer account goes into a block.  handleOps
\* reverts as a whole if one of its operations was executed before (AA25), and
\* may revert for reasons of its own.
Mine(t) ==
    /\ t \in mempool /\ signed[t].nonce = latest
    /\ latest' = latest + 1
    /\ mined' = mined \cup {t}
    /\ mempool' = {u \in mempool : signed[u].nonce > latest}
    /\ \/ /\ BundlesRevert \/ \E o \in Members(t) : outcome[o] # "none"
          /\ reverted' = reverted \cup {t} /\ UNCHANGED outcome
       \/ /\ \A o \in Members(t) : outcome[o] = "none"
          /\ \E result \in [Members(t) -> {"success", "failure"}] :
               outcome' = [o \in Ops |-> IF o \in Members(t) THEN result[o] ELSE outcome[o]]
          /\ UNCHANGED reverted
    /\ UNCHANGED <<store, outbox, lease, ex, faults, ahead>>

\* An account's earlier operation is executed, by whatever route.
AccountAdvances(o) ==
    /\ o \in ahead /\ ahead' = ahead \ {o}
    /\ UNCHANGED <<store, outbox, lease, ex, latest, mempool, mined, reverted, outcome, faults>>

\* Every node forgets a pending transaction.
DropTx(t) ==
    /\ t \in mempool /\ Adverse
    /\ mempool' = mempool \ {t}
    /\ UNCHANGED <<store, outbox, lease, ex, latest, mined, reverted, outcome, ahead>>
------------------------------------------------------------------------------
Batch(w) ==
    \/ drive_batch(w) \/ AcquireLaneLease(w) \/ LoadPreparedBundle(w)
    \/ SimulateIndividually(w) \/ MarkRejected(w) \/ SimulateBundle(w)
    \/ FetchTransactionContext(w) \/ Settle(w) \/ SignBundle(w)
    \/ SavePreparedBundle(w) \/ finish(w)

Resume(p) == \/ audit_bundle_replay(p) \/ broadcast_bundle(p) \/ ProbeTransactionKnown(p)
             \/ ClearStaleIntent(p) \/ MarkBundleSubmitted(p)

Reconcile(r) == \/ reconcile_prepared_bundles(r) \/ FetchReceipt(r)
                \/ PersistReceipt(r) \/ ClearReconciled(r)

Next ==
    \/ \E w \in Workers : Batch(w) \/ Heartbeat(w) \/ Interrupted(w)
    \/ \E p \in Actors : Resume(p) \/ Fail(p) \/ Crash(p)
    \/ \E r \in Reconcilers : Reconcile(r)
    \/ GhostLapses \/ LeaseLapses
    \/ \E t \in TxIds : SeenLapses(t) \/ Mine(t) \/ DropTx(t)
    \/ \E o \in Ops : ExpireRecord(o) \/ AccountAdvances(o)

Spec == Init /\ [][Next]_vars

\* The worker and reconciler loops keep running, blocks keep coming, a dead
\* holder's lease lapses and the 30 s broadcast cache forgets.
Progress ==
    /\ \A w \in Workers : WF_vars(Batch(w)) /\ WF_vars(Heartbeat(w) \/ Interrupted(w))
    /\ \A p \in Actors : WF_vars(Resume(p))
    /\ \A r \in Reconcilers : WF_vars(Reconcile(r))
    /\ WF_vars(GhostLapses)
    /\ \A t \in Tx : WF_vars(t \in TxIds /\ SeenLapses(t)) /\ WF_vars(t \in TxIds /\ Mine(t))

FairSpec == Spec /\ Progress
------------------------------------------------------------------------------
Local == [pc : WorkerSteps \cup ResumeSteps \cup ReceiptSteps \cup {"idle"},
          batch : SUBSET Ops, cands : SUBSET Ops, rejects : SUBSET Ops,
          mismatch : SUBSET Ops, durable : SUBSET Ops,
          nonce : Nat, tx : Tx \cup {NoTx}, fresh : BOOLEAN, active : BOOLEAN,
          low : BOOLEAN, told : BOOLEAN]

\* Every variable has its type; transaction ids name signed bundles.
TypeOK ==
    /\ records \in [Ops -> Record \cup {NoRecord}]
    /\ index \subseteq Tx \X Ops /\ queue \subseteq Ops /\ expired \subseteq Ops
    /\ signed \in Seq(Bundle) /\ Len(signed) <= MaxTx
    /\ intent \in TxIds \cup {NoTx} /\ seen \subseteq TxIds
    /\ lease \in Workers \cup {NoOne, Ghost}
    /\ ex \in [Actors -> Local]
    /\ \A p \in Actors : ex[p].tx \in TxIds \cup {NoTx}
    /\ latest \in Nat /\ mempool \subseteq TxIds /\ mined \subseteq TxIds
    /\ reverted \subseteq mined
    /\ outcome \in [Ops -> {"none", "success", "failure"}] /\ ahead \subseteq Ops
    /\ faults \in 0..MaxFaults

\* A transaction that can still be mined is the one in the outbox: a bundle is
\* saved before it is broadcast and nothing but its receipt, its dead nonce or
\* the settlement of all its members clears it.
PendingIsPrepared ==
    \A t \in mempool : signed[t].nonce >= latest => intent = t

\* A `submitted` record is never orphaned: the bundle it names is the one in
\* the outbox, so a reconciler will come for its receipt.  (A record that
\* expires and is restored can be submitted after its receipt was read.)
SubmittedIsTracked ==
    \A o \in Ops \ expired : records[o] # NoRecord /\ records[o].status = "submitted"
                     => intent = records[o].tx /\ o \in Members(intent)

\* What the relay reports of an operation is what the chain did with it:
\* `included` means its event succeeded, and a `rejected` one never succeeds
\* (unless its record was restored after its TTL: then its own success is
\* taken for a consumed nonce).
InclusionIsTrue ==
    \A o \in Ops : records[o] # NoRecord =>
        /\ records[o].status = "included" => outcome[o] = "success"
        /\ records[o].status = "rejected" => outcome[o] # "success" \/ o \in expired

\* A bundle that can still be mined carries no operation the chain has executed
\* already: it would revert as a whole and burn the relayer's gas.
NoWastedBundle ==
    \A t \in mempool : \A o \in Members(t) : outcome[o] = "none"

\* An operation leaves the queue only once its outcome is durable.
AckedIsDurable ==
    \A o \in Ops \ queue : records[o] # NoRecord => is_durable(records[o].status)

\* A nonce mismatch is written off as stale only when the account nonce was
\* consumed.
StaleNonceIsConsumed ==
    [][\A w \in Workers, o \in Ops :
         (o \in ex[w].mismatch /\ o \notin ex[w].rejects /\ MarkRejected(w)
            /\ records'[o].status = "rejected")
           => outcome[o] # "none"]_vars

\* Every operation reaches a terminal status.
EverySettles ==
    \A o \in Ops : <>(records[o] # NoRecord /\ is_terminal(records[o].status))
==============================================================================
