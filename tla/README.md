# Vela Relay in TLA+

Vela Relay is an ERC-4337 bundler. A pure core (`vela-relay-core`) decides; two
shells carry its decisions out: the docker shell (`src/`, Axum + Redis + Iggy)
and the Cloudflare shell (`vela-relay-cf`, durable objects + Queues). This
directory models what makes the relay correct: that an operation is admitted
once, executed once, reported truthfully and never lost, although requests
interleave, calls fail after they took effect, leases lapse and processes die.

## 1. The system

| part | state | operations | what makes it hard |
|---|---|---|---|
| lifecycle table (`lifecycle.rs`) | none | `transition_is_allowed`, `decide_patch`, `decide_bundle_submission`, `dead_letter_patch` | every durable status write goes through it |
| record store (`user_operation_store.rs`) | a record per operation (1 h TTL), a bundle index per transaction | `create_queued`, `patch`, `mark_bundle_submitted` | a write is GET + decision in Rust + guarded script; replies get lost |
| RecordDO (`record_do.rs`) | the same record in one durable object | one command at a time | the reference the Redis store must match |
| admission (`admission.rs`, `nonce_slot.rs`, `send_user_operation.rs`) | nonce slot, record, queue | claim, judge, take over, create, append, mark | one live operation per nonce without a transaction over slot, record and queue |
| lane execution (`execution.rs`, `engine.rs`) | lane lease, outbox of one signed bundle, broadcast cache | triage, simulate, settle, sign, save, broadcast, mark, resume, reconcile | at-least-once delivery, crash between any two steps, ambiguous broadcasts, an unleased reconciler |
| treasury (`execution.rs`, `funding.rs`, `treasury_do.rs`) | treasury lease, funding outbox, deployment outbox | top up a relayer, deploy simulation contracts | lanes share the treasury account's nonce |
| delayed inbox and holds (`user_operation_store.rs`, `hold.rs`) | delayed payloads, claims, attempt counters | defer, claim, complete, retry | claims expire under their holder |
| queue consumer (`consumer.rs`) | offsets of a chain stream | poll, dispatch to lanes, commit a prefix | lanes finish in any order |
| Cloudflare executor (`lane_do.rs`, `treasury_do.rs`, `shell.rs`) | the same, per durable object | the same core, alarms, dead-letter queue | interleaving at every await of an object |
| prices, quotes, settlement arithmetic | caches | pure functions | 256-bit arithmetic |

## 2. Modules

`Lifecycle` and `Records` are the shared vocabulary: the statuses and the table,
the record, the patches and their merge. They have no variables.

- **`RecordDO`** is the abstract specification of the records: an atomic,
  table-judged command per step (`record_do.rs`).
- **`RecordStore`** is the Redis store, one action per Redis command of
  `patch` and `mark_bundle_submitted`. A lost reply is an action that applies
  the script and answers an error. `ImplementsRecordDO` is the refinement; the
  mapping is the identity on `records`. `RecordStoreProofs` proves it.
- **`Admission`**: `req[r].pc` is where a request's `drive_admission` stands;
  each action is one call to the store or queue with all its outcomes (applied,
  applied but reported failed, not applied). The clock is read once per request,
  as in the code, and time never passes a running request's HTTP timeout. A
  record expires at its `deadline`, which creation and restoration set and
  nothing renews, whoever is working on it. The executor appears as what it
  writes to the records the slot judges.
- **`LaneExecution`**: a worker is one batch of `drive_batch` /
  `execute_with_lane_lease`, a reconciler one pass of
  `reconcile_prepared_bundles`; `Resume` is what both do to a prepared bundle.
  `Fenced` is the heartbeat latch of `execute_fenced`. Records change by the
  atomic steps `RecordStore` is shown to implement. The chain (mempool, nonce,
  execution, reverts) is external.
- **`Treasury`**: the lanes of one chain topping up their relayers
  (`ensure_native_funding` from the lease to `await_fresh_top_up`) and the
  deployer of the simulation contracts (`deployment.rs`), on one lease and one
  account nonce with an outbox each. The treasury's account on the chain is
  external. `PoolInBalance` says whether a node's pending balance counts pooled
  top-ups, as the `pending` tag of `transaction_context` allows.

A record has a TTL of one hour. `expired` in `RecordStore`, `Admission` and
`LaneExecution` is a history variable: the operations whose record has expired
at some time. The properties that rely on the record exempt those operations
and say so; the others hold for them too. `late` in `Admission` is one as well:
the operations that were submitted again under a claim that may lapse before the
resubmission is over.

`MC*` modules give the constants values; a definition marked *Mutant* is a
plausible bug used to show that a property can fail, and no specification uses
one.

## 3. Runs

| run | question | bounds |
|---|---|---|
| `record_store` | do patches and a submission keep record, index and table consistent, and are four attempts of the guard enough? | 1 operation, 2 transactions, 2 patchers and a submitter that start again for ever; the record expires once, under a running call too (`RecordsExpireAgain = FALSE`; the proofs cover `TRUE`) |
| `admission_distinct` | one live operation per nonce, none stranded, with different operations? | 3 operations on a slot, all calls may fail, clock 0..3 around a timeout of 1, a grace of 2 and a record TTL of 3; two takeover rounds so that the limit is reached; one record may expire |
| `admission_resubmitted` | ... with one operation submitted twice? | 2 operations, 3 requests, clock 0..4 around a timeout of 1, a grace of 3 and a record TTL of 4, so that claims lapse and a record expires under a running resubmission; `CreateQueued` does not fail |
| `admission_late_retry` | the slot's promise with a claim that is not renewed (violation) | the smallest instance |
| `lane_safety` | one outstanding bundle, true records, nothing lost? | 2 operations, 2 batches, a reconciler, 2 transactions, any 2 adverse events, stalls and an expired record included |
| `lane_reverts` | ... and no bundle wasted, when bundles revert, a nonce is ahead and a payload is invalid? | 3 operations, 3 transactions, 1 adverse event |
| `lane_liveness` | does every operation settle? | 2 operations, 1 batch, 1 reconciler, 1 adverse event, 5 transactions |
| `lane_redelivery`, `lane_stale_nonce` | where the lane breaks a promise of its docs (violations) | the smallest instances |
| `treasury_safety` | one top-up outstanding, the floor kept, no lane going on unfunded? | 2 lanes, 2 deployers, 3 transactions, any 2 adverse events or one stall of a lane (`StallWeight = 2`); a deposit that covers one full and one partial top-up |
| `treasury_liveness` | does every lane get its prefund? | 2 lanes, 1 adverse event, 4 transactions |
| `treasury_deployment` | are the contracts deployed in the end? (violation) | 1 lane, 1 deployer |

Two actors of a kind give the races the code guards against: a holder and its
successor, a writer and its rival. `lane_safety` and `treasury_safety` allow two
adverse events, so that the recovery from one may fail as well; `lane_reverts`
and the liveness runs allow one. The clocks keep the order of the real constants
(request timeout < grace < record TTL, `AdmissionAssumption`). Actors of a kind, and
the two requests of one operation, are symmetric, so `SYMMETRY` is sound in the
safety runs; it is not used with liveness.
`PendingIsPrepared` is checked where bundles do not revert (see below).

`CHECK_DEADLOCK FALSE` in the admission, lane and treasury runs: the bounded
clock, the bounded number of signed transactions and the settlement of all work
are legitimate ends. `record_store` checks deadlock.

### Fairness
`Progress` in `LaneExecution`: weak fairness of the batch loop (Iggy redelivers
what is not committed), of the reconciler loop (`run_reconciler` never stops),
of the lease TTL and of the 30 s broadcast cache, and of block production for a
pending transaction.

`Progress` in `Treasury`: weak fairness of the passes of lanes and deployers, of
the heartbeat, of what times out and of block production. A pass that finds the
lease taken ends and is tried again seconds later while a holder keeps the lease
for one pass only, so taking a free lease is strongly fair.

Adverse events are never fair, and one of them is the most that the liveness
runs allow. Their `MaxTx` (5 and 4) is enough that no behaviour with one adverse
event runs out of transactions.

### Disagreements found
Each `violation` run checks one promise of a comment or document; `findings` in
`PROJECT.json` quotes it.

- `admission_late_retry`: a resubmission does not renew its claim's age.
- `lane_redelivery`: a batch judges its records before it holds the lane. With the
  same envelope in two batches, one rejects the operation on its simulation's
  verdict; the other, which found the record queued before, simulates it with
  success and bundles it. The chain executes an operation whose record says
  `rejected`, "not sent".
- `lane_stale_nonce`: a nonce that became current between simulation and lookup
  is rejected as stale.
- `treasury_deployment`: a prepared deployment whose nonce was taken by a top-up
  is sent again for ever.

### Limits of the passing runs
The passing runs stay on one side of these cases; the constants reach the other.

- `Admission` with `Resubmitted` and `"create"` in `Faults`: a failed
  `CreateQueued` releases the slot that another request of the same operation
  relies on, and `OneLivePerTimelyNonce` fails.
- `OneLivePerTimelyNonce` leaves out the operations in `late`; with them it is the
  property `admission_late_retry` refutes.
- Without the exemption of `expired`, `OneLivePerNonce` fails: an operation
  restored after its TTL does not look at the slot's new holder.
- `LaneExecution` with `ProbesFail = TRUE`: a failed lookup after `nonce too low`
  counts as unknown, the outbox of a mined bundle is cleared, and
  `SubmittedIsTracked` fails. `ProbesFail` in `Treasury` is the same for top-ups:
  `OneTopUpOutstanding` fails.
- `LaneExecution` with `BundlesRevert = TRUE` fails `PendingIsPrepared`: a batch
  judges its records before it holds the lease, and may bundle an operation whose
  bundle has since reverted and been reported `failed`; the new bundle's members
  are then all terminal and the outbox is cleared as obsolete.
- `Treasury` with `StallWeight = 1` and two adverse events fails
  `PendingIsPrepared` and `OneTopUpOutstanding`: a lane stalls after it saved its
  top-up, the lease lapses, a second lane resumes the top-up, its broadcast is
  lost, no node knows the transaction and the outbox is cleared; the first lane
  then wakes and sends it, and the next pass signs another one behind it. The
  stalled lane's send is not fenced by anything but its own heartbeat.
- `treasury_liveness` has `PoolInBalance = FALSE`. With `TRUE`, a lane may go on
  to its bundle with a top-up that is only pending; when every node then drops
  the top-up, the bundle waits for funds that nobody sends. This is why
  `ReadyIsFunded` speaks of what the node told the lane.

## 4. Proofs

`RecordStoreProofs` (TLAPS) proves about `RecordStore`, for any sets of
operations, transactions and callers, from `NullsAssumption` (the null values
are not values) and `StoreAssumption` (`LIFECYCLE_GUARD_ATTEMPTS > MaxRank`, the
height of the lifecycle lattice; the code has 4 > 3):

- `TypeCorrect`;
- `StoreImplementsRecordDO`: every step is a command of some RecordDOs or a
  stutter. The inductive invariant `Judged` says that whatever a call is about
  to write was legal for the status it observed; the guard of the script makes
  the observed status the current one.
- `PatchNeverExhausted`: a call that lost its guard `n` times has seen the
  status rise `n` times (`GuardBound`, with `Rank` as the measure); ranks end at 3.
  A record that expired and was restored under the call is exempt.
- `SubmittedAlwaysIndexed` and `AlwaysIndexedUnderOneTx`: `IndexIsTrue` relates
  the index to the transaction hash stored in the record, which a receipt never
  changes.
- `SubmissionLeavesNobodyBehind`: `mark_bundle_submitted` returns quietly when
  its attempts are used up, yet no live member of the bundle is left out of the
  index. `SubmissionHolds` says, for every call in progress, which members it
  has still to decide on (`Accounted`), that the others are settled or expired,
  and that a member that was judged or is to be read again has climbed once for
  every round lost (`Planned`, `Reread`).

Only model-checked: admission, the lane and the treasury, and everything with
liveness, which is out of the prover's reach.

## 5. Not modelled, and the plan

Abstracted: the chain-id comparison (one chain), diagnostics and reasons of
rejection, the TTL of the bundle index, the order of members within a bundle,
dead letters for envelopes that do not match their record, the Tempo path.
`LaneExecution` treats funding as a wait; `Treasury` has it.

Next, in this order: `DelayedInbox` (claims, tokens, the attempt counter and the
hold budget), `QueueConsumer` (prefix commit), the Cloudflare executor, then
settlement arithmetic, RPC walk, price cache and alerts. To prove next: the
admission invariants (`LiveIsQueuedOrSubmitted`, `NoExecutableOrphan`, and
`OneLivePerNonce` for distinct operations), then the outbox invariants of the
lane and the treasury.
