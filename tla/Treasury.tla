------------------------------ MODULE Treasury ------------------------------
(***************************************************************************)
(* The treasury account of one chain and everyone who signs for it: the    *)
(* relayer lanes that top up their own balance from it                     *)
(* (vela-relay-core/src/execution.rs ensure_native_funding, with the plan  *)
(* of funding.rs) and the deployer of the simulation contracts             *)
(* (src/worker/executor/deployment.rs).  They share one lease and one      *)
(* account nonce, but each kind has an outbox of its own.                  *)
(*                                                                         *)
(* A lane is followed from the balance it reads for a batch to the bundle  *)
(* that spends it; LaneExecution has the rest of the batch.                *)
(***************************************************************************)
EXTENDS Integers, FiniteSets, Sequences, FiniteSetsExt

CONSTANTS Lanes, Deployers,
          Targets,       \* the simulation contracts, in the order they are deployed
          NoOne, Ghost,  \* no lease holder; a holder whose process died
          NoTx,
          Prefund,       \* what a lane's next bundle needs
          Multiplier,    \* VELA_RELAY_EXECUTOR_FLOAT_COST_MULTIPLIER
          FloatTarget,   \* the configured float target
          TopUpMax,      \* the cap of one transfer
          TransferGas, DeployGas,
          Floor,         \* what the treasury keeps
          Deposit,       \* what the treasury starts with
          Batches,       \* bound: batches of a lane
          MaxTx,         \* bound: treasury transactions ever signed
          MaxFaults,     \* bound: adverse events
          StallWeight,   \* bound: the adverse events a lane's stall counts for
          ProbesFail,    \* a known-transaction probe can answer "no" wrongly
          PoolInBalance  \* a node's pending balance may count pooled top-ups

ASSUME TreasuryAssumption ==
    /\ {Prefund, Multiplier, FloatTarget, TopUpMax, TransferGas, DeployGas, Floor,
        Deposit, Batches, MaxTx, MaxFaults, StallWeight} \subseteq Nat
    /\ Prefund > 0 /\ Prefund <= TopUpMax /\ StallWeight > 0
    /\ NoTx = 0 /\ Targets \subseteq Nat
    /\ Lanes \cap Deployers = {}
    /\ NoOne # Ghost /\ {NoOne, Ghost} \cap (Lanes \cup Deployers) = {}
    /\ {ProbesFail, PoolInBalance} \subseteq BOOLEAN

VARIABLES
    lease,       \* the holder of treasury:{chain}
    funding,     \* the prepared top-up, or NoTx
    deployment,  \* the prepared deployment, or NoTx
    signed,      \* what the treasury key signed
    seen,        \* top-ups confirmed within the last 30 s
    probed,      \* top-ups whose receipt probe was claimed a moment ago
    ex,          \* the local state of every actor
    latest,      \* the treasury's next nonce on chain
    mempool, mined, reverted,
    treasury,    \* the treasury's balance
    balance,     \* the lanes' balances
    code,        \* the simulation contracts on chain
    work,        \* batches a lane has still to execute
    faults       \* adverse events so far

chain == <<latest, mempool, mined, reverted, treasury, balance, code>>
outboxes == <<funding, deployment, signed, seen, probed>>
vars == <<lease, outboxes, ex, chain, work, faults>>
------------------------------------------------------------------------------
Actors == Lanes \cup Deployers
TxIds == 1..Len(signed)
\* A top-up pays its lane, a deployment creates its target; both pay gas.
Transfer(l, n, amount) == [nonce |-> n, to |-> l, amount |-> amount, gas |-> TransferGas]
Creation(c, n) == [nonce |-> n, to |-> c, amount |-> 0, gas |-> DeployGas]
IsTopUp(t) == signed[t].to \in Lanes
Cost(t) == signed[t].amount + signed[t].gas
Costs(T) == MapThenSumSet(Cost, T)

Idle == [pc |-> "idle", view |-> 0, nonce |-> 0, amount |-> 0, tx |-> NoTx,
         fresh |-> FALSE, told |-> FALSE]

At(p, step) == ex[p].pc = step
\* A tripped lease latch turns every later request of a batch into Interrupted.
Fenced(p, step) == At(p, step) /\ ~ex[p].told
Goto(p, local) == ex' = [ex EXCEPT ![p] = local]
Step(p, step) == Goto(p, [ex[p] EXCEPT !.pc = step])

\* The lease is released by token, whatever the outcome.
Release(p) == lease' = IF lease = p THEN NoOne ELSE lease
Ends(p) == Goto(p, Idle) /\ Release(p)

Adverse == faults < MaxFaults /\ faults' = faults + 1
Stall == faults + StallWeight <= MaxFaults /\ faults' = faults + StallWeight
Smooth == UNCHANGED faults
IsKnown(t) == t \in mempool \cup mined

\* The pool from the account nonce up to n, without a gap: what a node that
\* reports n as the pending nonce has executed on top of the latest block.
Pooled(n) == {t \in mempool : signed[t].nonce \in latest..(n - 1)}
PendingNonces == {n \in latest..(latest + Cardinality(mempool)) :
                    Cardinality(Pooled(n)) = n - latest}

Init ==
    /\ lease = NoOne
    /\ funding = NoTx /\ deployment = NoTx /\ signed = << >> /\ seen = {} /\ probed = {}
    /\ ex = [p \in Actors |-> Idle]
    /\ latest = 0 /\ mempool = {} /\ mined = {} /\ reverted = {}
    /\ treasury = Deposit /\ balance \in [Lanes -> 0..Prefund] /\ code = {}
    /\ work = [l \in Lanes |-> Batches]
    /\ faults = 0
------------------------------------------------------------------------------
(* The plan of a top-up (funding.rs). *)

plan_native_top_up(held) ==
    [amount_capped |-> Min({Max({Prefund * Multiplier, FloatTarget}) - held, TopUpMax}),
     deficit |-> Prefund - held]

native_top_up_reserve == TransferGas + Floor

\* Mutant: the reserve is forgotten.
affordable_without_reserve(plan, held) == Min({plan.amount_capped, held})

\* Mutant: the deficit is not compared and the subtraction does not saturate.
affordable_unchecked(plan, held) ==
    Min({plan.amount_capped, held - native_top_up_reserve})

\* The full or a partial float, at least the deficit, or 0 for a refusal.
treasury_affordable_top_up(plan, held) ==
    LET amount == Min({plan.amount_capped, Max({held - native_top_up_reserve, 0})})
    IN  IF amount >= plan.deficit THEN amount ELSE 0
------------------------------------------------------------------------------
(* A lane funds its relayer. *)

\* The batch reads its relayer's pending balance, long before the treasury
\* lease is asked for.
FetchTransactionContext(l) ==
    /\ At(l, "idle") /\ work[l] > 0
    /\ \E n \in IF PoolInBalance THEN PendingNonces ELSE {latest} :
         LET topUps == {t \in Pooled(n) : signed[t].to = l}
             held == balance[l] + MapThenSumSet(LAMBDA t : signed[t].amount, topUps)
         IN  Goto(l, [Idle EXCEPT !.pc = IF held < Prefund THEN "acquire" ELSE "ready",
                                  !.view = held])
    /\ UNCHANGED <<lease, outboxes, chain, faults, work>>

\* SET NX EX.  A refused lane waits for another pass.
AcquireTreasuryLease(l) ==
    /\ At(l, "acquire")
    /\ IF lease = NoOne THEN lease' = l /\ Step(l, "load")
                        ELSE UNCHANGED lease /\ Goto(l, Idle)
    /\ UNCHANGED <<outboxes, chain, faults, work>>

\* Mutant: a lane leaves the top-ups of others alone.
LoadOwnFunding(l) ==
    /\ Fenced(l, "load")
    /\ IF funding = NoTx THEN Step(l, "plan") /\ UNCHANGED lease
       ELSE IF signed[funding].to # l THEN Ends(l)
       ELSE Goto(l, [ex[l] EXCEPT !.pc = "broadcast", !.tx = funding]) /\ UNCHANGED lease
    /\ UNCHANGED <<outboxes, chain, faults, work>>

\* Whoever's top-up is outstanding is resumed first.
LoadPreparedFunding(l) ==
    /\ Fenced(l, "load")
    /\ IF funding = NoTx THEN Step(l, "plan")
       ELSE Goto(l, [ex[l] EXCEPT !.pc = "broadcast", !.tx = funding])
    /\ UNCHANGED <<lease, outboxes, chain, faults, work>>

\* The treasury's pending nonce and balance from one node, and the plan from
\* the balance the lane read at the start; a shortfall ends the pass.
FetchTreasuryContext(l) ==
    /\ Fenced(l, "plan")
    /\ \E n \in PendingNonces :
         LET amount == treasury_affordable_top_up(plan_native_top_up(ex[l].view),
                                                  treasury - Costs(Pooled(n)))
         IN  IF amount = 0 THEN Ends(l)
             ELSE /\ Goto(l, [ex[l] EXCEPT !.pc = "sign", !.nonce = n, !.amount = amount])
                  /\ UNCHANGED lease
    /\ UNCHANGED <<outboxes, chain, faults, work>>

\* The lease is checked before and after signing.
SignTreasuryTransfer(l) ==
    /\ Fenced(l, "sign") /\ lease = l /\ Len(signed) < MaxTx
    /\ signed' = Append(signed, Transfer(l, ex[l].nonce, ex[l].amount))
    /\ Goto(l, [ex[l] EXCEPT !.pc = "save", !.tx = Len(signed) + 1, !.fresh = TRUE])
    /\ UNCHANGED <<lease, funding, deployment, seen, probed, chain, faults, work>>

\* SET NX of the outbox; a loser resumes the winner's top-up.
SaveFundingIntent(l) ==
    /\ Fenced(l, "save")
    /\ IF funding = NoTx THEN funding' = ex[l].tx /\ Step(l, "broadcast")
       ELSE /\ UNCHANGED funding
            /\ Goto(l, [ex[l] EXCEPT !.pc = "broadcast", !.tx = funding, !.fresh = FALSE])
    /\ UNCHANGED <<lease, deployment, signed, seen, probed, chain, faults, work>>

\* Whether a node takes the bytes as a new transaction.
Acceptable(t) == /\ ~IsKnown(t) /\ signed[t].nonce >= latest /\ Cost(t) <= treasury
                 /\ \A u \in mempool : signed[u].nonce # signed[t].nonce

AfterBroadcast(l) == Step(l, IF ex[l].fresh THEN "await" ELSE "claim")

\* eth_sendRawTransaction, skipped for a top-up confirmed within 30 s.  The
\* nodes take it, take it or not without saying so (Ambiguous, which counts as
\* sent), or all refuse it for good (its gas, its fee cap, the balance).
broadcast_funding(l) ==
    LET t == ex[l].tx IN
    /\ Fenced(l, "broadcast")
    /\ \/ t \in seen /\ AfterBroadcast(l) /\ UNCHANGED <<seen, mempool>> /\ Smooth
       \/ /\ t \notin seen /\ Acceptable(t) /\ AfterBroadcast(l)
          /\ \/ mempool' = mempool \cup {t} /\ seen' = seen \cup {t} /\ Smooth
             \/ mempool' \in {mempool, mempool \cup {t}} /\ UNCHANGED seen /\ Adverse
       \/ /\ t \notin seen /\ ~Acceptable(t) /\ AfterBroadcast(l)
          /\ UNCHANGED <<seen, mempool>> /\ Smooth
       \/ /\ t \notin seen /\ ~IsKnown(t) /\ Step(l, "refused")
          /\ UNCHANGED <<seen, mempool>>
          /\ IF Cost(t) > treasury THEN Smooth ELSE Adverse
    /\ UNCHANGED <<lease, funding, deployment, signed, probed,
                   latest, mined, reverted, treasury, balance, code, work>>

\* Mutant: a top-up without a receipt is discarded without looking for it.
DiscardUnprobed(l, step) ==
    /\ Fenced(l, step) /\ Step(l, "discard")
    /\ UNCHANGED <<lease, outboxes, chain, faults, work>>

\* eth_getTransactionByHash of a top-up that was refused or has no receipt:
\* known, it is waited on; unknown, it is discarded.  A failed probe counts as
\* unknown.
ProbeTransactionKnown(l, step) ==
    LET t == ex[l].tx IN
    /\ Fenced(l, step)
    /\ \/ /\ IsKnown(t) /\ Smooth
          /\ IF step = "refused"
             THEN seen' = seen \cup {t} /\ AfterBroadcast(l) /\ UNCHANGED lease
             ELSE UNCHANGED seen /\ Ends(l)
       \/ /\ \/ ~IsKnown(t) /\ Smooth
             \/ IsKnown(t) /\ ProbesFail /\ Adverse
          /\ Step(l, "discard") /\ UNCHANGED <<lease, seen>>
    /\ UNCHANGED <<funding, deployment, signed, probed, chain, work>>

\* The compare-and-delete of the outbox, and the broadcast cache with it.
ClearFunding(t) ==
    /\ funding' = IF funding = t THEN NoTx ELSE funding
    /\ seen' = seen \ {t}

discard_funding(l) ==
    /\ Fenced(l, "discard")
    /\ ClearFunding(ex[l].tx) /\ Ends(l)
    /\ UNCHANGED <<deployment, signed, probed, chain, faults, work>>

\* One receipt lookup per top-up and poll interval, across lanes and processes.
AcquireReceiptProbe(l) ==
    /\ Fenced(l, "claim")
    /\ IF ex[l].tx \in probed THEN Ends(l) /\ UNCHANGED probed
       ELSE /\ probed' = probed \cup {ex[l].tx}
            /\ Step(l, "receipt") /\ UNCHANGED lease
    /\ UNCHANGED <<funding, deployment, signed, seen, chain, faults, work>>

\* A mined top-up is cleared, reverted or not; the batch comes back later.
\* One with no receipt is looked for.
resume_funding(l) ==
    /\ Fenced(l, "receipt")
    /\ IF ex[l].tx \in mined
       THEN ClearFunding(ex[l].tx) /\ Ends(l)
       ELSE Step(l, "unseen") /\ UNCHANGED <<lease, funding, seen>>
    /\ UNCHANGED <<deployment, signed, probed, chain, faults, work>>

\* Mutant: the pass that sent a top-up goes on as soon as it is mined, whether
\* it succeeded or not.
ready_when_mined(l) ==
    LET t == ex[l].tx IN
    /\ Fenced(l, "await")
    /\ IF t \in mined
       THEN ClearFunding(t) /\ Goto(l, [Idle EXCEPT !.pc = "ready"]) /\ Release(l)
       ELSE Ends(l) /\ UNCHANGED <<funding, seen>>
    /\ UNCHANGED <<deployment, signed, probed, chain, faults, work>>

\* The last poll of the pass that sent the top-up: mined, the relayer is
\* ready; reverted or not mined, the batch comes back later.
await_fresh_top_up(l) ==
    LET t == ex[l].tx IN
    /\ Fenced(l, "await")
    /\ IF t \in mined THEN ClearFunding(t) ELSE UNCHANGED <<funding, seen>>
    /\ Goto(l, [Idle EXCEPT !.pc = IF t \in mined \ reverted THEN "ready" ELSE "idle"])
    /\ Release(l)
    /\ UNCHANGED <<deployment, signed, probed, chain, faults, work>>

\* The batch signs its bundle, which spends the prefund once it is mined; a
\* relayer that holds less waits with its bundle prepared.
BundleMined(l) ==
    /\ At(l, "ready") /\ balance[l] >= Prefund
    /\ balance' = [balance EXCEPT ![l] = @ - Prefund]
    /\ work' = [work EXCEPT ![l] = @ - 1]
    /\ Goto(l, Idle)
    /\ UNCHANGED <<lease, outboxes, latest, mempool, mined, reverted, treasury, code, faults>>
------------------------------------------------------------------------------
(* The deployer, called when the simulation contracts were found missing. *)

ensure(d) ==
    /\ At(d, "idle") /\ code # Targets /\ lease = NoOne
    /\ lease' = d /\ Step(d, "load")
    /\ UNCHANGED <<outboxes, chain, faults, work>>

\* Only the deployment outbox is looked at.  A prepared deployment is sent
\* again whatever became of it.
ensure_locked(d) ==
    /\ At(d, "load")
    /\ IF deployment = NoTx THEN Step(d, "codes")
       ELSE Goto(d, [ex[d] EXCEPT !.pc = "broadcast", !.tx = deployment])
    /\ UNCHANGED <<lease, outboxes, chain, faults, work>>

\* Every answer keeps the outbox.  A fresh deployment is left to the next
\* call; a resumed one is asked for its receipt.
broadcast(d) ==
    LET t == ex[d].tx IN
    /\ At(d, "broadcast")
    /\ \/ Acceptable(t) /\ mempool' = mempool \cup {t} /\ Smooth
       \/ Acceptable(t) /\ UNCHANGED mempool /\ Adverse
       \/ ~Acceptable(t) /\ UNCHANGED mempool /\ Smooth
    /\ IF ex[d].fresh THEN Ends(d) ELSE Step(d, "receipt") /\ UNCHANGED lease
    /\ UNCHANGED <<outboxes, latest, mined, reverted, treasury, balance, code, work>>

\* No receipt: still pending.  Reverted: cleared, and unavailable for now.
\* Deployed: cleared, and on to the next target.
resume(d) ==
    LET t == ex[d].tx IN
    /\ At(d, "receipt")
    /\ deployment' = IF t \in mined /\ deployment = t THEN NoTx ELSE deployment
    /\ IF t \in mined \ reverted THEN Step(d, "codes") /\ UNCHANGED lease ELSE Ends(d)
    /\ UNCHANGED <<funding, signed, seen, probed, chain, faults, work>>

\* The first missing target is signed at the treasury's pending nonce, after
\* its cost and the floor are checked and the lease renewed.
prepare_and_broadcast(d) ==
    /\ At(d, "codes")
    /\ IF code = Targets THEN Ends(d) /\ UNCHANGED signed
       ELSE \E n \in PendingNonces :
              IF \/ treasury - Costs(Pooled(n)) < DeployGas + Floor
                 \/ lease # d
              THEN Ends(d) /\ UNCHANGED signed
              ELSE /\ Len(signed) < MaxTx
                   /\ signed' = Append(signed, Creation(Min(Targets \ code), n))
                   /\ Goto(d, [ex[d] EXCEPT !.pc = "save", !.tx = Len(signed) + 1,
                                            !.fresh = TRUE])
                   /\ UNCHANGED lease
    /\ UNCHANGED <<funding, deployment, seen, probed, chain, faults, work>>

\* SET NX of the outbox; a loser leaves it alone.
save_prepared_simulation_deployment_intent(d) ==
    /\ At(d, "save")
    /\ IF deployment = NoTx
       THEN deployment' = ex[d].tx /\ Step(d, "broadcast") /\ UNCHANGED lease
       ELSE Ends(d) /\ UNCHANGED deployment
    /\ UNCHANGED <<funding, signed, seen, probed, chain, faults, work>>
------------------------------------------------------------------------------
(* Everything that can go wrong. *)

Fail(p) ==
    /\ ex[p].pc \notin {"idle", "acquire", "ready"} /\ Adverse
    /\ Ends(p)
    /\ UNCHANGED <<outboxes, chain, work>>

\* The latch or a lease check that finds the lease gone ends a lane's pass.
Interrupted(l) ==
    /\ ex[l].pc \notin {"idle", "acquire", "ready"}
    /\ ex[l].told \/ (lease # l /\ At(l, "sign"))
    /\ Ends(l)
    /\ UNCHANGED <<outboxes, chain, faults, work>>

Crash(p) ==
    /\ ex[p].pc \notin {"idle", "ready"} /\ Adverse
    /\ lease' = IF lease = p THEN Ghost ELSE lease
    /\ Goto(p, Idle)
    /\ UNCHANGED <<outboxes, chain, work>>

GhostLapses ==
    /\ lease = Ghost /\ lease' = NoOne
    /\ UNCHANGED <<outboxes, ex, chain, faults, work>>

\* The TTL elapses under a live holder.  A lane's heartbeat trips the latch
\* first, unless the process stalled; a deployer has no heartbeat.
LeaseLapses ==
    /\ lease \in Actors /\ lease' = NoOne
    /\ \/ lease \in Lanes /\ Goto(lease, [ex[lease] EXCEPT !.told = TRUE]) /\ Adverse
       \/ lease \in Lanes /\ UNCHANGED ex /\ Stall
       \/ lease \in Deployers /\ UNCHANGED ex /\ Adverse
    /\ UNCHANGED <<outboxes, chain, work>>

Heartbeat(l) ==
    /\ ex[l].pc \notin {"idle", "acquire", "ready"} /\ lease # l /\ ~ex[l].told
    /\ Goto(l, [ex[l] EXCEPT !.told = TRUE])
    /\ UNCHANGED <<lease, outboxes, chain, faults, work>>

\* The 30 s broadcast cache and the receipt-probe claim run out.
SeenLapses(t) ==
    /\ t \in seen /\ seen' = seen \ {t}
    /\ UNCHANGED <<lease, funding, deployment, signed, probed, ex, chain, faults, work>>

ProbeLapses(t) ==
    /\ t \in probed /\ probed' = probed \ {t}
    /\ UNCHANGED <<lease, funding, deployment, signed, seen, ex, chain, faults, work>>
------------------------------------------------------------------------------
(* The chain. *)

\* The treasury's next transaction goes into a block: it pays its gas, and
\* unless it reverts the relayer or creates the contract.
Mine(t) ==
    /\ t \in mempool /\ signed[t].nonce = latest /\ Cost(t) <= treasury
    /\ latest' = latest + 1
    /\ mined' = mined \cup {t}
    /\ mempool' = {u \in mempool : signed[u].nonce > latest}
    /\ \/ /\ treasury' = treasury - Cost(t) /\ Smooth
          /\ balance' = [l \in Lanes |-> balance[l]
                           + (IF signed[t].to = l THEN signed[t].amount ELSE 0)]
          /\ code' = code \cup ({signed[t].to} \cap Targets)
          /\ UNCHANGED reverted
       \/ /\ treasury' = treasury - signed[t].gas /\ Adverse
          /\ reverted' = reverted \cup {t}
          /\ UNCHANGED <<balance, code>>
    /\ UNCHANGED <<lease, outboxes, ex, work>>

\* Every node forgets a pending transaction.
DropTx(t) ==
    /\ t \in mempool /\ Adverse
    /\ mempool' = mempool \ {t}
    /\ UNCHANGED <<lease, outboxes, ex, latest, mined, reverted, treasury, balance, code, work>>
------------------------------------------------------------------------------
Fund(l) ==
    \/ FetchTransactionContext(l) \/ AcquireTreasuryLease(l) \/ LoadPreparedFunding(l)
    \/ FetchTreasuryContext(l) \/ SignTreasuryTransfer(l) \/ SaveFundingIntent(l)
    \/ broadcast_funding(l) \/ ProbeTransactionKnown(l, "refused")
    \/ ProbeTransactionKnown(l, "unseen") \/ discard_funding(l)
    \/ AcquireReceiptProbe(l) \/ resume_funding(l) \/ await_fresh_top_up(l)
    \/ BundleMined(l)

Deploy(d) ==
    \/ ensure(d) \/ ensure_locked(d) \/ broadcast(d) \/ resume(d)
    \/ prepare_and_broadcast(d) \/ save_prepared_simulation_deployment_intent(d)

Next ==
    \/ \E l \in Lanes : Fund(l) \/ Interrupted(l) \/ Heartbeat(l)
    \/ \E d \in Deployers : Deploy(d)
    \/ \E p \in Actors : Fail(p) \/ Crash(p)
    \/ GhostLapses \/ LeaseLapses
    \/ \E t \in TxIds : SeenLapses(t) \/ ProbeLapses(t) \/ Mine(t) \/ DropTx(t)

Spec == Init /\ [][Next]_vars

\* Batches and simulations keep coming, blocks keep coming, and the leases and
\* caches that time out do.  A pass that wants the lease gets it in the end: a
\* refused pass returns seconds later, a holder keeps it for one pass.
Progress ==
    /\ \A l \in Lanes : /\ WF_vars(Fund(l)) /\ WF_vars(Interrupted(l) \/ Heartbeat(l))
                        /\ SF_vars(lease = NoOne /\ FetchTransactionContext(l))
                        /\ SF_vars(lease = NoOne /\ AcquireTreasuryLease(l))
    /\ \A d \in Deployers : WF_vars(Deploy(d)) /\ SF_vars(ensure(d))
    /\ WF_vars(GhostLapses)
    /\ WF_vars(\E t \in TxIds : SeenLapses(t))
    /\ WF_vars(\E t \in TxIds : ProbeLapses(t))
    /\ WF_vars(\E t \in TxIds : Mine(t))

FairSpec == Spec /\ Progress
------------------------------------------------------------------------------
Steps == {"idle", "acquire", "load", "plan", "sign", "save", "broadcast", "refused",
          "claim", "receipt", "unseen", "discard", "await", "ready", "codes"}

\* Every variable has its type; transaction ids name signed transactions.
TypeOK ==
    /\ lease \in Actors \cup {NoOne, Ghost}
    /\ signed \in Seq([nonce : Nat, to : Lanes \cup Targets, amount : Nat, gas : Nat])
    /\ Len(signed) <= MaxTx
    /\ funding \in {t \in TxIds : IsTopUp(t)} \cup {NoTx}
    /\ deployment \in {t \in TxIds : ~IsTopUp(t)} \cup {NoTx}
    /\ seen \subseteq TxIds /\ probed \subseteq TxIds
    /\ ex \in [Actors -> [pc : Steps, view : Nat, nonce : Nat, amount : Nat,
                          tx : 0..MaxTx, fresh : BOOLEAN, told : BOOLEAN]]
    /\ latest \in Nat /\ mempool \subseteq TxIds /\ mined \subseteq TxIds
    /\ reverted \subseteq mined
    /\ treasury \in Nat /\ balance \in [Lanes -> Nat] /\ code \subseteq Targets
    /\ work \in [Lanes -> 0..Batches] /\ faults \in 0..MaxFaults

\* A treasury transaction that can still be mined is in an outbox, so some
\* later pass accounts for it: it is saved before it is sent, and cleared only
\* when mined or unknown to the nodes.
PendingIsPrepared ==
    \A t \in mempool : t \in {funding, deployment}

\* "Only one funding transaction may be outstanding per chain" (task.rs).
OneTopUpOutstanding ==
    Cardinality({t \in mempool : IsTopUp(t)}) <= 1

\* Top-ups and deployments together never take the treasury below its floor:
\* each is planned against the balance that is left when the pool is mined.
TreasuryKeepsFloor == treasury >= Floor

\* A lane whose pass goes on to its bundle was told of the prefund by a node,
\* or holds it: a top-up it waited for has paid, not merely been mined.
ReadyIsFunded ==
    \A l \in Lanes : At(l, "ready") => balance[l] >= Prefund \/ ex[l].view >= Prefund

\* The missing simulation contracts are deployed in the end: a durable
\* deployment is sent again until it is confirmed.
EveryTargetDeployed == <>(code = Targets)

\* A lane that lacks its prefund gets it in the end.
EveryLaneFunded == \A l \in Lanes : At(l, "acquire") ~> balance[l] >= Prefund
==============================================================================
