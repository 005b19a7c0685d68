# A formal model of AbrChin's purchase, money, billing and provisioning core

AbrChin sells cloud servers and AI usage to customers who pay from a prepaid
wallet. This directory holds TLA+ models of the parts of the program where
concurrent requests, retries, crashes and an outside party (a payment gateway,
a cloud provider, the MessageGo service) meet the customer's money, the TLC runs
that check them on small instances, and TLAPS proofs of what matters most for
every instance. The models are translated from the TypeScript under `src/lib`
and the Prisma schema; paths below are relative to `src/`.

Contents

1. [The system](#1-the-system)
2. [Modules](#2-modules)
3. [How the models correspond to the code](#3-how-the-models-correspond-to-the-code)
4. [Runs](#4-runs)
5. [Where the code and its documents disagree](#5-where-the-code-and-its-documents-disagree)
6. [Proofs](#6-proofs)
7. [What is only model-checked, and what is not modelled](#7-what-is-only-model-checked-and-what-is-not-modelled)
8. [Plan](#8-plan)

## 1. The system

One Next.js application and a worker process share one PostgreSQL database; all
coordination goes through it. The default isolation level is READ COMMITTED, some
transactions ask for SERIALIZABLE and are tried three times (top-ups) or four
(billing settlements), and the code uses row
locks (`SELECT ... FOR UPDATE`), advisory locks, conditional updates, unique
indexes, claim tokens with leases, and idempotency keys.

### Components

| Component | State it keeps | Operations | Hard part |
|---|---|---|---|
| **MessageGo settlement authority** (`lib/messagego/settlement/`) | reservations, operation rows, wallet, ledger, price revisions | reserve, settle, release, reconcile, query | one call delivered many times and at once; partial charges; prices that change; blocked customers; thrown errors that roll back |
| **Wallet top-up** (`lib/wallet/topup.ts`, `lib/payments/*-provider.ts`, `callback-handler.ts`) | top-ups, payment attempts, recovery cases, wallet, ledger, journal | start, retry, create at the gateway, link, callback, verify, settle, review, fail, expire | duplicated callbacks, two payable attempts, unlocked reads, crashes between the gateway's answer and the database |
| **Payment recovery** (`lib/payments/recovery.ts`) | recovery cases, refunds, command receipts | reconcile, mark failed, request and complete a refund | races with the callback; a credit that was already spent |
| **Provisioning** (`lib/infrastructure/provision-*`, `provisioning-*`, `worker-fence`, `retry`, `resource-disposition`) | infrastructure order, flow state, jobs with leases, cloud instance | approve, hold, dispatch, claim, submit, poll, record, fail, recover, reconcile, confirm absent, retry, refund | slow workers that outlive their lease; a create call without an idempotency key; recovery by hand |
| **Health check and its retries** (`health-check-service.ts`, `health-retry-service.ts`) | health checks and their results, retry and recovery jobs, dispatch rows | check, schedule, dispatch, dead-letter, observe, recover | hand-over between jobs, a check and a command or a dead letter at once, keys that work once per order |
| **Ready servers and delivery** (`preprovisioned-inventory.ts`, `manual-ready-delivery.ts`, `delivery-approval.ts`) | inventory, reservations, approvals | observe, reserve, release, assign, deliver | one server sold to two orders; reservations that end under an order |
| Provider adapters and catalogue (`arvan/`, `*-catalog-service.ts`, ...) | cached catalogue | create, list, poll, sync | error mapping, late answers |
| **Quotes** (`lib/recommendation/quote-service.ts`) | sessions, quotes | checkout, quote again, refresh, invalidate | quotes of one session made and ordered at once |
| **Orders** (`lib/orders/`) | service orders | create, pay, refund, expire; cancel, upgrade | payment against expiry, sibling quotes and failed payments |
| **Product flow** (`lib/product-flow/`) | state and revision of session, order and infrastructure order; transition rows | transition | three owners that must agree, replays by key |
| **Usage billing** (`lib/billing/`) | policy snapshots, resource versions, usage intervals, billing runs, invoices, dunning cases | start, change policy or resources, settle a closed period, catch up, adjust | one invoice per period across workers, retries and crashes; changes scheduled ahead of and recorded behind the periods |
| Wallet ledger (`lib/wallet/ledger.ts`) | wallet, ledger | credit, debit, reverse | idempotency read outside the transaction |
| MessageGo S2S (`lib/messagego/s2s/`) | nonces | verify, claim a nonce, purge | clock skew |
| Login (`lib/auth-service.ts`, `session*.ts`) | one-time codes, sessions | request, verify, revoke | attempt limit under parallel verifies |
| Operational alerts (`lib/operations/`) | outbox | raise, claim, send | resend of a stale claim |
| Subscriptions, coupons, accounting, user administration, finance configuration, scoring, pricing, storefront, support, Parchin, monitoring, credentials, UI | see `PROJECT.json` | | mostly sequential or pure |

### Interactions

- The settlement authority, the top-up, orders, billing and refunds all write the
  same `Wallet.availableBalance` and `WalletLedgerEntry`. Each does it with a
  conditional update or under the wallet's row lock. In every model the *other*
  writers are an environment action that moves the same balance
  (`OtherProduct` of SettlementAuthority, the spends of WalletTopUp, `MoveMoney`
  of BillingRuns).
- A session is quoted, an order is made of a quote and paid from the wallet, an
  administrator approves it, the worker's dispatch queues a provisioning job
  (OrderPurchase ends here), a worker creates the server at the provider, a health
  check follows (ProvisioningWorker), its retries and the delivery approval if it
  fails (HealthRetry begins here); usage billing starts in the transaction that
  records the server (BillingRuns begins here). Session,
  order and infrastructure order each carry the flow state and its revision.
- One worker process does everything that nobody asks for, in one loop: it expires
  the quotes that are due, releases lapsed reservations, dispatches one approved
  order, claims one job, sends alerts, renews subscriptions and settles billing
  periods. An exception anywhere ends that cycle.
- The payment gateway redirects the customer's browser to a callback; the cloud
  provider answers, times out, or acts after its answer was given up; MessageGo
  repeats any call it has no answer for.
- Administrators act concurrently with all of these, through commands with
  receipts (a repeated key returns the recorded snapshot).

### What makes each component correct

- *Settlement authority*: an answer is the recorded outcome of its operation id; a
  hold is taken, charged or released once, is whole until it is closed, and no
  charge exceeds it; an uncertain hold is never released; nothing closed changes;
  the ledger explains the balance; no hold is taken from a blocked customer.
- *Top-up*: one credit per top-up, only for a payment the gateway confirmed in
  full; a success is credited; one successful attempt; a confirmed payment leads
  to a credit or to an operator; recovery cases agree with their attempts; a
  credit is taken back at most once; the journal agrees with the wallet. (A case that
  an admin's own action made may outlive a success, section 5.)
- *Purchase*: of the offers of a session one is paid, once and at its price; a
  paid order's three rows agree, so that no later transition of it is refused; a
  quote is converted exactly when its order was paid, and once expired leaves no
  order that could go on; a ready server is sold once; limited stock is
  taken and given back; the worker's cycle keeps reaching the job queue.
- *Provisioning*: one server per create attempt and per order; billing only for
  a server that exists; no refund while a server exists or can appear; one job
  at work; order status and flow state stay a known pair; an ended job stays
  ended; a submitted order is answered.
- *Health checks*: only a server whose latest check succeeded is delivered; a result
  is never replaced; a failed
  check is followed up from the commit that records it until the order is
  deliverable or with an operator; an order in review has work or a command that
  leads out.
- *Billing*: usage has no gap and no overlap whatever is changed ahead; an hour of
  a service is charged by one invoice, after its period is over, and the invoice
  says what was used; periods settle in order; wallet and invoices agree; nobody is
  suspended before the grace of an unpaid invoice; the backlog is worked off.

The hazards behind these properties, each at its line, are listed under
`hazards` in `PROJECT.json` with the properties that cover them.

## 2. Modules

| Module | Models | Role |
|---|---|---|
| `SettlementAuthority` | `lib/messagego/settlement/` | detailed specification |
| `HoldContract` | - | abstract: what the authority promises about holds and funds |
| `MCSettlementAuthority` | - | instances for TLC |
| `SettlementAuthorityProofs` | - | types, answers are recorded, the ledger; books, history, uncertain holds, blocked customers, refinement of `HoldContract` |
| `WalletTopUp` | `lib/wallet/topup.ts`, `lib/payments/recovery.ts` | detailed specification |
| `TopUpContract` | - | abstract: a top-up is credited once, and refunded once |
| `MCWalletTopUp` | - | instances for TLC |
| `WalletTopUpProofs` | - | types, the five invariants of a top-up, ledger and journal, refinement of `TopUpContract` |
| `ProvisioningWorker` | `lib/infrastructure/` | detailed specification |
| `ServerContract` | - | abstract: one attempt after another, one server each, nothing after an adoption or a refund |
| `MCProvisioningWorker` | - | instances for TLC |
| `ProvisioningWorkerProofs` | - | types, one server per attempt and per order, one job, states, bills, refinement of `ServerContract` |
| `BillingRuns` | `lib/billing/`, `scripts/provisioning-worker-entry.ts` | detailed specification |
| `BillingContract` | - | abstract: an hour is charged once, after its period closed, for good |
| `MCBillingRuns` | - | instances for TLC |
| `BillingRunsProofs` | - | types, the inductive invariant, refinement of `BillingContract` |
| `BillingUsageProofs` | - | the whole timeline, suspensions after grace, settled as used and in order |
| `BillingBooksProofs` | - | sums over finite sets; wallets and invoices balance |
| `OrderPurchase` | `lib/orders/`, `lib/product-flow/`, `lib/recommendation/quote-service.ts`, `lib/infrastructure/preprovisioned-inventory.ts`, `provision-approval.ts`, `provision-dispatch.ts` | detailed specification |
| `PurchaseContract` | - | abstract: bought once at the price, one offer of a session, refunded once |
| `MCOrderPurchase` | - | instances for TLC |
| `OrderPurchaseProofs` | - | types, the rows of a paid order, servers sold once, quotes and their orders, refinement of `PurchaseContract` |
| `HealthRetry` | `lib/infrastructure/health-retry-service.ts`, `health-check-service.ts`, `delivery-approval.ts`, `worker-fence.ts`, claims of `provisioning-service.ts` | detailed specification, and its instance for TLC |
| `HealthRetryProofs` | - | types, one health job, checked deliveries, follow-up of failures, dead ends of a review, final deliveries, results that stand |

No detailed specification is composed with another by INSTANCE: they meet in the
database, at the rows named under Interactions, and each has what the others do to
those rows as actions of its environment. `OrderPurchase` composes four components
(quotes, orders, ready servers, the worker's cycle) because they share four tables
and three revisions.

Each specification ends with its properties; a definition named `Mutant...` is a
plausible bug put beside the definition it would replace, used to show that a
property can fail (see `mutants` in `PROJECT.json`). Nothing else refers to them.

Definition-by-definition line references are in `PROJECT.json` under `map`.

## 3. How the models correspond to the code

### SettlementAuthority

*State.* `reservation` is `MessageGoAuthorityReservation` keyed by its unique
usage id (`ABSENT` when there is no row), `operation` the rows of
`MessageGoSettlementOperation`, `balance`/`ledger` the wallet, `revision` the
latest row of the customer price, `accountStatus` and `walletStatus` what an
administrator can change. `pc`, `req`, `answer` are the handler invocations.

*Steps.* Each call is one READ COMMITTED transaction. It is split wherever
another transaction may commit between two of its reads: after the advisory lock
on the operation id and the replay check, after the unlocked read of the account
(reserve), after the unique-index race on the usage id, and before the row lock
of the reservation (the mutating calls). From its last row lock to its commit it
is one step, because the rows it reads then are locked. Errors the code records
(`recordOperation` with an error code) are answers with a row; errors it throws
(`replay_conflict`, `stale_pricing`, `usage_unknown`, and a failed transaction)
roll everything back and leave no row.

*Abstractions.* Product, workspace and run are one value (`Scopes`); the
fingerprint is the tuple of the fields it hashes (`Body`); events and HTTP are
left out. Prices are per million tokens and rounded up as in `amount.ts`.

### WalletTopUp

*State.* `topUp` and `attempt` are the statuses, `linked` the attempts whose
authority and redirect URL are stored, `verified` those with `verifiedAt`,
`recovery` the case of an attempt, `refund` the furthest refund of a top-up,
`balance`/`ledger`/`journal` the money, `paid` what the gateway holds.
`FAILED` stands for `FAILED` and `CANCELED`, which no code tells apart.

*Steps.* Settling, retrying and refunding are SERIALIZABLE transactions that lock
their rows: one step each, which may also fail after its retries (`SettleFails`,
or no change). `recordPaymentReview` and `recordTerminalFailure` are READ
COMMITTED and lock nothing: they read the attempt, read the top-up, and write, in
three steps. Marking an attempt failed locks the attempt but reads the top-up
without a lock. An admin's reverify and reconcile (`Reverify`,
`ReconcileWalletCredit`) verify or settle as a callback does, and then record the
action in a transaction of its own, READ COMMITTED as well: `ReadForAction` reads the
attempt and its case, `RecordAction` writes, for an attempt that was read without a
case, one that is `RESOLVED` if the attempt was read as SUCCEEDED and open otherwise.
`OPENED_BY_ACTION` is an OPEN case with that action's reason code. The create call, its persistence and its failure are steps of
their own, and so are verification at the gateway and settlement.

*Environment.* The calls in `Desk` are an admin's, the others the customer's browser.
The customer pays in full or short at any time the link exists;
callbacks and the admin's commands arrive any number of times; an attempt expires
at any time except while its create call is in flight (the TTL is 30 minutes);
other products spend from the wallet (`MaxSpends`); a process may die between any
two steps, any number of times (`CanCrash`).

*Abstractions.* The callback token, the gateway check, verification counters,
audit rows, and a replay with the same idempotency key change nothing modelled.
Several refunds in `REVIEW_REQUIRED` are one status. The partial unique index on
one successful attempt per top-up is not modelled: `OneSuccess` shows that it
never has to act.

### ProvisioningWorker

*State.* One paid order from the provider catalogue: its `status`, its `flow`
state, whether a `CloudInstance` exists (`instance`), the attempt whose server an
operator confirmed absent (`absence`), its jobs, the workers' memory, the
provider's `servers`, and `late`, the create calls that will still reach the
provider after their answer was given up. Jobs are the create attempts
`1..MaxAttempts` and job 0, the poll job of a reconciliation. A claim token is the
number of its claim.

*Steps.* Claim; start of processing; the commit of `createSentAt`; the checks before
the call; the call; the persistence of the task id; the poll; the record of the
instance with the start of billing; the health check's start and kept result;
the finalisation; every error outcome. A worker that lost its lease finds out at
its next fenced statement and gives up (`Abandon`); the fence is part of the step
it guards. The create call alone is not fenced. Lease expiry and recovery are
steps of their own. Every admin command locks the order's row and is one step.
A crash also stands for an unexpected exception: the job stays `RUNNING` until its
lease ends.

*Prompt.* With `Prompt = TRUE` a create call ends, and its server is listed by the
provider, before the lease it was checked under can end (the default lease is
120 s, `lib/worker/config.ts:15`, and is never renewed). With `Prompt = FALSE` a
call may outlive its lease, and a call that timed out may reach the provider at
any later time.

*Abstractions.* `provider_unavailable` stands for every error code the worker
treats alike. `desiredInstanceName`, notifications, audit rows, command receipts,
the wallet side of the refund, and later states of a delivered server are left
out. The locked snapshot was parsed at dispatch and is immutable, so it cannot
become invalid later.

### HealthRetry

*State.* One paid order whose server exists and failed its first check: its `status`
and `flow`, whether the recorded observation of the server meets the contract
(`ready`), the latest `check` with its job, the `job` rows of the retries
`1..RetryLimit` and the manual recoveries after them, the `dispatch` rows by source
(a failed check, or `provider-observation:<job>` for a retry that failed without
one), `keys`, the transitions that have one idempotency key per *order*, and the
workers' memory.

*Steps.* Handling a dispatch, a claim, a requeue and each command of the
administrator are one transaction each. A run of a job is split at its commits: the
start (a job whose result is on record is only finalized), the observation, the start
of the check, its kept result (whose commit may go unanswered), the follow-up of a
failure, the finalization. Where one of these transactions reads without a lock and
writes later, it is two steps. `Observe` passes the fence and `RecordObservation`
writes the provider's answer, whoever holds the job by then. `ReadToCheck` reads the
order and the observation, and `StartCheck` moves the order on from what was read, so
the check goes by an observation that another one may have replaced. `FenceRecovery`
passes the fence before it waits for the order's lock, and `ReviewRecovery` puts a
recovery's order back to review. That last step also writes an audit row under a key
of the job: a second run that has something else to say of the recovery fails there.
An error inside the follow-up leaves the job RUNNING until its lease ends. A replayed
transition moves nothing, and what its caller does then differs: the retry limit's
review throws and rolls back, a held delivery keeps the status it has just written.

*Environment.* The provider's answer and the port are arbitrary at every check; a
transaction fails at any point; a lease ends under its worker, or a process dies
(`MaxFaults`); the administrator may do anything the recovery assessment allows, and
is never obliged to.

*Abstractions.* The four terminal states of a dispatch are one, since none is read
again. A claim token is the worker's name: a worker holds one job. Backoff times,
command receipts, notifications, audit rows and the credential of a delivery are left
out; an approved delivery goes to `ACTIVE` at once, as `activateApprovedDeliveryTx`
does it for an order that has what it needs.

### OrderPurchase

*State.* `session`, `order` and `infra` are the three owners of the product flow,
each with its state and revision; an order and its infrastructure order are
indexed by their quote, since `ServiceOrder.recommendationQuoteId` and
`InfrastructureOrder.serviceOrderId` are unique. `quote` is the quote's status and
server, with the expiry transition recorded under its key; `due` are the quotes
past `expiresAt`; `server` the inventory items, `units` the stock of the manual
offers, `balance` the wallets. `call` is what a request, or the worker, has read and
not yet written; `todo` what the sweep has still to expire.

*Steps.* A transaction that locks its rows first is one step (checkout, payment,
refund, approval, dispatch, manual delivery). A read that is written from later,
outside a transaction or without a lock, is two: quoting a conversation again
(`RequoteRead`, `RequoteCommit`), making an order (`OrderRead`, `OrderCommit`),
expiring a quote (`ExpireRead`, then `ExpireCommit` or `ExpireThrows`), refreshing a
quote, a payment that fails (`PayFails`, `PayCaught`, `PayRelease`), observing a
server. Between the two anything may happen. A transition moves the owners it
names together and only if they agree (`SessionAt`, `OrderAt`, `InfraAt`); one whose
idempotency key was used moves nothing and succeeds (the `keys` of a session,
`expiry` of a quote). The bulk invalidation of a requote does not see quotes that a
concurrent call commits while it runs (`blind`).

*Environment.* Quotes fall due, servers' observations grow old, requests fail at
any point, the worker is killed (`MaxCrashes`); a checkout, an order and a payment
need a customer and are never obliged to happen.

*Abstractions.* The conversation before quoting and a guest's claim of its session;
pricing, coupons and the accounting entry of a payment; the answers of the provider
when it revalidates a plan (a payment may just fail); the pay-as-you-go
activation; `AUTH_REQUIRED` and `PAYMENT_REVIEW`, which no code sets;
`RecommendationSession.status`; the sweep's limit of 100. An API offer whose
automation is switched off behaves as a manual one at dispatch. One worker runs,
as deployed. A paid order ends here in `QUEUED` or, delivered by hand, in
`PROVISIONING`; ProvisioningWorker goes on from there.

### BillingRuns

*State.* `policy` and `resource` are the policy snapshots and resource versions of a
service in their order, `usage` its usage intervals, `run` the `BillingRun` of each
period, `invoice` and `adjustment` indexed by service, snapshot and period, as their
unique keys are; `wallet` and what other products moved in it (`received`); `low` the
snapshot of the open low-balance case, `dunning` the outstanding and suspension
cases. `worker` is a worker's place in its cycle with the rows its transaction has
read (`lines`, `balance`) and written (`bills`). Time is a clock of ticks; an hour
and a day are `HourLength` and `DayLength` of them.

*Steps.* Settling a period is one Serializable transaction. Its first statement
takes the period's advisory lock, so PostgreSQL's snapshot is older than the lock:
`BeginSettlement` reads, `AcquireRunLock` comes later, `MarkInvoiceForReview`,
`ChargeUsage` and `RejectUsage` go through the services one by one and hold the
wallet's row lock once they have it, `CommitSettlement` writes. What another
transaction commits to a row this one has yet to write makes it `stale`
(`Overtaken`), and a stale transaction can only fail and be retried
(`SerializationFailure`; `MaximumAttempts` tries, four in `worker.ts:134`). A failure is recorded twice, where it is
caught and by the catch-up, which then ends the cycle. Starting billing, a cadence
change, a confirmed resource version and an adjustment are one step each.

*Environment.* The clock, purchases and top-ups (`MoveMoney`), lost connections and
timeouts (`TransactionLost`), crashes; `MaxFaults` bounds the last three. A
confirmation may be recorded up to `Lag` ticks after its moment; the services whose
period was over by then are in `late`. `OffSecond` are ticks that stand for a moment
between two whole seconds.

*Abstractions.* Amounts are `Rate` per tick of an active resource; rounding, minimum
charges, markups and every component but compute are left out, except that a plan
without a card for each component goes to review (`RatedPlans`) and that a service
started on a plan adds its own compute card (`CardStart`). The requests behind a
resource change, global policy versions, provider reconciliations, and
`settleLatestClosedBillingPeriod`, which nothing calls, are not modelled. Usage
intervals are never `INCOMPLETE` or `REVIEW`: no code sets those.

## 4. Runs

| Run | Instance | Question |
|---|---|---|
| `settlement_race` | 2 customers naming one usage id, 3 operations (symmetric), 2 concurrent calls, every kind of call under every id, blocking | Does a repeated or racing call hear the recorded outcome, and does a hold keep its life cycle? Can a hold be taken from a blocked customer? |
| `settlement_funds` | 2 usages in one wallet, 2 scopes, prices that change, pins, overstated usage, other spending | Do the books and the ledger always add up, and does the authority implement its contract? |
| `topup_race` | 1 top-up, 2 attempts, a fair call of the customer's and one of an admin, no crash | Is a top-up credited once in every interleaving, do statuses and recovery cases stay right, and does a confirmed payment always get credited or reviewed? |
| `topup_money` | 2 top-ups (one with a bonus), a call of the customer's and one of an admin, crashes, another spender, refunds | Do wallet, ledger and journal agree, and is the contract (credited only if paid in full, taken back once) implemented? |
| `provisioning_prompt` | 2 workers (symmetric), 3 attempts, 2 claims, prompt provider | One server per order, none behind a refund; does the order keep `ServerContract` (billing only for a server, no attempt beside another)? |
| `provisioning_live` | 2 fair workers, 2 attempts, 2 claims, late calls, crashes | One server per attempt, one active job, consistent states; is every submitted order answered? |
| `health_retry` | 2 fair workers, 1 retry, 1 manual recovery, 2 tries of a dispatch, 1 crash or lost lease, administrator | Does a recorded result stand, is every failed check followed up and taken up, and does a command lead out of every review? |
| `billing_race` | 2 services of one customer, 2 workers (symmetric), hours of 1 and days of 2 ticks, 1 cadence change, 1 purchase, 1 fault | Do two workers settle each period once and in order, and do wallet and invoices agree? |
| `billing_catchup` | 2 services on one plan, 1 fair worker, 4 ticks, a cadence change, 2 resource versions, late confirmations, starts between two seconds, an adjustment, 1 fault | Is the timeline whole, does an invoice say what was used, is grace kept, is the backlog worked off? |
| `order_conversation` | a conversation of 2 quotes and a checkout of a limited manual offer in one wallet, 2 requests (symmetric), worker, administrator | Is one offer of a session paid, once; do the rows of a paid order agree; is a quote never at odds with an order that could go on? |
| `order_stock` | 2 checkouts of one ready server, 2 requests, worker killed once, fair cycle | Is the server sold once, and does the worker keep reaching the job queue? |

One more run, `order_server_lost`, ends in a violation; section 5 explains it.

*Bounds.* Two concurrent calls are enough for every two-party race; the code
takes its locks in pairs and no property relates more than two calls. In the top-up
runs one is the customer's and the other an admin's: a reverify does all a callback
does and more, so two racing callbacks are among its behaviours, and the theorems have
no such bound. The purchase of `topup_money` costs more than one top-up brings, so it spends of both
and leaves enough to take back only the smaller one. `MaximumAttempts` is 2, one retry: every retry starts afresh. Three
operations let a reservation be taken, closed and attacked by a third call. Two
attempts let one attempt overtake another; three let a retry follow a retry. Two
claims give a stale worker beside the one that claimed the recovered job.
`MaxClaims` also bounds crashes: the last claim of a job is not interrupted.
`MaxOther`, `MaxSpends` and `MaxMoves` are one: a second spend only repeats the
effect of the first. Two ticks of two one-tick hours and a two-tick day put a
period behind another and two cadences in one wallet; four ticks with hours of two
let a change fall inside an hour, at its end and after it. `MaxFaults` and
`MaxCrashes` are one (crashes of `topup_money` are not bounded): after a fault a worker starts from the rows alone, so a second
one starts where the first did. Two quotes of a session give a sibling to expire, to
order and to requote; two customers' checkouts of one server give it a second buyer.
One retry and one recovery let a job follow each kind of job, and a delivery be set
aside, recovered and set aside again; every exception of `DeadEndsAreKnown` and
`FailureIsFollowedUp` is reached in the instance, so none of them is there in vain;
with two retries and no fault the three invariants hold as well (2.6 million states), at
a size that leaves no time for the liveness property.
The worker's crash is left out of `order_conversation`: it leaves no memory behind,
and `order_stock` has it.

*Deadlock.* It is checked wherever the environment can always act. The
`Provisioning*`, `HealthRetry` and `Order*` runs switch it off: a delivered or
refunded order has no next step, and once the quotes of an instance are used up its worker may idle.

*Fairness.* `WalletTopUp!FairSpec` is strong fairness of every call's next step:
PostgreSQL grants row locks first come first served and gateway and database waits
end by timeout, so a call that can go on again and again goes on; `topup_race`
assumes no crash, since the code has no sweeper for attempts and a dead call is
continued only by another callback or by an operator; crashes are in `topup_money`.
`ProvisioningWorker!FairSpec` is weak fairness of dispatch, claims, processing,
lease expiry and recovery: the worker process runs them in a loop
(`runProvisioningWorkerCycle`) and time passes. `OrderPurchase!FairSpec` is weak
fairness of the worker's cycle as a whole, not of its parts: whichever step the
code does next happens, and an exception starts the cycle again.
`HealthRetry!FairSpec` asks for less: weak fairness of all this work taken together
(`Work`: as long as something of it can go on, something does), and strong fairness of
the handling of dispatches: a cycle reconciles the due dispatches before it claims, so
if some come up in infinitely many cycles, though the flow keeps changing, they are
handled in one of them; that they are handled well is not assumed, since a failed try
is one of the outcomes. `BillingRuns!FairSpec` is weak fairness of each worker's next step, for the same
loop. Nothing is assumed of customers, administrators, crashes, lost transactions,
late calls or the clock.

## 5. Where the code and its documents disagree

One run ends with a counterexample against a line of the documents;
`PROJECT.json` quotes it.

- `order_server_lost`: a payment does not assign the reserved server, as
  `docs/multi-provider-cloud-architecture.md:199` says, and the reservation keeps
  ending with the quote: a paid order whose approval takes longer loses its server
  to the next customer (`lib/infrastructure/preprovisioned-inventory.ts:229`).

The other places where the models' behaviours fall short of what one would expect
have no run of their own. Some are escapes of a liveness property, which holds
only with them:

- `JobsAreReached` excepts `SweepStuck`. When a session's unselected quote is due
  first, its expiry takes the session to `QUOTE_EXPIRED` while the selected order
  awaits payment; the order's own expiry is then refused by the flow check, nothing
  catches the error (`lib/orders/quote-expiration.ts:215`), and every later cycle
  ends there, before dispatch and jobs. It also excepts `ServerGone`: the dispatch of
  an approved order whose server is gone or stale throws in every cycle
  (`provision-dispatch.ts:239`). An order to be delivered by hand that was approved
  first keeps the dispatch from the orders behind it (`DispatchesNothing`), but not
  the worker from its jobs.
- `BacklogIsWorkedOff` excepts `Unsettleable`. One case is a server confirmed between
  two whole seconds: its first period fails at every attempt
  (`lib/billing/calculation.ts:141`) and the catch-up never goes past a failed
  period, so that service, and every other one of its cadence, is not invoiced any
  more, although the full usage invoice is to be registered
  (`docs/phase-1-product-contract.md:64`). The other is a low balance under a second
  policy snapshot: the case's key names the snapshot
  (`lib/billing/worker.ts:847`), a partial unique index allows one open case per
  service and type, and nothing resolves one, so the insertion fails the period.
- `FailureIsFollowedUp` and `FailureIsTakenUp` except two failures. A retry commits its
  failed check and the dispatch of the next retry before it is finalized; a worker
  that handles the dispatch in between joins the retry that has just failed
  (`health-retry-service.ts:431`), and nothing follows it, although three attempts are
  to be made and the order then given to an operator
  (`docs/multi-provider-cloud-architecture.md:402-408`). And a recovery whose worker
  dies before it puts the order back to review leaves it in `HEALTH_CHECK_FAILED`.
  An administrator's retry leads out of both, unless the limit was reached before.
- `DeadEndsAreKnown` names the four ways in which `MANUAL_REVIEW` is a dead end, though
  `docs/multi-provider-cloud-architecture.md:410` says it is none: a delivery that is
  held or refused a second time (`SetAsideAgain`; the transition has one key per order,
  so the status moves and the flow does not, and no command accepts the pair), the
  retry limit reached a second time (`LimitAgain`, the same key), a retry whose order a
  dead letter put to review (`Jammed`: it can neither check nor fail, and keeps a
  recovery from being made), and a job requeued in `HEALTH_CHECKING` (`Stranded`, next
  list).
- `SettledAsUsed` and `SettledInOrder` except `late`: usage confirmed after its
  period was settled is never billed.
- A second service on a plan adds a second compute card to it (`start.ts:154`), and
  from then on every period of both is put to review as an overlapping rate card.
- A failed hourly catch-up keeps the daily one and the dunning of that cycle from
  running (`scripts/provisioning-worker-entry.ts:73-87`).

The others leave the checked properties true:

- A review or a failure recorded from a stale read overwrites an attempt and a
  top-up that another call settled in between (`lib/wallet/topup.ts:647`), and
  linking a created payment sets a credited top-up back (`topup.ts:206`), although
  `docs/payment-flow.md:50` says a success is never downgraded. The wallet stays
  right (`TopUpCreditsOnce`, `SuccessIsCredited`), and so do the cases of reviews and
  failures (`CaseMatchesAttempt`).
- An admin's reverify or reconcile that reads the attempt while such a stale write
  stands, and without a case, opens one (`lib/payments/recovery.ts:65-88`); when
  another callback settles the attempt before that commits, a SUCCEEDED attempt is
  left with an open case `admin_recovery_action`, which settling does not see and
  nothing closes by itself. `CaseMatchesAttempt` names it (`OPENED_BY_ACTION`). No
  document or comment claims the contrary, so it has no run of its own.
- A retry may start while the recovery case of the previous attempt is open
  (`topup.ts:560` looks at the attempt's status only, unlike the message at
  `topup.ts:276`).
- An expiry that read its quote without an order, and commits after one was made and
  the session was quoted again, moves the session only: the order stays
  `AWAITING_PAYMENT` behind it for good (`lib/orders/quote-expiration.ts:74-100`).
  This takes four quotes of a conversation, two more than a run has; the proof
  of `QuoteMatchesOrder` met it, and shows that the order can no longer be paid.
- A health check goes by the observation its first transaction reads without a lock
  (`health-check-service.ts:420-427`), and its last one does not look again: when the
  administrator observes the server in between, the order awaits its delivery although
  the observation that stands does not meet the contract. Nor does a stale worker's
  observation need its claim by the time it is written
  (`health-retry-service.ts:1040`), so it may even follow the delivery. The approval
  reads the observation again (`Approvable`), so nothing is delivered without one; what
  `OnlyCheckedIsDelivered` proves is that the latest check succeeded.
- The return of a failed recovery to review passes its fence before the order's lock
  (`health-retry-service.ts:1413-1420`), so a worker may make it after its lease
  ended; the job's next run can then have an audit row of the first against it.
- A create call that reaches the provider after an operator confirmed its absence
  makes a second server beside the retry's; `OneServer` is therefore stated for
  calls that end before their lease (`Prompt`), and `CreateOnce` for all.
- A worker that dies in a health check leaves a queued job that no claim takes, since
  the order is in `HEALTH_CHECKING` (`provisioning-service.ts:396-415`);
  `SubmissionIsAnswered` ends before that state, and `FailureIsTakenUp` excepts it
  (`Stranded`) until a pending dispatch, if there is one, puts the order to review.
- After a provider balance error, and after a poll job that failed following a
  reconciliation, the reconciliation commands refuse the order's state
  (`lib/infrastructure/retry.ts:136`).

## 6. Proofs

All theorems are `Spec => ...` for every value of the constants that satisfies the
module's named assumption (well-typed requests, prices above zero, natural
amounts; for provisioning at least one attempt and one claim; for billing an hour
that divides a day; for the health checks at least one retry and one try of a
dispatch). None restricts the number of customers, calls, operations,
attempts, services, quotes or servers; the bounds that TLC needs are
constants of the specification with no upper limit.

**Settlement.** `TypeCorrect` proves `TypeOK`; its content is that no balance goes
negative, since the conditional debit is the only step that takes money.
`ReservationBooks` is not inductive: that a charge fits the hold rests on the hold
being the price of the reserved bounds *at the reservation's own price*, on the
bounds check and on the monotonicity of the rounded cost. `Books` adds exactly
that, and `Safe` proves `TypeInv /\ Books` inductive. Every step is
then classified by `StepEffect` into one of six effects on wallets and
reservations (fund, charge, mark uncertain, release, spend elsewhere, nothing), so
that `BooksAlwaysBalance`, `ClosedStaysClosed`, `UncertainHoldIsKept` and
`AuthorityImplementsContract` each argue over effects and never over handlers.
`RetriesHearTheRecord` rests on `OneCallAnswers`: a step is one call's, adds to the
record or leaves it, and takes its call to an answer only with the row of that answer
or with an error the code throws. `LedgerExplainsBalance` needs that money moves by
`Post` or not at all (`Posted`); an entry appended with the balance it leaves
continues the chain. `BlockedCustomerHoldsNothing` needs `BlockFreezes`: an active
wallet is an active customer's, which is what the read of the account, made before
the debit, no longer says.

**Top-up.** `SafetyInv` is the conjunction of `TypeOK`, `ConfirmedIsPaid` (an
attempt stamped as verified or about to settle was paid in full) and the five
invariants `CreditedOnce`, `SuccessIsCredited`, `CreditIsPaid`, `OneSuccess` and
`CaseMatchesAttempt`; no one of them is inductive alone. The recording of an admin's
action is one more unlocked writer, which makes a case but never touches one: that is
why a review keeps the case it found or made. `PlainStep` and
`CreditStep` split the actions into those that leave wallet and ledger alone and
the one that credits. The refinement of `TopUpContract` needs in addition
`RefundIsCredited` (`MoneyInv`): a refund is approved only for a credited top-up.
`TopUpBooksAgree` follows the rows: each is written with the balance it leaves and
with its accounting entry (`RowKeepsBooks`, twice for a credit with a bonus), and the
entry that settling again makes sure of is there already.

**Provisioning.** `IInv` has seven parts. `JobShape` and `Tokens` say what a claim
token is: the number of the last claim, never held by two workers. `Order` says
that no job is at work while the flow is *quiet* (so that a command that queues a
job queues the only one), that attempts are made one after another, and that the
attempt confirmed absent is never the active one. `Sends` says that an attempt has
one sender, and none once its call has left, which makes `CreateOnce` inductive
even with late calls. `Billed` follows what the workers saw. `Prompted` is the part
under `Prompt`: a call ends under its fence, so a server is made only when there is
none. `StepCases` divides the 27 actions into a few effects on the jobs, and the
parts are proved over these effects. `OneServerPerOrder` and `RefundLeavesNoServer`
have `Prompt` as an assumption, which they need (section 5: a late call makes a
second server).
`MaxAttempts` and `MaxClaims` are arbitrary in these theorems.

*The contract* (`ProvisioningImplementsContract`). `ServerContract` counts attempts and
says which calls made a server (`made`) or will (`pending`), and when the order is
settled; it knows no job, lease or worker. The mapping takes the attempt from the job
rows (`LatestCreate`), the servers from the provider, and the adoption from the rows
that name a server. Its condition for another attempt or a refund, that no call
of the attempts before was or is under way, or the last was confirmed absent, is what `ResourceSafe` concludes from `createSentAt`
and from the confirmed absence; `SafeIsClear` shows that the conclusion is right. It
needs `Settled` on top of `IInv`: after a confirmed absence no server was recorded and
only a retry or a refund can follow, and the job at work is the latest attempt's.
The theorem holds for prompt and for late calls; for late ones the contract
leaves room for what then happens, a second server, at an earlier attempt.

**Billing.** `IInv` is `TypeOK` with five parts. `Windows`: the policy snapshots of a
service follow one another, so an hour lies in one of them. `WorkShape`: the periods
on a worker's list are over. `Drafts`: every line and bill of a transaction lies in
its period and in the window of its snapshot, also when the window is cut after the
transaction has read it, because a change may only be scheduled from the end of the
running period on. `Fresh`: while a transaction is not stale, the run it settles is
still open; this is where the snapshot that is older than the lock matters, and what
`Overtaken` maintains. `Invoiced`: an invoice's run is settled, its period over, its
hours inside period and snapshot. Then two invoices of one hour have the same
cadence (one snapshot), so the same period, so the same key, and `CommitSettlement`
can charge nothing twice; `BillingImplementsContract` follows. Hours, days,
services, workers, faults and snapshots are arbitrary.

*The timeline* (`TimelineHasNoGap`). Snapshots and versions of a service are two
chains, each row ending where the next begins and the last one open. The usage
intervals are exactly the spans the two chains share (`Shared`, `Timeline`); a start,
a scheduled change and a confirmed version each cut one chain and split exactly the
shared spans the code splits. A moment lies in one row of a chain, hence in one
interval. That a version confirmed with a snapshot already scheduled ahead splits the
intervals on both sides is a case of this, not an assumption.

*Settled as used* (`SettlementsStandAsUsed`). `PastStays` says what a step leaves as
it was before a time: the rows that lie in the past, with the cadence and status they
had, and the rate cards in force. Steps of the timeline change nothing before the
clock, except a confirmation recorded late, which `late` marks. So the line of a
closed period is the same before and after a step (`LineKept`: the parts of a window,
their price bounds, the slices, the outcome). `Read` carries this through a
transaction: what it has loaded is what the timeline says now, as a line still to do
or as a bill that charges it (`InHand`). With `Closed`, a settled period's invoices
are then those of its lines for good.

*Order* (`PeriodsSettleInOrder`). `InOrder`: an earlier period with usage is settled
unless the busy worker has it on its own list. The catch-up takes the oldest open
periods, up to its limit, so what is off the list and older than something on it was
not open (`OldestInOrder`); and a period ends before the next one starts, so usage
that appears later is not in it, unless confirmed late.

*Grace* (`SuspensionsComeAfterGrace`). `Cases`: a case about money outstanding names a
grace that an unpaid invoice of the service has run out by, which holds of every
worker's bill (`Owed`, one bill for a snapshot by `OneDraft`) at its commit; an
invoice never changes, and the clock only moves on.

*Books* (`BooksBalance`). `Books` compares a wallet with a sum over all invoices and
adjustments of a user's, a fold of the community modules over the finite set of
keys. The prover has no induction over sets; instead the smallest subset for which
a fact about the sum failed is looked at (`Smallest`: the strict subsets of a finite
set are well founded). That gives what the sum is made of (`SumStep`, for which the
recursive function behind the fold is shown to exist and to be the only one), that any
element may be taken out of it (`SumWithout`), that sums add up (`SumOfSums`), and what
one changed element does (`SumMoved`). The invariant is `MoneyInv`. `Foreseen`: a
transaction that is not stale sees a wallet it touches as it is now, less what its own
bills take from it (`Drawn`, the bills as amounts under the keys of the invoices they
become). `OneHolder`: one transaction at a time has bills of a wallet. A purchase, an
adjustment or another commit that moves the wallet therefore finds either a bill, and
waits, or a line yet to be billed, and makes the transaction stale. At its commit the
sum of the invoices grows by what the wallet loses (`CommitPays`), because the run was
open (`Fresh`), so that no invoice was there before under any of the keys
(`Invoiced`, `Unwritten`). The sets of services, users and workers are arbitrary; the
services are finite.

**Purchase.** The argument is the session. `After` are the states a session is in
once one of its orders was paid; no quoting, order or expiry starts from one of them,
and `Calls` says what a request carries from its read to its write. `Paid` adds to
`PaidFlowAgrees` that the session of a bought order is in `After` and has no other
bought order: so whatever a request read before the payment is refused after it,
with one exception that the code makes on purpose and the proof must follow, the
refund beside an unrefunded sibling, which leaves the session where it is.
`ServersAreSoldOnce` needs only that the index on `preprovisionedInventoryItemId`
keeps two orders from naming one server and that dispatch asks for the reservation;
it does not need the reservations to be kept, and they are not.
`PurchaseImplementsContract` maps `Bought` and `Refunded` and uses `Paid` for the one
condition that is not a guard of the code: one offer of a session.
`QuotesMatchTheirOrders` needs `Matched`, an invariant of what requests carry: an
order is never ahead of its session; after an expiry has moved a session no order of
that quote keeps up with it; and an order's call begun before the quote was due can
still make its order only while the session has not moved. With four quotes in one
conversation an expiry that read no order can commit after one was made and the
session was quoted again; that order stays `AWAITING_PAYMENT` behind its session, and
its quote is `EXPIRED`. The property therefore speaks of orders in step with their
session: the one left behind can never be paid, which is part of the proof.

**Health checks.** One health job of an order is at work (`OneActive`, the partial
unique index), so one worker holds a claim, and only the holder moves a running
check: every part of `IInv` argues over that one holder. `InOrder` makes the retry
at work the last one. `Places` and `Results` relate what the holder is at and its job's
result: while a check runs its job has no result, and once it succeeded every job at
work has one. What a worker still writes after its claim ended, an observation or the
return of a recovery to review, changes no job, no check and no dispatch; that it
comes from a recovery (`Places` again) is all the argument needs of it.
`DeliveredIsChecked` says that an order that awaits delivery, or has it, passed its
latest check. It says nothing of the observation, which may have changed since
(section 5). `Dispatches` (a retry's result
comes with a dispatch, pending or joined to it) and `Recovers` (the latest check is
the recovery's for as long as it is at work) carry `FailureIsFollowedUp` over the
finalization of a job. For `DeadEndsAreKnown` two parts come on top: `Standing` (a
delivery in review was set aside before) and `Checking` (a running check has a job
at work that has started, and its holder is not done). The four dead ends are then a
case distinction on the flow. Two action properties follow: `DeliveryIsFinal` (the
holder of a delivered order's job finds its result by `Results`, so it does not check
by `Places`, and nothing else touches the order or the check it went by) and
`ResultsStand`, which needs one more part: `GoodResults`, that an order in
`HEALTH_CHECK_FAILED` has no job at work whose result is good, or a step that fails
after its commit went unanswered could write over it. No run checks `DeliveryIsFinal`,
which was tried with TLC on the bounds of `health_retry` before it was proved.
`RetryLimit`, `DispatchLimit`, the recoveries, the faults and the workers are
arbitrary.

Trusted: tlapm 1.4.5 with Z3, Zenon and the LS4 translation, and the standard
theorem library. No obligation is omitted.

## 7. What is only model-checked, and what is not modelled

*Only TLC.* Liveness (`ConfirmedIsKept`, `SubmissionIsAnswered`, `JobsAreReached`,
`BacklogIsWorkedOff`, `FailureIsTakenUp`): fairness and ENABLED are outside the prover. Every other
property of a passing run is stated by a theorem.

*Not modelled.* The components listed as `not_modelled` in `PROJECT.json`, with the
reason. Inside the modelled ones: what section 3 lists as abstractions, replay of
administrator commands by key, the numeric limits of request fields, and
PostgreSQL's own deadlock detection (a transaction it aborts is a failed step).

## 8. Plan

Written, in this order because a customer's money is at stake first: settlement
authority, wallet top-up, provisioning worker, usage billing, purchase, health-check
retries; each but the retries with its contract.

Next:

1. `HealthRetry`: an abstract specification of the chain: at most `RetryLimit`
   retries, then review.
2. `WalletLedger`: credit, debit and reversal with keys and the partial unique
   index, refined to an abstract account.
3. Small modules: `ReplayWindow` (nonces and clocks), `LoginCode` (cooldown and
   attempt limit), `AlertOutbox` (at-least-once delivery).
