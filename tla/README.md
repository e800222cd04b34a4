# OverSeek: a verification development

OverSeek is a self-hosted companion of WooCommerce shops: a Node server
(`server/src`, PostgreSQL through Prisma, Redis, BullMQ, Elasticsearch), a React
client, a WooCommerce plugin, and a print agent. This directory holds TLA+ models
of its background protocols, the TLC configurations that check them, and proofs
checked by the TLA+ proof system (TLAPS). `PROJECT.json` ties every modelled
definition to source lines, and lists runs, mutants, hazards, findings and theorems.

Contents

1. Inventory of the system
2. What is modelled, and how it corresponds to the code
3. Runs: questions, bounds, results
4. Fairness
5. Proofs
6. Where the code and its documentation disagree
7. What is not modelled, and the plan

---------------------------------------------------------------------------

## 1. Inventory of the system

All server components run as asynchronous calls of one or more Node processes. A
call runs undisturbed between two `await`s; everything else (other calls, other
processes, Redis TTLs, a crash) happens at an `await`. State that survives a
process is in PostgreSQL, in Redis and in the shop.

| Component | State it keeps | Operations | Interacts with | What is hard | What makes it correct |
|---|---|---|---|---|---|
| **BOM component consumption** (`services/BOMConsumptionService.ts`) | `BOMDeductionLedger` rows (EXECUTED, COMPLETED, REVERSED), stock columns, `bom:consumed` and `bom_pending` keys, two order locks in Redis, PostgreSQL advisory locks | consume a paid order, reverse a cancelled one, recover stalled deductions | order events, WooCommerce, maintenance scheduler | four idempotency layers with different lifetimes, crashes between local commit and shop, locks without owner | a paid order is deducted once; the ledger and the stock agree; what was deducted reaches the shop |
| **Automation enrollments** (`AutomationEngine.ts`, `AutomationEnrollmentService.ts`, `AutomationQueueService.ts`) | `AutomationEnrollment` row (status, current node, `nextRunAt`), a lock in Redis, queue jobs with stable ids | enroll, process, postpone, complete, cancel after a purchase, minute ticker | order events, mail, flow editor | retries and stalled jobs, lock TTL, job ids the queue remembers, cancellation under way | no node runs twice without a failure, nothing is skipped, waits are honoured, every enrollment ends |
| **Inbox delivery** (`scheduler/MessageScheduler.ts`, `routes/chat/messages.ts`, `routes/chat/scheduling.ts`) | `Message` row (`scheduledFor`, `deliveryStatus`, `deliveryAttemptedAt`, `providerMessageId`) | schedule, cancel, claim, send, acknowledge, clean up, retry under one `clientRequestId` | mail provider | overlapping passes, lease against slow provider, lost acknowledgements | delivered once unless an outcome could not be recorded; settled eventually |
| **Order intake** (`routes/webhook.ts`, `sync/OrderSync.ts`) | `WooOrder` rows, sync checkpoint, delivery-id keys | upsert, deduplicate, emit lifecycle events, delete what a full sync did not touch | event bus, automations, BOM consumption, search index | two writers each reading the previous status; crash between upsert and event; late pages | what is stored is announced, the newest status wins |
| **Product, customer, review sync** (`sync/ProductSync.ts` ...) | rows per entity, sync state | page loop, checkpoint, deletion cap | sync dispatch | stock written over unsynchronized deductions | a failed page never advances the checkpoint |
| **Sync dispatch and breaker** (`sync/`, `queue/`) | sync log, queue jobs | one job per account and entity, breaker | schedulers | stable job ids, depth limits | no two syncs of one entity |
| **Automation admission, abandoned carts** (`AutomationEnrollmentService.createEnrollment`, `MarketingScheduler.checkAbandonedCarts`, tracked carts) | enrollments by dedupe key and email, session rows | record carts, scan, filter, dedupe, frequency cap | order events, tracker, enrollments | lock keyed differently from what is counted; a scan that marks what has changed meanwhile | an order enrolls once, a cart is followed up once and only until it is bought |
| **Automation flow graph** (`automation/`) | none | successor of a node, validation, quiet hours | enrollments | pure functions with corner cases | a validated flow ends |
| **Wholesale generations** (`wholesale/generations.ts`, `worker.ts`, `validityWorker.ts`) | generation row (status, lease, deadline, version), files | create, claim, render, cancel, approve, extend validity | queue, files | read-then-update by id against the worker, lease recovery | one active generation; what is offered has its file; all ends |
| **Wholesale shares** (`wholesale/shares.ts`, share worker) | share row, token hash, password | prepare, activate, rotate, revoke, expire | mail | ambiguous email outcome, undo | the password sent is the one stored |
| **Campaign sending** (`MarketingService.ts`) | campaign status, counters | schedule, unschedule, send | queue, mail | restart of an attempt from the first recipient | each recipient once |
| **Conversion forwarding** (`tracking/EventProcessor.ts`, `ConversionRetryService.ts`, a service per platform) | receipt, delivery row | ingest, deliver, retry, give up, retry by hand | ad platforms | overlapping passes, outcomes written by id, stale PENDING, age cutoff | no lost and no double conversion |
| **Canonical invoices** (`CanonicalInvoiceService.ts`) | artifact row | request, render, retry | queue | job id still held by the queue | an artifact asked for is rendered |
| **Purchase orders** (`PurchaseOrderService.ts`) | PO rows, stock | receive, un-receive, push stock | shop, BOM | absolute pushes in the background | stock equals receipts |
| **Snoozes, email polling, marketing and maintenance schedulers** | due rows | tickers | most of the above | crash between work and its mark | work once per due date |
| **BOM inventory sync** | derived stock | recompute | shop | best effort | minimum over components |
| **Shipping, tracking, carts, sessions, presence, backup, search index, analytics, ads, SEO, AI** | single rows, caches | CRUD, reports, calls of external APIs | - | little shared protocol | - |
| **Client, plugin, print agent, shared types** | user interface and devices | - | the server's API | - | - |

Three causal chains matter most. (1) A webhook, a sync page or a bulk update stores an
order and emits an event; the event starts component consumption, enrolls the
customer, or cancels an enrollment; each of these then lives its own life with retries
and recovery jobs. `OrderIntake` is the first link, `BOMConsumption`, `AbandonedCarts`
(admission) and `AutomationEnrollment` (execution) are the later ones; the links
meet at events, which every later module takes as coming at any time, more than once,
or never, as `OrderIntake` shows they do. (2) A tracked visitor leaves a cart that is
followed up (`AbandonedCarts`) or buys, and the purchase is reported to the
advertising platforms (`ConversionDelivery`). (3) Staff ask for a catalog, workers
render it, staff approve or extend it (`CatalogGenerations`). Messages of agents
(`MessageDelivery`) stand alone.

The main hazards of the code (each at its line) are listed in
`PROJECT.json` with the properties that would catch them.

---------------------------------------------------------------------------

## 2. What is modelled, and how it corresponds to the code

Common conventions

- One action is the code between two `await`s, with all the state it writes.
- Actors (calls, workers, passes) are members of constant sets; their local
  variables are a record (`job`, `call`) whose program counter names the next await.
- What may fail is a subset `Env` of a module's `EnvEvents`, so one module serves
  quiet and hostile runs. Definitions marked *Mutant* are plausible bugs used to
  show that a property can fail; no specification uses them.
- Every bound is a CONSTANT and named below.

### BOMConsumption, DeductionOnce

`BOMConsumption` models `BOMConsumptionService.ts`.

| Model | Code |
|---|---|
| `ConsumeStart`, `CheckLedger`, `Track`, `Execute`, `SetConsumed`, `ClearPending`, `CloseLedger` | `consumeOrderComponents`: dedup key, ledger check, planning and pending key, the transaction under `pg_advisory_xact_lock`, and the closing phase |
| `SyncSnapshot` ... `SyncDone` | `syncExecutedLedgerEntries`, shared by consumers and recovery |
| `RecoverPending`, `RecoverOrphan`, `RecoverClear` | the two phases of `recoverStalledDeductions` |
| `ReverseStart`, `Restore*`, `MarkReversed`, `ClearConsumed` | `reverseOrderConsumption` and `rollbackDeductions` |
| `SetNx`, `ExpireLock`, `RedisLockThrows`, `PgLock*`, `Release` | `acquireLock`, `releaseLock` |
| `Throw`, `Crash`, `KeyExpires` | rejected calls with their `finally`, death of the process, TTLs |

Abstractions. A stock column is kept as the vector of what each order took
(`net[c][o]`), exact because every write of this service is a relative increment;
clamping at zero is left out. WooCommerce holds the vector last pushed. Backorders,
names, logs and the best-effort cascade to parent products are left out. The age
that makes a ledger row an orphan is not modelled: a row may have any age.

`DeductionOnce` is the promise made when nothing is cancelled: an order is applied
as a whole and once, and a deduction is complete only when the shop was told.
`BOMConsumption` has the refinement mapping (`Once`).

### AutomationEnrollment

Models one enrollment: `enroll`, `processEnrollment` with its lock, early returns,
flow loop, postponement, step guard and `finally`; `markWaiting` and
`enqueueEnrollment`; the minute ticker; `cancelActiveAbandonedCartEnrollments`; and
the part of BullMQ the code relies on (stable ids, attempts, stalled jobs, retention).

A value of `nextRunAt` is a *stamp*: each write draws a fresh one, `due` holds
those whose time has come. The job id is made of the enrollment and `nextRunAt`, so
stamps name jobs as well. A holder of the lock that died is the token `Ghost`.
`sent` counts executions of a node, `nodeOf` remembers the node for which a stamp
was written, `faults` counts failures, `expired` says that a lock ended under a live
holder; they are history. The flow is the constant `Successors`, a relation: which edge
a condition takes is data.

### MessageDelivery, DeliveryOnce

Models one message row under both protocols that send it: passes of
`processScheduledMessages` and requests of `deliverExternalMessage`. An *attempt* is
a claim of the row; attempts are numbered, and the provider's id of a message is the
number of the attempt it confirmed. `stale` holds the attempts older than the lease;
a pass remembers what was stale when it read (`call[p].stale`), as the code computes
`staleBefore` once per pass. `accepted` (the customer has it) and `unconfirmed` (the
outcome could not be recorded in time) are history.

`DeliveryOnce` is what the inbox promises about one message, without rows, claims, leases
or calls: an attempt starts only while no delivery is known and every delivery so far is
one whose outcome was lost; only the latest attempt, or one given up, arrives; what is
known to have arrived is an attempt that did. `MessageDelivery` has the mapping
(`Promise`): the id in the row is what is known, a deleted row a withdrawn message.

### OrderIntake

Three writers of the table `WooOrder`: webhook requests (`routes/webhook.ts`), the order
sync with its pages, checkpoint and deletions (`OrderSync.ts` on `BaseSync.ts`), and the
bulk status route (`routes/orders/bulk.ts`).

| Model | Code |
|---|---|
| `HookReceives`, `HookStores`, `HookEmits` (`EmitsUpdated`, `EmitsCreated`, `EmitsUnkeyed`), `KeyExpires` | `processWebhookPayload`: the payload as the shop built it, the upsert after the previous status was read, the events after the delivery id was looked up, if there is one and Redis can be asked; its key lives for an hour |
| `SyncStarts` ... `SyncEnds` | `OrderSync.sync`: `getLastSync` with its five minutes, a page of the listing, statuses read together, concurrent upserts, events, the next page, deletions and checkpoint |
| `BulkReads`, `BulkUpdatesShop`, `BulkStores`, `BulkEmits` | `PUT /bulk-status`, also for orders the table does not have yet |
| `HookAborts`, `SyncAborts`, `BulkAborts` | death of the process or a query that throws |

Time is the clock of the shop in ticks, since the checkpoint compares times; `Buffer`
is the look-back. History: `sent` (announced statuses), `unsaid` (statuses whose announcer
died, that a baseline sync passes over, or that a bulk update stored which had found no
row), `created` and `excused` (CREATED events of an order and their causes), `passing` and
`passed` (orders that moved to a page already read, of the running sync and of those that
ended since the last full one). Listings are computed per page, so an order that is
modified between two pages moves (page drift), and one that is trashed moves the others
up. A shop announces the creation of an order under one delivery id, which `seen` stands
for. The queue runs one order sync of an account at a time; a request finishes within the
look-back.

### CatalogGenerations

The rows, files and jobs of one catalog. Transactions at isolation level
Serializable are one step (`WorkerFinalizes`, `Extends`, `ExtSwitches`), but the one that
creates a generation is three, since it removes files on its way: its snapshot
(`SweepReads`), the removal of the directories whose lease is over (`SweepRemoves`), which
no rollback brings back, and its commit (`Creates`) or rollback (`RollsBack`). The snapshot
comes before the advisory lock, so that lock does not serialize the requests by itself;
the isolation level does, and `Creates` has its guards. A commit may also go unheard
(`Fault("commit")`): the worker then takes the publication for failed and removes the
files. Cancel and approve read first and write by id later (`CancelReads`, `CancelWrites`).
The directory
of a generation holds a temporary file, the master and one file per revision.
The queues remember finished extension jobs by name (`xjob`, `QueueForgets`), which is
what makes a repeated extension disappear. History: `abandoned` are generations whose
request or worker died, whose failure fell together with a cancellation, or whose
extension the queue ignored; `lost` those whose files the sweep or an unheard commit took.

### AbandonedCarts

The cart of a session as the tracker records it, the orders that buy it, overlapping runs of
the scan, order events handled side by side, and `createEnrollment` at the end of both.
The transaction is two steps, check and insert, under the advisory lock of its dedupe
key (`Locked`): everything read in between without the lock may be stale.
Enrollments are the sequence of commits, so that properties can say which were
visible to which. A cart changes by a cart event with a total (`CartChanges`), which resets
the mark, also when the cart is emptied, or at the checkout (`CheckoutChanges`), which does
not. History: `lost` are the carts whose scan failed before it marked them, `overwritten`
those that bear the mark of an older cart. Served sessions and orders belong to one
customer.

### ConversionDelivery

One conversion and one platform, in the four places that handle it.

| Model | Code |
|---|---|
| `Ingests`, `Ingested`, `Undoes` | `processEvent`: the receipt by source event id, the event, the receipt given back on failure |
| `Declines` | the returns of `sendEvent`, and of the forwarder, before a row exists |
| `Logs`, `Sends` (`Answered`, `Unanswered`), `TokenThrows`, `Marks` | `sendEvent` and `sendWithRetry` of a platform's service |
| `PassReads`, `PassClaims`, `PassGivesUp`, `PassSends`, `PassFinishes`, `PassEnds` | `retryFailedConversions`, `claimDelivery`, `failStrandedPending`, `replayClaimedDelivery`, `finishAttempt` |
| `ManualReads`, `ManualSets` | `retryFailedDeliveries` of Google's service |

The services of the platforms are alike; where they differ `platform` does: Google has
failures that are not retried, the retry by hand, a token that may not be refreshed, and
a configuration the pass does not look at. Each request that carries the conversion may
create a row of its own. `stale` says that 15 minutes have passed since the last claim,
`old` that the row is a day old; both take a row nobody works on (requests time out in
seconds). History: `accepted` counts what the platform took, `excused` the acceptances that
could not be recorded, `lost` an ingestion nobody may repeat, and the field `loose` of a row
says that it was written without regard to a claim, by the retry by hand or by
`failStrandedPending`.

---------------------------------------------------------------------------

## 3. Runs: questions, bounds, results

| Run | Question | Bounds and why they suffice | Result |
|---|---|---|---|
| `bom_consume_only` | Is a paid order deducted exactly once, and completed only after its push, whatever happens to keys, locks, process and database? Does the service implement `DeductionOnce`? | 2 consumers and the recovery job on one order with a sold and an internal component; 1 crash; all of `Env`. `MaxGen` = 2 admits the second execution that must not happen | holds |
| `bom_serial` | Do variables keep their types? Without overlap, crash or database error: does the stock agree with the ledger at rest? | an order with components and one without; 2 connections, so that an unlock may hit the wrong one | holds |
| `bom_recovery` | Is every committed deduction eventually synchronized? With cancellations: do unsynchronized rows belong to the latest execution? | consumer, reverser, recovery job, overlapping; 1 crash, expiring keys, failing pushes | holds |
| `auto_once` | No repetition without a failure; nothing skipped; delays honoured | trigger and two delays, so that a row can be taken back from one wait to another; 2 workers (symmetric), 2 tries of a job, 1 failure of any kind, stalls; `MaxStamps` = 3 is what the flow needs | holds |
| `auto_settles` | Does every enrollment end, and is it over then? | trigger and two emails, `MaxSteps` = 2 so that the step guard strikes; a lost first job, a rejected call, postponement until stamp `LastPostpone` - 1, edits, switching, a purchase | holds |
| `message_delivery` | No needless redelivery, one holder of a claim, durable acknowledgement, every scheduled message settles. Do the two protocols implement `DeliveryOnce`? | 3 passes, 2 requests, 5 attempts, 3 failures of all kinds, a cancellation | holds |
| `order_intake` | Is every stored status announced, but for named causes? Is a new order notified once per source, but for named causes? Can the checkpoint pass over a change? | 1 order that is created (also as a draft), changed and trashed; a request at a time beside sync and bulk route; 1 failure, an unkeyed delivery and an expired key among them; 3 ticks with a look-back of 2, so a checkpoint can pass a change | holds |
| `order_pages` | Which live orders can a full sync delete, and which stay behind the shop? | 2 orders on pages of one, so listings drift between pages and shift when one order is trashed; full and incremental syncs, 1 failure, a bulk update; `Cap` = 1. The case that is excused (`passing`) occurs: without the excuse TLC finds the deletion | holds |
| `catalog_generations` | One active generation, a file for everything on offer, nothing put up by a worker after it was closed, everything ends | 2 generations, 2 overlapping requests, both workers, 1 extension, 1 failure of any kind (crash, queue, rendering, database, unheard commit, lease). The excused ways to lose a file (`lost`) occur: without the excuse TLC finds both | holds |
| `catalog_extensions` | Does the UPDATING state of a catalog that is not stale always end? | 1 generation, 1 request, a failed rendering | violated, see 6 |
| `abandoned_carts` | An order enrolls once, the cap and the dedupe key under concurrency, one follow-up per cart and none after the purchase, every abandoned cart followed up unless it bears an older mark | 1 session with 2 carts, changed on the page or at the checkout, or emptied, 2 orders whose events overlap, 1 scan, 1 failure; only the order automation is capped, so both sides of the cap occur | holds |
| `conversion_delivery` | Is a conversion sent once, what can leave a receipt without a delivery, does SENT stay, does every delivery settle? | the shop repeats the event once; 2 overlapping passes and 1 person, 2 requests per attempt, 2 attempts, 2 failures of any kind, 2 switches or retries by hand; Google and Meta | holds |

`auto_once`, `catalog_generations`, `catalog_extensions` and `conversion_delivery` have
deadlock checking off: their systems come to rest when all is done and the bounds are
used up (`auto_once`: also when a stalled job has burnt the only id of the row). In the
other runs a system at rest can still take a step (`Rest`, or the next scan, sync or
change), and deadlock is checked.

Bounds: `MaxGen` executions of an order, `MaxPg` stacked locks of a connection,
`MaxCrashes`, `MaxDebt` quantity given back too often, `MaxStamps` writes of
`nextRunAt`, `LastPostpone`, `MaxFaults` failures, `MaxAttempts` claims of a message,
`MaxTime` of the clock, `MaxChanges` of orders, `MaxRevision` extensions, `MaxCarts`
contents of a cart, `MaxEvents` of orders, `MaxSwitches` of a configuration or retries by
hand. `MaxSteps`, `MaxTries`, the `MaxAttempts` of `ConversionDelivery`, `PageSize`,
`Cap`, `Buffer` and `Take` are the code's own limits, made small. At the bound the code's
own failure path is taken (a transaction that fails, a client that gives up), or what is
outside the program stops acting.

Where a property excuses something (`abandoned`, `lost`, `overwritten`, `unsaid`, `excused`,
`passing`, `passed`, `loose`, `expired`), the excuse is a recorded event that really
happened; most of them are weaknesses of the code (section 6), and the property says that
there is no other way to break it. Its mutant shows that it still fails without one.
What lies in an excuse is not caught: `PROJECT.json` says so at each such hazard.

For each property a mutant of a modelled definition (a dropped compare-and-set, a
forgotten message id, a lock without NX ...) is known to violate it.

---------------------------------------------------------------------------

## 4. Fairness

- *Continuations*: Node runs a continuation whose promise is settled; hence weak
  fairness on the steps of an actor that cannot block (`Progress`, `Serve`, `Pass`).
- *Recovery*: the maintenance job runs every ten minutes over every orphaned order:
  strong fairness of `RecoverOrphan`, since a crash can interrupt any single run.
- *The shop and the provider*: strong fairness of `PushAnswered`: WooCommerce is not
  down forever. Only recovery needs it. A provider may refuse forever.
- *Timers*: the order sync comes every two minutes, the retry pass every ten, the scan
  and the message pass on their timers: weak fairness of their steps, which are enabled
  while there is anything to do. Workers take the jobs of their queues.
- *The engine ends what it runs* in `AbandonedCarts` (`Completes`): this is what
  `auto_settles` shows of `AutomationEnrollment`.
- *Time*: TTLs of dead locks, due times, leases and the 15 minutes of a pending
  conversion elapse (weak fairness).
- Crashes, errors, cancellations, evictions, retries by hand, customers and the shop are
  never fair; nor is the end of the lease of a generation: only a later request looks at it.

---------------------------------------------------------------------------

## 5. Proofs

Theorems hold for every value of the constants that satisfies `ConstantsAssumption`.

| Theorem | Statement |
|---|---|
| `BOMConsumption_proofs!TypeCorrect` | `Spec => []TypeOK`, any environment |
| `BOMConsumption_proofs!DeductedOnce` | without reversers: `Spec => []AppliedOnce` |
| `BOMConsumption_proofs!PushedBeforeCompleted` | without reversers: `Spec => []CompletedWasPushed` |
| `BOMConsumption_proofs!Refinement` | without reversers: `Spec => Once!Spec`, the service implements `DeductionOnce` |
| `BOMConsumption_proofs!PendingLatest` | `Spec => []PendingIsLatest`, any environment |
| `BOMConsumption_proofs!RestAgrees` | calls on an order one after the other, no crash, no database error (`Serial`): `Spec => []RestBalanced` |
| `MessageDelivery_proofs!Inductive` | `Spec => []IInv` |
| `MessageDelivery_proofs!TypeCorrect` | `Spec => []TypeOK` |
| `MessageDelivery_proofs!MutualExclusion` | `Spec => []OneHolder` |
| `MessageDelivery_proofs!NoNeedlessRedelivery` | `Spec => []RedeliveryExcused` |
| `MessageDelivery_proofs!DurableAcknowledgement` | `Spec => AckDurable`, an action property |
| `MessageDelivery_proofs!Refinement` | `Spec => Promise!Spec`, the inbox implements `DeliveryOnce` |
| `OrderIntake_proofs!TypesCorrect` | `Spec => []TypeOK` |
| `OrderIntake_proofs!StatusesAnnounced` | `Spec => []Announced` |
| `OrderIntake_proofs!CheckpointsSafe` | `Spec => []CheckpointSafe` |
| `OrderIntake_proofs!CreatedOnce` | `Spec => []CreatedOncePerSource` |
| `OrderIntake_proofs!DeletesGoneOnly` | `Spec => DeletesOnlyGone`, an action property |
| `AutomationEnrollment_proofs!TypeCorrect` | `Spec => []TypeOK` |
| `AutomationEnrollment_proofs!DelaysWaitedFor` | `Spec => DelayHonoured`, an action property |
| `AutomationEnrollment_proofs!OverStaysOver` | `Spec => OverIsOver`, an action property |
| `AutomationEnrollment_proofs!NothingPassedOver` | if nodes are not removed: `Spec => []NothingSkipped` |
| `AutomationEnrollment_proofs!RepeatsOnlyForFaults` | for flows whose nodes can be ranked: `Spec => []RepeatsAreFaults` |
| `CatalogGenerations_proofs!TypeCorrect` | `Spec => []TypeOK`, with the bounds of versions and revisions |
| `CatalogGenerations_proofs!AtMostOneActive` | `Spec => []OneActive` |
| `CatalogGenerations_proofs!OfferedHasFile` | `Spec => []PublishedHasFile` |
| `CatalogGenerations_proofs!NotOfferedOnceClosed` | `Spec => ClosedStaysClosed`, an action property |
| `AbandonedCarts_proofs!TypeCorrect` | `Spec => []TypeOK` |
| `AbandonedCarts_proofs!EnrolledOnce` | `Spec => []OrderOnce` |
| `AbandonedCarts_proofs!CapHolds` | `Spec => []CapRespected` |
| `AbandonedCarts_proofs!FollowUpsStop` | `Spec => []PurchaseStops` |
| `AbandonedCarts_proofs!FollowedOnce` | one scan at a time (`OneScan`): `Spec => []OneRecoveryPerCart` |
| `ConversionDelivery_proofs!TypeCorrect` | `Spec => []TypeOK`, with the bound of a row's attempts |
| `ConversionDelivery_proofs!SentIsFinal` | `Spec => SentStays`, an action property |
| `ConversionDelivery_proofs!FailedIngestionRetryable` | `Spec => []FailedRetryable` |
| `ConversionDelivery_proofs!NoNeedlessRepeat` | `Spec => []RepeatsExcused` |

**BOM consumption.** The assumption `Reversers = {}` says "without cancellations"; with
them `AppliedOnce` is false (section 6). *Types*: `TypeInv` adds to the domains that a
busy call has an order and that a call about to push or mark has a row. *Deduction*:
`ConsumeInv` says that each order is either fresh (nothing recorded, nothing taken)
or applied (one execution, rows exactly for its plan, stock exactly its
quantities), and states what each call relies on (`Good`): a consumer past its
transaction knows the order was executed; the rows still EXECUTED are among those it
has yet to push; after its loop none is left, so that the closing update completes
nothing unsynchronized; what is about to be marked was pushed or is internal. None of
this mentions locks or keys: the transaction's own check carries the guarantee, and
the proof shows that dedup keys and locks are optimizations. *Refinement*: every
action maps to `Apply`, `Tell`, `Complete` or a stutter.

*With cancellations* two things are proved. `PendingIsLatest` holds in every environment:
only `Deduct` makes rows EXECUTED, it makes them under a new execution, and it makes them
in a transaction that found no live row of the order (`PendingSteps`). `RestBalanced` is
about orders at rest, and between two restorations of a cancellation stock and ledger do
disagree. The invariant `InTurn` therefore counts a COMPLETED row that the running
cancellation has given back (`Given`) as taken no more (`Balanced`), says that one call
works on an order (`Alone`) and one execution of it is live (`OneLive`), and what each
call holds (`Works`): a cancellation the rows that are COMPLETED, all of them until it
starts to restore. Only the call of the order can have given rows back (`OwnRows`), so a
step needs to be looked at from the view of that call alone. TLC checked `InTurn` on
the bounds of `bom_serial` first. `Serial` excludes exactly what makes the property
false: two overlapping cancellations give the stock back twice (section 6), a crash
or a failing query between `Restore` and `MarkReversed` leaves rows COMPLETED whose
quantity was given back. Expiring keys, Redis errors and leaked locks are allowed.

**Order intake.** `Types` says more than domains: nothing in the state is later than the
clock, and what a request or a page holds is what the shop says unless the shop changed
since the request came or the run began. *Announcements*: the status of a row was told:
sent, about to be sent by the writer that stored it, or recorded in `unsaid` (`Told`). A
writer stays silent when the status is the one it read from the table before; so
`Announces` demands that what was read has been told as well, which makes it inductive
whatever the order of the writers. *Checkpoint and deletions*: `Reaches` follows a
running sync: an order that is behind for longer than the look-back, or has a row this
full sync did not touch, is still on the page in hand or on one to come (`Ahead`), unless
the run failed and leaves the checkpoint and the rows alone, or the order slipped onto a
page already read when another one was trashed (`Missed`). At the end there is no page to
come: nothing else is passed over, nothing else alive is deleted. `RankBounds`,
`RankMonotone` and their like say how places in a listing move: orders that are created or
modified meanwhile only move others towards later pages. `Counts` carries
`CreatedOncePerSource`: a CREATED of the sync beyond its causes needs a table without the
row, and only the deletion of a live order, which is a cause, brings that about
(`Owing`). None of these theorems has an assumption about the listing.

**Automation enrollments.** As long as no lock expired under its holder, nobody but the
holder is past the lock (`Exclusive`), and the row is at the node of that call (`Waits`).
A time was drawn for the node it is written for (`Timed`), so whoever finds a delay due
knows that a time of that very delay has come (`Passed`): `DelayHonoured`. `Queue` says
that a job that may run has tries left and runs in one call. Each step first gets a lemma
about the calls (`AcquireLockMoves`, ...), then one about the invariant
(`AcquireLockKeeps`, ...). `Reaching` carries `NothingSkipped` and does not need the lock:
it holds although locks expire. `Counted` carries `RepeatsAreFaults`: a node executed as
often as the failures allow lies behind the row in the flow (`Through`), where only a
failure could bring the enrollment again; "behind" is a rank of the nodes, which exactly
the flows without cycles have.

**Message delivery.** `OneHolder` and `RedeliveryExcused` are not inductive. `IInv`
adds: who holds a claim is working (`HolderWorks`), claims are not shared
(`UniqueAttempt`), the row lives one life (`Mode`) and carries the latest claim
(`RowLatest`); a scheduled row somebody tried to send is PENDING until acknowledged
(`TriedIsPending`), so the next claim must find its lease over; hence only the latest
claim can be within its lease (`FreshIsLatest`). An accepted attempt is acknowledged,
about to be, or unconfirmed (`Settled`), so a new claim finds every accepted attempt
unconfirmed (`Superseded`). TLC checked `IInv` on the bounds of `message_delivery`
before it was proved. *Refinement*: a claim is `Try`, where `Settled` and the guard of the
claim give that everything delivered is lost; an answer of the provider is `Deliver`,
by the latest attempt or by one that outlived its lease (`FreshIsLatest`); crashes, ends
of leases and failing acknowledgements are `Lose`; a stored acknowledgement is `Learn`,
which needs that who acknowledges was accepted (`Acked`); the rest stutters.

**Catalog generations.** `PublishedHasFile` rests on who may still touch a directory.
`Filed` says that a generation has a path from its publication on, the one of its
revision and on the disk unless it is `lost`, and is not active then. `Rendering`: the
worker holds a generation without a path, unless it did not hear of its own commit, so
what it removes is not on offer otherwise; and when it finalizes a row that is still
RENDERING the master is there, unless a sweep took it. `Extending`: an extension knows the
revision on offer, unless it did not hear of its commit, and only writes or removes the
next one. `Approving`: an approval writes a row that was published when it was read, and a
path is never lost. Two kinds of step break out of this frame, `WorkerFinalizes` and
`ExtSwitches`; all others write at most one row, of which they keep path, version and
revision (`Writes`, `WritesKeep`), make rows FAILED that have no path (`Creates`), or remove
directories and record it (`SweepRemoves`). `OneActive` is inductive by itself: only
`Creates` makes a row active, and its guards, the conflict check of the isolation level,
look at the active rows. The bound of the versions counts the generations with a path
(`Numbered`, `NextVersionType`). `ClosedStaysClosed` follows from `OnlyFinalizing`: no
step but the finalization writes AWAITING_APPROVAL, and it looks at the row again.

**Abandoned carts.** The advisory lock makes the check of a key and its insertion one
step for everybody who wants the same key: whoever is about to insert a key is alone
with it (`Alone`), so what its check found is still true (`Fresh`), and keys are
`Distinct`. The cap takes no such lock; what it saw is a prefix of the enrollments
(`CapLooked`), and keys of committed rows never change, so two uncapped enrollments of
one automation did not see each other. A handler knows every follow-up of the prefix it
saw (`Stopping`), and a row that stopped being active never becomes active again.
`OneRecoveryPerCart` follows from `Followed`, which ties rows, scans and marks together: a
cart that is followed up is not found again, because a scan is about to mark its session,
the session is marked, or it has another cart by now (`Covered`); what a scan has yet to
enroll is not followed up (`Unfollowed`). This needs one scan at a time (`OneScan`), as the
run has it: a second scan may hold a session the first has marked meanwhile. The code
starts a scan every 15 minutes (`MarketingScheduler.ts:73`) and relies
on the previous one being over; nothing else keeps two scans apart.

**Conversion delivery.** Outcomes are written by id, so `SentStays` is about who may
write. `IInv` says, of every row that was never written without regard to a claim, that
at most one request or pass works on it (`Alone`), that it is pending and fresh meanwhile
(`Fresh`), and that no reading another pass still holds would let it claim the row once
more (`Past`: the attempts of a reading are never ahead of the row, and behind it, or the
reading says FAILED, while somebody works on the row; `Unread`: nobody has read a row its
first sender still works on). A claim compares status and attempts, which is just enough:
`Claimable` fails on every reading that `Past` leaves. With `Shape` (where each kind of
actor can be, and whose row it works on there) a step that could take a row out of SENT
works on that row, which contradicts `Fresh`. `FailedRetryable` follows the receipt from
step to step of its ingestion, to a row, to a service that declined (where the request
stays `"declined"`), or to a recorded loss; rows never vanish (`RowsRemain`). `RepeatsExcused` counts
acceptances without counting up rows: unless a row was written without regard to a claim,
either every acceptance is excused, or one is not and then nobody is left who could send
(`Closed`): the receipt is taken, every row is SENT or about to be recorded so, and no
actor is on its way to the platform. The receipt makes this one row (`OneReceipt`),
`Exclusive` one actor; an acceptance starts from a state in which somebody may send, so
it finds all earlier ones excused.

The models write updates of several fields of one record of a function as
`[f EXCEPT ![p] = [@ EXCEPT !.a = ..., !.b = ...]]`, and never use `@` inside the inner
EXCEPT: with `[f EXCEPT ![p].a = ..., ![p].b = ...]` the SMT backend of the prover was
seen to assume that the result has the type of `f`, and it misreads a nested `@`. As a
guard against such effects each leaf step was also tried with `FALSE` as its goal;
none was provable but where the case at hand is an impossible one (in `OnlyFinalizing`,
`RowsStay` and `ClosedSteps`, and in proofs by contradiction).

Only model-checked is what the prover cannot express: liveness under fairness, and
ENABLED in it (`EventuallySynced`, `EventuallySettles`, `EventuallyUnscheduled`, `Converges`,
`EverythingEnds`, `UpdatingEnds`, `EventuallyEnrolled`, `EventuallySettled`). Every safety
property that a run checks is also a theorem, some under the assumption named above. The
type invariant of `MessageDelivery` is proved and no longer checked by a run.

---------------------------------------------------------------------------

## 6. Where the code and its documentation disagree

Shown by a run of the project:

1. **An extension that is asked for again can wait for ever** (`catalog_extensions`). The
   job is named after the generation and the revision to be made. After a failed
   extension the queue remembers that job for a day (100 completed ones), adding the
   next one under the same name does nothing, and the catalog stays UPDATING.

Met while modelling, and reproduced by TLC in variants of the modules above (more
actors or orders, the environment named here) that are not kept as runs:

2. **A reversal is not idempotent under overlap.** The comment at
   `BOMConsumptionService.ts:256` promises a no-op for reversed entries; the rows are read
   before the lock (`:266`). Two cancellations that read COMPLETED rows give the stock
   back twice. (`BOMConsumption` with two reversers.)
3. **A lock without TTL.** "Redis SETNX with TTL" (`BOMConsumptionService.ts:12`) is two
   commands (`:683`, `:685`); a crash in between leaves the key for good, and the order is
   skipped as busy.
4. **A stranded enrollment.** After a crash BullMQ reruns the job while the dead
   call's lock still lives; the rerun returns normally (`AutomationEngine.ts:174`), the job is
   kept as completed (`QueueFactory.ts:57`), and the ticker's adds (`:413`) under the
   same id are ignored until other jobs have pushed it out of the queue's memory.
5. **A lock that expires takes a wait back.** A worker whose lock outlived its TTL
   (`AutomationEngine.ts:170`) between `updateProgress` and `markWaiting`
   (`AutomationEnrollmentService.ts:165`) writes the time of its own node over the row,
   which the next worker has meanwhile brought to a later delay: that delay is cut short,
   and both calls go on from there. `DelayHonoured` and `RepeatsAreFaults` are stated up to
   the first such end of a lock (`expired`); `NothingSkipped` and `OverIsOver` hold even then.
6. **A cancelled enrollment goes on to COMPLETED.** The flow loop reads the status once;
   `completeEnrollment` writes by id (`AutomationEnrollmentService.ts:194`, `:259`).
7. **A delivered message is marked FAILED.** The test
   (`MessageScheduler.attachments.test.ts:279`) covers one pass; with a second pass after the
   lease, the row is claimed and refused (`MessageScheduler.ts:325`).
8. **The safety net of the order sync.** The sync of every two minutes is "a safety-net to
   catch anything webhooks miss" (`SyncScheduler.ts:165`). When a full or a first sync
   stores such an order before it, the order is never announced: a baseline is silent
   about orders that are new to the table (`OrderSync.ts:206`). The bulk route is silent in
   the same way about an order it did not find: `updateMany` stores the status in the row a
   webhook or a sync creates meanwhile, and without a previous status no event is emitted
   (`bulk.ts:105`, `:136`). `Announced` counts both in `unsaid`.
9. **The remainder of the cart scan.** "The next scheduler tick will process the
   remainder" (`MarketingScheduler.ts:135`); but the rows are taken in no order, and sessions
   of accounts without an automation are never marked, so a full batch of these is taken
   again and again. `EventuallyEnrolled` supposes that these (`Unserved`) do not fill a batch.
   A cart that changes at the checkout keeps the mark of the one before
   (`EventProcessor.ts:265`), unlike one that changes on a page (`:260`), and a scan marks the
   session of a cart that changed while it ran (`MarketingScheduler.ts:165`): such a cart is
   not followed up until a cart event resets the mark (`overwritten`).
10. **Conversions.** A claimed attempt that was accepted and then could not be recorded as
   SENT is recorded as FAILED instead (`ConversionRetryService.ts:188`), and sent again.
   Google's retry by hand sets rows to PENDING by id, without a claim and without
   touching `lastAttemptAt` (`GoogleEnhancedConversionsService.ts:485`): a pass finds them
   stale at once, and the attempts of the row start anew, so one conversion can be accepted
   several times. `failStrandedPending` can fail a row another pass is sending, when the
   configuration was switched off and on. A pending row older than a day matches no
   query and stays PENDING. The batch of 100 may be filled by failed rows of platforms
   without a configuration. A crash between receipt and row loses the conversion,
   although "a failed ingestion must remain retryable" (`EventProcessor.ts:121`): only
   failures the process survives give the receipt back. And `sendEvent` returns before a row
   exists when Google's quota cools down, tokens are missing or Meta lacks match data
   (`GoogleEnhancedConversionsService.ts:113`, `:125`, `MetaCAPIService.ts:98`), as does the
   forwarder when the configurations cannot be read (`ConversionForwarder.ts:292`): the
   receipt stays, a repetition is ignored, and no retry pass knows of it (`Declines`).
11. **A live order deleted by a full sync.** Orders met on a page are touched "so
   reconciliation doesn't delete them (they still exist in WooCommerce)" (`OrderSync.ts:92`).
   Pages are read by number; when an order on a page already read is trashed during the
   sync, the first order of the next page moves onto that page and is seen by no request.
   Its row counts as not touched and is deleted (`:332`), unless more than `Cap` are to go;
   an incremental sync moves its checkpoint past a change of such an order in the same way.
   (`order_pages` without the excuse `passing` in `DeletesOnlyGone`.) Runs and theorems state
   that this is the only way.
12. **A catalog on offer without its file.** A request that finds the lease of a rendering
   over awaits the removal of the directory before it updates the row, and outside what a
   rollback undoes (`generations.ts:30`, `:141`). A worker that is merely late finalizes in
   between, and the transaction of the request conflicts: the catalog awaits approval, and
   its PDF is gone. The same happens when a worker does not hear of the commit that
   publishes (or extends) the catalog and cleans up. Both are in `lost`.
13. **Writes by id.** Cancel and approve check the status they read and then write by id
   (`generations.ts`): an approval that overlaps with a cancellation approves a cancelled
   row, a cancellation of a queued row can fall on one that is rendered. `ClosedStaysClosed`
   is about workers for this reason, and the excuses of `EverythingEnds` include a failure
   during a cancellation (`abandoned`).
14. **CREATED more than once.** A webhook is recognized by its delivery id, "WooCommerce
   retries on timeout, each retry would emit ORDER.CREATED" (`webhook.ts:167`), if the header
   is there, for 3600 s, and while Redis answers. Otherwise it emits again; `excused` counts
   these. The replay of a stored delivery from the administration
   (`routes/admin/webhooks.ts:69`) passes no id and is one of them.
15. **Excused, and not shown to be harmless.** A cancellation whose restoration is committed
   and whose mark fails leaves rows COMPLETED that were given back
   (`BOMConsumptionService.ts:299`); two orders of one customer pass the frequency cap side by
   side (`AutomationEnrollmentService.ts:39`); a scan that dies before its marks enrolls a
   cart again once the first enrollment is over (`MarketingScheduler.ts:163`); an enrollment
   committed after the purchase was handled is not cancelled; a message whose provider is
   slower than the lease is sent twice (`MessageScheduler.ts:123`); a message that is deleted
   while a pass sends it reaches the customer (`scheduling.ts:109`); a worker past its read of
   the row executes one more node of an enrollment that was cancelled
   (`AutomationEngine.ts:186`).

Seen in the code of modelled components, outside the model: a validity job that stalls and
runs twice beside itself may delete a published file; retention removes files of catalogs
that have waited for approval for a week and can still be approved; the time after a
cooldown is computed from the row (`AutomationEngine.ts:718`), so it can repeat an earlier
one and with it a job id, where the model draws a fresh stamp.

---------------------------------------------------------------------------

## 7. What is not modelled, and the plan

Left out for good: user interface, plugin and print agent, rendering and layout,
reports and calls of external APIs, CRUD in a single transaction, authentication.
`PROJECT.json` gives a reason for each component. These are the bulk of the
repository: the protocols whose interleavings matter are in a few dozen of its files.

Components with a protocol of their own that are not modelled, and what is hard in them:

- catalog shares: an email whose outcome is not known, and the password it carries
  ("fail closed", plan :109); visitors of a share while it is rotated or revoked
- campaigns: an attempt restarts from the first recipient
- canonical invoices: the job id of an artifact is still held by the queue
- purchase orders and BOM inventory sync: absolute stock pushes in the background, in any
  order; product sync overwriting stock that was deducted meanwhile
- sync dispatch: job ids, depth limits and the circuit breaker
- the rest of the message scheduler: a direct message whose request died stays PENDING
- the ticker's batch of 100 enrollments without an order
- automation flow graph, quiet hours, schedules: pure functions

The set of runs and properties is kept to what one check can run and a reader can
follow: a new module takes the place of a run whose question is answered by a larger
one or by a proof.

Worth proving next, in this order:

1. `CatalogGenerations`: an abstract life cycle of one catalog (requested, offered, extended,
   closed) and the proof that generations implement it.
2. `AutomationEnrollment`: an abstract enrollment that walks the flow and the proof that
   workers, ticker and queue implement it while no lock expires under its holder.
3. `BOMConsumption` with overlapping cancellations: how far stock and ledger can be apart.
