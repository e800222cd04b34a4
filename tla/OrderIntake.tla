----------------------------- MODULE OrderIntake -----------------------------
(***************************************************************************)
(* How the orders of one WooCommerce shop reach the local table WooOrder   *)
(* and the event bus: webhooks (src/server/src/routes/webhook.ts), the     *)
(* order sync (services/sync/OrderSync.ts on services/sync/BaseSync.ts)    *)
(* and the bulk status route (routes/orders/bulk.ts).                      *)
(*                                                                         *)
(* Time is counted in ticks; Buffer is the five minutes a sync looks back. *)
(* A status is announced by ORDER.SYNCED and, when it is a change, by      *)
(* STATUS_CHANGED, PAID or COMPLETED.  Every order is recent (created less *)
(* than a day ago) and valid.                                              *)
(***************************************************************************)
EXTENDS Integers, FiniteSets

CONSTANTS
    Orders,      \* numbers of orders, a later order has a higher one
    Statuses,    \* statuses the local table keeps
    Hooks,       \* webhook requests that may overlap
    PageSize,    \* orders per page of the shop's listing (50 in the code)
    Cap,         \* deletions a full sync dares (10, or 30% of the table)
    Buffer,      \* look-back of an incremental sync (5 minutes in the code)
    MaxTime,     \* bound: the clock
    MaxChanges,  \* bound: changes of orders in the shop
    MaxFaults,   \* bound: failures
    Env          \* what happens, see EnvEvents

\* db: an upsert fails; abort: a request or a sync dies, or throws between two
\* writes; unkeyed: a delivery has no id, or an id of its own, or Redis is silent;
\* expiry: the key of a delivery ends (one hour); full: a full sync is requested;
\* bulk: the bulk route is used; trash: an order is trashed; draft: an order starts
\* as a draft of the checkout.
EnvEvents == {"db", "abort", "unkeyed", "expiry", "full", "bulk", "trash", "draft"}

ASSUME ConstantsAssumption ==
    /\ Orders \subseteq Nat /\ IsFiniteSet(Orders)
    /\ Statuses \cap {"none", "draft", "trash"} = {} /\ "pending" \in Statuses
    /\ Buffer \in Nat \ {0} /\ PageSize \in Nat \ {0} /\ Cap \in Nat
    /\ MaxTime \in Nat /\ MaxChanges \in Nat /\ MaxFaults \in Nat
    /\ Env \subseteq EnvEvents

VARIABLES
    now,
    shop,        \* the orders of the shop: status and date_modified
    row,         \* WooOrder: status, date_modified and updatedAt
    checkpoint,  \* SyncState.lastSyncedAt, 0: null
    seen,        \* orders of which Redis holds the key of the created delivery
    hook,        \* local state of the webhook requests
    sync,        \* local state of the order sync; jobs run one at a time
    bulk,        \* local state of the bulk request
    sent,        \* history: statuses announced, per order
    unsaid,      \* history: statuses whose announcer died or was to be silent
    created,     \* history: how often ORDER.CREATED was emitted, per order and source
    excused,     \* history: how often there was a cause to emit it once more
    passing,     \* history: orders that moved to a page the running sync had read
    passed,      \* history: the same of the syncs that ended, since the last full one
    changes, faults

vars == <<now, shop, row, checkpoint, seen, hook, sync, bulk, sent, unsaid, created,
          excused, passing, passed, changes, faults>>

Excluded  == {"draft", "trash"}                    \* isExcludedOrderStatus
NoOrder   == [status |-> "none", time |-> 0]
NoRow     == [status |-> "none", time |-> 0, at |-> 0]
NoHook    == [pc |-> "idle", order |-> 0, payload |-> NoOrder, since |-> 0]
NoSync    == [pc |-> "idle", start |-> 0, full |-> FALSE, page |-> 0, more |-> FALSE,
              snap |-> [o \in Orders |-> NoOrder], existing |-> [o \in Orders |-> "none"],
              todo |-> {}, say |-> {}, failed |-> FALSE, processed |-> FALSE]
NoBulk    == [pc |-> "idle", order |-> 0, prev |-> "none", new |-> "none", since |-> 0]

Fault(e)  == e \in Env /\ faults < MaxFaults /\ faults' = faults + 1
NoFault   == faults' = faults

Init ==
    /\ now = 1
    /\ shop = [o \in Orders |-> NoOrder]
    /\ row = [o \in Orders |-> NoRow]
    /\ checkpoint = 0 /\ seen = {}
    /\ hook = [h \in Hooks |-> NoHook] /\ sync = NoSync /\ bulk = NoBulk
    /\ sent = [o \in Orders |-> {}] /\ unsaid = [o \in Orders |-> {}]
    /\ created = [o \in Orders |-> [hook |-> 0, sync |-> 0]]
    /\ excused = [o \in Orders |-> [hook |-> 0, sync |-> 0]]
    /\ passing = {} /\ passed = {}
    /\ changes = 0 /\ faults = 0

counts  == <<created, excused>>
drift   == <<passing, passed>>
history == <<sent, unsaid, counts, drift>>
local   == <<row, checkpoint, seen, hook, sync, sent, unsaid, counts>>

-----------------------------------------------------------------------------
(* The shop, which is external, and the clock *)

\* A request handles its payload well within the look-back of the sync.
Tick ==
    /\ now < MaxTime
    /\ \A h \in Hooks : hook[h].pc = "received" => now + 1 - hook[h].since < Buffer
    /\ bulk.pc = "updated" => now + 1 - bulk.since < Buffer
    /\ now' = now + 1
    /\ UNCHANGED <<shop, local, bulk, drift, changes, faults>>

ShopSets(o, s) == shop' = [shop EXCEPT ![o] = [status |-> s, time |-> now]]

ShopCreates(o) ==
    /\ shop[o].status = "none"
    /\ \A q \in Orders : q < o => shop[q].status # "none"
    /\ \E s \in {"pending"} \cup ({"draft"} \cap Env) : ShopSets(o, s)
    /\ UNCHANGED <<now, local, bulk, drift, changes, faults>>

\* The listing of the shop, newest first, of what was modified after the date.
Listing(after)    == {o \in Orders : shop[o].status \notin {"none", "trash"} /\ shop[o].time > after}
Rank(o, L)        == Cardinality({q \in L : q >= o})
PageOf(n, L)      == {o \in L : (n - 1) * PageSize < Rank(o, L) /\ Rank(o, L) <= n * PageSize}

\* getLastSync.  Only the sync writes the checkpoint.
After == IF sync.full \/ checkpoint = 0 THEN 0 ELSE checkpoint - Buffer

\* Orders of pages to come that move up to a page already read when o leaves the
\* listing of the running sync.
PagesRead == IF sync.pc = "fetch" THEN sync.page - 1 ELSE sync.page
Slipping(o) ==
    LET L == Listing(After) IN
    {q \in L \ {o} : /\ sync.pc = "fetch" \/ sync.more
                     /\ Rank(q, L) > PagesRead * PageSize
                     /\ Rank(q, L \ {o}) <= PagesRead * PageSize}

ShopChanges(o) == \E s \in Statuses \cup ({"trash"} \cap Env) :
    /\ shop[o].status \notin {"none", "trash", s}
    /\ changes < MaxChanges /\ changes' = changes + 1
    /\ ShopSets(o, s)
    /\ passing' = IF s = "trash" THEN passing \cup Slipping(o) ELSE passing
    /\ UNCHANGED <<now, local, bulk, passed, faults>>

-----------------------------------------------------------------------------
(* processWebhookPayload *)

Store(o, s)     == row' = [row EXCEPT ![o] = [status |-> s.status, time |-> s.time, at |-> now]]
Says(o, s)      == sent' = [sent EXCEPT ![o] = @ \cup {s}]

\* The shop builds the payload when it delivers.  It may deliver at any time, the
\* same news more than once, or never.
HookReceives(h, o) ==
    /\ hook[h].pc = "idle" /\ shop[o].status # "none"
    /\ hook' = [hook EXCEPT ![h] = [pc |-> "received", order |-> o, payload |-> shop[o], since |-> now]]
    /\ UNCHANGED <<now, shop, row, checkpoint, seen, sync, bulk, history, changes, faults>>

\* Mutant: excluded statuses are stored like the others.
HookStoresAny(h) ==
    LET c == hook[h] IN
    /\ c.pc = "received"
    /\ hook' = [hook EXCEPT ![h] = [c EXCEPT !.pc = "stored", !.since = 0, !.payload.time = 0]]
    /\ NoFault /\ Store(c.order, c.payload)
    /\ UNCHANGED <<now, shop, checkpoint, seen, sync, bulk, history, changes>>

\* An order with an excluded status is ignored.  A failing upsert is logged, and
\* the request goes on.
HookStores(h) ==
    LET c == hook[h] IN
    /\ c.pc = "received"
    /\ IF c.payload.status \in Excluded
       THEN NoFault /\ row' = row /\ hook' = [hook EXCEPT ![h] = NoHook]
       ELSE /\ hook' = [hook EXCEPT ![h] = [c EXCEPT !.pc = "stored", !.since = 0, !.payload.time = 0]]
            /\ \/ NoFault /\ Store(c.order, c.payload)
               \/ Fault("db") /\ row' = row
    /\ UNCHANGED <<now, shop, checkpoint, seen, sync, bulk, history, changes>>

\* CREATED unless Redis knows the delivery, or cannot be asked; the status is
\* announced in any case: its changes by the status that was read before the upsert,
\* SYNCED always.
EmitsUpdated == NoFault /\ UNCHANGED <<seen, created, excused>>
EmitsCreated(o) ==
    /\ NoFault /\ seen' = seen \cup {o}
    /\ created' = IF o \in seen THEN created ELSE [created EXCEPT ![o].hook = @ + 1]
    /\ excused' = excused
EmitsUnkeyed(o) ==
    /\ Fault("unkeyed") /\ seen' = seen
    /\ created' = [created EXCEPT ![o].hook = @ + 1]
    /\ excused' = [excused EXCEPT ![o].hook = @ + 1]

HookEmits(h) ==
    LET c == hook[h] IN
    /\ c.pc = "stored"
    /\ hook' = [hook EXCEPT ![h] = NoHook]
    /\ EmitsUpdated \/ EmitsCreated(c.order) \/ EmitsUnkeyed(c.order)
    /\ Says(c.order, c.payload.status)
    /\ UNCHANGED <<now, shop, row, checkpoint, sync, bulk, unsaid, drift, changes>>

KeyExpires(o) ==
    /\ o \in seen
    /\ Fault("expiry")
    /\ seen' = seen \ {o}
    /\ excused' = [excused EXCEPT ![o].hook = @ + 1]
    /\ UNCHANGED <<now, shop, row, checkpoint, hook, sync, bulk, sent, unsaid, created, drift, changes>>

\* What a request has stored and has still to announce.
HookOwes(h) == IF hook[h].pc = "stored" THEN {hook[h].payload.status} ELSE {}

\* The process dies, or a query throws.
HookAborts(h) ==
    LET o == hook[h].order IN
    /\ hook[h].pc # "idle"
    /\ Fault("abort")
    /\ unsaid' = [unsaid EXCEPT ![o] = @ \cup HookOwes(h)]
    /\ hook' = [hook EXCEPT ![h] = NoHook]
    /\ UNCHANGED <<now, shop, row, checkpoint, seen, sync, bulk, sent, counts, drift, changes>>

-----------------------------------------------------------------------------
(* OrderSync.sync within BaseSync.perform *)

\* A sync without a date to start from announces nothing that is new to the table.
Baseline == sync.full \/ checkpoint = 0

SyncStarts == \E full \in BOOLEAN :
    /\ sync.pc = "idle"
    /\ full => "full" \in Env
    /\ sync' = [NoSync EXCEPT !.pc = "fetch", !.start = now, !.full = full, !.page = 1]
    /\ passing' = {}
    /\ UNCHANGED <<now, shop, row, checkpoint, seen, hook, bulk, sent, unsaid, counts, passed, changes, faults>>

SyncFetches ==
    LET L == Listing(After)
        P == PageOf(sync.page, L) IN
    /\ sync.pc = "fetch"
    /\ sync' = [sync EXCEPT
           !.pc = IF P = {} THEN "end" ELSE "read",
           !.snap = [o \in Orders |-> IF o \in P THEN shop[o] ELSE NoOrder],
           !.more = sync.page * PageSize < Cardinality(L)]
    /\ UNCHANGED <<now, shop, row, checkpoint, seen, hook, bulk, history, changes, faults>>

\* Rows of excluded orders are touched; the other statuses are read together.
SyncReads ==
    LET P == {o \in Orders : sync.snap[o].status # "none"}
        kept == {o \in P : sync.snap[o].status \notin Excluded} IN
    /\ sync.pc = "read"
    /\ row' = [o \in Orders |-> IF o \in P \ kept /\ row[o].status # "none"
                                THEN [row[o] EXCEPT !.at = now] ELSE row[o]]
    /\ sync' = [sync EXCEPT !.pc = "store", !.todo = kept,
                            !.existing = [o \in Orders |-> IF o \in kept THEN row[o].status ELSE "none"]]
    /\ UNCHANGED <<now, shop, checkpoint, seen, hook, bulk, history, changes, faults>>

\* Mutant: an order whose upsert failed is announced like the others.
SyncStoresUnfiltered(o) ==
    /\ sync.pc = "store" /\ o \in sync.todo
    /\ \/ /\ NoFault /\ Store(o, sync.snap[o])
          /\ sync' = [sync EXCEPT !.todo = @ \ {o}, !.say = @ \cup {o}, !.processed = TRUE]
       \/ /\ Fault("db")
          /\ row' = row
          /\ sync' = [sync EXCEPT !.todo = @ \ {o}, !.say = @ \cup {o}, !.failed = TRUE]
    /\ UNCHANGED <<now, shop, checkpoint, seen, hook, bulk, history, changes>>

\* Mutant: a failed upsert does not fail the run.
SyncStoresForgiving(o) ==
    /\ sync.pc = "store" /\ o \in sync.todo
    /\ \/ /\ NoFault /\ Store(o, sync.snap[o])
          /\ sync' = [sync EXCEPT !.todo = @ \ {o}, !.say = @ \cup {o}, !.processed = TRUE]
       \/ /\ Fault("db")
          /\ row' = row
          /\ sync' = [sync EXCEPT !.todo = @ \ {o}]
    /\ UNCHANGED <<now, shop, checkpoint, seen, hook, bulk, history, changes>>

\* The upserts of a page run concurrently.  One that fails keeps its row from
\* the reconciliation, and the run from its checkpoint.
SyncStores(o) ==
    /\ sync.pc = "store" /\ o \in sync.todo
    /\ \/ /\ NoFault /\ Store(o, sync.snap[o])
          /\ sync' = [sync EXCEPT !.todo = @ \ {o}, !.say = @ \cup {o}, !.processed = TRUE]
       \/ /\ Fault("db")
          /\ row' = IF row[o].status = "none" THEN row ELSE [row EXCEPT ![o].at = now]
          /\ sync' = [sync EXCEPT !.todo = @ \ {o}, !.failed = TRUE]
    /\ UNCHANGED <<now, shop, checkpoint, seen, hook, bulk, history, changes>>

\* What the sync has stored and has still to announce, or to pass over.
IsNew(o)    == sync.existing[o] = "none"
Changed(o)  == sync.existing[o] # sync.snap[o].status
SyncOwes(o) == IF o \in sync.say /\ Changed(o) THEN {sync.snap[o].status} ELSE {}

\* Mutant: only orders new to the table are announced.
AnnouncingNew(o) == IsNew(o) /\ ~Baseline

Announcing(o) == Changed(o) /\ ~(IsNew(o) /\ Baseline)

SyncEmits(o) ==
    /\ sync.pc = "store" /\ sync.todo = {} /\ o \in sync.say
    /\ created' = IF IsNew(o) /\ ~Baseline THEN [created EXCEPT ![o].sync = @ + 1] ELSE created
    /\ IF Announcing(o) THEN Says(o, sync.snap[o].status) ELSE sent' = sent
    /\ unsaid' = IF IsNew(o) /\ Baseline
                 THEN [unsaid EXCEPT ![o] = @ \cup SyncOwes(o)] ELSE unsaid
    /\ sync' = [sync EXCEPT !.say = @ \ {o}]
    /\ UNCHANGED <<now, shop, row, checkpoint, seen, hook, bulk, excused, drift, changes, faults>>

PageDone == sync.pc = "store" /\ sync.todo = {} /\ sync.say = {}

SyncTurnsPage ==
    /\ PageDone /\ sync.more
    /\ sync' = [sync EXCEPT !.pc = "fetch", !.page = @ + 1,
                   !.snap = NoSync.snap, !.existing = NoSync.existing]
    /\ UNCHANGED <<now, shop, row, checkpoint, seen, hook, bulk, history, changes, faults>>

\* Rows a full sync did not touch.
Untouched == {o \in Orders : row[o].status # "none" /\ row[o].at < sync.start}

\* Mutant: the checkpoint is the end of the run.
NewCheckpointAtEnd == now

NewCheckpoint == sync.start

\* What this sync leaves unseen; a full one makes up for those before it.
Missed == passing \cup (IF sync.full THEN {} ELSE passed)

\* A failed upsert fails the run.  A full sync that saw an order deletes the
\* rows it did not touch, unless there are too many.
SyncEnds ==
    LET gone == IF sync.full /\ sync.processed /\ Cardinality(Untouched) <= Cap
                THEN Untouched ELSE {} IN
    /\ sync.pc = "end" \/ (PageDone /\ ~sync.more)
    /\ IF sync.failed THEN UNCHANGED <<row, checkpoint, excused, passed>>
       ELSE /\ row' = [o \in Orders |-> IF o \in gone THEN NoRow ELSE row[o]]
            /\ checkpoint' = NewCheckpoint
            /\ excused' = [o \in Orders |-> IF o \in gone /\ shop[o].status # "trash"
                           THEN [excused[o] EXCEPT !.sync = @ + 1] ELSE excused[o]]
            /\ passed' = Missed
    /\ sync' = NoSync
    /\ UNCHANGED <<now, shop, seen, hook, bulk, sent, unsaid, created, passing, changes, faults>>

\* The worker dies, the job is cancelled, or a query throws after the upserts.
SyncAborts ==
    /\ sync.pc # "idle"
    /\ Fault("abort")
    /\ unsaid' = [o \in Orders |-> unsaid[o] \cup SyncOwes(o)]
    /\ sync' = NoSync
    /\ UNCHANGED <<now, shop, row, checkpoint, seen, hook, bulk, sent, counts, drift, changes>>

-----------------------------------------------------------------------------
(* PUT /bulk-status *)

\* The order need not be in the table yet: then there is no status to compare with.
BulkReads(o) == \E s \in Statuses :
    /\ "bulk" \in Env
    /\ bulk.pc = "idle"
    /\ changes < MaxChanges /\ changes' = changes + 1
    /\ bulk' = [pc |-> "read", order |-> o, prev |-> row[o].status, new |-> s, since |-> 0]
    /\ UNCHANGED <<now, shop, local, drift, faults>>

\* The shop applies the update, or refuses it.
BulkUpdatesShop ==
    /\ bulk.pc = "read"
    /\ \/ /\ shop[bulk.order].status \notin {"none", "trash"}
          /\ ShopSets(bulk.order, bulk.new)
          /\ bulk' = [bulk EXCEPT !.pc = "updated", !.since = now]
       \/ shop' = shop /\ bulk' = NoBulk
    /\ UNCHANGED <<now, local, drift, changes, faults>>

\* updateMany, of the status only.  A failure makes the route send the update again,
\* or give up and leave the row to the webhook.
BulkStores ==
    LET o == bulk.order IN
    /\ bulk.pc = "updated"
    /\ \/ /\ NoFault /\ bulk' = [bulk EXCEPT !.pc = "stored"]
          /\ row' = IF row[o].status = "none" THEN row
                    ELSE [row EXCEPT ![o] = [row[o] EXCEPT !.status = bulk.new, !.at = now]]
       \/ /\ Fault("db") /\ row' = row
          /\ bulk' \in {NoBulk, [bulk EXCEPT !.pc = "read", !.since = 0]}
    /\ UNCHANGED <<now, shop, checkpoint, seen, hook, sync, history, changes>>

\* An update that found no row announces nothing, even if it stored its status in
\* one that came meanwhile.
BulkSilent == IF bulk.pc = "stored" /\ bulk.prev = "none" THEN {bulk.new} ELSE {}
BulkOwes   == IF bulk.pc = "stored" /\ bulk.prev \notin {"none", bulk.new} THEN {bulk.new} ELSE {}

BulkEmits ==
    /\ bulk.pc = "stored"
    /\ sent' = [sent EXCEPT ![bulk.order] = @ \cup BulkOwes]
    /\ unsaid' = [unsaid EXCEPT ![bulk.order] = @ \cup BulkSilent]
    /\ bulk' = NoBulk
    /\ UNCHANGED <<now, shop, row, checkpoint, seen, hook, sync, counts, drift, changes, faults>>

BulkAborts ==
    /\ bulk.pc # "idle"
    /\ Fault("abort")
    /\ unsaid' = [unsaid EXCEPT ![bulk.order] = @ \cup BulkOwes \cup BulkSilent]
    /\ bulk' = NoBulk
    /\ UNCHANGED <<now, shop, row, checkpoint, seen, hook, sync, sent, counts, drift, changes>>

-----------------------------------------------------------------------------
HookSteps(h) == HookStores(h) \/ HookEmits(h)

SyncSteps ==
    \/ SyncStarts \/ SyncFetches \/ SyncReads
    \/ \E o \in Orders : SyncStores(o) \/ SyncEmits(o)
    \/ SyncTurnsPage \/ SyncEnds

BulkSteps == BulkUpdatesShop \/ BulkStores \/ BulkEmits

Next ==
    \/ Tick
    \/ \E o \in Orders : ShopCreates(o) \/ ShopChanges(o) \/ BulkReads(o) \/ KeyExpires(o)
    \/ \E h \in Hooks : HookSteps(h) \/ HookAborts(h) \/ \E o \in Orders : HookReceives(h, o)
    \/ SyncSteps \/ SyncAborts
    \/ BulkSteps \/ BulkAborts

\* The fast order sync comes every two minutes, and requests that arrive are handled.
Fairness == WF_vars(SyncSteps) /\ WF_vars(BulkSteps) /\ \A h \in Hooks : WF_vars(HookSteps(h))

Spec     == Init /\ [][Next]_vars
LiveSpec == Spec /\ Fairness

-----------------------------------------------------------------------------
(* Properties *)

TypeOK ==
    /\ now \in Nat /\ checkpoint \in 0..now
    /\ \A o \in Orders : row[o].status \in Statuses \cup {"none"} /\ {row[o].time, row[o].at} \subseteq 0..now
    /\ seen \subseteq Orders /\ passing \subseteq Orders /\ passed \subseteq Orders
    /\ sync.pc \in {"idle", "fetch", "read", "store", "end"} /\ sync.start \in 0..now
    /\ \A h \in Hooks : hook[h].pc \in {"idle", "received", "stored"}
    /\ bulk.pc \in {"idle", "read", "updated", "stored"}

\* Orders of the shop that belong in the table, and those whose row is stale.
Kept(o)   == shop[o].status \notin {"none"} \cup Excluded
Behind(o) == Kept(o) /\ [status |-> row[o].status, time |-> row[o].time] # shop[o]

\* What those who have stored it will announce, or pass over.
OwedByHooks(o) == UNION {HookOwes(h) : h \in {g \in Hooks : hook[g].order = o}}
Owed(o) == OwedByHooks(o) \cup SyncOwes(o) \cup (IF bulk.order = o THEN BulkOwes \cup BulkSilent ELSE {})

\* Whatever status webhooks, sync and bulk route leave in the table, it was announced,
\* will be, or is one that died with its announcer, that a baseline sync passed over,
\* or that a bulk update stored which had found no row.
Announced == \A o \in Orders : row[o].status # "none" =>
    row[o].status \in sent[o] \cup unsaid[o] \cup Owed(o)

\* An order is new once for the webhooks and once for the syncs, however many
\* deliveries are repeated and runs fail: CREATED is emitted again only for a delivery
\* that could not be recognized, and for a row that a full sync deleted (SyncEnds)
\* although its order lives.
CreatedOncePerSource == \A o \in Orders :
    /\ created[o].hook <= 1 + excused[o].hook
    /\ created[o].sync <= 1 + excused[o].sync

\* A row that is behind the shop changed recently enough for the next sync to see it,
\* although requests, syncs and the bulk route write rows in any order; or a sync
\* missed it because an order was trashed between two of its pages.
CheckpointSafe == \A o \in Orders :
    Behind(o) => shop[o].time > checkpoint - Buffer \/ o \in passed

\* The reconciliation of a full sync deletes rows of trashed orders, and of an order
\* that lives only if it moved to a page already read when another one was trashed.
DeletesOnlyGone == [][\A o \in Orders :
    row[o].status # "none" /\ row'[o].status = "none" => shop[o].status = "trash" \/ o \in passing]_vars

\* When the shop rests, the table becomes what the shop is, but for orders that every
\* sync since missed in that way.
Converges == <>[](\A o \in Orders : Behind(o) => o \in passed)
=============================================================================
