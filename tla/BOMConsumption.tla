--------------------------- MODULE BOMConsumption ---------------------------
(***************************************************************************)
(* Deduction of bill-of-material components when an order is paid, and     *)
(* their restoration when it is cancelled                                  *)
(* (src/server/src/services/BOMConsumptionService.ts).                     *)
(*                                                                         *)
(* Actors are the asynchronous calls running in the server process:        *)
(*   Consumers   consumeOrderComponents    (order became processing/...)   *)
(*   Reversers   reverseOrderConsumption   (order cancelled/refunded/...)  *)
(*   Recoverers  recoverStalledDeductions  (maintenance job)               *)
(* Every await of the code is a point where another actor may run, so one  *)
(* action models the code between two awaits.                              *)
(*                                                                         *)
(* Shared state: the ledger and stock columns in PostgreSQL, the dedup key,*)
(* the pending key and the locks in Redis, the session-level advisory      *)
(* locks of the connection pool, the stock shown by WooCommerce.           *)
(*                                                                         *)
(* The stock column of component c is InitialStock(c) minus the sum over o *)
(* of net[c][o]: the deductions and restorations made for each order are   *)
(* kept apart, which is exact because every write made here is a relative  *)
(* increment.  A push to WooCommerce writes the value of the whole column, *)
(* hence a vector net[c] read earlier.                                     *)
(***************************************************************************)
EXTENDS Integers, FiniteSets

CONSTANTS
    Orders,        \* order ids
    Comps,         \* BOM leaf components
    InternalComps, \* those stored as InternalProduct: never pushed to Woo
    Qty,           \* Qty[o][c]: aggregated quantity order o takes from c
    Consumers, Reversers, Recoverers,
    Conns,         \* connections of the PostgreSQL pool
    MaxGen,        \* bound: executions of one order
    MaxPg,         \* bound: stacked advisory locks of one connection
    MaxCrashes,    \* bound: crashes of the server process
    MaxDebt,       \* bound: quantity of a component given back too much
    Env            \* what the environment does, see EnvEvents

Actors == Consumers \cup Reversers \cup Recoverers

\* crash: the process dies; expiry: Redis TTLs elapse; redis, db: a call to
\* Redis or PostgreSQL throws; overlap: two actors work on the same order.
EnvEvents == {"crash", "expiry", "redis", "db", "overlap"}

ASSUME ConstantsAssumption ==
    /\ InternalComps \subseteq Comps
    /\ Qty \in [Orders -> [Comps -> Nat]]
    /\ Consumers \cap Reversers = {}
    /\ Consumers \cap Recoverers = {}
    /\ Reversers \cap Recoverers = {}
    /\ MaxGen \in Nat /\ MaxPg \in Nat /\ MaxCrashes \in Nat /\ MaxDebt \in Nat
    /\ Env \subseteq EnvEvents

VARIABLES
    ledger,       \* status of each BOMDeductionLedger row
    gen,          \* gen[o]: how many times order o was executed
    net,          \* net[c][o]: quantity of c currently taken by o (local DB)
    woo,          \* woo[c]: the net[c] last written to WooCommerce
    consumedKey,  \* orders whose bom:consumed key exists
    pending,      \* orders whose bom_pending key exists
    lock,         \* Redis order locks, one per kind and order
    pgLock,       \* pgLock[o][k]: stacked advisory locks of connection k
    job,          \* local state of each actor
    crashes,
    pushed        \* history: rows whose deduction WooCommerce has been sent

vars == <<ledger, gen, net, woo, consumedKey, pending, lock, pgLock, job,
          crashes, pushed>>
redis == <<consumedKey, pending, lock>>
shop  == <<woo, pushed>>

-----------------------------------------------------------------------------
(* Rows, plans and local state *)

Rows   == Orders \X (1..MaxGen) \X Comps
NoRow  == <<>>
NoOrder == "none"
Status == {"NONE", "EXECUTED", "COMPLETED", "REVERSED"}

\* Mutant: the ledger query overlooks rows not synchronized yet.
LiveCompleted == {"COMPLETED"}

\* A row of these means the order was applied.
Live == {"EXECUTED", "COMPLETED"}

Plan(o)        == {c \in Comps : Qty[o][c] > 0}
RowsIn(o, S)   == {r \in Rows : r[1] = o /\ ledger[r] \in S}
Promote(o, from, to) ==
    [r \in Rows |-> IF r[1] = o /\ ledger[r] = from THEN to ELSE ledger[r]]

Zero == [o \in Orders |-> 0]
Idle == [at |-> "idle", order |-> NoOrder, rows |-> {}, row |-> NoRow,
         stock |-> Zero, held |-> "none"]

Kind(p) == IF p \in Reversers THEN "reversal" ELSE "order"

At(p, l)   == job[p].at = l
Goto(p, l) == job' = [job EXCEPT ![p].at = l]
Finish(p)  == job' = [job EXCEPT ![p] = Idle]

\* An event for order o can start: bounds which orders are busy together.
MayStart(o) == "overlap" \in Env \/ \A q \in Actors : job[q].order # o

Init ==
    /\ ledger = [r \in Rows |-> "NONE"]
    /\ gen = [o \in Orders |-> 0]
    /\ net = [c \in Comps |-> Zero]
    /\ woo = [c \in Comps |-> Zero]
    /\ consumedKey = {} /\ pending = {}
    /\ lock = [k \in {"order", "reversal"} |-> [o \in Orders |-> "free"]]
    /\ pgLock = [o \in Orders |-> [k \in Conns |-> 0]]
    /\ job = [p \in Actors |-> Idle]
    /\ crashes = 0
    /\ pushed = {}

-----------------------------------------------------------------------------
(* acquireLock / releaseLock *)

\* SETNX succeeded.  The TTL is set by a second command.
SetNx(p) ==
    LET o == job[p].order IN
    /\ At(p, "lock")
    /\ lock[Kind(p)][o] = "free"
    /\ lock' = [lock EXCEPT ![Kind(p)][o] = "noTTL"]
    /\ Goto(p, "expire")
    /\ UNCHANGED <<ledger, gen, net, shop, consumedKey, pending, pgLock, crashes>>

\* SETNX found the key: another worker has the order, skip.
LockBusy(p) ==
    /\ At(p, "lock")
    /\ lock[Kind(p)][job[p].order] # "free"
    /\ Finish(p)
    /\ UNCHANGED <<ledger, gen, net, shop, redis, pgLock, crashes>>

\* EXPIRE on the lock key: no effect when the key is already gone.
Enter(p) == IF p \in Reversers THEN "restore" ELSE "plan"
ExpireLock(p) ==
    LET o == job[p].order IN
    /\ At(p, "expire")
    /\ lock' = [lock EXCEPT ![Kind(p)][o] = IF @ = "free" THEN @ ELSE "TTL"]
    /\ job' = [job EXCEPT ![p] = [@ EXCEPT !.at = Enter(p), !.held = "redis"]]
    /\ UNCHANGED <<ledger, gen, net, shop, consumedKey, pending, pgLock, crashes>>

\* Redis throws on SETNX or EXPIRE, with or without having applied it: fall
\* back to the advisory lock.  A key set by SETNX is left behind.
RedisLockThrows(p) ==
    LET o == job[p].order
        l == lock[Kind(p)][o] IN
    /\ "redis" \in Env
    /\ \/ At(p, "lock") /\ \E v \in {l, IF l = "free" THEN "noTTL" ELSE l} :
              lock' = [lock EXCEPT ![Kind(p)][o] = v]
       \/ At(p, "expire") /\ \E v \in {l, IF l = "free" THEN l ELSE "TTL"} :
              lock' = [lock EXCEPT ![Kind(p)][o] = v]
    /\ Goto(p, "pglock")
    /\ UNCHANGED <<ledger, gen, net, shop, consumedKey, pending, pgLock, crashes>>

\* pg_try_advisory_lock on some pooled connection: granted unless another
\* session holds it (a session may stack it), the same id for both kinds.
PgLock(p) ==
    LET o == job[p].order IN
    /\ At(p, "pglock")
    /\ \E k \in Conns :
         /\ \A k2 \in Conns \ {k} : pgLock[o][k2] = 0
         /\ pgLock[o][k] < MaxPg
         /\ pgLock' = [pgLock EXCEPT ![o][k] = @ + 1]
    /\ job' = [job EXCEPT ![p] = [@ EXCEPT !.at = Enter(p), !.held = "pg"]]
    /\ UNCHANGED <<ledger, gen, net, shop, redis, crashes>>

\* The advisory lock is held by another session, or the query throws.
PgLockBusy(p) ==
    /\ At(p, "pglock")
    /\ \/ "db" \in Env
       \/ \E k2 \in Conns : \/ pgLock[job[p].order][k2] >= MaxPg
                            \/ pgLock[job[p].order][k2] > 0 /\ Conns # {k2}
    /\ Finish(p)
    /\ UNCHANGED <<ledger, gen, net, shop, redis, pgLock, crashes>>

\* Mutant: an unlock that always counts down.
ReleaseBlindly(p) ==
    LET o == job[p].order IN
    /\ At(p, "release")
    /\ \/ /\ job[p].held = "redis"
          /\ lock' = [lock EXCEPT ![Kind(p)][o] = "free"] /\ UNCHANGED pgLock
       \/ /\ job[p].held = "pg"
          /\ \E k \in Conns : pgLock' = [pgLock EXCEPT ![o][k] = @ - 1]
          /\ UNCHANGED lock
    /\ Finish(p)
    /\ UNCHANGED <<ledger, gen, net, shop, consumedKey, pending, crashes>>

\* DEL carries no owner token; pg_advisory_unlock may run on any connection of the
\* pool.  Errors of either are swallowed.
Unlocks(p) ==
    LET o == job[p].order IN
    \/ /\ job[p].held = "redis"
       /\ lock' = [lock EXCEPT ![Kind(p)][o] = "free"]
       /\ UNCHANGED pgLock
    \/ /\ job[p].held = "pg"
       /\ \E k \in Conns :
            pgLock' = [pgLock EXCEPT ![o][k] = IF @ > 0 THEN @ - 1 ELSE @]
       /\ UNCHANGED lock
    \/ /\ \/ job[p].held = "redis" /\ "redis" \in Env
          \/ job[p].held = "pg" /\ "db" \in Env
       /\ UNCHANGED <<lock, pgLock>>

\* The finally block.
Release(p) ==
    /\ At(p, "release")
    /\ Unlocks(p) /\ Finish(p)
    /\ UNCHANGED <<ledger, gen, net, shop, consumedKey, pending, crashes>>

-----------------------------------------------------------------------------
(* consumeOrderComponents *)

\* Layer 1: the Redis dedup key.  (When it exists the call ends: no step.)
ConsumeStart(p, o) ==
    /\ p \in Consumers /\ At(p, "idle") /\ MayStart(o)
    /\ o \notin consumedKey
    /\ job' = [job EXCEPT ![p] = [@ EXCEPT !.at = "dedup", !.order = o]]
    /\ UNCHANGED <<ledger, gen, net, shop, redis, pgLock, crashes>>

\* Layer 2: the ledger.  A live row means the order was applied: only resume
\* the synchronization, then set the key again.
CheckLedger(p) ==
    /\ At(p, "dedup")
    /\ Goto(p, IF RowsIn(job[p].order, Live) # {} THEN "sync" ELSE "lock")
    /\ UNCHANGED <<ledger, gen, net, shop, redis, pgLock, crashes>>

\* Phase 1: no line items, or none with a BOM, in which case the lock is released
\* here and once more in the finally block.
PlanEmpty(p) ==
    /\ At(p, "plan") /\ Plan(job[p].order) = {}
    /\ Unlocks(p) \/ UNCHANGED <<lock, pgLock>>
    /\ Goto(p, "release")
    /\ UNCHANGED <<ledger, gen, net, shop, consumedKey, pending, crashes>>

\* Phases 1 and 2: plan, then flag the order as pending.
Track(p) ==
    /\ At(p, "plan") /\ Plan(job[p].order) # {}
    /\ pending' = pending \cup {job[p].order}
    /\ Goto(p, "execute")
    /\ UNCHANGED <<ledger, gen, net, shop, consumedKey, lock, pgLock, crashes>>

\* The rows and decrements of one transaction, serialized per order by
\* pg_advisory_xact_lock.
Deduct(o) ==
    /\ gen[o] < MaxGen
    /\ gen' = [gen EXCEPT ![o] = @ + 1]
    /\ ledger' = [r \in Rows |->
                    IF r[1] = o /\ r[2] = gen[o] + 1 /\ r[3] \in Plan(o)
                    THEN "EXECUTED" ELSE ledger[r]]
    /\ net' = [c \in Comps |-> [net[c] EXCEPT ![o] = @ + Qty[o][c]]]

\* Mutant: the transaction trusts the checks made before the lock.
ExecuteUnchecked(p) ==
    /\ At(p, "execute")
    /\ Deduct(job[p].order)
    /\ Goto(p, "sync")
    /\ UNCHANGED <<shop, redis, pgLock, crashes>>

\* Phase 3: nothing is applied when the order already has a live row.
Execute(p) ==
    LET o == job[p].order IN
    /\ At(p, "execute")
    /\ IF RowsIn(o, Live) = {}
       THEN Deduct(o)
       ELSE UNCHANGED <<ledger, gen, net>>
    /\ Goto(p, "sync")
    /\ UNCHANGED <<shop, redis, pgLock, crashes>>

\* Phase 5: SETEX bom:consumed.  The resuming path ends here.
SetConsumed(p) ==
    /\ At(p, "setkey")
    /\ consumedKey' = consumedKey \cup {job[p].order}
    /\ IF job[p].held = "none" THEN Finish(p) ELSE Goto(p, "clear")
    /\ UNCHANGED <<ledger, gen, net, shop, pending, lock, pgLock, crashes>>

\* Phase 5: clearPendingDeduction.
ClearPending(p) ==
    /\ p \in Consumers /\ At(p, "clear")
    /\ pending' = pending \ {job[p].order}
    /\ Goto(p, "close")
    /\ UNCHANGED <<ledger, gen, net, shop, consumedKey, lock, pgLock, crashes>>

\* Phase 5: every EXECUTED row of the order becomes COMPLETED.
CloseLedger(p) ==
    /\ At(p, "close")
    /\ ledger' = Promote(job[p].order, "EXECUTED", "COMPLETED")
    /\ Goto(p, "release")
    /\ UNCHANGED <<gen, net, shop, redis, pgLock, crashes>>

-----------------------------------------------------------------------------
(* syncExecutedLedgerEntries, run by consumers and by the recovery job *)

SyncSnapshot(p) ==
    /\ At(p, "sync")
    /\ job' = [job EXCEPT ![p] = [@ EXCEPT
               !.at = "next",
               !.rows = RowsIn(job[p].order, {"EXECUTED"})]]
    /\ UNCHANGED <<ledger, gen, net, shop, redis, pgLock, crashes>>

\* Take a row of the snapshot; read the current stock unless it is internal.
SyncRead(p, r) ==
    /\ At(p, "next") /\ r \in job[p].rows
    /\ job' = [job EXCEPT ![p] = [@ EXCEPT
               !.row = r,
               !.at = IF r[3] \in InternalComps THEN "mark" ELSE "push",
               !.stock = IF r[3] \in InternalComps THEN Zero ELSE net[r[3]]]]
    /\ UNCHANGED <<ledger, gen, net, shop, redis, pgLock, crashes>>

\* One attempt at the absolute write of the stock read before.  It may reach
\* WooCommerce without being answered; withRetry then tries again.
Attempt(p) ==
    LET r == job[p].row IN
    /\ woo' = [woo EXCEPT ![r[3]] = job[p].stock]
    /\ pushed' = IF p \in Reversers THEN pushed ELSE pushed \cup {r}
PushUnanswered(p) ==
    /\ At(p, "push")
    /\ Attempt(p)
    /\ UNCHANGED <<ledger, gen, net, redis, pgLock, job, crashes>>

\* Mutant: a failed push is only logged.
PushSwallowed(p) ==
    /\ At(p, "push") /\ p \notin Reversers
    /\ Attempt(p) \/ UNCHANGED shop
    /\ Goto(p, "mark")
    /\ UNCHANGED <<ledger, gen, net, redis, pgLock, crashes>>

PushAnswered(p) ==
    /\ At(p, "push") /\ p \notin Reversers
    /\ Attempt(p)
    /\ Goto(p, "mark")
    /\ UNCHANGED <<ledger, gen, net, redis, pgLock, crashes>>

\* update by id: the status the row has by now is not looked at.
SyncMark(p) ==
    LET r == job[p].row IN
    /\ At(p, "mark")
    /\ ledger' = [ledger EXCEPT ![r] = "COMPLETED"]
    /\ job' = [job EXCEPT ![p] = [@ EXCEPT
               !.at = "next",
               !.rows = job[p].rows \ {r},
               !.row = NoRow,
               !.stock = Zero]]
    /\ UNCHANGED <<gen, net, shop, redis, pgLock, crashes>>

\* What follows the loop in each caller.
AfterSync(p) == CASE p \in Consumers -> "setkey"
                  [] OTHER -> "clear"
SyncDone(p) ==
    /\ At(p, "next") /\ job[p].rows = {}
    /\ IF p \in Recoverers /\ job[p].held # "key"
       THEN Finish(p)
       ELSE Goto(p, AfterSync(p))
    /\ UNCHANGED <<ledger, gen, net, shop, redis, pgLock, crashes>>

-----------------------------------------------------------------------------
(* recoverStalledDeductions *)

\* Phase 1: an order whose pending key exists, crashed or still in progress.
RecoverPending(p, o) ==
    /\ p \in Recoverers /\ At(p, "idle") /\ MayStart(o)
    /\ o \in pending
    /\ job' = [job EXCEPT ![p] = [@ EXCEPT !.at = "sync", !.order = o, !.held = "key"]]
    /\ UNCHANGED <<ledger, gen, net, shop, redis, pgLock, crashes>>

\* Mutant: only orders that are still flagged are recovered.
RecoverOrphanFlagged(p, o) ==
    /\ p \in Recoverers /\ At(p, "idle") /\ MayStart(o)
    /\ o \in pending /\ RowsIn(o, {"EXECUTED"}) # {}
    /\ job' = [job EXCEPT ![p] = [@ EXCEPT !.at = "sync", !.order = o]]
    /\ UNCHANGED <<ledger, gen, net, shop, redis, pgLock, crashes>>

\* Phase 2: an order with EXECUTED rows old enough.  Time is not modelled: a
\* row may have any age.
RecoverOrphan(p, o) ==
    /\ p \in Recoverers /\ At(p, "idle") /\ MayStart(o)
    /\ RowsIn(o, {"EXECUTED"}) # {}
    /\ job' = [job EXCEPT ![p] = [@ EXCEPT !.at = "sync", !.order = o]]
    /\ UNCHANGED <<ledger, gen, net, shop, redis, pgLock, crashes>>

\* Phase 1: DEL of the pending key once the order is synchronized.
RecoverClear(p) ==
    /\ p \in Recoverers /\ At(p, "clear")
    /\ pending' = pending \ {job[p].order}
    /\ Finish(p)
    /\ UNCHANGED <<ledger, gen, net, shop, consumedKey, lock, pgLock, crashes>>

-----------------------------------------------------------------------------
(* reverseOrderConsumption *)

\* The rows to reverse are read before the lock is taken.
ReverseStart(p, o) ==
    /\ p \in Reversers /\ At(p, "idle") /\ MayStart(o)
    /\ RowsIn(o, {"COMPLETED"}) # {}
    /\ job' = [job EXCEPT ![p] = [@ EXCEPT
               !.at = "lock",
               !.order = o,
               !.rows = RowsIn(o, {"COMPLETED"})]]
    /\ UNCHANGED <<ledger, gen, net, shop, redis, pgLock, crashes>>

\* rollbackDeductions: give the quantity back, then push the value the update
\* returned (unless the component is internal).
Restore(p, r) ==
    /\ At(p, "restore") /\ r \in job[p].rows
    /\ net[r[3]][r[1]] > -MaxDebt
    /\ net' = [net EXCEPT ![r[3]][r[1]] = @ - Qty[r[1]][r[3]]]
    /\ job' = [job EXCEPT ![p] = [@ EXCEPT
               !.rows = job[p].rows \ {r},
               !.at = IF r[3] \in InternalComps THEN "restore" ELSE "push",
               !.row = IF r[3] \in InternalComps THEN NoRow ELSE r,
               !.stock = IF r[3] \in InternalComps THEN Zero ELSE net'[r[3]]]]
    /\ UNCHANGED <<ledger, gen, shop, redis, pgLock, crashes>>

\* A failed update is logged and the loop goes on (also beyond the bound).
RestoreSkipped(p, r) ==
    /\ At(p, "restore") /\ r \in job[p].rows
    /\ "db" \in Env \/ net[r[3]][r[1]] <= -MaxDebt
    /\ job' = [job EXCEPT ![p].rows = @ \ {r}]
    /\ UNCHANGED <<ledger, gen, net, shop, redis, pgLock, crashes>>

\* The push was answered, or given up after its last attempt: go on.
RestorePushed(p) ==
    /\ p \in Reversers /\ At(p, "push")
    /\ Attempt(p) \/ UNCHANGED shop
    /\ job' = [job EXCEPT ![p] = [@ EXCEPT
               !.at = "restore",
               !.row = NoRow,
               !.stock = Zero]]
    /\ UNCHANGED <<ledger, gen, net, redis, pgLock, crashes>>

\* Mutant: the rows keep their status.
MarkReversedNot(p) ==
    /\ At(p, "restore") /\ job[p].rows = {}
    /\ Goto(p, "delkey")
    /\ UNCHANGED <<ledger, gen, net, shop, redis, pgLock, crashes>>

\* updateMany on the rows that are COMPLETED now, not on those of the snapshot.
MarkReversed(p) ==
    /\ At(p, "restore") /\ job[p].rows = {}
    /\ ledger' = Promote(job[p].order, "COMPLETED", "REVERSED")
    /\ Goto(p, "delkey")
    /\ UNCHANGED <<gen, net, shop, redis, pgLock, crashes>>

ClearConsumed(p) ==
    /\ At(p, "delkey")
    /\ consumedKey' = consumedKey \ {job[p].order}
    /\ Goto(p, "release")
    /\ UNCHANGED <<ledger, gen, net, shop, pending, lock, pgLock, crashes>>

-----------------------------------------------------------------------------
(* Environment *)

\* A call throws: the finally block runs if the lock is held, else the call
\* ends.  A push to WooCommerce may always be given up.  An execution beyond the
\* bound MaxGen is treated as one whose transaction fails.
RedisCalls == {"plan", "setkey", "clear", "delkey"}
DbCalls    == {"dedup", "plan", "execute", "sync", "next", "mark", "close", "restore"}
Throw(p) ==
    /\ \/ "redis" \in Env /\ job[p].at \in RedisCalls
       \/ "db" \in Env /\ job[p].at \in DbCalls
       \/ At(p, "push") /\ p \notin Reversers
       \/ At(p, "execute") /\ gen[job[p].order] = MaxGen
    /\ IF job[p].held \in {"redis", "pg"}
       THEN job' = [job EXCEPT ![p] = [Idle EXCEPT !.at = "release",
                                 !.order = job[p].order, !.held = job[p].held]]
       ELSE Finish(p)
    /\ UNCHANGED <<ledger, gen, net, shop, redis, pgLock, crashes>>

\* The server process dies: every call in progress is lost and the sessions
\* of its connections end.
Crash ==
    /\ "crash" \in Env /\ crashes < MaxCrashes
    /\ crashes' = crashes + 1
    /\ job' = [p \in Actors |-> Idle]
    /\ pgLock' = [o \in Orders |-> [k \in Conns |-> 0]]
    /\ UNCHANGED <<ledger, gen, net, shop, redis>>

KeyExpires(o) ==
    /\ "expiry" \in Env
    /\ \/ /\ o \in consumedKey
          /\ consumedKey' = consumedKey \ {o} /\ UNCHANGED <<pending, lock>>
       \/ /\ o \in pending
          /\ pending' = pending \ {o} /\ UNCHANGED <<consumedKey, lock>>
       \/ \E k \in {"order", "reversal"} :
            /\ lock[k][o] = "TTL"
            /\ lock' = [lock EXCEPT ![k][o] = "free"]
            /\ UNCHANGED <<consumedKey, pending>>
    /\ UNCHANGED <<ledger, gen, net, shop, pgLock, job, crashes>>

\* No call in progress: the system waits for the next event.
Rest == (\A p \in Actors : At(p, "idle")) /\ UNCHANGED vars

-----------------------------------------------------------------------------
LockStep(p) == \/ SetNx(p) \/ LockBusy(p) \/ ExpireLock(p) \/ RedisLockThrows(p)
               \/ PgLock(p) \/ PgLockBusy(p) \/ Release(p)

ConsumeStep(p) == \/ \E o \in Orders : ConsumeStart(p, o)
                  \/ CheckLedger(p) \/ PlanEmpty(p) \/ Track(p)
                  \/ Execute(p) \/ SetConsumed(p) \/ ClearPending(p) \/ CloseLedger(p)

SyncStep(p) == \/ SyncSnapshot(p) \/ PushUnanswered(p) \/ PushAnswered(p)
               \/ SyncMark(p) \/ SyncDone(p)
               \/ \E r \in job[p].rows : SyncRead(p, r)

RecoverStep(p) == \/ RecoverClear(p)
                  \/ \E o \in Orders : RecoverPending(p, o) \/ RecoverOrphan(p, o)

ReverseStep(p) == \/ \E o \in Orders : ReverseStart(p, o)
                  \/ RestorePushed(p) \/ MarkReversed(p)
                  \/ ClearConsumed(p)
                  \/ \E r \in job[p].rows : Restore(p, r) \/ RestoreSkipped(p, r)

Next ==
    \/ \E p \in Actors : \/ LockStep(p) \/ ConsumeStep(p) \/ SyncStep(p)
                         \/ RecoverStep(p) \/ ReverseStep(p) \/ Throw(p)
    \/ Crash
    \/ \E o \in Orders : KeyExpires(o)
    \/ Rest

Spec == Init /\ [][Next]_vars
\* Fairness: Node runs every ready continuation, so an actor that can take a
\* step of its own eventually takes one; the recovery job runs every 10
\* minutes and visits every orphaned order; WooCommerce is not down forever.
Progress(p) == \/ SyncSnapshot(p) \/ SyncMark(p) \/ SyncDone(p) \/ RecoverClear(p)
               \/ ExpireLock(p)
               \/ \E r \in job[p].rows : SyncRead(p, r)
Fairness ==
    /\ \A p \in Actors : WF_vars(Progress(p))
    /\ \A p \in Recoverers : /\ \A o \in Orders : SF_vars(RecoverOrphan(p, o))
                             /\ SF_vars(PushAnswered(p))
FairSpec == Spec /\ Fairness

-----------------------------------------------------------------------------
(* Properties *)

JobType == [at : {"idle", "dedup", "lock", "expire", "pglock", "plan", "execute",
                  "sync", "next", "push", "mark", "setkey", "clear", "close",
                  "restore", "delkey", "release"},
            order : Orders \cup {NoOrder}, rows : SUBSET Rows,
            row : Rows \cup {NoRow}, stock : [Orders -> Int],
            held : {"none", "redis", "pg", "key"}]

\* Every variable stays in its domain; in particular an unlock that finds no
\* lock on its connection leaves the count at zero (releaseLock).
TypeOK ==
    /\ ledger \in [Rows -> Status]
    /\ gen \in [Orders -> 0..MaxGen]
    /\ net \in [Comps -> [Orders -> Int]]
    /\ woo \in [Comps -> [Orders -> Int]]
    /\ consumedKey \subseteq Orders /\ pending \subseteq Orders
    /\ lock \in [{"order", "reversal"} -> [Orders -> {"free", "noTTL", "TTL"}]]
    /\ pgLock \in [Orders -> [Conns -> 0..MaxPg]]
    /\ job \in [Actors -> JobType]
    /\ crashes \in 0..MaxCrashes
    /\ pushed \subseteq Rows

\* What the ledger says order o takes from component c.
Taken(o, c) == IF \E g \in 1..MaxGen : ledger[<<o, g, c>>] \in Live
               THEN Qty[o][c] ELSE 0
LedgerBalanced == \A o \in Orders, c \in Comps : net[c][o] = Taken(o, c)

\* Without cancellations an order is executed at most once and the local stock
\* holds exactly the deductions the ledger records, whatever happens to the
\* dedup key, the locks and the process (consumeOrderComponents).
AppliedOnce == LedgerBalanced /\ \A o \in Orders : gen[o] <= 1

\* Without cancellations a row becomes COMPLETED only after WooCommerce was
\* sent a stock that includes its deduction (syncExecutedLedgerEntries, and the
\* closing updateMany, which never finds an unsynchronized row).
CompletedWasPushed ==
    \A r \in Rows : ledger[r] = "COMPLETED" /\ r[3] \notin InternalComps => r \in pushed

\* With cancellations that overlap and crash: rows that still await WooCommerce
\* belong to the latest execution, so a recovery finds none to push for that was
\* cancelled and taken again (executeDeductionPlan, recoverStalledDeductions).  One
\* that read the rows before the cancellation still pushes and marks them.
PendingIsLatest == \A r \in Rows : ledger[r] = "EXECUTED" => r[2] = gen[r[1]]

\* Events of an order handled one after the other, without crash or database
\* error: whenever the order is at rest, the local stock agrees with the ledger,
\* however often it was consumed and cancelled (rollbackDeductions).
AtRest(o) == \A p \in Actors : job[p].order # o
RestBalanced ==
    \A o \in Orders : AtRest(o) => \A c \in Comps : net[c][o] = Taken(o, c)

\* A deduction committed locally is eventually synchronized, even though the
\* process may die, the pending key may expire and a push may be given up
\* (recoverStalledDeductions).
EventuallySynced == \A r \in Rows : ledger[r] = "EXECUTED" ~> ledger[r] # "EXECUTED"

-----------------------------------------------------------------------------
(* Without cancellations the service implements DeductionOnce. *)

Once == INSTANCE DeductionOnce WITH
    applied <- {o \in Orders : gen[o] > 0},
    stock   <- net,
    told    <- {oc \in Orders \X Comps : \E g \in 1..MaxGen : <<oc[1], g, oc[2]>> \in pushed},
    done    <- {oc \in Orders \X Comps :
                  \E g \in 1..MaxGen : ledger[<<oc[1], g, oc[2]>>] = "COMPLETED"}

\* Every step of the consumers and of the recovery job, with crashes, expiring
\* keys and failing calls, is a step of the abstract deduction or changes nothing
\* it sees (consumeOrderComponents, recoverStalledDeductions).
ImplementsOnce == Once!Spec
=============================================================================
