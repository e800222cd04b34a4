------------------------ MODULE BOMConsumption_proofs ------------------------
(* Theorems about BOMConsumption, for any orders, components, actors, faults
   and bounds, checked by TLAPS. *)
EXTENDS BOMConsumption, TLAPS

-----------------------------------------------------------------------------
(* Type correctness.  TypeOK alone is not inductive: a lock is indexed with the
   order of the call, a row is marked by the call that holds it.  JobsOK adds
   that a call under way has an order, and a row when it pushes or marks one. *)

DataOK ==
    /\ ledger \in [Rows -> Status]
    /\ gen \in [Orders -> 0..MaxGen]
    /\ net \in [Comps -> [Orders -> Int]]
    /\ woo \in [Comps -> [Orders -> Int]]
    /\ consumedKey \subseteq Orders /\ pending \subseteq Orders
    /\ lock \in [{"order", "reversal"} -> [Orders -> {"free", "noTTL", "TTL"}]]
    /\ pgLock \in [Orders -> [Conns -> 0..MaxPg]]
    /\ crashes \in 0..MaxCrashes
    /\ pushed \subseteq Rows

Shape(p) ==
    /\ job[p].at # "idle" => job[p].order \in Orders
    /\ job[p].at \in {"push", "mark"} => job[p].row \in Rows

JobsOK == job \in [Actors -> JobType] /\ \A p \in Actors : Shape(p)

TypeInv == DataOK /\ JobsOK

Labels == {"dedup", "lock", "expire", "pglock", "plan", "execute", "sync", "next",
           "mark", "setkey", "clear", "close", "restore", "delkey", "release"}

\* A step that gives one call a new well-formed state keeps the others'.
LEMMA JobTyped ==
    ASSUME JobsOK, NEW p \in Actors, NEW v \in JobType,
           job' = [job EXCEPT ![p] = v],
           v.at # "idle" => v.order \in Orders,
           v.at \in {"push", "mark"} => v.row \in Rows
    PROVE  JobsOK'
  BY DEF JobsOK, Shape

LEMMA GotoTyped ==
    ASSUME JobsOK, NEW p \in Actors, NEW l \in Labels, Goto(p, l),
           job[p].order \in Orders, l = "mark" => job[p].row \in Rows
    PROVE  JobsOK'
<1>1. [job[p] EXCEPT !.at = l] \in JobType
  BY DEF JobsOK, JobType, Labels
<1>2. job' = [job EXCEPT ![p] = [job[p] EXCEPT !.at = l]]
  BY DEF Goto
<1> QED
  BY <1>1, <1>2, JobTyped DEF JobsOK, JobType, Labels

LEMMA IdleTyped == Idle \in JobType
  BY DEF JobType, Idle, NoOrder, NoRow, Zero

LEMMA FinishTyped ==
    ASSUME JobsOK, NEW p \in Actors, Finish(p)
    PROVE  JobsOK'
  BY IdleTyped, JobTyped DEF Finish, Idle

\* A call that is not idle has an order.
LEMMA OrderTyped ==
    ASSUME JobsOK, NEW p \in Actors, job[p].at # "idle"
    PROVE  job[p].order \in Orders
  BY DEF JobsOK, Shape

LEMMA LockSetTyped ==
    ASSUME DataOK, NEW k \in {"order", "reversal"}, NEW o \in Orders,
           NEW v \in {"free", "noTTL", "TTL"}, lock' = [lock EXCEPT ![k][o] = v]
    PROVE  lock' \in [{"order", "reversal"} -> [Orders -> {"free", "noTTL", "TTL"}]]
  BY DEF DataOK

LEMMA TypeInit == Init => TypeInv
<1> SUFFICES ASSUME Init PROVE TypeInv
  OBVIOUS
<1>1. DataOK
  BY ConstantsAssumption DEF Init, DataOK, Zero, Status
<1>2. JobsOK
  BY IdleTyped DEF Init, JobsOK, Shape, Idle
<1> QED
  BY <1>1, <1>2 DEF TypeInv

LEMMA UnlocksTyped ==
    ASSUME DataOK, NEW p \in Actors, job[p].order \in Orders, Unlocks(p)
    PROVE  /\ lock' \in [{"order", "reversal"} -> [Orders -> {"free", "noTTL", "TTL"}]]
           /\ pgLock' \in [Orders -> [Conns -> 0..MaxPg]]
<1>1. Kind(p) \in {"order", "reversal"}
  BY DEF Kind
<1>2. \/ lock' = [lock EXCEPT ![Kind(p)][job[p].order] = "free"]
      \/ lock' = lock
  BY DEF Unlocks
<1>3. lock' \in [{"order", "reversal"} -> [Orders -> {"free", "noTTL", "TTL"}]]
  <2>1. CASE lock' = lock
    BY <2>1 DEF DataOK
  <2> QED
    BY <1>1, <1>2, <2>1, LockSetTyped
<1>4. CASE UNCHANGED pgLock
  BY <1>3, <1>4 DEF DataOK
<1>5. ASSUME NEW k \in Conns,
             pgLock' = [pgLock EXCEPT ![job[p].order][k] = IF @ > 0 THEN @ - 1 ELSE @]
      PROVE  pgLock' \in [Orders -> [Conns -> 0..MaxPg]]
  <2>1. pgLock[job[p].order][k] \in 0..MaxPg
    BY DEF DataOK
  <2> QED
    BY <1>5, <2>1, ConstantsAssumption DEF DataOK
<1> QED
  BY <1>3, <1>4, <1>5 DEF Unlocks

LEMMA LockTyped ==
    ASSUME TypeInv, NEW p \in Actors, LockStep(p)
    PROVE  TypeInv'
<1>1. CASE SetNx(p)
  <2>1. job[p].order \in Orders
    BY <1>1, OrderTyped DEF TypeInv, SetNx, At
  <2>2. JobsOK'
    BY <1>1, <2>1, GotoTyped DEF TypeInv, SetNx, Labels
  <2>3. DataOK'
    BY <1>1, <2>1, ConstantsAssumption DEF TypeInv, DataOK, redis, shop, SetNx, Kind
  <2> QED
    BY <2>2, <2>3 DEF TypeInv
<1>2. CASE LockBusy(p)
  <2>1. job[p].order \in Orders
    BY <1>2, OrderTyped DEF TypeInv, LockBusy, At
  <2>2. JobsOK'
    BY <1>2, FinishTyped DEF TypeInv, LockBusy
  <2>3. DataOK'
    BY <1>2, <2>1, ConstantsAssumption DEF TypeInv, DataOK, redis, shop, LockBusy
  <2> QED
    BY <2>2, <2>3 DEF TypeInv
<1>3. CASE ExpireLock(p)
  <2>1. job[p].order \in Orders
    BY <1>3, OrderTyped DEF TypeInv, ExpireLock, At
  <2>2. JobsOK'
    <3> DEFINE v == [job[p] EXCEPT !.at = Enter(p), !.held = "redis"]
    <3>1. job[p] \in JobType
      BY DEF TypeInv, JobsOK
    <3>2. v \in JobType
      BY <2>1, <3>1 DEF JobType, NoRow, Enter
    <3>3. job' = [job EXCEPT ![p] = v]
      BY <1>3 DEF ExpireLock, TypeInv, JobsOK
    <3>4. v.at # "idle" => v.order \in Orders
      BY <1>3, <2>1 DEF TypeInv, JobsOK, JobType
    <3>5. v.at \in {"push", "mark"} => v.row \in Rows
      BY <1>3 DEF TypeInv, JobsOK, JobType, Enter
    <3> QED
      BY <3>2, <3>3, <3>4, <3>5, JobTyped DEF TypeInv
  <2>3. DataOK'
    BY <1>3, <2>1, ConstantsAssumption DEF TypeInv, DataOK, redis, shop, ExpireLock, Kind
  <2> QED
    BY <2>2, <2>3 DEF TypeInv
<1>4. CASE RedisLockThrows(p)
  <2>1. job[p].order \in Orders
    BY <1>4, OrderTyped DEF TypeInv, RedisLockThrows, At
  <2>2. JobsOK'
    BY <1>4, <2>1, GotoTyped DEF TypeInv, RedisLockThrows, Labels
  <2>3. DataOK'
    <3>1. Kind(p) \in {"order", "reversal"}
      BY DEF Kind
    <3>2. lock[Kind(p)][job[p].order] \in {"free", "noTTL", "TTL"}
      BY <2>1, <3>1 DEF TypeInv, DataOK
    <3>3. PICK v \in {"free", "noTTL", "TTL"} :
            lock' = [lock EXCEPT ![Kind(p)][job[p].order] = v]
      BY <1>4, <3>2 DEF RedisLockThrows
    <3> QED
      BY <1>4, <2>1, <3>1, <3>3 DEF TypeInv, DataOK, shop, RedisLockThrows
  <2> QED
    BY <2>2, <2>3 DEF TypeInv
<1>5. CASE PgLock(p)
  <2>1. job[p].order \in Orders
    BY <1>5, OrderTyped DEF TypeInv, PgLock, At
  <2>2. JobsOK'
    <3> DEFINE v == [job[p] EXCEPT !.at = Enter(p), !.held = "pg"]
    <3>1. job[p] \in JobType
      BY DEF TypeInv, JobsOK
    <3>2. v \in JobType
      BY <2>1, <3>1 DEF JobType, NoRow, Enter
    <3>3. job' = [job EXCEPT ![p] = v]
      BY <1>5 DEF PgLock, TypeInv, JobsOK
    <3>4. v.at # "idle" => v.order \in Orders
      BY <1>5, <2>1 DEF TypeInv, JobsOK, JobType
    <3>5. v.at \in {"push", "mark"} => v.row \in Rows
      BY <1>5 DEF TypeInv, JobsOK, JobType, Enter
    <3> QED
      BY <3>2, <3>3, <3>4, <3>5, JobTyped DEF TypeInv
  <2>3. DataOK'
    BY <1>5, <2>1, ConstantsAssumption DEF TypeInv, DataOK, redis, shop, PgLock
  <2> QED
    BY <2>2, <2>3 DEF TypeInv
<1>6. CASE PgLockBusy(p)
  <2>1. job[p].order \in Orders
    BY <1>6, OrderTyped DEF TypeInv, PgLockBusy, At
  <2>2. JobsOK'
    BY <1>6, FinishTyped DEF TypeInv, PgLockBusy
  <2>3. DataOK'
    BY <1>6, <2>1, ConstantsAssumption DEF TypeInv, DataOK, redis, shop, PgLockBusy
  <2> QED
    BY <2>2, <2>3 DEF TypeInv
<1>7. CASE Release(p)
  <2>1. job[p].order \in Orders
    BY <1>7, OrderTyped DEF TypeInv, Release, At
  <2>2. JobsOK'
    BY <1>7, FinishTyped DEF TypeInv, Release
  <2>3. DataOK'
    <3>1. /\ lock' \in [{"order", "reversal"} -> [Orders -> {"free", "noTTL", "TTL"}]]
          /\ pgLock' \in [Orders -> [Conns -> 0..MaxPg]]
      BY <1>7, <2>1, UnlocksTyped DEF TypeInv, Release
    <3> QED
      BY <1>7, <3>1 DEF TypeInv, DataOK, shop, Release
  <2> QED
    BY <2>2, <2>3 DEF TypeInv
<1> QED
  BY <1>1, <1>2, <1>3, <1>4, <1>5, <1>6, <1>7 DEF LockStep

LEMMA ConsumeTyped ==
    ASSUME TypeInv, NEW p \in Actors, ConsumeStep(p)
    PROVE  TypeInv'
<1>1. ASSUME NEW o \in Orders, ConsumeStart(p, o) PROVE TypeInv'
  <2>2. JobsOK'
    <3> DEFINE v == [job[p] EXCEPT !.at = "dedup", !.order = o]
    <3>1. job[p] \in JobType
      BY DEF TypeInv, JobsOK
    <3>2. v \in JobType
      BY <3>1 DEF JobType, NoRow
    <3>3. job' = [job EXCEPT ![p] = v]
      BY <1>1 DEF ConsumeStart, TypeInv, JobsOK
    <3>4. v.at # "idle" => v.order \in Orders
      BY <1>1 DEF TypeInv, JobsOK, JobType
    <3>5. v.at \in {"push", "mark"} => v.row \in Rows
      BY <1>1 DEF TypeInv, JobsOK, JobType
    <3> QED
      BY <3>2, <3>3, <3>4, <3>5, JobTyped DEF TypeInv
  <2>3. DataOK'
    BY <1>1, ConstantsAssumption DEF TypeInv, DataOK, redis, shop, ConsumeStart
  <2> QED
    BY <2>2, <2>3 DEF TypeInv
<1>2. CASE CheckLedger(p)
  <2>1. job[p].order \in Orders
    BY <1>2, OrderTyped DEF TypeInv, CheckLedger, At
  <2>2. JobsOK'
    BY <1>2, <2>1, GotoTyped DEF TypeInv, CheckLedger, Labels
  <2>3. DataOK'
    BY <1>2, <2>1, ConstantsAssumption DEF TypeInv, DataOK, redis, shop, CheckLedger
  <2> QED
    BY <2>2, <2>3 DEF TypeInv
<1>3. CASE PlanEmpty(p)
  <2>1. job[p].order \in Orders
    BY <1>3, OrderTyped DEF TypeInv, PlanEmpty, At
  <2>2. JobsOK'
    BY <1>3, <2>1, GotoTyped DEF TypeInv, PlanEmpty, Labels
  <2>3. DataOK'
    <3>1. /\ lock' \in [{"order", "reversal"} -> [Orders -> {"free", "noTTL", "TTL"}]]
          /\ pgLock' \in [Orders -> [Conns -> 0..MaxPg]]
      BY <1>3, <2>1, UnlocksTyped DEF TypeInv, DataOK, PlanEmpty
    <3> QED
      BY <1>3, <3>1 DEF TypeInv, DataOK, shop, PlanEmpty
  <2> QED
    BY <2>2, <2>3 DEF TypeInv
<1>4. CASE Track(p)
  <2>1. job[p].order \in Orders
    BY <1>4, OrderTyped DEF TypeInv, Track, At
  <2>2. JobsOK'
    BY <1>4, <2>1, GotoTyped DEF TypeInv, Track, Labels
  <2>3. DataOK'
    BY <1>4, <2>1, ConstantsAssumption DEF TypeInv, DataOK, redis, shop, Track
  <2> QED
    BY <2>2, <2>3 DEF TypeInv
<1>5. CASE Execute(p)
  <2>1. job[p].order \in Orders
    BY <1>5, OrderTyped DEF TypeInv, Execute, At
  <2>2. JobsOK'
    BY <1>5, <2>1, GotoTyped DEF TypeInv, Execute, Labels
  <2>3. DataOK'
    <3>1. CASE Deduct(job[p].order)
      <4>1. gen' \in [Orders -> 0..MaxGen]
        BY <2>1, <3>1, ConstantsAssumption DEF TypeInv, DataOK, Deduct
      <4>2. ledger' \in [Rows -> Status]
        BY <3>1 DEF TypeInv, DataOK, Deduct, Status
      <4>3. net' \in [Comps -> [Orders -> Int]]
        <5>1. ASSUME NEW c \in Comps
              PROVE  [net[c] EXCEPT ![job[p].order] = @ + Qty[job[p].order][c]] \in [Orders -> Int]
          <6>1. Qty[job[p].order][c] \in Nat /\ net[c] \in [Orders -> Int]
            BY <2>1, ConstantsAssumption DEF TypeInv, DataOK
          <6> QED
            BY <6>1, <2>1
        <5> QED
          BY <5>1, <3>1 DEF Deduct
      <4> QED
        BY <1>5, <4>1, <4>2, <4>3 DEF TypeInv, DataOK, redis, shop, Execute
    <3>2. CASE UNCHANGED <<ledger, gen, net>>
      BY <1>5, <3>2 DEF TypeInv, DataOK, redis, shop, Execute
    <3> QED
      BY <1>5, <3>1, <3>2 DEF Execute
  <2> QED
    BY <2>2, <2>3 DEF TypeInv
<1>6. CASE SetConsumed(p)
  <2>1. job[p].order \in Orders
    BY <1>6, OrderTyped DEF TypeInv, SetConsumed, At
  <2>2. JobsOK'
    BY <1>6, <2>1, FinishTyped, GotoTyped DEF TypeInv, SetConsumed, Labels
  <2>3. DataOK'
    BY <1>6, <2>1, ConstantsAssumption DEF TypeInv, DataOK, redis, shop, SetConsumed
  <2> QED
    BY <2>2, <2>3 DEF TypeInv
<1>7. CASE ClearPending(p)
  <2>1. job[p].order \in Orders
    BY <1>7, OrderTyped DEF TypeInv, ClearPending, At
  <2>2. JobsOK'
    BY <1>7, <2>1, GotoTyped DEF TypeInv, ClearPending, Labels
  <2>3. DataOK'
    BY <1>7, <2>1, ConstantsAssumption DEF TypeInv, DataOK, redis, shop, ClearPending
  <2> QED
    BY <2>2, <2>3 DEF TypeInv
<1>8. CASE CloseLedger(p)
  <2>1. job[p].order \in Orders
    BY <1>8, OrderTyped DEF TypeInv, CloseLedger, At
  <2>2. JobsOK'
    BY <1>8, <2>1, GotoTyped DEF TypeInv, CloseLedger, Labels
  <2>3. DataOK'
    BY <1>8, <2>1, ConstantsAssumption DEF TypeInv, DataOK, redis, shop, CloseLedger, Promote, Status
  <2> QED
    BY <2>2, <2>3 DEF TypeInv
<1> QED
  BY <1>1, <1>2, <1>3, <1>4, <1>5, <1>6, <1>7, <1>8 DEF ConsumeStep

LEMMA SyncTyped ==
    ASSUME TypeInv, NEW p \in Actors, SyncStep(p)
    PROVE  TypeInv'
<1>1. CASE SyncSnapshot(p)
  <2>1. job[p].order \in Orders
    BY <1>1, OrderTyped DEF TypeInv, SyncSnapshot, At
  <2>2. JobsOK'
    <3> DEFINE v == [job[p] EXCEPT !.at = "next", !.rows = RowsIn(job[p].order, {"EXECUTED"})]
    <3>1. job[p] \in JobType
      BY DEF TypeInv, JobsOK
    <3>2. RowsIn(job[p].order, {"EXECUTED"}) \in SUBSET Rows
      BY DEF RowsIn
    <3>3. v \in JobType
      BY <2>1, <3>1, <3>2 DEF JobType, NoRow
    <3>4. job' = [job EXCEPT ![p] = v]
      BY <1>1 DEF SyncSnapshot, TypeInv, JobsOK
    <3>5. v.at # "idle" => v.order \in Orders
      BY <1>1, <2>1 DEF TypeInv, JobsOK, JobType
    <3>6. v.at \in {"push", "mark"} => v.row \in Rows
      BY <1>1 DEF TypeInv, JobsOK, JobType
    <3> QED
      BY <3>3, <3>4, <3>5, <3>6, JobTyped DEF TypeInv
  <2>3. DataOK'
    BY <1>1, <2>1, ConstantsAssumption DEF TypeInv, DataOK, redis, shop, SyncSnapshot
  <2> QED
    BY <2>2, <2>3 DEF TypeInv
<1>2. CASE PushUnanswered(p)
  <2>1. job[p].order \in Orders
    BY <1>2, OrderTyped DEF TypeInv, PushUnanswered, At
  <2>2. JobsOK'
    BY <1>2 DEF TypeInv, JobsOK, Shape, PushUnanswered
  <2>3. DataOK'
    BY <1>2, <2>1, ConstantsAssumption DEF TypeInv, DataOK, redis, shop, PushUnanswered, Attempt, JobsOK, Shape, JobType, At
  <2> QED
    BY <2>2, <2>3 DEF TypeInv
<1>3. CASE PushAnswered(p)
  <2>1. job[p].order \in Orders
    BY <1>3, OrderTyped DEF TypeInv, PushAnswered, At
  <2>2. JobsOK'
    BY <1>3, <2>1, GotoTyped DEF TypeInv, PushAnswered, Labels, Shape, At, JobsOK
  <2>3. DataOK'
    BY <1>3, <2>1, ConstantsAssumption DEF TypeInv, DataOK, redis, shop, PushAnswered, Attempt, JobsOK, Shape, JobType, At
  <2> QED
    BY <2>2, <2>3 DEF TypeInv
<1>4. CASE SyncMark(p)
  <2>1. job[p].order \in Orders
    BY <1>4, OrderTyped DEF TypeInv, SyncMark, At
  <2>2. JobsOK'
    <3> DEFINE v == [job[p] EXCEPT !.at = "next", !.rows = job[p].rows \ {job[p].row}, !.row = NoRow, !.stock = Zero]
    <3>1. job[p] \in JobType
      BY DEF TypeInv, JobsOK
    <3>2. Zero \in [Orders -> Int]
      BY DEF Zero
    <3>3. v \in JobType
      BY <2>1, <3>1, <3>2 DEF JobType, NoRow
    <3>4. job' = [job EXCEPT ![p] = v]
      BY <1>4 DEF SyncMark
    <3>5. v.at # "idle" => v.order \in Orders
      BY <1>4, <2>1 DEF TypeInv, JobsOK, JobType
    <3>6. v.at \in {"push", "mark"} => v.row \in Rows
      BY <1>4 DEF TypeInv, JobsOK, JobType
    <3> QED
      BY <3>3, <3>4, <3>5, <3>6, JobTyped DEF TypeInv
  <2>3. DataOK'
    BY <1>4, <2>1, ConstantsAssumption DEF TypeInv, DataOK, redis, shop, SyncMark, Status, JobsOK, Shape, At
  <2> QED
    BY <2>2, <2>3 DEF TypeInv
<1>5. CASE SyncDone(p)
  <2>1. job[p].order \in Orders
    BY <1>5, OrderTyped DEF TypeInv, SyncDone, At
  <2>2. JobsOK'
    BY <1>5, <2>1, FinishTyped, GotoTyped DEF TypeInv, SyncDone, Labels, AfterSync
  <2>3. DataOK'
    BY <1>5, <2>1, ConstantsAssumption DEF TypeInv, DataOK, redis, shop, SyncDone
  <2> QED
    BY <2>2, <2>3 DEF TypeInv
<1>6. ASSUME NEW r \in job[p].rows, SyncRead(p, r) PROVE TypeInv'
  <2>1. job[p].order \in Orders
    BY <1>6, OrderTyped DEF TypeInv, SyncRead, At
  <2>2. JobsOK'
    <3> DEFINE v == [job[p] EXCEPT !.row = r, !.at = IF r[3] \in InternalComps THEN "mark" ELSE "push", !.stock = IF r[3] \in InternalComps THEN Zero ELSE net[r[3]]]
    <3>1. job[p] \in JobType
      BY DEF TypeInv, JobsOK
    <3>2. Zero \in [Orders -> Int]
      BY DEF Zero
    <3>3. r \in Rows
      BY DEF TypeInv, JobsOK, JobType
    <3>4. net[r[3]] \in [Orders -> Int]
      BY <3>3 DEF TypeInv, DataOK, Rows
    <3>5. v \in JobType
      BY <2>1, <3>1, <3>2, <3>3, <3>4 DEF JobType, NoRow
    <3>6. job' = [job EXCEPT ![p] = v]
      BY <1>6 DEF SyncRead, TypeInv, JobsOK
    <3>7. v.at # "idle" => v.order \in Orders
      BY <1>6, <2>1 DEF TypeInv, JobsOK, JobType
    <3>8. v.at \in {"push", "mark"} => v.row \in Rows
      BY <3>1, <3>3 DEF JobType
    <3> QED
      BY <3>5, <3>6, <3>7, <3>8, JobTyped DEF TypeInv
  <2>3. DataOK'
    BY <1>6, <2>1, ConstantsAssumption DEF TypeInv, DataOK, redis, shop, SyncRead
  <2> QED
    BY <2>2, <2>3 DEF TypeInv
<1> QED
  BY <1>1, <1>2, <1>3, <1>4, <1>5, <1>6 DEF SyncStep

LEMMA RecoverTyped ==
    ASSUME TypeInv, NEW p \in Actors, RecoverStep(p)
    PROVE  TypeInv'
<1>1. CASE RecoverClear(p)
  <2>1. job[p].order \in Orders
    BY <1>1, OrderTyped DEF TypeInv, RecoverClear, At
  <2>2. JobsOK'
    BY <1>1, FinishTyped DEF TypeInv, RecoverClear
  <2>3. DataOK'
    BY <1>1, <2>1, ConstantsAssumption DEF TypeInv, DataOK, redis, shop, RecoverClear
  <2> QED
    BY <2>2, <2>3 DEF TypeInv
<1>2. ASSUME NEW o \in Orders, RecoverPending(p, o) PROVE TypeInv'
  <2>2. JobsOK'
    <3> DEFINE v == [job[p] EXCEPT !.at = "sync", !.order = o, !.held = "key"]
    <3>1. job[p] \in JobType
      BY DEF TypeInv, JobsOK
    <3>2. v \in JobType
      BY <3>1 DEF JobType, NoRow
    <3>3. job' = [job EXCEPT ![p] = v]
      BY <1>2 DEF RecoverPending, TypeInv, JobsOK
    <3>4. v.at # "idle" => v.order \in Orders
      BY <1>2 DEF TypeInv, JobsOK, JobType
    <3>5. v.at \in {"push", "mark"} => v.row \in Rows
      BY <1>2 DEF TypeInv, JobsOK, JobType
    <3> QED
      BY <3>2, <3>3, <3>4, <3>5, JobTyped DEF TypeInv
  <2>3. DataOK'
    BY <1>2, ConstantsAssumption DEF TypeInv, DataOK, redis, shop, RecoverPending
  <2> QED
    BY <2>2, <2>3 DEF TypeInv
<1>3. ASSUME NEW o \in Orders, RecoverOrphan(p, o) PROVE TypeInv'
  <2>2. JobsOK'
    <3> DEFINE v == [job[p] EXCEPT !.at = "sync", !.order = o]
    <3>1. job[p] \in JobType
      BY DEF TypeInv, JobsOK
    <3>2. v \in JobType
      BY <3>1 DEF JobType, NoRow
    <3>3. job' = [job EXCEPT ![p] = v]
      BY <1>3 DEF RecoverOrphan, TypeInv, JobsOK
    <3>4. v.at # "idle" => v.order \in Orders
      BY <1>3 DEF TypeInv, JobsOK, JobType
    <3>5. v.at \in {"push", "mark"} => v.row \in Rows
      BY <1>3 DEF TypeInv, JobsOK, JobType
    <3> QED
      BY <3>2, <3>3, <3>4, <3>5, JobTyped DEF TypeInv
  <2>3. DataOK'
    BY <1>3, ConstantsAssumption DEF TypeInv, DataOK, redis, shop, RecoverOrphan
  <2> QED
    BY <2>2, <2>3 DEF TypeInv
<1> QED
  BY <1>1, <1>2, <1>3 DEF RecoverStep

LEMMA ReverseTyped ==
    ASSUME TypeInv, NEW p \in Actors, ReverseStep(p)
    PROVE  TypeInv'
<1>1. ASSUME NEW o \in Orders, ReverseStart(p, o) PROVE TypeInv'
  <2>2. JobsOK'
    <3> DEFINE v == [job[p] EXCEPT !.at = "lock", !.order = o, !.rows = RowsIn(o, {"COMPLETED"})]
    <3>1. job[p] \in JobType
      BY DEF TypeInv, JobsOK
    <3>2. RowsIn(o, {"COMPLETED"}) \in SUBSET Rows
      BY DEF RowsIn
    <3>3. v \in JobType
      BY <3>1, <3>2 DEF JobType, NoRow
    <3>4. job' = [job EXCEPT ![p] = v]
      BY <1>1 DEF ReverseStart, TypeInv, JobsOK
    <3>5. v.at # "idle" => v.order \in Orders
      BY <1>1 DEF TypeInv, JobsOK, JobType
    <3>6. v.at \in {"push", "mark"} => v.row \in Rows
      BY <1>1 DEF TypeInv, JobsOK, JobType
    <3> QED
      BY <3>3, <3>4, <3>5, <3>6, JobTyped DEF TypeInv
  <2>3. DataOK'
    BY <1>1, ConstantsAssumption DEF TypeInv, DataOK, redis, shop, ReverseStart
  <2> QED
    BY <2>2, <2>3 DEF TypeInv
<1>2. CASE RestorePushed(p)
  <2>1. job[p].order \in Orders
    BY <1>2, OrderTyped DEF TypeInv, RestorePushed, At
  <2>2. JobsOK'
    <3> DEFINE v == [job[p] EXCEPT !.at = "restore", !.row = NoRow, !.stock = Zero]
    <3>1. job[p] \in JobType
      BY DEF TypeInv, JobsOK
    <3>2. Zero \in [Orders -> Int]
      BY DEF Zero
    <3>3. v \in JobType
      BY <2>1, <3>1, <3>2 DEF JobType, NoRow
    <3>4. job' = [job EXCEPT ![p] = v]
      BY <1>2 DEF RestorePushed, TypeInv, JobsOK
    <3>5. v.at # "idle" => v.order \in Orders
      BY <1>2, <2>1 DEF TypeInv, JobsOK, JobType
    <3>6. v.at \in {"push", "mark"} => v.row \in Rows
      BY <1>2 DEF TypeInv, JobsOK, JobType
    <3> QED
      BY <3>3, <3>4, <3>5, <3>6, JobTyped DEF TypeInv
  <2>3. DataOK'
    BY <1>2, <2>1, ConstantsAssumption DEF TypeInv, DataOK, redis, shop, RestorePushed, Attempt, JobsOK, Shape, JobType, At
  <2> QED
    BY <2>2, <2>3 DEF TypeInv
<1>3. CASE MarkReversed(p)
  <2>1. job[p].order \in Orders
    BY <1>3, OrderTyped DEF TypeInv, MarkReversed, At
  <2>2. JobsOK'
    BY <1>3, <2>1, GotoTyped DEF TypeInv, MarkReversed, Labels
  <2>3. DataOK'
    BY <1>3, <2>1, ConstantsAssumption DEF TypeInv, DataOK, redis, shop, MarkReversed, Promote, Status
  <2> QED
    BY <2>2, <2>3 DEF TypeInv
<1>4. CASE ClearConsumed(p)
  <2>1. job[p].order \in Orders
    BY <1>4, OrderTyped DEF TypeInv, ClearConsumed, At
  <2>2. JobsOK'
    BY <1>4, <2>1, GotoTyped DEF TypeInv, ClearConsumed, Labels
  <2>3. DataOK'
    BY <1>4, <2>1, ConstantsAssumption DEF TypeInv, DataOK, redis, shop, ClearConsumed
  <2> QED
    BY <2>2, <2>3 DEF TypeInv
<1>5. ASSUME NEW r \in job[p].rows, Restore(p, r) PROVE TypeInv'
  <2>1. job[p].order \in Orders
    BY <1>5, OrderTyped DEF TypeInv, Restore, At
  <2>2. JobsOK'
    <3> DEFINE v == [job[p] EXCEPT !.rows = job[p].rows \ {r}, !.at = IF r[3] \in InternalComps THEN "restore" ELSE "push", !.row = IF r[3] \in InternalComps THEN NoRow ELSE r, !.stock = IF r[3] \in InternalComps THEN Zero ELSE net'[r[3]]]
    <3>1. job[p] \in JobType
      BY DEF TypeInv, JobsOK
    <3>2. Zero \in [Orders -> Int]
      BY DEF Zero
    <3>3. r \in Rows
      BY DEF TypeInv, JobsOK, JobType
    <3>4. net'[r[3]] \in [Orders -> Int]
      BY <3>3, <1>5, ConstantsAssumption DEF TypeInv, DataOK, Rows, Restore
    <3>5. v \in JobType
      BY <2>1, <3>1, <3>2, <3>3, <3>4 DEF JobType, NoRow
    <3>6. job' = [job EXCEPT ![p] = v]
      BY <1>5 DEF Restore
    <3>7. v.at # "idle" => v.order \in Orders
      BY <1>5, <2>1 DEF TypeInv, JobsOK, JobType
    <3>8. v.at \in {"push", "mark"} => v.row \in Rows
      BY <1>5 DEF TypeInv, JobsOK, JobType
    <3> QED
      BY <3>5, <3>6, <3>7, <3>8, JobTyped DEF TypeInv
  <2>3. DataOK'
    BY <1>5, <2>1, ConstantsAssumption DEF TypeInv, DataOK, redis, shop, Restore, Rows, JobsOK, JobType
  <2> QED
    BY <2>2, <2>3 DEF TypeInv
<1>6. ASSUME NEW r \in job[p].rows, RestoreSkipped(p, r) PROVE TypeInv'
  <2>1. job[p].order \in Orders
    BY <1>6, OrderTyped DEF TypeInv, RestoreSkipped, At
  <2>2. JobsOK'
    <3> DEFINE v == [job[p] EXCEPT !.rows = job[p].rows \ {r}]
    <3>1. job[p] \in JobType
      BY DEF TypeInv, JobsOK
    <3>2. v \in JobType
      BY <2>1, <3>1 DEF JobType, NoRow
    <3>3. job' = [job EXCEPT ![p] = v]
      BY <1>6 DEF RestoreSkipped, TypeInv, JobsOK
    <3>4. v.at # "idle" => v.order \in Orders
      BY <1>6, <2>1 DEF TypeInv, JobsOK, JobType
    <3>5. v.at \in {"push", "mark"} => v.row \in Rows
      BY <1>6 DEF RestoreSkipped, At, TypeInv, JobsOK, JobType
    <3> QED
      BY <3>2, <3>3, <3>4, <3>5, JobTyped DEF TypeInv
  <2>3. DataOK'
    BY <1>6, <2>1, ConstantsAssumption DEF TypeInv, DataOK, redis, shop, RestoreSkipped
  <2> QED
    BY <2>2, <2>3 DEF TypeInv
<1> QED
  BY <1>1, <1>2, <1>3, <1>4, <1>5, <1>6 DEF ReverseStep

LEMMA ThrowTyped ==
    ASSUME TypeInv, NEW p \in Actors, Throw(p)
    PROVE  TypeInv'
<1>1. job[p].order \in Orders
  BY OrderTyped DEF TypeInv, Throw, At, RedisCalls, DbCalls
<1>2. JobsOK'
  <2> DEFINE v == [Idle EXCEPT !.at = "release", !.order = job[p].order, !.held = job[p].held]
  <2>1. v \in JobType
    BY <1>1, IdleTyped DEF TypeInv, JobsOK, JobType, Idle
  <2>2. CASE job' = [job EXCEPT ![p] = v]
    BY <1>1, <2>1, <2>2, JobTyped DEF TypeInv, Idle
  <2>3. CASE Finish(p)
    BY <2>3, FinishTyped DEF TypeInv
  <2> QED
    BY <2>2, <2>3 DEF Throw
<1>3. DataOK'
  BY DEF TypeInv, DataOK, redis, shop, Throw
<1> QED
  BY <1>2, <1>3 DEF TypeInv

LEMMA EnvironmentTyped ==
    ASSUME TypeInv, Crash \/ (\E o \in Orders : KeyExpires(o)) \/ UNCHANGED vars
    PROVE  TypeInv'
<1>1. CASE Crash
  <2>1. JobsOK'
    BY <1>1, IdleTyped DEF Crash, JobsOK, Shape, Idle
  <2>2. DataOK'
    BY <1>1, ConstantsAssumption DEF TypeInv, Crash, DataOK, redis, shop
  <2> QED
    BY <2>1, <2>2 DEF TypeInv
<1>2. ASSUME NEW o \in Orders, KeyExpires(o) PROVE TypeInv'
  <2>1. JobsOK'
    BY <1>2 DEF KeyExpires, TypeInv, JobsOK, Shape
  <2>2. consumedKey' \subseteq Orders /\ pending' \subseteq Orders
    BY <1>2 DEF KeyExpires, TypeInv, DataOK
  <2>3. lock' \in [{"order", "reversal"} -> [Orders -> {"free", "noTTL", "TTL"}]]
    <3>1. \/ lock' = lock
          \/ \E k \in {"order", "reversal"} : lock' = [lock EXCEPT ![k][o] = "free"]
      BY <1>2 DEF KeyExpires
    <3>2. CASE lock' = lock
      BY <3>2 DEF TypeInv, DataOK
    <3> QED
      BY <3>1, <3>2, LockSetTyped DEF TypeInv
  <2> QED
    BY <1>2, <2>1, <2>2, <2>3 DEF KeyExpires, TypeInv, DataOK, shop
<1>3. CASE UNCHANGED vars
  BY <1>3 DEF vars, redis, shop, TypeInv, DataOK, JobsOK, Shape
<1> QED
  BY <1>1, <1>2, <1>3

LEMMA TypeStep == TypeInv /\ [Next]_vars => TypeInv'
  BY LockTyped, ConsumeTyped, SyncTyped, RecoverTyped, ReverseTyped, ThrowTyped,
     EnvironmentTyped DEF Next, Rest

\* Every variable stays in its domain, in every environment.
THEOREM TypeCorrect == Spec => []TypeOK
<1>1. TypeInv => TypeOK
  BY DEF TypeInv, DataOK, JobsOK, TypeOK
<1> QED
  BY TypeInit, TypeStep, <1>1, PTL DEF Spec

-----------------------------------------------------------------------------
(* Without cancellations.  AppliedOnce and CompletedWasPushed are not inductive
   by themselves: they need what each call knows.  A consumer past its execution
   knows that the order was executed, that the rows still EXECUTED are among
   those it has yet to push, and after its loop that none is left, so closing the
   ledger completes nothing unsynchronized. *)

Fresh(o) ==
    /\ gen[o] = 0
    /\ \A r \in Rows : r[1] = o => ledger[r] = "NONE"
    /\ \A c \in Comps : net[c][o] = 0

Applied(o) ==
    /\ gen[o] = 1 /\ Plan(o) # {}
    /\ \A r \in Rows : r[1] = o =>
          /\ ledger[r] \in {"NONE", "EXECUTED", "COMPLETED"}
          /\ ledger[r] # "NONE" <=> r[2] = 1 /\ r[3] \in Plan(o)
    /\ \A c \in Comps : net[c][o] = Qty[o][c]

\* What call p in state j relies on.
Good(p, j) ==
    /\ j.at # "restore" /\ (j.at = "idle" => j.rows = {})
    /\ j.at = "close" => p \in Consumers
    /\ j.at = "execute" => Plan(j.order) # {}
    /\ \A r \in j.rows : r[1] = j.order /\ ledger[r] \in {"EXECUTED", "COMPLETED"}
    /\ j.at \in {"push", "mark"} => j.row \in j.rows
    /\ j.at = "mark" => j.row[3] \in InternalComps \/ j.row \in pushed
    /\ p \in Consumers =>
         /\ j.at \in {"sync", "next", "push", "mark", "setkey", "clear", "close"}
              => gen[j.order] = 1
         /\ j.at \in {"next", "push", "mark"} => RowsIn(j.order, {"EXECUTED"}) \subseteq j.rows
         /\ j.at \in {"setkey", "clear", "close"} => RowsIn(j.order, {"EXECUTED"}) = {}

ConsumeInv ==
    /\ TypeInv
    /\ \A o \in Orders : Fresh(o) \/ Applied(o)
    /\ CompletedWasPushed
    /\ \A p \in Actors : Good(p, job[p])

\* An order with a live row is applied, one without is fresh.
LEMMA LiveIffApplied ==
    ASSUME ConsumeInv, NEW o \in Orders
    PROVE  IF RowsIn(o, Live) = {} THEN Fresh(o) ELSE Applied(o)
<1>1. CASE Applied(o)
  <2>1. PICK c \in Plan(o) : TRUE
    BY <1>1 DEF Applied
  <2>2. <<o, 1, c>> \in Rows
    BY <1>1, <2>1 DEF Applied, Rows, Plan, ConsumeInv, TypeInv, DataOK
  <2>3. ledger[<<o, 1, c>>] \in Live
    BY <1>1, <2>1, <2>2 DEF Applied, Live
  <2>4. <<o, 1, c>> \in RowsIn(o, Live)
    BY <2>2, <2>3 DEF RowsIn
  <2> QED
    BY <1>1, <2>4
<1>2. CASE Fresh(o)
  BY <1>2 DEF Fresh, RowsIn, Live
<1> QED
  BY <1>1, <1>2 DEF ConsumeInv

\* A step that leaves the ledger and the stock alone preserves the invariant
\* when the new state of the call is good.
LEMMA QuietStep ==
    ASSUME ConsumeInv, TypeInv', NEW p \in Actors,
           UNCHANGED <<ledger, gen, net>>, pushed \subseteq pushed',
           \A q \in Actors \ {p} : job'[q] = job[q], Good(p, job[p])'
    PROVE  ConsumeInv'
<1>1. \A o \in Orders : (Fresh(o) \/ Applied(o))'
  BY DEF ConsumeInv, Fresh, Applied
<1>2. CompletedWasPushed'
  BY DEF ConsumeInv, CompletedWasPushed
<1>3. ASSUME NEW q \in Actors PROVE Good(q, job[q])'
  <2>1. CASE q = p
    BY <2>1
  <2>2. CASE q # p
    <3>1. job'[q] = job[q]
      BY <2>2
    <3>2. Good(q, job[q])
      BY DEF ConsumeInv
    <3> QED
      BY <3>1, <3>2 DEF Good, RowsIn
  <2> QED
    BY <2>1, <2>2
<1> QED
  BY <1>1, <1>2, <1>3 DEF ConsumeInv

LEMMA LockConsumes ==
    ASSUME ConsumeInv, Reversers = {}, NEW p \in Actors, LockStep(p)
    PROVE  ConsumeInv'
<1>1. TypeInv' /\ job \in [Actors -> JobType] /\ Good(p, job[p])
  BY LockTyped DEF ConsumeInv, TypeInv, JobsOK
<1>2. CASE SetNx(p)
  <2>1. \A q \in Actors \ {p} : job'[q] = job[q]
    BY <1>1, <1>2 DEF SetNx, Goto, Finish
  <2>2. Good(p, job[p])'
    BY <1>1, <1>2 DEF SetNx, Good, At, Goto, Finish, Idle, JobType, RowsIn
  <2> QED
    BY <1>1, <1>2, <2>1, <2>2, QuietStep DEF SetNx, shop
<1>3. CASE LockBusy(p)
  <2>1. \A q \in Actors \ {p} : job'[q] = job[q]
    BY <1>1, <1>3 DEF LockBusy, Goto, Finish
  <2>2. Good(p, job[p])'
    BY <1>1, <1>3 DEF LockBusy, Good, At, Goto, Finish, Idle, JobType, RowsIn
  <2> QED
    BY <1>1, <1>3, <2>1, <2>2, QuietStep DEF LockBusy, shop
<1>4. CASE ExpireLock(p)
  <2>1. \A q \in Actors \ {p} : job'[q] = job[q]
    BY <1>1, <1>4 DEF ExpireLock, Goto, Finish
  <2>2. Good(p, job[p])'
    BY <1>1, <1>4 DEF ExpireLock, Good, At, Goto, Finish, Idle, JobType, RowsIn, Enter
  <2> QED
    BY <1>1, <1>4, <2>1, <2>2, QuietStep DEF ExpireLock, shop
<1>5. CASE RedisLockThrows(p)
  <2>1. \A q \in Actors \ {p} : job'[q] = job[q]
    BY <1>1, <1>5 DEF RedisLockThrows, Goto, Finish
  <2>2. Good(p, job[p])'
    BY <1>1, <1>5 DEF RedisLockThrows, Good, At, Goto, Finish, Idle, JobType, RowsIn
  <2> QED
    BY <1>1, <1>5, <2>1, <2>2, QuietStep DEF RedisLockThrows, shop
<1>6. CASE PgLock(p)
  <2>1. \A q \in Actors \ {p} : job'[q] = job[q]
    BY <1>1, <1>6 DEF PgLock, Goto, Finish
  <2>2. Good(p, job[p])'
    BY <1>1, <1>6 DEF PgLock, Good, At, Goto, Finish, Idle, JobType, RowsIn, Enter
  <2> QED
    BY <1>1, <1>6, <2>1, <2>2, QuietStep DEF PgLock, shop
<1>7. CASE PgLockBusy(p)
  <2>1. \A q \in Actors \ {p} : job'[q] = job[q]
    BY <1>1, <1>7 DEF PgLockBusy, Goto, Finish
  <2>2. Good(p, job[p])'
    BY <1>1, <1>7 DEF PgLockBusy, Good, At, Goto, Finish, Idle, JobType, RowsIn
  <2> QED
    BY <1>1, <1>7, <2>1, <2>2, QuietStep DEF PgLockBusy, shop
<1>8. CASE Release(p)
  <2>1. \A q \in Actors \ {p} : job'[q] = job[q]
    BY <1>1, <1>8 DEF Release, Goto, Finish
  <2>2. Good(p, job[p])'
    BY <1>1, <1>8 DEF Release, Good, At, Goto, Finish, Idle, JobType, RowsIn
  <2> QED
    BY <1>1, <1>8, <2>1, <2>2, QuietStep DEF Release, shop
<1> QED
  BY <1>2, <1>3, <1>4, <1>5, <1>6, <1>7, <1>8 DEF LockStep

LEMMA RecoverConsumes ==
    ASSUME ConsumeInv, Reversers = {}, NEW p \in Actors, RecoverStep(p)
    PROVE  ConsumeInv'
<1>1. TypeInv' /\ job \in [Actors -> JobType] /\ Good(p, job[p])
  BY RecoverTyped DEF ConsumeInv, TypeInv, JobsOK
<1>2. CASE RecoverClear(p)
  <2>1. \A q \in Actors \ {p} : job'[q] = job[q]
    BY <1>1, <1>2 DEF RecoverClear, Goto, Finish
  <2>2. Good(p, job[p])'
    BY <1>1, <1>2 DEF RecoverClear, Good, At, Goto, Finish, Idle, JobType, RowsIn
  <2> QED
    BY <1>1, <1>2, <2>1, <2>2, QuietStep DEF RecoverClear, shop
<1>3. ASSUME NEW o \in Orders, RecoverPending(p, o) PROVE ConsumeInv'
  <2>1. \A q \in Actors \ {p} : job'[q] = job[q]
    BY <1>1, <1>3 DEF RecoverPending, Goto, Finish
  <2>2. Good(p, job[p])'
    BY <1>1, <1>3, ConstantsAssumption
       DEF RecoverPending, Good, At, JobType
  <2> QED
    BY <1>1, <1>3, <2>1, <2>2, QuietStep DEF RecoverPending, shop
<1>4. ASSUME NEW o \in Orders, RecoverOrphan(p, o) PROVE ConsumeInv'
  <2>1. \A q \in Actors \ {p} : job'[q] = job[q]
    BY <1>1, <1>4 DEF RecoverOrphan, Goto, Finish
  <2>2. Good(p, job[p])'
    BY <1>1, <1>4, ConstantsAssumption
       DEF RecoverOrphan, Good, At, JobType
  <2> QED
    BY <1>1, <1>4, <2>1, <2>2, QuietStep DEF RecoverOrphan, shop
<1> QED
  BY <1>2, <1>3, <1>4 DEF RecoverStep

LEMMA ConsumeConsumes ==
    ASSUME ConsumeInv, Reversers = {}, NEW p \in Actors, ConsumeStep(p)
    PROVE  ConsumeInv'
<1>1. TypeInv' /\ job \in [Actors -> JobType] /\ Good(p, job[p])
  BY ConsumeTyped DEF ConsumeInv, TypeInv, JobsOK
<1>2. ASSUME NEW o \in Orders, ConsumeStart(p, o) PROVE ConsumeInv'
  <2>1. \A q \in Actors \ {p} : job'[q] = job[q]
    BY <1>1, <1>2 DEF ConsumeStart, Goto, Finish
  <2>2. Good(p, job[p])'
    BY <1>1, <1>2 DEF ConsumeStart, Good, At, Goto, Finish, Idle, JobType, RowsIn
  <2> QED
    BY <1>1, <1>2, <2>1, <2>2, QuietStep DEF ConsumeStart, shop
<1>3. CASE CheckLedger(p)
  <2>1. \A q \in Actors \ {p} : job'[q] = job[q]
    BY <1>1, <1>3 DEF CheckLedger, Goto, Finish
  <2>2. Good(p, job[p])'
    <3>1. RowsIn(job[p].order, Live) # {} => gen[job[p].order] = 1
      BY <1>1, <1>3, LiveIffApplied, OrderTyped DEF Applied, CheckLedger, At, TypeInv, ConsumeInv
    <3> QED
      BY <1>1, <1>3, <3>1 DEF CheckLedger, Good, At, Goto, JobType, RowsIn
  <2> QED
    BY <1>1, <1>3, <2>1, <2>2, QuietStep DEF CheckLedger, shop
<1>4. CASE PlanEmpty(p)
  <2>1. \A q \in Actors \ {p} : job'[q] = job[q]
    BY <1>1, <1>4 DEF PlanEmpty, Goto, Finish
  <2>2. Good(p, job[p])'
    BY <1>1, <1>4 DEF PlanEmpty, Good, At, Goto, Finish, Idle, JobType, RowsIn
  <2> QED
    BY <1>1, <1>4, <2>1, <2>2, QuietStep DEF PlanEmpty, shop
<1>5. CASE Track(p)
  <2>1. \A q \in Actors \ {p} : job'[q] = job[q]
    BY <1>1, <1>5 DEF Track, Goto, Finish
  <2>2. Good(p, job[p])'
    BY <1>1, <1>5 DEF Track, Good, At, Goto, Finish, Idle, JobType, RowsIn
  <2> QED
    BY <1>1, <1>5, <2>1, <2>2, QuietStep DEF Track, shop
<1>6. CASE Execute(p)
  <2>1. PICK o \in Orders :
          o = job[p].order /\ (IF RowsIn(o, Live) = {} THEN Fresh(o) ELSE Applied(o))
    BY <1>6, LiveIffApplied, OrderTyped DEF ConsumeInv, TypeInv, Execute, At
  <2>2. \A q \in Actors \ {p} : job'[q] = job[q]
    BY <1>1, <1>6 DEF Execute, Goto
  <2>3. CASE Applied(o)
    <3>1. UNCHANGED <<ledger, gen, net>>
      BY <2>1, <2>3, <1>6 DEF Execute, Applied, Fresh
    <3>2. Good(p, job[p])'
      BY <1>1, <2>1, <2>3, <3>1, <1>6 DEF Execute, Applied, Good, At, Goto, JobType, RowsIn, shop
    <3> QED
      BY <1>1, <1>6, <2>2, <3>1, <3>2, QuietStep DEF Execute, shop
  <2>4. CASE Fresh(o)
    <3>1. Deduct(o) /\ gen[o] = 0
      BY <2>1, <2>4, <1>6 DEF Execute, Applied, Fresh
    <3>2. \A r \in Rows : r[1] # o => ledger'[r] = ledger[r]
      BY <3>1 DEF Deduct
    <3>3. \A r \in Rows : r[1] = o => ledger'[r] = IF r[2] = 1 /\ r[3] \in Plan(o)
                                                  THEN "EXECUTED" ELSE "NONE"
      BY <2>4, <3>1 DEF Deduct, Fresh
    <3>4. gen' = [gen EXCEPT ![o] = 1]
      BY <3>1 DEF Deduct
    <3>5. Applied(o)'
      <4>1. gen'[o] = 1 /\ Plan(o) # {}
        BY <1>1, <2>1, <3>4, <1>6 DEF Good, Execute, At, ConsumeInv, TypeInv, DataOK
      <4>2. \A c \in Comps : net'[c][o] = Qty[o][c]
        <5>1. ASSUME NEW c \in Comps PROVE net'[c][o] = Qty[o][c]
          <6>1. Qty[o][c] \in Nat /\ net[c] \in [Orders -> Int] /\ net[c][o] = 0
            BY <2>4, ConstantsAssumption DEF Fresh, ConsumeInv, TypeInv, DataOK
          <6>2. net'[c] = [net[c] EXCEPT ![o] = @ + Qty[o][c]]
            BY <3>1 DEF Deduct
          <6> QED
            BY <6>1, <6>2
        <5> QED
          BY <5>1
      <4> QED
        BY <3>3, <4>1, <4>2 DEF Applied, Plan
    <3>6. ASSUME NEW o2 \in Orders, o2 # o PROVE (Fresh(o2) \/ Applied(o2))'
      <4>1. gen'[o2] = gen[o2]
        BY <3>4, <3>6 DEF ConsumeInv, TypeInv, DataOK
      <4>2. \A c \in Comps : net'[c][o2] = net[c][o2]
        BY <3>1, <3>6 DEF Deduct, ConsumeInv, TypeInv, DataOK
      <4>3. Fresh(o2) \/ Applied(o2)
        BY DEF ConsumeInv
      <4> QED
        BY <3>2, <3>6, <4>1, <4>2, <4>3 DEF Fresh, Applied, Plan
    <3>7. CompletedWasPushed'
      BY <3>2, <3>3, <1>6 DEF ConsumeInv, CompletedWasPushed, Execute, shop
    <3>8. ASSUME NEW q \in Actors PROVE Good(q, job[q])'
      <4>1. Good(q, job[q])
        BY DEF ConsumeInv
      <4>2. job[q].rows \subseteq Rows
        BY <1>1 DEF JobType
      <4>3. CASE q = p
        <5>1. job'[p].at = "sync" /\ job'[p].order = o /\ job'[p].rows = job[p].rows
          BY <1>1, <2>1, <1>6 DEF Execute, Goto, JobType
        <5>2. job[p].rows = {}
          BY <2>1, <2>4, <4>1, <4>2, <4>3 DEF Good, Fresh
        <5> QED
          BY <3>5, <4>3, <5>1, <5>2 DEF Good, Applied
      <4>4. CASE q # p
        <5>1. job'[q] = job[q]
          BY <2>2, <4>4
        <5>2. CASE job[q].order = o
          <6>1. job[q].rows = {}
            BY <2>4, <4>1, <4>2, <5>2 DEF Good, Fresh
          <6>2. q \in Consumers =>
                  job[q].at \notin {"sync", "next", "push", "mark", "setkey", "clear", "close"}
            BY <4>1, <5>2, <3>1 DEF Good
          <6> QED
            BY <4>1, <5>1, <6>1, <6>2, <1>6 DEF Good, Execute, shop, Plan
        <5>3. CASE job[q].order # o
          <6>1. \A r \in job[q].rows : ledger'[r] = ledger[r]
            BY <3>2, <4>1, <4>2, <5>3 DEF Good
          <6>2. RowsIn(job[q].order, {"EXECUTED"})' = RowsIn(job[q].order, {"EXECUTED"})
            BY <3>2, <5>1, <5>3 DEF RowsIn
          <6>3. gen'[job[q].order] = gen[job[q].order]
            BY <3>4, <5>3 DEF ConsumeInv, TypeInv, DataOK
          <6> QED
            BY <4>1, <5>1, <6>1, <6>2, <6>3, <1>6 DEF Good, Execute, shop, Plan
        <5> QED
          BY <5>2, <5>3
      <4> QED
        BY <4>3, <4>4
    <3> QED
      BY <1>1, <3>5, <3>6, <3>7, <3>8 DEF ConsumeInv
  <2> QED
    BY <2>1, <2>3, <2>4
<1>7. CASE SetConsumed(p)
  <2>1. \A q \in Actors \ {p} : job'[q] = job[q]
    BY <1>1, <1>7 DEF SetConsumed, Goto, Finish
  <2>2. Good(p, job[p])'
    BY <1>1, <1>7 DEF SetConsumed, Good, At, Goto, Finish, Idle, JobType, RowsIn
  <2> QED
    BY <1>1, <1>7, <2>1, <2>2, QuietStep DEF SetConsumed, shop
<1>8. CASE ClearPending(p)
  <2>1. \A q \in Actors \ {p} : job'[q] = job[q]
    BY <1>1, <1>8 DEF ClearPending, Goto, Finish
  <2>2. Good(p, job[p])'
    BY <1>1, <1>8 DEF ClearPending, Good, At, Goto, Finish, Idle, JobType, RowsIn
  <2> QED
    BY <1>1, <1>8, <2>1, <2>2, QuietStep DEF ClearPending, shop
<1>9. CASE CloseLedger(p)
  <2>1. RowsIn(job[p].order, {"EXECUTED"}) = {}
    BY <1>1, <1>9 DEF CloseLedger, Good, At
  <2>2. ledger' = ledger
    BY <2>1, <1>9 DEF CloseLedger, Promote, RowsIn, ConsumeInv, TypeInv, DataOK
  <2>3. \A q \in Actors \ {p} : job'[q] = job[q]
    BY <1>1, <1>9 DEF CloseLedger, Goto
  <2>4. Good(p, job[p])'
    BY <1>1, <2>2, <1>9 DEF CloseLedger, Good, At, Goto, JobType, RowsIn
  <2> QED
    BY <1>1, <1>9, <2>2, <2>3, <2>4, QuietStep DEF CloseLedger, shop
<1> QED
  BY <1>2, <1>3, <1>4, <1>5, <1>6, <1>7, <1>8, <1>9 DEF ConsumeStep

LEMMA SyncConsumes ==
    ASSUME ConsumeInv, Reversers = {}, NEW p \in Actors, SyncStep(p)
    PROVE  ConsumeInv'
<1>1. TypeInv' /\ job \in [Actors -> JobType] /\ Good(p, job[p])
  BY SyncTyped DEF ConsumeInv, TypeInv, JobsOK
<1>2. CASE SyncSnapshot(p)
  <2>1. \A q \in Actors \ {p} : job'[q] = job[q]
    BY <1>1, <1>2 DEF SyncSnapshot, Goto, Finish
  <2>2. Good(p, job[p])'
    <3>1. \A r \in RowsIn(job[p].order, {"EXECUTED"}) : r[1] = job[p].order /\ ledger[r] = "EXECUTED"
      BY DEF RowsIn
    <3> QED
      BY <1>1, <1>2, <3>1 DEF SyncSnapshot, Good, At, JobType, RowsIn
  <2> QED
    BY <1>1, <1>2, <2>1, <2>2, QuietStep DEF SyncSnapshot, shop
<1>3. CASE PushUnanswered(p)
  <2>1. \A q \in Actors \ {p} : job'[q] = job[q]
    BY <1>1, <1>3 DEF PushUnanswered, Goto, Finish
  <2>2. Good(p, job[p])'
    BY <1>1, <1>3 DEF PushUnanswered, Attempt, Good, At, RowsIn
  <2> QED
    BY <1>1, <1>3, <2>1, <2>2, QuietStep DEF PushUnanswered, shop, Attempt
<1>4. CASE PushAnswered(p)
  <2>1. \A q \in Actors \ {p} : job'[q] = job[q]
    BY <1>1, <1>4 DEF PushAnswered, Goto, Finish
  <2>2. Good(p, job[p])'
    BY <1>1, <1>4 DEF PushAnswered, Attempt, Good, At, Goto, JobType, RowsIn
  <2> QED
    BY <1>1, <1>4, <2>1, <2>2, QuietStep DEF PushAnswered, shop, Attempt
<1>5. CASE SyncMark(p)
  <2>1. PICK r \in Rows :
          /\ r = job[p].row /\ r \in job[p].rows /\ r[1] = job[p].order
          /\ ledger[r] \in {"EXECUTED", "COMPLETED"}
          /\ r[3] \in InternalComps \/ r \in pushed
    BY <1>1, <1>5 DEF SyncMark, Good, At, JobType
  <2>2. \A q \in Actors \ {p} : job'[q] = job[q]
    BY <1>1, <1>5 DEF SyncMark
  <2>3. ledger' = [ledger EXCEPT ![r] = "COMPLETED"] /\ UNCHANGED <<gen, net, pushed>>
    BY <2>1, <1>5 DEF SyncMark, shop
  <2>4. ledger \in [Rows -> Status]
    BY DEF ConsumeInv, TypeInv, DataOK
  <2>5. ASSUME NEW o \in Orders PROVE (Fresh(o) \/ Applied(o))'
    <3>1. CASE Fresh(o)
      <4>1. r[1] # o
        BY <2>1, <3>1 DEF Fresh
      <4> QED
        BY <2>3, <2>4, <3>1, <4>1 DEF Fresh
    <3>2. CASE Applied(o)
      BY <2>1, <2>3, <2>4, <3>2 DEF Applied, Plan
    <3> QED
      BY <3>1, <3>2 DEF ConsumeInv
  <2>6. CompletedWasPushed'
    BY <2>1, <2>3, <2>4 DEF ConsumeInv, CompletedWasPushed
  <2>7. ASSUME NEW q \in Actors PROVE Good(q, job[q])'
    <3>1. Good(q, job[q]) /\ job[q].rows \subseteq Rows
      BY <1>1 DEF ConsumeInv, JobType
    <3>2. \A r2 \in job[q].rows : ledger'[r2] \in {"EXECUTED", "COMPLETED"}
      BY <2>3, <2>4, <3>1 DEF Good
    <3>3. RowsIn(job[q].order, {"EXECUTED"})' \subseteq RowsIn(job'[q].order, {"EXECUTED"}) \ {r}
      BY <2>3, <2>4 DEF RowsIn
    <3>4. CASE q = p
      <4> DEFINE v == [job[p] EXCEPT !.at = "next", !.rows = job[p].rows \ {job[p].row},
                                     !.row = NoRow, !.stock = Zero]
      <4>1. job' = [job EXCEPT ![p] = v]
        BY <1>5 DEF SyncMark
      <4>2. job[p] \in JobType /\ job'[p] = v
        BY <1>1, <4>1
      <4>3. v.at = "next" /\ v.order = job[p].order /\ v.rows = job[p].rows \ {r}
        BY <2>1, <4>2 DEF JobType
      <4> QED
        BY <2>3, <3>1, <3>2, <3>3, <3>4, <4>2, <4>3, <1>5 DEF Good, SyncMark, At
    <3>5. CASE q # p
      BY <2>2, <2>3, <3>1, <3>2, <3>3, <3>5 DEF Good
    <3> QED
      BY <3>4, <3>5
  <2> QED
    BY <1>1, <2>5, <2>6, <2>7 DEF ConsumeInv
<1>6. CASE SyncDone(p)
  <2>1. \A q \in Actors \ {p} : job'[q] = job[q]
    BY <1>1, <1>6 DEF SyncDone, Goto, Finish
  <2>2. Good(p, job[p])'
    BY <1>1, <1>6 DEF SyncDone, Good, At, Goto, Finish, Idle, JobType, RowsIn, AfterSync
  <2> QED
    BY <1>1, <1>6, <2>1, <2>2, QuietStep DEF SyncDone, shop
<1>7. ASSUME NEW r \in job[p].rows, SyncRead(p, r) PROVE ConsumeInv'
  <2>1. \A q \in Actors \ {p} : job'[q] = job[q]
    BY <1>1, <1>7 DEF SyncRead, Goto, Finish
  <2>2. Good(p, job[p])'
    BY <1>1, <1>7 DEF SyncRead, Good, At, Goto, Finish, Idle, JobType, RowsIn
  <2> QED
    BY <1>1, <1>7, <2>1, <2>2, QuietStep DEF SyncRead, shop
<1> QED
  BY <1>2, <1>3, <1>4, <1>5, <1>6, <1>7 DEF SyncStep

LEMMA ThrowConsumes ==
    ASSUME ConsumeInv, Reversers = {}, NEW p \in Actors, Throw(p)
    PROVE  ConsumeInv'
<1>1. TypeInv' /\ job \in [Actors -> JobType]
  BY ThrowTyped DEF ConsumeInv, TypeInv, JobsOK
<1>2. \A q \in Actors \ {p} : job'[q] = job[q]
  BY <1>1 DEF Throw, Finish
<1>3. job'[p].at \in {"idle", "release"} /\ job'[p].rows = {}
  <2>1. \/ job' = [job EXCEPT ![p] = Idle]
        \/ job' = [job EXCEPT ![p] = [Idle EXCEPT !.at = "release",
                                 !.order = job[p].order, !.held = job[p].held]]
    BY DEF Throw, Finish
  <2>2. job'[p] = Idle \/ job'[p] = [Idle EXCEPT !.at = "release",
                                 !.order = job[p].order, !.held = job[p].held]
    BY <1>1, <2>1
  <2>3. CASE job'[p] = Idle
    BY <2>3 DEF Idle
  <2>4. CASE job'[p] = [Idle EXCEPT !.at = "release",
                                 !.order = job[p].order, !.held = job[p].held]
    BY <2>4, IdleTyped DEF Idle, JobType
  <2> QED
    BY <2>2, <2>3, <2>4
<1>4. Good(p, job[p])'
  BY <1>3 DEF Good
<1> QED
  BY <1>1, <1>2, <1>4, QuietStep DEF Throw, shop

LEMMA ReverseAbsent ==
    ASSUME ConsumeInv, Reversers = {}, NEW p \in Actors, ReverseStep(p)
    PROVE  job[p].at = "delkey"
<1>1. job[p].at # "restore" /\ p \notin Reversers
  BY DEF ConsumeInv, Good
<1> QED
  BY <1>1 DEF ReverseStep, ReverseStart, RestorePushed, MarkReversed, ClearConsumed,
              Restore, RestoreSkipped, At

LEMMA ReverseConsumes ==
    ASSUME ConsumeInv, Reversers = {}, NEW p \in Actors, ReverseStep(p)
    PROVE  ConsumeInv'
<1>1. TypeInv' /\ job \in [Actors -> JobType] /\ Good(p, job[p])
  BY ReverseTyped DEF ConsumeInv, TypeInv, JobsOK
<1>2. ClearConsumed(p)
  BY ReverseAbsent DEF ReverseStep, ReverseStart, RestorePushed, MarkReversed,
                       Restore, RestoreSkipped, At
<1>3. \A q \in Actors \ {p} : job'[q] = job[q]
  BY <1>1, <1>2 DEF ClearConsumed, Goto
<1>4. Good(p, job[p])'
  BY <1>1, <1>2 DEF ClearConsumed, Good, At, Goto, JobType, RowsIn
<1> QED
  BY <1>1, <1>2, <1>3, <1>4, QuietStep DEF ClearConsumed, shop

LEMMA EnvironmentConsumes ==
    ASSUME ConsumeInv, Crash \/ (\E o \in Orders : KeyExpires(o)) \/ UNCHANGED vars
    PROVE  ConsumeInv'
<1>1. TypeInv'
  BY EnvironmentTyped DEF ConsumeInv
<1>2. UNCHANGED <<ledger, gen, net, pushed>>
  BY DEF Crash, KeyExpires, vars, shop
<1>3. \A p \in Actors : job'[p] = job[p] \/ job'[p] = Idle
  BY DEF Crash, KeyExpires, vars
<1>4. ASSUME NEW p \in Actors PROVE Good(p, job[p])'
  <2>1. CASE job'[p] = job[p]
    BY <1>2, <2>1 DEF ConsumeInv, Good, RowsIn
  <2>2. CASE job'[p] = Idle
    BY <2>2 DEF Good, Idle
  <2> QED
    BY <1>3, <2>1, <2>2
<1> QED
  BY <1>1, <1>2, <1>4 DEF ConsumeInv, Fresh, Applied, CompletedWasPushed

LEMMA ConsumeInit == Init => ConsumeInv
<1> SUFFICES ASSUME Init PROVE ConsumeInv
  OBVIOUS
<1>1. \A o \in Orders : Fresh(o)
  BY DEF Init, Fresh, Zero
<1>2. CompletedWasPushed
  BY DEF Init, CompletedWasPushed
<1>3. \A p \in Actors : Good(p, job[p])
  BY DEF Init, Good, Idle
<1> QED
  BY <1>1, <1>2, <1>3, TypeInit DEF ConsumeInv

LEMMA ConsumeStepInv == Reversers = {} /\ ConsumeInv /\ [Next]_vars => ConsumeInv'
  BY LockConsumes, ConsumeConsumes, SyncConsumes, RecoverConsumes, ReverseConsumes,
     ThrowConsumes, EnvironmentConsumes DEF Next, Rest

LEMMA ConsumeInvApplied == ConsumeInv => AppliedOnce
<1> SUFFICES ASSUME ConsumeInv PROVE AppliedOnce
  OBVIOUS
<1>1. ASSUME NEW o \in Orders, NEW c \in Comps PROVE net[c][o] = Taken(o, c)
  <2>1. \A g \in 1..MaxGen : <<o, g, c>> \in Rows
    BY DEF Rows
  <2>2. CASE Fresh(o)
    BY <2>1, <2>2 DEF Fresh, Taken, Live
  <2>3. CASE Applied(o)
    <3>1. 1 \in 1..MaxGen /\ Qty[o][c] \in Nat
      BY <2>3, ConstantsAssumption DEF Applied, ConsumeInv, TypeInv, DataOK
    <3>2. \A g \in 1..MaxGen : ledger[<<o, g, c>>] \in Live <=> g = 1 /\ c \in Plan(o)
      BY <2>1, <2>3 DEF Applied, Live
    <3> QED
      BY <2>3, <3>1, <3>2 DEF Applied, Taken, Plan
  <2> QED
    BY <2>2, <2>3 DEF ConsumeInv
<1>2. \A o \in Orders : gen[o] <= 1
  BY DEF ConsumeInv, Fresh, Applied
<1> QED
  BY <1>1, <1>2 DEF AppliedOnce, LedgerBalanced

\* Without cancellations an order is deducted once and exactly, whatever crashes,
\* expires, throws or overlaps.
THEOREM DeductedOnce == ASSUME Reversers = {} PROVE Spec => []AppliedOnce
  BY ConsumeInit, ConsumeStepInv, ConsumeInvApplied, PTL DEF Spec

\* Without cancellations a deduction is completed only after WooCommerce was sent
\* a stock that includes it.
THEOREM PushedBeforeCompleted == ASSUME Reversers = {} PROVE Spec => []CompletedWasPushed
<1>1. ConsumeInv => CompletedWasPushed
  BY DEF ConsumeInv
<1> QED
  BY ConsumeInit, ConsumeStepInv, <1>1, PTL DEF Spec

-----------------------------------------------------------------------------
(* Refinement of DeductionOnce.  Only four kinds of step are visible to it: the
   executing transaction, an attempted push, the marking of a row, and, were a row
   left to complete, the closing of the ledger. *)

Seen == <<{o \in Orders : gen[o] > 0}, net,
          {oc \in Orders \X Comps : \E g \in 1..MaxGen : <<oc[1], g, oc[2]>> \in pushed},
          {oc \in Orders \X Comps :
             \E g \in 1..MaxGen : ledger[<<oc[1], g, oc[2]>>] = "COMPLETED"}>>

\* A step that changes none of the four variables the mapping reads stutters.
LEMMA HiddenStep ==
    ASSUME UNCHANGED <<ledger, gen, net, pushed>>
    PROVE  UNCHANGED Seen
  BY DEF Seen

LEMMA ExecuteImplements ==
    ASSUME ConsumeInv, NEW p \in Actors, Execute(p)
    PROVE  Once!Next \/ UNCHANGED Seen
<1>1. PICK o \in Orders :
        o = job[p].order /\ (IF RowsIn(o, Live) = {} THEN Fresh(o) ELSE Applied(o))
  BY LiveIffApplied, OrderTyped DEF ConsumeInv, TypeInv, Execute, At
<1>2. CASE UNCHANGED <<ledger, gen, net>>
  BY <1>2, HiddenStep DEF Execute, shop
<1>3. CASE Deduct(o) /\ Fresh(o)
  <2>1. gen' = [gen EXCEPT ![o] = 1] /\ gen \in [Orders -> Int] /\ gen[o] = 0
    BY <1>3 DEF Deduct, Fresh, ConsumeInv, TypeInv, DataOK
  <2>2. {q \in Orders : gen'[q] > 0} = {q \in Orders : gen[q] > 0} \cup {o}
    BY <2>1
  <2>3. net' = [c \in Comps |-> [net[c] EXCEPT ![o] = Qty[o][c]]]
    <3>1. ASSUME NEW c \in Comps
          PROVE  [net[c] EXCEPT ![o] = @ + Qty[o][c]] = [net[c] EXCEPT ![o] = Qty[o][c]]
      <4>1. Qty[o][c] \in Nat /\ net[c] \in [Orders -> Int] /\ net[c][o] = 0
        BY <1>3, ConstantsAssumption DEF Fresh, ConsumeInv, TypeInv, DataOK
      <4>2. net[c][o] + Qty[o][c] = Qty[o][c]
        BY <4>1
      <4> QED
        BY <4>2
    <3> QED
      BY <1>3, <3>1 DEF Deduct
  <2>4. \A r \in Rows : ledger'[r] = "COMPLETED" <=> ledger[r] = "COMPLETED"
    BY <1>3 DEF Deduct, Fresh
  <2>5. {oc \in Orders \X Comps :
             \E g \in 1..MaxGen : ledger'[<<oc[1], g, oc[2]>>] = "COMPLETED"}
        = {oc \in Orders \X Comps :
             \E g \in 1..MaxGen : ledger[<<oc[1], g, oc[2]>>] = "COMPLETED"}
    BY <2>4 DEF Rows
  <2>6. Once!Apply(o)
    <3>1. o \notin {q \in Orders : gen[q] > 0}
      BY <2>1
    <3>2. pushed' = pushed
      BY DEF Execute, shop
    <3> QED
      BY <2>2, <2>3, <2>5, <3>1, <3>2 DEF Once!Apply
  <2> QED
    BY <2>6 DEF Once!Next
<1> QED
  BY <1>1, <1>2, <1>3 DEF Execute, Applied, Fresh

LEMMA PushImplements ==
    ASSUME ConsumeInv, NEW p \in Actors, PushUnanswered(p) \/ PushAnswered(p)
    PROVE  Once!Next \/ UNCHANGED Seen
<1>1. At(p, "push") /\ UNCHANGED <<ledger, gen, net>> /\ Attempt(p)
  BY DEF PushUnanswered, PushAnswered
<1>2. CASE pushed' = pushed
  BY <1>1, <1>2, HiddenStep
<1>3. CASE pushed' = pushed \cup {job[p].row}
  <2>1. PICK o \in Orders, g \in 1..MaxGen, c \in Comps : job[p].row = <<o, g, c>>
    BY <1>1 DEF At, ConsumeInv, TypeInv, JobsOK, Shape, Rows
  <2>2. ledger[<<o, g, c>>] \in {"EXECUTED", "COMPLETED"} /\ <<o, g, c>> \in Rows
    BY <1>1, <2>1 DEF ConsumeInv, Good, At, Rows
  <2>3. gen[o] > 0
    BY <2>2 DEF ConsumeInv, Fresh, Applied
  <2>4. {oc \in Orders \X Comps : \E h \in 1..MaxGen : <<oc[1], h, oc[2]>> \in pushed'}
        = {oc \in Orders \X Comps : \E h \in 1..MaxGen : <<oc[1], h, oc[2]>> \in pushed}
          \cup {<<o, c>>}
    BY <1>3, <2>1
  <2>5. Once!Tell(o, c)
    BY <1>1, <2>3, <2>4 DEF Once!Tell
  <2> QED
    BY <2>5 DEF Once!Next
<1> QED
  BY <1>1, <1>2, <1>3 DEF Attempt

LEMMA MarkImplements ==
    ASSUME ConsumeInv, NEW p \in Actors, SyncMark(p)
    PROVE  Once!Next \/ UNCHANGED Seen
<1>1. PICK o \in Orders, g \in 1..MaxGen, c \in Comps : job[p].row = <<o, g, c>>
  BY DEF SyncMark, At, ConsumeInv, TypeInv, JobsOK, Shape, Rows
<1>2. /\ <<o, g, c>> \in Rows /\ ledger[<<o, g, c>>] \in {"EXECUTED", "COMPLETED"}
      /\ c \in InternalComps \/ <<o, g, c>> \in pushed
  BY <1>1 DEF SyncMark, At, ConsumeInv, Good, Rows
<1>3. gen[o] > 0
  BY <1>2 DEF ConsumeInv, Fresh, Applied
<1>4. ledger' = [ledger EXCEPT ![<<o, g, c>>] = "COMPLETED"] /\ ledger \in [Rows -> Status]
      /\ UNCHANGED <<gen, net, pushed>>
  BY <1>1 DEF SyncMark, shop, ConsumeInv, TypeInv, DataOK
<1>5. {oc \in Orders \X Comps :
          \E h \in 1..MaxGen : ledger'[<<oc[1], h, oc[2]>>] = "COMPLETED"}
      = {oc \in Orders \X Comps :
          \E h \in 1..MaxGen : ledger[<<oc[1], h, oc[2]>>] = "COMPLETED"} \cup {<<o, c>>}
  <2>1. ASSUME NEW oc \in Orders \X Comps, NEW h \in 1..MaxGen
        PROVE  ledger'[<<oc[1], h, oc[2]>>] = "COMPLETED"
               <=> \/ ledger[<<oc[1], h, oc[2]>>] = "COMPLETED"
                   \/ oc = <<o, c>> /\ h = g
    <3>1. <<oc[1], h, oc[2]>> \in Rows
      BY DEF Rows
    <3>2. <<oc[1], h, oc[2]>> = <<o, g, c>> <=> oc = <<o, c>> /\ h = g
      OBVIOUS
    <3> QED
      BY <1>2, <1>4, <3>1, <3>2
  <2>2. ASSUME NEW oc \in Orders \X Comps
        PROVE  (\E h \in 1..MaxGen : ledger'[<<oc[1], h, oc[2]>>] = "COMPLETED")
               <=> \/ \E h \in 1..MaxGen : ledger[<<oc[1], h, oc[2]>>] = "COMPLETED"
                   \/ oc = <<o, c>>
    BY <2>1
  <2>3. <<o, c>> \in Orders \X Comps
    OBVIOUS
  <2> QED
    BY <2>2, <2>3
<1>6. Once!Complete(o, c)
  BY <1>2, <1>3, <1>4, <1>5 DEF Once!Complete
<1> QED
  BY <1>6 DEF Once!Next

LEMMA CloseImplements ==
    ASSUME ConsumeInv, NEW p \in Actors, CloseLedger(p)
    PROVE  UNCHANGED Seen
<1>1. RowsIn(job[p].order, {"EXECUTED"}) = {}
  BY DEF CloseLedger, ConsumeInv, Good, At
<1>2. ledger' = ledger
  BY <1>1 DEF CloseLedger, Promote, RowsIn, ConsumeInv, TypeInv, DataOK
<1> QED
  BY <1>2, HiddenStep DEF CloseLedger, shop

LEMMA StepImplements ==
    ASSUME ConsumeInv, Reversers = {}, [Next]_vars
    PROVE  Once!Next \/ UNCHANGED Seen
<1>1. ASSUME NEW p \in Actors, LockStep(p) \/ RecoverStep(p) \/ Throw(p)
      PROVE  UNCHANGED Seen
  BY <1>1, HiddenStep DEF LockStep, SetNx, LockBusy, ExpireLock, RedisLockThrows, PgLock,
     PgLockBusy, Release, RecoverStep, RecoverPending, RecoverOrphan, RecoverClear, Throw, shop
<1>2. ASSUME NEW p \in Actors, ConsumeStep(p) PROVE Once!Next \/ UNCHANGED Seen
  BY <1>2, HiddenStep, ExecuteImplements, CloseImplements
     DEF ConsumeStep, ConsumeStart, CheckLedger, PlanEmpty, Track, SetConsumed, ClearPending, shop
<1>3. ASSUME NEW p \in Actors, SyncStep(p) PROVE Once!Next \/ UNCHANGED Seen
  BY <1>3, HiddenStep, PushImplements, MarkImplements
     DEF SyncStep, SyncSnapshot, SyncDone, SyncRead, shop
<1>4. ASSUME NEW p \in Actors, ReverseStep(p) PROVE UNCHANGED Seen
  <2>1. ClearConsumed(p)
    BY <1>4, ReverseAbsent DEF ReverseStep, ReverseStart, RestorePushed, MarkReversed,
                               Restore, RestoreSkipped, At
  <2> QED
    BY <2>1, HiddenStep DEF ClearConsumed, shop
<1>5. ASSUME Crash \/ (\E o \in Orders : KeyExpires(o)) \/ UNCHANGED vars
      PROVE  UNCHANGED Seen
  BY <1>5, HiddenStep DEF Crash, KeyExpires, vars, shop
<1> QED
  BY <1>1, <1>2, <1>3, <1>4, <1>5 DEF Next, Rest

\* Without cancellations the consumption service implements the deduction that
\* takes each order once and as a whole.
THEOREM Refinement == ASSUME Reversers = {} PROVE Spec => ImplementsOnce
<1>1. Init => Once!Init
  <2> SUFFICES ASSUME Init PROVE Once!Init
    OBVIOUS
  <2>1. {o \in Orders : gen[o] > 0} = {}
    BY DEF Init
  <2>2. \A oc \in Orders \X Comps, g \in 1..MaxGen : ledger[<<oc[1], g, oc[2]>>] = "NONE"
    BY DEF Init, Rows
  <2> QED
    BY <2>1, <2>2 DEF Init, Once!Init, Zero
<1>2. ConsumeInv /\ [Next]_vars => [Once!Next]_Seen
  BY StepImplements
<1> QED
  BY ConsumeInit, ConsumeStepInv, <1>1, <1>2, PTL DEF Spec, ImplementsOnce, Once!Spec, Seen
-----------------------------------------------------------------------------
(* Cancellations.  The rows that await WooCommerce belong to the latest
   execution because a new execution starts from no live row (LatestOnly holds
   in every environment), so the types are all the invariant that is needed. *)

\* What a step may do to the rows that await WooCommerce.
LEMMA PendingSteps ==
    ASSUME TypeInv, [Next]_vars
    PROVE  \/ /\ gen' = gen
              /\ \A r \in Rows : ledger'[r] = "EXECUTED" => ledger[r] = "EXECUTED"
           \/ \E o \in Orders : RowsIn(o, Live) = {} /\ Deduct(o)
<1> DEFINE Same == /\ gen' = gen
                   /\ \A r \in Rows : ledger'[r] = "EXECUTED" => ledger[r] = "EXECUTED"
           Anew == \E o \in Orders : RowsIn(o, Live) = {} /\ Deduct(o)
<1>1. ledger' = ledger /\ gen' = gen => Same
  OBVIOUS
<1>2. ASSUME NEW p \in Actors, CloseLedger(p) \/ MarkReversed(p) PROVE Same
  BY <1>2 DEF CloseLedger, MarkReversed, Promote
<1>3. ASSUME NEW p \in Actors, SyncMark(p) PROVE Same
  BY <1>3 DEF SyncMark, TypeInv, DataOK
<1>4. ASSUME NEW p \in Actors, Execute(p) PROVE Same \/ Anew
  <2>1. job[p].order \in Orders
    BY <1>4, OrderTyped DEF TypeInv, Execute, At
  <2> QED
    BY <1>1, <1>4, <2>1 DEF Execute
<1> HIDE DEF Same, Anew
<1>5. ASSUME NEW p \in Actors, LockStep(p) PROVE Same
  BY <1>1, <1>5 DEF LockStep, SetNx, LockBusy, ExpireLock, RedisLockThrows, PgLock,
     PgLockBusy, Release
<1>6. ASSUME NEW p \in Actors, ConsumeStep(p) PROVE Same \/ Anew
  <2>1. ASSUME NEW o \in Orders, ConsumeStart(p, o) PROVE Same
    BY <1>1, <2>1 DEF ConsumeStart
  <2>2. CheckLedger(p) \/ PlanEmpty(p) \/ Track(p) => Same
    BY <1>1 DEF CheckLedger, PlanEmpty, Track
  <2>3. SetConsumed(p) \/ ClearPending(p) => Same
    BY <1>1 DEF SetConsumed, ClearPending
  <2> QED
    BY <1>2, <1>4, <1>6, <2>1, <2>2, <2>3 DEF ConsumeStep
<1>7. ASSUME NEW p \in Actors, SyncStep(p) PROVE Same
  <2>1. SyncSnapshot(p) => Same
    BY <1>1 DEF SyncSnapshot
  <2>2. PushUnanswered(p) \/ PushAnswered(p) \/ SyncDone(p) => Same
    BY <1>1 DEF PushUnanswered, PushAnswered, SyncDone
  <2>3. ASSUME NEW r \in job[p].rows, SyncRead(p, r) PROVE Same
    BY <1>1, <2>3 DEF SyncRead
  <2> QED
    BY <1>3, <1>7, <2>1, <2>2, <2>3 DEF SyncStep
<1>8. ASSUME NEW p \in Actors, RecoverStep(p) \/ Throw(p) PROVE Same
  <2>1. ASSUME NEW o \in Orders, RecoverPending(p, o) \/ RecoverOrphan(p, o) PROVE Same
    BY <1>1, <2>1 DEF RecoverPending, RecoverOrphan
  <2>2. RecoverClear(p) \/ Throw(p) => Same
    BY <1>1 DEF RecoverClear, Throw
  <2> QED
    BY <1>8, <2>1, <2>2 DEF RecoverStep
<1>9. ASSUME NEW p \in Actors, ReverseStep(p) PROVE Same
  <2>1. ASSUME NEW o \in Orders, ReverseStart(p, o) PROVE Same
    BY <1>1, <2>1 DEF ReverseStart
  <2>2. RestorePushed(p) \/ ClearConsumed(p) => Same
    BY <1>1 DEF RestorePushed, ClearConsumed
  <2>3. ASSUME NEW r \in job[p].rows, Restore(p, r) \/ RestoreSkipped(p, r) PROVE Same
    BY <1>1, <2>3 DEF Restore, RestoreSkipped
  <2> QED
    BY <1>2, <1>9, <2>1, <2>2, <2>3 DEF ReverseStep
<1>10. ASSUME Crash \/ (\E o \in Orders : KeyExpires(o)) \/ UNCHANGED vars PROVE Same
  BY <1>1, <1>10 DEF Crash, KeyExpires, vars
<1>11. Same \/ Anew
  <2>1. CASE \E p \in Actors : LockStep(p) \/ ConsumeStep(p) \/ SyncStep(p)
                              \/ RecoverStep(p) \/ ReverseStep(p) \/ Throw(p)
    BY <2>1, <1>5, <1>6, <1>7, <1>8, <1>9
  <2> QED
    BY <1>10, <2>1 DEF Next, Rest
<1> QED
  BY <1>11 DEF Same, Anew

\* Rows that await WooCommerce belong to the latest execution of their order, in
\* every environment: overlapping events, crashes, lost locks, failing calls.
THEOREM PendingLatest == Spec => []PendingIsLatest
<1>1. Init => PendingIsLatest
  BY DEF Init, PendingIsLatest
<1>2. TypeInv /\ PendingIsLatest /\ [Next]_vars => PendingIsLatest'
  <2> SUFFICES ASSUME TypeInv, PendingIsLatest, [Next]_vars,
                      NEW r \in Rows, ledger'[r] = "EXECUTED"
               PROVE  r[2] = gen'[r[1]]
    BY DEF PendingIsLatest
  <2>1. r[1] \in Orders /\ gen \in [Orders -> 0..MaxGen]
    BY DEF Rows, TypeInv, DataOK
  <2>2. CASE gen' = gen /\ ledger[r] = "EXECUTED"
    BY <2>2 DEF PendingIsLatest
  <2>3. ASSUME NEW o \in Orders, RowsIn(o, Live) = {}, Deduct(o)
        PROVE  r[2] = gen'[r[1]]
    <3>1. CASE r[1] = o
      <4>1. ledger[r] # "EXECUTED"
        BY <2>3, <3>1 DEF RowsIn, Live
      <4>2. r[2] = gen[o] + 1
        BY <2>3, <4>1 DEF Deduct
      <4> QED
        BY <2>1, <2>3, <3>1, <4>2 DEF Deduct
    <3>2. CASE r[1] # o
      <4>1. ledger[r] = "EXECUTED" /\ gen'[r[1]] = gen[r[1]]
        BY <2>1, <2>3, <3>2 DEF Deduct
      <4> QED
        BY <4>1 DEF PendingIsLatest
    <3> QED
      BY <3>1, <3>2
  <2> QED
    BY <2>2, <2>3, PendingSteps
<1> QED
  BY TypeInit, TypeStep, <1>1, <1>2, PTL DEF Spec

-----------------------------------------------------------------------------
(* Events of an order handled one after the other.  RestBalanced speaks of the
   orders no call works on; between two restorations of a cancellation the stock
   and the ledger disagree by the rows given back so far.  The invariant says
   what each call knows of its rows (Works), that an order has one call (Alone)
   and one live generation (OneLive), and counts a COMPLETED row that a
   cancellation has given back as taken no more (Kept, Balanced). *)

\* Nothing runs beside a call on its order, no call is lost, no query fails.
Serial == Env \cap {"overlap", "crash", "db"} = {}

\* The call in state j has given row r back.
Gave(j, r)  == j.at \in {"restore", "push"} /\ j.order = r[1] /\ r \notin j.rows
Given(r)    == \E p \in Reversers : Gave(job[p], r)
InStock(r)  == ledger[r] = "EXECUTED" \/ (ledger[r] = "COMPLETED" /\ ~Given(r))

Works(p, j) ==
    IF p \in Reversers
    THEN /\ j.at \in {"idle", "lock", "expire", "pglock", "restore", "push",
                      "delkey", "release"}
         /\ j.at \in {"lock", "expire", "pglock"} => j.rows = RowsIn(j.order, {"COMPLETED"})
         /\ j.at \in {"restore", "push"} => j.rows \subseteq RowsIn(j.order, {"COMPLETED"})
    ELSE /\ j.at \notin {"restore", "delkey"}
         /\ j.at \in {"next", "push", "mark"} => j.rows \subseteq RowsIn(j.order, Live)
         /\ j.at \in {"push", "mark"} => j.row \in RowsIn(j.order, Live)

Alone == \A p, q \in Actors :
    job[p].at # "idle" /\ job[q].at # "idle" /\ job[p].order = job[q].order => p = q

OneLive == \A r \in Rows :
    ledger[r] \in Live => r[2] = gen[r[1]] /\ r[3] \in Plan(r[1])

Balanced ==
    /\ \A r \in Rows : InStock(r) => net[r[3]][r[1]] = Qty[r[1]][r[3]]
    /\ \A o \in Orders, c \in Comps :
         (\A g \in 1..MaxGen : ~InStock(<<o, g, c>>)) => net[c][o] = 0

InTurn == Alone /\ OneLive /\ Balanced /\ \A p \in Actors : Works(p, job[p])

\* The same count for order o when p is the only call on it.
InHand(p, r) ==
    \/ ledger[r] = "EXECUTED"
    \/ ledger[r] = "COMPLETED" /\ (p \in Reversers => ~Gave(job[p], r))
Counted(p, o) ==
    /\ \A r \in Rows : r[1] = o /\ InHand(p, r) => net[r[3]][o] = Qty[o][r[3]]
    /\ \A c \in Comps : (\A g \in 1..MaxGen : ~InHand(p, <<o, g, c>>)) => net[c][o] = 0

LEMMA InTurnTyped ==
    ASSUME TypeInv
    PROVE  /\ ledger \in [Rows -> Status] /\ gen \in [Orders -> 0..MaxGen]
           /\ net \in [Comps -> [Orders -> Int]] /\ job \in [Actors -> JobType]
           /\ Reversers \subseteq Actors
  BY DEF TypeInv, DataOK, JobsOK, Actors

\* The only call on an order is the one that can have given its rows back.
LEMMA OwnRows ==
    ASSUME InTurn, NEW p \in Actors, job[p].at # "idle",
           NEW r \in Rows, r[1] = job[p].order
    PROVE  InStock(r) <=> InHand(p, r)
<1>1. ASSUME NEW q \in Reversers, Gave(job[q], r) PROVE q = p
  <2>1. q \in Actors /\ job[q].at # "idle" /\ job[q].order = job[p].order
    BY <1>1 DEF Gave, Actors
  <2> QED
    BY <2>1 DEF InTurn, Alone
<1>2. Given(r) <=> p \in Reversers /\ Gave(job[p], r)
  BY <1>1 DEF Given
<1> QED
  BY <1>2 DEF InStock, InHand

LEMMA OwnCount ==
    ASSUME InTurn, NEW p \in Actors, job[p].at # "idle", job[p].order \in Orders
    PROVE  Counted(p, job[p].order)
<1> DEFINE o == job[p].order
<1>1. ASSUME NEW r \in Rows, r[1] = o, InHand(p, r) PROVE net[r[3]][o] = Qty[o][r[3]]
  BY <1>1, OwnRows DEF InTurn, Balanced
<1>2. ASSUME NEW c \in Comps, \A g \in 1..MaxGen : ~InHand(p, <<o, g, c>>)
      PROVE  net[c][o] = 0
  <2>1. ASSUME NEW g \in 1..MaxGen PROVE ~InStock(<<o, g, c>>)
    <3>1. <<o, g, c>> \in Rows /\ <<o, g, c>>[1] = o
      BY DEF Rows
    <3> QED
      BY <1>2, <3>1, OwnRows
  <2> QED
    BY <2>1 DEF InTurn, Balanced
<1> QED
  BY <1>1, <1>2 DEF Counted

\* A call that goes on with its order, alone on it, touches no other order: the
\* invariant is kept when the call knows its rows and its own order is counted.
LEMMA OwnStep ==
    ASSUME InTurn, TypeInv, NEW p \in Actors, job[p].at # "idle",
           job[p].order \in Orders, job'[p].order = job[p].order,
           \A q \in Actors \ {p} : job'[q] = job[q],
           \A r \in Rows : r[1] # job[p].order => ledger'[r] = ledger[r],
           \A o \in Orders : o # job[p].order =>
              gen'[o] = gen[o] /\ \A c \in Comps : net'[c][o] = net[c][o],
           \A r \in Rows : r[1] = job[p].order /\ ledger'[r] \in Live =>
              r[2] = gen'[r[1]] /\ r[3] \in Plan(r[1]),
           Works(p, job[p])', Counted(p, job[p].order)'
    PROVE  InTurn'
<1> DEFINE o == job[p].order
<1>1. Reversers \subseteq Actors
  BY DEF Actors
<1>2. Alone'
  BY DEF InTurn, Alone
<1>3. OneLive'
  <2> SUFFICES ASSUME NEW r \in Rows, ledger'[r] \in Live
               PROVE  r[2] = gen'[r[1]] /\ r[3] \in Plan(r[1])
    BY DEF OneLive
  <2>1. r[1] \in Orders
    BY DEF Rows
  <2>2. CASE r[1] # o
    BY <2>1, <2>2 DEF InTurn, OneLive
  <2> QED
    BY <2>2
<1>4. ASSUME NEW q \in Actors \ {p} PROVE Works(q, job[q])'
  <2>1. Works(q, job[q]) /\ job'[q] = job[q]
    BY DEF InTurn
  <2>2. CASE job[q].at = "idle"
    BY <2>1, <2>2 DEF Works
  <2>3. CASE job[q].at # "idle"
    <3>1. job[q].order # o
      BY <2>3 DEF InTurn, Alone
    <3>2. ASSUME NEW S PROVE RowsIn(job[q].order, S)' = RowsIn(job[q].order, S)
      BY <2>1, <3>1 DEF RowsIn
    <3> QED
      BY <2>1, <3>2 DEF Works
  <2> QED
    BY <2>2, <2>3
<1>5. ASSUME NEW r \in Rows, r[1] # o PROVE InStock(r)' <=> InStock(r)
  <2>1. ledger'[r] = ledger[r]
    BY <1>5
  <2>2. ASSUME NEW q \in Reversers PROVE Gave(job'[q], r) <=> Gave(job[q], r)
    <3>1. CASE q = p
      BY <1>5, <3>1 DEF Gave
    <3>2. CASE q # p
      BY <1>1, <3>2 DEF Gave
    <3> QED
      BY <3>1, <3>2
  <2>3. Given(r)' <=> Given(r)
    BY <2>2 DEF Given
  <2> QED
    BY <2>1, <2>3 DEF InStock
<1>6. ASSUME NEW r \in Rows, r[1] = o PROVE InStock(r)' <=> InHand(p, r)'
  <2>1. ASSUME NEW q \in Reversers, Gave(job'[q], r) PROVE q = p
    <3>1. SUFFICES ASSUME q # p PROVE FALSE
      OBVIOUS
    <3>2. job'[q] = job[q] /\ job[q].at # "idle" /\ job[q].order = o
      BY <1>1, <1>6, <2>1, <3>1 DEF Gave
    <3> QED
      BY <1>1, <3>1, <3>2 DEF InTurn, Alone
  <2>2. Given(r)' <=> p \in Reversers /\ Gave(job'[p], r)
    BY <2>1 DEF Given
  <2> QED
    BY <2>2 DEF InStock, InHand
<1>7. Balanced'
  <2>1. ASSUME NEW r \in Rows, InStock(r)'
        PROVE  net'[r[3]][r[1]] = Qty[r[1]][r[3]]
    <3>1. r[1] \in Orders /\ r[3] \in Comps
      BY DEF Rows
    <3>2. CASE r[1] # o
      <4>1. InStock(r)
        BY <1>5, <2>1, <3>2
      <4> QED
        BY <3>1, <3>2, <4>1 DEF InTurn, Balanced
    <3>3. CASE r[1] = o
      <4>1. InHand(p, r)'
        BY <1>6, <2>1, <3>3
      <4> QED
        BY <3>3, <4>1 DEF Counted
    <3> QED
      BY <3>2, <3>3
  <2>2. ASSUME NEW x \in Orders, NEW c \in Comps,
               \A g \in 1..MaxGen : ~InStock(<<x, g, c>>)'
        PROVE  net'[c][x] = 0
    <3>1. \A g \in 1..MaxGen : <<x, g, c>> \in Rows /\ <<x, g, c>>[1] = x
      BY DEF Rows
    <3>2. CASE x # o
      <4>1. \A g \in 1..MaxGen : ~InStock(<<x, g, c>>)
        BY <1>5, <2>2, <3>1, <3>2
      <4> QED
        BY <3>2, <4>1 DEF InTurn, Balanced
    <3>3. CASE x = o
      <4>1. \A g \in 1..MaxGen : ~InHand(p, <<x, g, c>>)'
        BY <1>6, <2>2, <3>1, <3>3
      <4> QED
        BY <3>3, <4>1 DEF Counted
    <3> QED
      BY <3>2, <3>3
  <2> QED
    BY <2>1, <2>2 DEF Balanced
<1> QED
  BY <1>2, <1>3, <1>4, <1>7 DEF InTurn

\* A step that leaves ledger and stock alone, by a call that stays on its order,
\* ends, or starts on an order that has no call.
LEMMA QuietTurn ==
    ASSUME InTurn, NEW p \in Actors, UNCHANGED <<ledger, gen, net>>,
           \A q \in Actors \ {p} : job'[q] = job[q],
           \/ job'[p].at = "idle"
           \/ job[p].at # "idle" /\ job'[p].order = job[p].order
           \/ \A q \in Actors : job[q].order # job'[p].order,
           \A r \in Rows : p \in Reversers /\ ledger[r] = "COMPLETED" =>
              (Gave(job'[p], r) <=> Gave(job[p], r)),
           Works(p, job[p])'
    PROVE  InTurn'
<1>1. Alone'
  BY DEF InTurn, Alone
<1>2. OneLive'
  BY DEF InTurn, OneLive
<1>3. ASSUME NEW q \in Actors PROVE Works(q, job[q])'
  <2>1. CASE q = p
    BY <2>1
  <2>2. CASE q # p
    <3>1. job'[q] = job[q] /\ Works(q, job[q])
      BY <2>2 DEF InTurn
    <3> QED
      BY <3>1 DEF Works, RowsIn
  <2> QED
    BY <2>1, <2>2
<1>4. ASSUME NEW r \in Rows PROVE InStock(r)' <=> InStock(r)
  <2>1. ASSUME ledger[r] = "COMPLETED", NEW q \in Reversers
        PROVE  Gave(job'[q], r) <=> Gave(job[q], r)
    BY <2>1 DEF Actors
  <2>2. ledger[r] = "COMPLETED" => (Given(r)' <=> Given(r))
    BY <2>1 DEF Given
  <2> QED
    BY <2>2 DEF InStock
<1>5. Balanced'
  <2>1. \A r \in Rows : InStock(r)' => net'[r[3]][r[1]] = Qty[r[1]][r[3]]
    BY <1>4 DEF InTurn, Balanced
  <2>2. ASSUME NEW o \in Orders, NEW c \in Comps,
               \A g \in 1..MaxGen : ~InStock(<<o, g, c>>)'
        PROVE  net'[c][o] = 0
    <3>1. \A g \in 1..MaxGen : <<o, g, c>> \in Rows
      BY DEF Rows
    <3>2. \A g \in 1..MaxGen : ~InStock(<<o, g, c>>)
      BY <1>4, <2>2, <3>1
    <3> QED
      BY <3>2 DEF InTurn, Balanced
  <2> QED
    BY <2>1, <2>2 DEF Balanced
<1> QED
  BY <1>1, <1>2, <1>3, <1>5 DEF InTurn

LEMMA FinishTurn ==
    ASSUME InTurn, TypeInv, NEW p \in Actors, UNCHANGED <<ledger, gen, net>>, Finish(p),
           p \in Reversers => job[p].at \notin {"restore", "push"}
    PROVE  InTurn'
<1>1. job'[p] = Idle /\ \A q \in Actors \ {p} : job'[q] = job[q]
  BY InTurnTyped DEF Finish
<1>2. job'[p].at = "idle"
  BY <1>1 DEF Idle
<1>3. Works(p, job[p])'
  BY <1>2 DEF Works
<1>4. \A r \in Rows : p \in Reversers => (Gave(job'[p], r) <=> Gave(job[p], r))
  BY <1>2 DEF Gave
<1> QED
  BY <1>1, <1>2, <1>3, <1>4, QuietTurn

\* The labels between which a call knows nothing of its rows.
Plain == {"dedup", "plan", "execute", "sync", "setkey", "clear", "close"}

LEMMA GotoTurn ==
    ASSUME InTurn, TypeInv, NEW p \in Actors, NEW l \in Labels,
           UNCHANGED <<ledger, gen, net>>, Goto(p, l), job[p].at # "idle",
           \/ p \notin Reversers /\ l \in Plain \cup {"lock", "expire", "pglock", "release"}
           \/ job[p].at \in {"lock", "expire"} /\ l \in {"expire", "pglock"}
           \/ job[p].at = "delkey" /\ l = "release"
    PROVE  InTurn'
<1>1. /\ job'[p].at = l /\ job'[p].order = job[p].order /\ job'[p].rows = job[p].rows
      /\ \A q \in Actors \ {p} : job'[q] = job[q]
  BY InTurnTyped DEF Goto, JobType
<1>2. Works(p, job[p])
  BY DEF InTurn
<1>3. Works(p, job[p])'
  <2>1. CASE p \in Reversers
    BY <1>1, <1>2, <2>1 DEF Works, RowsIn
  <2>2. CASE p \notin Reversers
    BY <1>1, <2>2 DEF Works, Plain
  <2> QED
    BY <2>1, <2>2
<1>4. \A r \in Rows : p \in Reversers => (Gave(job'[p], r) <=> Gave(job[p], r))
  BY <1>1 DEF Gave
<1> QED
  BY <1>1, <1>3, <1>4, QuietTurn

\* The lock is got: the rows of a cancellation are still the completed ones.
LEMMA EnterTurn ==
    ASSUME InTurn, TypeInv, NEW p \in Actors, NEW h,
           UNCHANGED <<ledger, gen, net>>, job[p].at \in {"expire", "pglock"},
           job' = [job EXCEPT ![p] = h],
           h.at = Enter(p), h.order = job[p].order, h.rows = job[p].rows
    PROVE  InTurn'
<1>1. job'[p] = h /\ \A q \in Actors \ {p} : job'[q] = job[q]
  BY InTurnTyped
<1>2. Works(p, job[p])
  BY DEF InTurn
<1>3. CASE p \in Reversers
  <2>1. job'[p].at = "restore" /\ job[p].rows = RowsIn(job[p].order, {"COMPLETED"})
    BY <1>1, <1>2, <1>3 DEF Enter, Works
  <2>2. Works(p, job[p])'
    BY <1>1, <1>3, <2>1 DEF Works, RowsIn
  <2>3. ASSUME NEW r \in Rows, ledger[r] = "COMPLETED"
        PROVE  Gave(job'[p], r) <=> Gave(job[p], r)
    BY <1>1, <2>1, <2>3 DEF Gave, RowsIn
  <2> QED
    BY <1>1, <2>2, <2>3, QuietTurn
<1>4. CASE p \notin Reversers
  <2>1. Works(p, job[p])'
    BY <1>1, <1>4 DEF Works, Enter
  <2> QED
    BY <1>1, <1>4, <2>1, QuietTurn
<1> QED
  BY <1>3, <1>4

LEMMA LockTurn ==
    ASSUME InTurn, TypeInv, NEW p \in Actors, LockStep(p)
    PROVE  InTurn'
<1>1. CASE SetNx(p) \/ RedisLockThrows(p)
  BY <1>1, GotoTurn DEF SetNx, RedisLockThrows, At, Labels
<1>2. CASE LockBusy(p) \/ PgLockBusy(p) \/ Release(p)
  BY <1>2, FinishTurn DEF LockBusy, PgLockBusy, Release, At
<1>3. job[p] \in JobType
  BY InTurnTyped
<1>4. CASE ExpireLock(p)
  <2> DEFINE v == [job[p] EXCEPT !.at = Enter(p), !.held = "redis"]
  <2>1. v.at = Enter(p) /\ v.order = job[p].order /\ v.rows = job[p].rows
    BY <1>3 DEF JobType
  <2>2. job' = [job EXCEPT ![p] = v] /\ UNCHANGED <<ledger, gen, net>>
    BY <1>4 DEF ExpireLock
  <2>3. job[p].at \in {"expire", "pglock"}
    BY <1>4 DEF ExpireLock, At
  <2> QED
    BY <2>1, <2>2, <2>3, EnterTurn
<1>5. CASE PgLock(p)
  <2> DEFINE v == [job[p] EXCEPT !.at = Enter(p), !.held = "pg"]
  <2>1. v.at = Enter(p) /\ v.order = job[p].order /\ v.rows = job[p].rows
    BY <1>3 DEF JobType
  <2>2. job' = [job EXCEPT ![p] = v] /\ UNCHANGED <<ledger, gen, net>>
    BY <1>5 DEF PgLock
  <2>3. job[p].at \in {"expire", "pglock"}
    BY <1>5 DEF PgLock, At
  <2> QED
    BY <2>1, <2>2, <2>3, EnterTurn
<1> QED
  BY <1>1, <1>2, <1>4, <1>5 DEF LockStep

LEMMA NotReverser ==
    ASSUME InTurn, NEW p \in Actors, job[p].at \in Plain \cup {"next", "mark"}
    PROVE  p \notin Reversers
<1>1. Works(p, job[p])
  BY DEF InTurn
<1> QED
  BY <1>1 DEF Works, Plain

LEMMA CountedSame ==
    ASSUME NEW p \in Actors, NEW o \in Orders, Counted(p, o), net' = net,
           \A r \in Rows : r[1] = o => (InHand(p, r)' <=> InHand(p, r))
    PROVE  Counted(p, o)'
<1>1. ASSUME NEW r \in Rows, r[1] = o, InHand(p, r)' PROVE net'[r[3]][o] = Qty[o][r[3]]
  BY <1>1 DEF Counted
<1>2. ASSUME NEW c \in Comps, \A g \in 1..MaxGen : ~InHand(p, <<o, g, c>>)'
      PROVE  net'[c][o] = 0
  <2>1. \A g \in 1..MaxGen : <<o, g, c>> \in Rows /\ <<o, g, c>>[1] = o
    BY DEF Rows
  <2>2. \A g \in 1..MaxGen : ~InHand(p, <<o, g, c>>)
    BY <1>2, <2>1
  <2> QED
    BY <2>2 DEF Counted
<1> QED
  BY <1>1, <1>2 DEF Counted

\* The transaction starts from no live row, hence from an order that takes
\* nothing: afterwards it takes each planned quantity once.
LEMMA ExecuteTurn ==
    ASSUME InTurn, TypeInv, NEW p \in Actors, Execute(p)
    PROVE  InTurn'
<1> DEFINE o == job[p].order
<1>1. p \notin Reversers /\ job[p].at # "idle" /\ o \in Orders
  BY NotReverser, OrderTyped DEF Execute, At, Plain, TypeInv
<1>2. Goto(p, "sync")
  BY DEF Execute
<1>3. CASE UNCHANGED <<ledger, gen, net>>
  BY <1>1, <1>2, <1>3, GotoTurn DEF Plain, Labels
<1>4. CASE RowsIn(o, Live) = {} /\ Deduct(o)
  <2>1. /\ job'[p].at = "sync" /\ job'[p].order = job[p].order
        /\ \A q \in Actors \ {p} : job'[q] = job[q]
    BY <1>2, InTurnTyped DEF Goto, JobType
  <2>2. \A c \in Comps : Qty[o][c] \in Nat
    BY <1>1, ConstantsAssumption
  <2>3. ASSUME NEW r \in Rows, r[1] = o PROVE ledger[r] \notin Live /\ ~InHand(p, r)
    BY <1>4, <2>3 DEF RowsIn, InHand, Live
  <2>4. ASSUME NEW c \in Comps PROVE net[c][o] = 0
    <3>1. \A g \in 1..MaxGen : <<o, g, c>> \in Rows /\ <<o, g, c>>[1] = o
      BY <1>1 DEF Rows
    <3>2. \A g \in 1..MaxGen : ~InHand(p, <<o, g, c>>)
      BY <2>3, <3>1
    <3> QED
      BY <1>1, <3>2, OwnCount DEF Counted
  <2>5. ASSUME NEW c \in Comps PROVE net'[c][o] = Qty[o][c]
    BY <1>1, <1>4, <2>2, <2>4, InTurnTyped DEF Deduct
  <2>6. ASSUME NEW r \in Rows, r[1] = o, ledger'[r] \in Live
        PROVE  r[2] = gen'[r[1]] /\ r[3] \in Plan(r[1])
    <3>1. r[2] = gen[o] + 1 /\ r[3] \in Plan(o)
      BY <1>4, <2>3, <2>6 DEF Deduct
    <3> QED
      BY <1>1, <1>4, <2>6, <3>1, InTurnTyped DEF Deduct
  <2>7. Counted(p, o)'
    <3>1. ASSUME NEW r \in Rows, r[1] = o PROVE net'[r[3]][o] = Qty[o][r[3]]
      BY <2>5 DEF Rows
    <3>2. ASSUME NEW c \in Comps, \A g \in 1..MaxGen : ~InHand(p, <<o, g, c>>)'
          PROVE  net'[c][o] = 0
      <4>1. gen[o] + 1 \in 1..MaxGen
        BY <1>1, <1>4, InTurnTyped, ConstantsAssumption DEF Deduct
      <4>2. <<o, gen[o] + 1, c>> \in Rows
        BY <1>1, <4>1 DEF Rows
      <4>3. ledger'[<<o, gen[o] + 1, c>>] # "EXECUTED"
        BY <2>1, <3>2, <4>1 DEF InHand
      <4>4. c \notin Plan(o)
        BY <1>4, <4>2, <4>3 DEF Deduct
      <4> QED
        BY <2>2, <2>5, <4>4 DEF Plan
    <3> QED
      BY <2>1, <3>1, <3>2 DEF Counted
  <2>8. Works(p, job[p])'
    BY <1>1, <2>1 DEF Works
  <2>9. \A r \in Rows : r[1] # o => ledger'[r] = ledger[r]
    BY <1>4 DEF Deduct
  <2>10. ASSUME NEW x \in Orders, x # o
         PROVE  gen'[x] = gen[x] /\ \A c \in Comps : net'[c][x] = net[c][x]
    BY <1>1, <1>4, <2>10, InTurnTyped DEF Deduct
  <2> HIDE DEF o
  <2> QED
    BY <1>1, <2>1, <2>6, <2>7, <2>8, <2>9, <2>10, OwnStep DEF o
<1> QED
  BY <1>3, <1>4 DEF Execute

\* A step that changes only the status of rows of the call's own order.
LEMMA LedgerTurn ==
    ASSUME InTurn, TypeInv, NEW p \in Actors, job[p].at # "idle",
           UNCHANGED <<gen, net>>, job'[p].order = job[p].order,
           \A q \in Actors \ {p} : job'[q] = job[q],
           \A r \in Rows : r[1] # job[p].order => ledger'[r] = ledger[r],
           \A r \in Rows : ledger'[r] \in Live => ledger[r] \in Live,
           \A r \in Rows : r[1] = job[p].order => (InHand(p, r)' <=> InHand(p, r)),
           Works(p, job[p])'
    PROVE  InTurn'
<1>1. job[p].order \in Orders
  BY OrderTyped DEF TypeInv
<1>2. Counted(p, job[p].order)
  BY <1>1, OwnCount
<1>3. Counted(p, job[p].order)'
  BY <1>1, <1>2, CountedSame
<1>4. \A r \in Rows : ledger'[r] \in Live => r[2] = gen'[r[1]] /\ r[3] \in Plan(r[1])
  BY DEF InTurn, OneLive
<1> QED
  BY <1>1, <1>3, <1>4, OwnStep

LEMMA ConsumeTurn ==
    ASSUME Serial, InTurn, TypeInv, NEW p \in Actors, ConsumeStep(p)
    PROVE  InTurn'
<1>1. job[p] \in JobType /\ (job[p].at # "idle" => job[p].order \in Orders)
  BY InTurnTyped, OrderTyped DEF TypeInv
<1>2. ASSUME NEW o \in Orders, ConsumeStart(p, o) PROVE InTurn'
  <2> DEFINE v == [job[p] EXCEPT !.at = "dedup", !.order = o]
  <2>1. v.at = "dedup" /\ v.order = o
    BY <1>1 DEF JobType
  <2>2. job' = [job EXCEPT ![p] = v] /\ UNCHANGED <<ledger, gen, net>>
    BY <1>2 DEF ConsumeStart
  <2>3. job'[p] = v /\ \A q \in Actors \ {p} : job'[q] = job[q]
    BY <2>2, InTurnTyped
  <2>4. p \notin Reversers /\ \A q \in Actors : job[q].order # o
    BY <1>2, ConstantsAssumption DEF ConsumeStart, MayStart, Serial
  <2> HIDE DEF v
  <2>5. Works(p, job[p])'
    BY <2>1, <2>3, <2>4 DEF Works
  <2> QED
    BY <2>1, <2>2, <2>3, <2>4, <2>5, QuietTurn
<1>3. CASE CheckLedger(p) \/ PlanEmpty(p) \/ Track(p) \/ ClearPending(p)
  <2>1. p \notin Reversers
    BY <1>3, NotReverser DEF CheckLedger, PlanEmpty, Track, ClearPending, At, Plain
  <2> QED
    BY <1>3, <2>1, GotoTurn DEF CheckLedger, PlanEmpty, Track, ClearPending, At, Plain, Labels
<1>4. CASE SetConsumed(p)
  <2>1. p \notin Reversers
    BY <1>4, NotReverser DEF SetConsumed, At, Plain
  <2> QED
    BY <1>4, <2>1, GotoTurn, FinishTurn DEF SetConsumed, At, Plain, Labels
<1>5. CASE Execute(p)
  BY <1>5, ExecuteTurn
<1>6. CASE CloseLedger(p)
  <2>1. p \notin Reversers /\ job[p].at # "idle"
    BY <1>6, NotReverser DEF CloseLedger, At, Plain
  <2>2. /\ job'[p].at = "release" /\ job'[p].order = job[p].order
        /\ \A q \in Actors \ {p} : job'[q] = job[q]
    BY <1>6, InTurnTyped DEF CloseLedger, Goto, JobType
  <2>3. Works(p, job[p])'
    BY <2>1, <2>2 DEF Works
  <2>4. ledger' = Promote(job[p].order, "EXECUTED", "COMPLETED") /\ UNCHANGED <<gen, net>>
    BY <1>6 DEF CloseLedger
  <2>5. \A r \in Rows : r[1] # job[p].order => ledger'[r] = ledger[r]
    BY <2>4 DEF Promote
  <2>6. \A r \in Rows : ledger'[r] \in Live => ledger[r] \in Live
    BY <2>4 DEF Promote, Live
  <2>7. \A r \in Rows : InHand(p, r)' <=> InHand(p, r)
    BY <2>1, <2>4 DEF Promote, InHand
  <2> QED
    BY <2>1, <2>2, <2>3, <2>4, <2>5, <2>6, <2>7, LedgerTurn
<1> QED
  BY <1>2, <1>3, <1>4, <1>5, <1>6 DEF ConsumeStep

LEMMA SyncTurn ==
    ASSUME InTurn, TypeInv, NEW p \in Actors, SyncStep(p)
    PROVE  InTurn'
<1>1. job[p] \in JobType /\ (job[p].at # "idle" => job[p].order \in Orders)
  BY InTurnTyped, OrderTyped DEF TypeInv
<1>2. Works(p, job[p])
  BY DEF InTurn
<1>3. CASE SyncSnapshot(p)
  <2> DEFINE v == [job[p] EXCEPT !.at = "next", !.rows = RowsIn(job[p].order, {"EXECUTED"})]
  <2>1. /\ v.at = "next" /\ v.order = job[p].order
        /\ v.rows = RowsIn(job[p].order, {"EXECUTED"})
    BY <1>1 DEF JobType
  <2>2. job' = [job EXCEPT ![p] = v] /\ UNCHANGED <<ledger, gen, net>>
    BY <1>3 DEF SyncSnapshot
  <2>3. job'[p] = v /\ \A q \in Actors \ {p} : job'[q] = job[q]
    BY <2>2, InTurnTyped
  <2>4. p \notin Reversers /\ job[p].at # "idle"
    BY <1>3, NotReverser DEF SyncSnapshot, At, Plain
  <2> HIDE DEF v
  <2>5. Works(p, job[p])'
    BY <2>1, <2>2, <2>3, <2>4 DEF Works, RowsIn, Live
  <2> QED
    BY <2>1, <2>2, <2>3, <2>4, <2>5, QuietTurn
<1>4. CASE PushUnanswered(p)
  <2>1. job' = job /\ UNCHANGED <<ledger, gen, net>> /\ job[p].at # "idle"
    BY <1>4 DEF PushUnanswered, At
  <2>2. Works(p, job[p])'
    BY <1>2, <2>1 DEF Works, RowsIn
  <2> QED
    BY <2>1, <2>2, QuietTurn
<1>5. CASE PushAnswered(p)
  <2>1. /\ job[p].at = "push" /\ p \notin Reversers /\ Goto(p, "mark")
        /\ UNCHANGED <<ledger, gen, net>>
    BY <1>5 DEF PushAnswered, At
  <2>2. /\ job'[p].at = "mark" /\ job'[p].order = job[p].order
        /\ job'[p].rows = job[p].rows /\ job'[p].row = job[p].row
        /\ \A q \in Actors \ {p} : job'[q] = job[q]
    BY <2>1, InTurnTyped DEF Goto, JobType
  <2>3. Works(p, job[p])'
    BY <1>2, <2>1, <2>2 DEF Works, RowsIn
  <2> QED
    BY <2>1, <2>2, <2>3, QuietTurn
<1>6. CASE SyncMark(p)
  <2> DEFINE r == job[p].row
             v == [job[p] EXCEPT !.at = "next", !.rows = job[p].rows \ {r},
                                 !.row = NoRow, !.stock = Zero]
  <2>1. v.at = "next" /\ v.order = job[p].order /\ v.rows = job[p].rows \ {r}
    BY <1>1 DEF JobType
  <2>2. job' = [job EXCEPT ![p] = v] /\ UNCHANGED <<gen, net>>
    BY <1>6 DEF SyncMark
  <2>3. job'[p] = v /\ \A q \in Actors \ {p} : job'[q] = job[q]
    BY <2>2, InTurnTyped
  <2>4. p \notin Reversers /\ job[p].at = "mark"
    BY <1>6, NotReverser DEF SyncMark, At
  <2>5. r \in RowsIn(job[p].order, Live) /\ job[p].rows \subseteq RowsIn(job[p].order, Live)
    BY <1>2, <2>4 DEF Works
  <2>6. ledger' = [ledger EXCEPT ![r] = "COMPLETED"]
    BY <1>6 DEF SyncMark
  <2> HIDE DEF v, r
  <2>7. r \in Rows /\ r[1] = job[p].order /\ ledger[r] \in Live
    BY <2>5 DEF RowsIn
  <2>8. \A x \in Rows : ledger'[x] = IF x = r THEN "COMPLETED" ELSE ledger[x]
    BY <2>6, <2>7, InTurnTyped
  <2>9. \A x \in Rows : ledger'[x] \in Live <=> ledger[x] \in Live
    BY <2>7, <2>8 DEF Live
  <2>10. \A x \in Rows : InHand(p, x)' <=> InHand(p, x)
    BY <2>4, <2>9 DEF InHand, Live
  <2>11. RowsIn(job[p].order, Live)' = RowsIn(job[p].order, Live)
    BY <2>1, <2>3, <2>9 DEF RowsIn
  <2>12. Works(p, job[p])'
    BY <2>1, <2>3, <2>4, <2>5, <2>11 DEF Works
  <2> QED
    BY <2>1, <2>2, <2>3, <2>4, <2>7, <2>8, <2>9, <2>10, <2>12, LedgerTurn
<1>7. CASE SyncDone(p)
  <2>1. p \notin Reversers
    BY <1>7, NotReverser DEF SyncDone, At
  <2> QED
    BY <1>7, <2>1, GotoTurn, FinishTurn DEF SyncDone, AfterSync, At, Plain, Labels
<1>8. ASSUME NEW r \in job[p].rows, SyncRead(p, r) PROVE InTurn'
  <2> DEFINE v == [job[p] EXCEPT !.row = r,
                     !.at = IF r[3] \in InternalComps THEN "mark" ELSE "push",
                     !.stock = IF r[3] \in InternalComps THEN Zero ELSE net[r[3]]]
  <2>1. /\ v.at \in {"mark", "push"} /\ v.order = job[p].order
        /\ v.rows = job[p].rows /\ v.row = r
    BY <1>1 DEF JobType
  <2>2. job' = [job EXCEPT ![p] = v] /\ UNCHANGED <<ledger, gen, net>>
    BY <1>8 DEF SyncRead
  <2>3. job'[p] = v /\ \A q \in Actors \ {p} : job'[q] = job[q]
    BY <2>2, InTurnTyped
  <2>4. p \notin Reversers /\ job[p].at = "next"
    BY <1>8, NotReverser DEF SyncRead, At
  <2> HIDE DEF v
  <2>5. r \in RowsIn(job[p].order, Live) /\ job[p].rows \subseteq RowsIn(job[p].order, Live)
    BY <1>2, <2>4 DEF Works
  <2>6. Works(p, job[p])'
    BY <2>1, <2>2, <2>3, <2>4, <2>5 DEF Works, RowsIn
  <2> QED
    BY <2>1, <2>2, <2>3, <2>4, <2>6, QuietTurn
<1> QED
  BY <1>3, <1>4, <1>5, <1>6, <1>7, <1>8 DEF SyncStep

\* A call of the recovery job starts on an order nobody works on.
LEMMA RecoverTurn ==
    ASSUME Serial, InTurn, TypeInv, NEW p \in Actors, RecoverStep(p)
    PROVE  InTurn'
<1>1. job[p] \in JobType
  BY InTurnTyped
<1>2. CASE RecoverClear(p)
  <2>1. p \notin Reversers
    BY <1>2, NotReverser DEF RecoverClear, At, Plain
  <2> QED
    BY <1>2, <2>1, FinishTurn DEF RecoverClear
<1>3. ASSUME NEW o \in Orders, NEW v, v.at = "sync", v.order = o,
             job' = [job EXCEPT ![p] = v], UNCHANGED <<ledger, gen, net>>,
             p \in Recoverers, MayStart(o)
      PROVE  InTurn'
  <2>1. job'[p] = v /\ \A q \in Actors \ {p} : job'[q] = job[q]
    BY <1>3, InTurnTyped
  <2>2. p \notin Reversers /\ \A q \in Actors : job[q].order # o
    BY <1>3, ConstantsAssumption DEF MayStart, Serial
  <2>3. Works(p, job[p])'
    BY <1>3, <2>1, <2>2 DEF Works
  <2> QED
    BY <1>3, <2>1, <2>2, <2>3, QuietTurn
<1>4. ASSUME NEW o \in Orders, RecoverPending(p, o) PROVE InTurn'
  <2> DEFINE v == [job[p] EXCEPT !.at = "sync", !.order = o, !.held = "key"]
  <2>1. v.at = "sync" /\ v.order = o
    BY <1>1 DEF JobType
  <2>2. job' = [job EXCEPT ![p] = v] /\ UNCHANGED <<ledger, gen, net>>
    BY <1>4 DEF RecoverPending
  <2>3. p \in Recoverers /\ MayStart(o)
    BY <1>4 DEF RecoverPending
  <2> HIDE DEF v
  <2> QED
    BY <1>3, <2>1, <2>2, <2>3
<1>5. ASSUME NEW o \in Orders, RecoverOrphan(p, o) PROVE InTurn'
  <2> DEFINE v == [job[p] EXCEPT !.at = "sync", !.order = o]
  <2>1. v.at = "sync" /\ v.order = o
    BY <1>1 DEF JobType
  <2>2. job' = [job EXCEPT ![p] = v] /\ UNCHANGED <<ledger, gen, net>>
    BY <1>5 DEF RecoverOrphan
  <2>3. p \in Recoverers /\ MayStart(o)
    BY <1>5 DEF RecoverOrphan
  <2> HIDE DEF v
  <2> QED
    BY <1>3, <2>1, <2>2, <2>3
<1> QED
  BY <1>2, <1>4, <1>5 DEF RecoverStep

\* A row that is given back was taken, by the one live execution.
LEMMA RestoreTurn ==
    ASSUME InTurn, TypeInv, NEW p \in Actors, NEW r \in job[p].rows, Restore(p, r),
           p \in Reversers
    PROVE  InTurn'
<1> DEFINE o == job[p].order
           v == [job[p] EXCEPT !.rows = job[p].rows \ {r},
                   !.at = IF r[3] \in InternalComps THEN "restore" ELSE "push",
                   !.row = IF r[3] \in InternalComps THEN NoRow ELSE r,
                   !.stock = IF r[3] \in InternalComps THEN Zero ELSE net'[r[3]]]
<1>1. job[p] \in JobType /\ job[p].at = "restore" /\ o \in Orders
  BY InTurnTyped, OrderTyped DEF TypeInv, Restore, At
<1>2. v.at \in {"restore", "push"} /\ v.order = o /\ v.rows = job[p].rows \ {r}
  BY <1>1 DEF JobType
<1>3. /\ job' = [job EXCEPT ![p] = v] /\ UNCHANGED <<ledger, gen>>
      /\ net' = [net EXCEPT ![r[3]][r[1]] = @ - Qty[r[1]][r[3]]]
  BY DEF Restore
<1>4. job'[p] = v /\ \A q \in Actors \ {p} : job'[q] = job[q]
  BY <1>3, InTurnTyped
<1> HIDE DEF v
<1>5. /\ job'[p].at \in {"restore", "push"} /\ job'[p].order = o
      /\ job'[p].rows = job[p].rows \ {r}
  BY <1>2, <1>4
<1>6. Works(p, job[p])
  BY DEF InTurn
<1>7. job[p].rows \subseteq RowsIn(o, {"COMPLETED"})
  BY <1>1, <1>6 DEF Works
<1>8. r \in Rows /\ r[1] = o /\ r[3] \in Comps /\ ledger[r] = "COMPLETED"
  BY <1>7 DEF RowsIn, Rows
<1>9. Counted(p, o)
  BY <1>1, OwnCount
<1>10. InHand(p, r) /\ ~InHand(p, r)'
  BY <1>1, <1>3, <1>5, <1>8 DEF InHand, Gave
<1>11. ASSUME NEW x \in Rows, x # r, x[1] = o PROVE InHand(p, x)' <=> InHand(p, x)
  BY <1>1, <1>3, <1>5, <1>11 DEF InHand, Gave
<1>12. ASSUME NEW x \in Orders, NEW c \in Comps
       PROVE  net'[c][x] = IF x = o /\ c = r[3] THEN 0 ELSE net[c][x]
  <2>1. net[r[3]][o] = Qty[o][r[3]] /\ Qty[o][r[3]] \in Nat
    BY <1>1, <1>8, <1>9, <1>10, ConstantsAssumption DEF Counted
  <2> QED
    BY <1>1, <1>3, <1>8, <2>1, InTurnTyped
<1>13. ASSUME NEW x \in Rows, x # r, x[1] = o, InHand(p, x) PROVE x[3] # r[3]
  <2>1. x[2] = gen[o] /\ r[2] = gen[o]
    BY <1>8, <1>13 DEF InTurn, OneLive, InHand, Live
  <2> QED
    BY <1>8, <1>13, <2>1 DEF Rows
<1>14. Counted(p, o)'
  <2>1. ASSUME NEW x \in Rows, x[1] = o, InHand(p, x)' PROVE net'[x[3]][o] = Qty[o][x[3]]
    <3>1. x # r /\ InHand(p, x)
      BY <1>10, <1>11, <2>1
    <3>2. x[3] # r[3] /\ x[3] \in Comps
      BY <1>13, <2>1, <3>1 DEF Rows
    <3> QED
      BY <1>1, <1>9, <1>12, <2>1, <3>1, <3>2 DEF Counted
  <2>2. ASSUME NEW c \in Comps, \A g \in 1..MaxGen : ~InHand(p, <<o, g, c>>)'
        PROVE  net'[c][o] = 0
    <3>1. CASE c = r[3]
      BY <1>1, <1>12, <3>1
    <3>2. CASE c # r[3]
      <4>1. \A g \in 1..MaxGen : /\ <<o, g, c>> \in Rows /\ <<o, g, c>>[1] = o
                                 /\ <<o, g, c>> # r
        BY <1>1, <3>2 DEF Rows
      <4>2. \A g \in 1..MaxGen : ~InHand(p, <<o, g, c>>)
        BY <1>5, <1>11, <2>2, <4>1
      <4> QED
        BY <1>1, <1>9, <1>12, <3>2, <4>2 DEF Counted
    <3> QED
      BY <3>1, <3>2
  <2> QED
    BY <1>5, <2>1, <2>2 DEF Counted
<1>15. Works(p, job[p])'
  BY <1>3, <1>5, <1>7 DEF Works, RowsIn
<1>16. \A x \in Rows : x[1] = o /\ ledger'[x] \in Live => x[2] = gen'[x[1]] /\ x[3] \in Plan(x[1])
  BY <1>3 DEF InTurn, OneLive
<1>17. \A x \in Orders : x # o =>
          gen'[x] = gen[x] /\ \A c \in Comps : net'[c][x] = net[c][x]
  BY <1>3, <1>12
<1> QED
  BY <1>1, <1>3, <1>4, <1>5, <1>14, <1>15, <1>16, <1>17, OwnStep

LEMMA ReverseTurn ==
    ASSUME Serial, InTurn, TypeInv, NEW p \in Actors, ReverseStep(p)
    PROVE  InTurn'
<1>1. job[p] \in JobType /\ (job[p].at # "idle" => job[p].order \in Orders)
  BY InTurnTyped, OrderTyped DEF TypeInv
<1>2. Works(p, job[p])
  BY DEF InTurn
<1>3. job[p].at \in {"restore", "delkey"} => p \in Reversers
  BY <1>2 DEF Works
<1>4. ASSUME NEW o \in Orders, ReverseStart(p, o) PROVE InTurn'
  <2> DEFINE v == [job[p] EXCEPT !.at = "lock", !.order = o, !.rows = RowsIn(o, {"COMPLETED"})]
  <2>1. v.at = "lock" /\ v.order = o /\ v.rows = RowsIn(o, {"COMPLETED"})
    BY <1>1 DEF JobType
  <2>2. job' = [job EXCEPT ![p] = v] /\ UNCHANGED <<ledger, gen, net>>
    BY <1>4 DEF ReverseStart
  <2>3. job'[p] = v /\ \A q \in Actors \ {p} : job'[q] = job[q]
    BY <2>2, InTurnTyped
  <2>4. p \in Reversers /\ job[p].at = "idle" /\ \A q \in Actors : job[q].order # o
    BY <1>4 DEF ReverseStart, At, MayStart, Serial
  <2> HIDE DEF v
  <2>5. Works(p, job[p])'
    BY <2>1, <2>2, <2>3, <2>4 DEF Works, RowsIn
  <2>6. \A r \in Rows : Gave(job'[p], r) <=> Gave(job[p], r)
    BY <2>1, <2>3, <2>4 DEF Gave
  <2> QED
    BY <2>1, <2>2, <2>3, <2>4, <2>5, <2>6, QuietTurn
<1>5. CASE RestorePushed(p)
  <2> DEFINE v == [job[p] EXCEPT !.at = "restore", !.row = NoRow, !.stock = Zero]
  <2>1. v.at = "restore" /\ v.order = job[p].order /\ v.rows = job[p].rows
    BY <1>1 DEF JobType
  <2>2. job' = [job EXCEPT ![p] = v] /\ UNCHANGED <<ledger, gen, net>>
    BY <1>5 DEF RestorePushed
  <2>3. job'[p] = v /\ \A q \in Actors \ {p} : job'[q] = job[q]
    BY <2>2, InTurnTyped
  <2>4. p \in Reversers /\ job[p].at = "push"
    BY <1>5 DEF RestorePushed, At
  <2> HIDE DEF v
  <2>5. Works(p, job[p])'
    BY <1>2, <2>1, <2>2, <2>3, <2>4 DEF Works, RowsIn
  <2>6. \A r \in Rows : Gave(job'[p], r) <=> Gave(job[p], r)
    BY <2>1, <2>3, <2>4 DEF Gave
  <2> QED
    BY <2>1, <2>2, <2>3, <2>4, <2>5, <2>6, QuietTurn
<1>6. CASE MarkReversed(p)
  <2>1. job[p].at = "restore" /\ job[p].rows = {} /\ p \in Reversers
    BY <1>3, <1>6 DEF MarkReversed, At
  <2>2. /\ job'[p].at = "delkey" /\ job'[p].order = job[p].order
        /\ \A q \in Actors \ {p} : job'[q] = job[q]
    BY <1>6, InTurnTyped DEF MarkReversed, Goto, JobType
  <2>3. ledger' = Promote(job[p].order, "COMPLETED", "REVERSED") /\ UNCHANGED <<gen, net>>
    BY <1>6 DEF MarkReversed
  <2>4. Works(p, job[p])'
    BY <2>1, <2>2 DEF Works
  <2>5. \A r \in Rows : r[1] # job[p].order => ledger'[r] = ledger[r]
    BY <2>3 DEF Promote
  <2>6. \A r \in Rows : ledger'[r] \in Live => ledger[r] \in Live
    BY <2>3 DEF Promote, Live
  <2>7. ASSUME NEW r \in Rows, r[1] = job[p].order PROVE InHand(p, r)' <=> InHand(p, r)
    <3>1. InHand(p, r) <=> ledger[r] = "EXECUTED"
      BY <2>1, <2>7 DEF InHand, Gave
    <3>2. InHand(p, r)' <=> ledger[r] = "EXECUTED"
      BY <2>3, <2>7 DEF InHand, Promote
    <3> QED
      BY <3>1, <3>2
  <2> QED
    BY <2>1, <2>2, <2>3, <2>4, <2>5, <2>6, <2>7, LedgerTurn
<1>7. CASE ClearConsumed(p)
  BY <1>7, GotoTurn DEF ClearConsumed, At, Labels
<1>8. ASSUME NEW r \in job[p].rows, Restore(p, r) PROVE InTurn'
  <2>1. At(p, "restore")
    BY <1>8 DEF Restore
  <2> QED
    BY <1>3, <1>8, <2>1, RestoreTurn DEF At
<1>9. ASSUME NEW r \in job[p].rows, RestoreSkipped(p, r) PROVE FALSE
  <2>1. p \in Reversers /\ job[p].at = "restore" /\ job[p].order \in Orders
    BY <1>1, <1>3, <1>9 DEF RestoreSkipped, At
  <2>2. r \in Rows /\ r[1] = job[p].order /\ ledger[r] = "COMPLETED"
    BY <1>2, <2>1 DEF Works, RowsIn
  <2>3. InHand(p, r)
    BY <2>1, <2>2 DEF InHand, Gave
  <2>4. net[r[3]][r[1]] = Qty[r[1]][r[3]]
    BY <2>1, <2>2, <2>3, OwnCount DEF Counted
  <2>5. Qty[r[1]][r[3]] > 0 /\ Qty[r[1]][r[3]] \in Nat
    BY <2>2, ConstantsAssumption DEF InTurn, OneLive, Live, Plan, Rows
  <2>6. net[r[3]][r[1]] <= -MaxDebt
    BY <1>9 DEF RestoreSkipped, Serial
  <2> QED
    BY <2>4, <2>5, <2>6, ConstantsAssumption
<1> QED
  BY <1>4, <1>5, <1>6, <1>7, <1>8, <1>9 DEF ReverseStep

\* Without a database error a cancellation is not interrupted while it restores.
LEMMA ThrowTurn ==
    ASSUME Serial, InTurn, TypeInv, NEW p \in Actors, Throw(p)
    PROVE  InTurn'
<1>1. Works(p, job[p])
  BY DEF InTurn
<1>2. job[p].at # "idle" /\ UNCHANGED <<ledger, gen, net>>
  BY DEF Throw, At, RedisCalls, DbCalls
<1>3. p \in Reversers => job[p].at \notin {"restore", "push"}
  BY DEF Throw, At, RedisCalls, Serial
<1>4. CASE Finish(p)
  BY <1>2, <1>3, <1>4, FinishTurn
<1>5. CASE job' = [job EXCEPT ![p] = [Idle EXCEPT !.at = "release",
                     !.order = job[p].order, !.held = job[p].held]]
  <2> DEFINE v == [Idle EXCEPT !.at = "release", !.order = job[p].order, !.held = job[p].held]
  <2>1. v.at = "release" /\ v.order = job[p].order
    BY DEF Idle
  <2>2. job'[p] = v /\ \A q \in Actors \ {p} : job'[q] = job[q]
    BY <1>5, InTurnTyped
  <2> HIDE DEF v
  <2>3. Works(p, job[p])'
    BY <2>1, <2>2 DEF Works
  <2>4. \A r \in Rows : p \in Reversers => (Gave(job'[p], r) <=> Gave(job[p], r))
    BY <1>3, <2>1, <2>2 DEF Gave
  <2> QED
    BY <1>2, <2>1, <2>2, <2>3, <2>4, QuietTurn
<1> QED
  BY <1>4, <1>5 DEF Throw

LEMMA InTurnInit == Init => InTurn
<1> SUFFICES ASSUME Init PROVE InTurn
  OBVIOUS
<1>1. \A p \in Actors : job[p].at = "idle"
  BY DEF Init, Idle
<1>2. \A r \in Rows : ledger[r] = "NONE"
  BY DEF Init
<1>3. Alone /\ OneLive /\ \A p \in Actors : Works(p, job[p])
  BY <1>1, <1>2 DEF Alone, OneLive, Live, Works
<1>4. Balanced
  <2>1. \A r \in Rows : ~InStock(r)
    BY <1>2 DEF InStock
  <2>2. \A o \in Orders, c \in Comps : net[c][o] = 0
    BY DEF Init, Zero
  <2> QED
    BY <2>1, <2>2 DEF Balanced
<1> QED
  BY <1>3, <1>4 DEF InTurn

LEMMA InTurnKept == Serial /\ TypeInv /\ InTurn /\ [Next]_vars => InTurn'
<1> SUFFICES ASSUME Serial, TypeInv, InTurn, [Next]_vars PROVE InTurn'
  OBVIOUS
<1>1. ASSUME UNCHANGED <<ledger, gen, net, job>> PROVE InTurn'
  BY <1>1 DEF InTurn, Alone, OneLive, Balanced, InStock, Given, Works, RowsIn
<1>2. CASE UNCHANGED vars
  BY <1>1, <1>2 DEF vars
<1>3. CASE Crash
  BY <1>3 DEF Crash, Serial
<1>4. ASSUME NEW o \in Orders, KeyExpires(o) PROVE InTurn'
  BY <1>1, <1>4 DEF KeyExpires
<1>5. ASSUME NEW p \in Actors,
             \/ LockStep(p) \/ ConsumeStep(p) \/ SyncStep(p)
             \/ RecoverStep(p) \/ ReverseStep(p) \/ Throw(p)
      PROVE  InTurn'
  BY <1>5, LockTurn, ConsumeTurn, SyncTurn, RecoverTurn, ReverseTurn, ThrowTurn
<1> QED
  BY <1>2, <1>3, <1>4, <1>5 DEF Next, Rest

LEMMA InTurnBalances == InTurn => RestBalanced
<1> SUFFICES ASSUME InTurn, NEW o \in Orders, AtRest(o), NEW c \in Comps
             PROVE  net[c][o] = Taken(o, c)
  BY DEF RestBalanced
<1>1. ASSUME NEW g \in 1..MaxGen
      PROVE  /\ <<o, g, c>> \in Rows
             /\ InStock(<<o, g, c>>) <=> ledger[<<o, g, c>>] \in Live
  <2>1. <<o, g, c>> \in Rows
    BY DEF Rows
  <2>2. ~Given(<<o, g, c>>)
    BY DEF Given, Gave, AtRest, Actors
  <2> QED
    BY <2>1, <2>2 DEF InStock, Live
<1>2. CASE \E g \in 1..MaxGen : ledger[<<o, g, c>>] \in Live
  <2>1. PICK g \in 1..MaxGen : ledger[<<o, g, c>>] \in Live
    BY <1>2
  <2> DEFINE r == <<o, g, c>>
  <2>2. r \in Rows /\ InStock(r) /\ r[1] = o /\ r[3] = c
    BY <1>1, <2>1
  <2> HIDE DEF r
  <2>3. net[c][o] = Qty[o][c]
    BY <2>2 DEF InTurn, Balanced
  <2> QED
    BY <1>2, <2>3 DEF Taken
<1>3. CASE ~ \E g \in 1..MaxGen : ledger[<<o, g, c>>] \in Live
  <2>1. \A g \in 1..MaxGen : ~InStock(<<o, g, c>>)
    BY <1>1, <1>3
  <2>2. net[c][o] = 0
    BY <2>1 DEF InTurn, Balanced
  <2> QED
    BY <1>3, <2>2 DEF Taken
<1> QED
  BY <1>2, <1>3

\* When the events of an order are handled one after the other, and no call is
\* lost and no query fails, an order at rest has taken from the local stock what
\* its ledger says, however often it was paid and cancelled.
THEOREM RestAgrees == ASSUME Serial PROVE Spec => []RestBalanced
<1>1. TypeInv /\ InTurn /\ [Next]_vars => InTurn'
  BY InTurnKept
<1> QED
  BY TypeInit, TypeStep, InTurnInit, <1>1, InTurnBalances, PTL DEF Spec
=============================================================================
