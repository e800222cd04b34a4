-------------------------- MODULE OrderIntake_proofs --------------------------
(***************************************************************************)
(* The safety properties of OrderIntake, proved for any set of orders,     *)
(* statuses and requests, any look-back and any bounds.                    *)
(*                                                                         *)
(* Types says where every record of the state may be; Announces follows a  *)
(* status from the table to its announcement.  Reaches says which page of  *)
(* a running sync an order that is behind, or a row that was not touched,  *)
(* is still to be found on, unless a shift of the listing took it away.    *)
(* Counts follows the CREATED events of one order.                         *)
(***************************************************************************)
EXTENDS OrderIntake, FiniteSetTheorems, WellFoundedInduction, TLAPS

-----------------------------------------------------------------------------
(* The inductive invariant *)

Status   == Statuses \cup {"none", "draft", "trash"}
Order    == [status : Status, time : Nat]
Row      == [status : Statuses \cup {"none"}, time : Nat, at : Nat]
Request  == [pc : {"idle", "received", "stored"}, order : Nat, payload : Order, since : Nat]
Run      == [pc : {"idle", "fetch", "read", "store", "end"}, start : Nat, full : BOOLEAN,
             page : Nat, more : BOOLEAN, snap : [Orders -> Order],
             existing : [Orders -> Statuses \cup {"none"}], todo : SUBSET Orders,
             say : SUBSET Orders, failed : BOOLEAN, processed : BOOLEAN]
Bulk     == [pc : {"idle", "read", "updated", "stored"}, order : Nat, prev : Statuses \cup {"none"},
             new : Statuses \cup {"none"}, since : Nat]

ShopTypes ==
    /\ now \in Nat /\ now >= 1
    /\ shop \in [Orders -> Order]
    /\ \A o \in Orders : shop[o].time <= now /\ (shop[o].status # "none" => shop[o].time >= 1)

RowTypes ==
    /\ row \in [Orders -> Row]
    /\ \A o \in Orders : /\ row[o].time <= now /\ row[o].at <= now
                         /\ row[o].status # "none" => shop[o].status # "none"

\* What a request holds is what the shop says, or the shop changed since it came,
\* which is less than a look-back ago.
HookTypes ==
    /\ hook \in [Hooks -> Request]
    /\ \A h \in Hooks :
        /\ hook[h].pc # "idle" => hook[h].order \in Orders /\ shop[hook[h].order].status # "none"
        /\ hook[h].pc = "stored" => hook[h].payload.status \in Statuses
        /\ hook[h].pc = "received" =>
            /\ hook[h].payload.status # "none" /\ hook[h].payload.time <= now
            /\ hook[h].since <= now /\ now - hook[h].since < Buffer
            /\ hook[h].payload = shop[hook[h].order] \/ hook[h].since <= shop[hook[h].order].time

\* The same of a page, with the start of its run.
SyncTypes ==
    /\ sync \in Run
    /\ sync.start <= now
    /\ checkpoint \in Nat /\ checkpoint <= now
    /\ sync.pc # "idle" => checkpoint <= sync.start /\ sync.page >= 1
    /\ sync.pc # "store" => sync.todo = {} /\ sync.say = {}
    /\ \A o \in Orders : sync.snap[o].status # "none" =>
        /\ shop[o].status # "none" /\ sync.snap[o].time <= now
        /\ sync.snap[o] = shop[o] \/ sync.start <= shop[o].time
    /\ \A o \in sync.todo \cup sync.say : sync.snap[o].status \in Statuses

BulkTypes ==
    /\ bulk \in Bulk
    /\ bulk.pc # "idle" =>
        bulk.order \in Orders /\ bulk.new \in Statuses
    /\ bulk.pc \in {"updated", "stored"} => shop[bulk.order].status # "none"
    /\ bulk.pc = "updated" =>
        bulk.since <= now /\ now - bulk.since < Buffer /\ bulk.since <= shop[bulk.order].time

HistoryTypes ==
    /\ seen \subseteq Orders
    /\ sent \in [Orders -> SUBSET Status] /\ unsaid \in [Orders -> SUBSET Status]
    /\ created \in [Orders -> [hook : Nat, sync : Nat]]

Excuses ==
    /\ excused \in [Orders -> [hook : Nat, sync : Nat]]
    /\ passing \subseteq Orders /\ passed \subseteq Orders

Types == ShopTypes /\ RowTypes /\ HookTypes /\ SyncTypes /\ BulkTypes /\ HistoryTypes

\* Status s of order o was announced, will be, or was lost.
Told(s, o) ==
    \/ s \in sent[o] \/ s \in unsaid[o]
    \/ \E h \in Hooks : hook[h].pc = "stored" /\ hook[h].order = o /\ hook[h].payload.status = s
    \/ o \in sync.say /\ sync.existing[o] # sync.snap[o].status /\ sync.snap[o].status = s
    \/ bulk.pc = "stored" /\ bulk.order = o /\ bulk.prev # bulk.new /\ bulk.new = s

\* Every status that was read from the table was told as well: what is compared
\* with it, and not announced because it is the same, needs no announcement.
Announces ==
    /\ \A o \in Orders : row[o].status # "none" => Told(row[o].status, o)
    /\ sync.pc = "store" => \A o \in Orders : sync.existing[o] # "none" => Told(sync.existing[o], o)
    /\ bulk.pc \in {"read", "updated"} /\ bulk.prev # "none" => Told(bulk.prev, bulk.order)

\* The listing of the run as the shop would answer now; the order is behind its
\* first n pages.
Listed       == Listing(After)
ToCome(o, n) == o \in Listed /\ Rank(o, Listed) > n * PageSize

\* The order is on the page in hand, not yet stored, or on one to come.
Ahead(o) ==
    \/ sync.pc = "fetch" /\ ToCome(o, sync.page - 1)
    \/ sync.pc = "read" /\ sync.snap[o].status # "none"
    \/ sync.pc = "store" /\ o \in sync.todo
    \/ sync.pc \in {"read", "store"} /\ sync.more /\ ToCome(o, sync.page)

\* What the run has to see, unless a shift of a listing took it away.
LongBehind(o) == Behind(o) /\ shop[o].time <= sync.start - Buffer /\ o \notin Missed
NotTouched(o) == /\ sync.full /\ row[o].status # "none" /\ row[o].at < sync.start
                 /\ shop[o].status # "trash" /\ o \notin Missed

\* What the end of the run relies on.
Reaches ==
    /\ \A o \in Orders : sync.pc # "idle" /\ ~sync.failed /\ (LongBehind(o) \/ NotTouched(o)) => Ahead(o)
    /\ CheckpointSafe

\* Once the sync notified of an order more often than it has causes for, the order has
\* a row, and a page that lists it does not take it for new.
Owing(o) == created[o].sync <= excused[o].sync

Counts == \A o \in Orders :
    /\ created[o].hook <= 1 + excused[o].hook
    /\ o \notin seen => created[o].hook <= excused[o].hook
    /\ created[o].sync <= 1 + excused[o].sync
    /\ row[o].status = "none" /\ shop[o].status # "trash" => Owing(o)
    /\ sync.pc = "read" /\ sync.snap[o].status # "none" /\ row[o].status = "none" => Owing(o)
    /\ o \in sync.todo \cup sync.say /\ sync.existing[o] = "none" => Owing(o)
    /\ o \in sync.say => row[o].status # "none"

-----------------------------------------------------------------------------
(* Listings *)

\* A non-empty set of orders has a least and a greatest element.
LEMMA LeastOrder ==
    ASSUME NEW S \in SUBSET Orders, S # {}
    PROVE  /\ \E q \in S : \A r \in S : q <= r
           /\ \E q \in S : \A r \in S : r <= q
<1> DEFINE Fam == SUBSET Orders
           R == StrictSubsetOrdering(Orders)
           Up(q) == {r \in S : r >= q}
           Down(q) == {r \in S : r <= q}
<1>1. IsWellFoundedOn(R, FiniteSubsetsOf(Orders))
  BY FS_StrictSubsetOrderingWellFounded
<1>2. \A T \in Fam : T \in FiniteSubsetsOf(Orders)
  BY FS_Subset, ConstantsAssumption DEF FiniteSubsetsOf
<1>3. \A T, U \in Fam : T \subseteq U /\ T # U => <<T, U>> \in R
  BY DEF StrictSubsetOrdering
<1>4. \A q \in S : q \in Nat
  BY ConstantsAssumption
<1>5. \E q \in S : \A r \in S : q <= r
  <2> DEFINE T == {Down(q) : q \in S}
  <2>1. T \subseteq FiniteSubsetsOf(Orders) /\ T # {}
    BY <1>2
  <2>2. PICK x \in T : \A y \in T : ~(<<y, x>> \in R)
    <3> HIDE DEF R, T
    <3> QED BY <1>1, <2>1, WFMin
  <2>3. PICK q \in S : x = Down(q)
    BY <2>2
  <2>4. ASSUME NEW r \in S, ~(q <= r) PROVE FALSE
    <3>1. Down(r) \subseteq Down(q) /\ q \in Down(q) /\ q \notin Down(r)
      BY <1>4, <2>3, <2>4
    <3>2. Down(r) \in Fam /\ Down(q) \in Fam /\ Down(r) \in T
      OBVIOUS
    <3> HIDE DEF Down, R, T
    <3>3. <<Down(r), Down(q)>> \in R
      BY <1>3, <3>1, <3>2
    <3> QED BY <2>2, <2>3, <3>2, <3>3
  <2> QED BY <2>4
<1>6. \E q \in S : \A r \in S : r <= q
  <2> DEFINE T == {Up(q) : q \in S}
  <2>1. T \subseteq FiniteSubsetsOf(Orders) /\ T # {}
    BY <1>2
  <2>2. PICK x \in T : \A y \in T : ~(<<y, x>> \in R)
    <3> HIDE DEF R, T
    <3> QED BY <1>1, <2>1, WFMin
  <2>3. PICK q \in S : x = Up(q)
    BY <2>2
  <2>4. ASSUME NEW r \in S, ~(r <= q) PROVE FALSE
    <3>1. Up(r) \subseteq Up(q) /\ q \in Up(q) /\ q \notin Up(r)
      BY <1>4, <2>3, <2>4
    <3>2. Up(r) \in Fam /\ Up(q) \in Fam /\ Up(r) \in T
      OBVIOUS
    <3> HIDE DEF Up, R, T
    <3>3. <<Up(r), Up(q)>> \in R
      BY <1>3, <3>1, <3>2
    <3> QED BY <2>2, <2>3, <3>2, <3>3
  <2> QED BY <2>4
<1> QED BY <1>5, <1>6

\* The place of an order is at most the length of the listing, and only grows with it.
LEMMA RankBounds ==
    ASSUME NEW L \in SUBSET Orders, NEW o \in Orders
    PROVE  /\ Rank(o, L) \in Nat /\ Cardinality(L) \in Nat
           /\ Rank(o, L) <= Cardinality(L) /\ Cardinality(L) <= Cardinality(Orders)
           /\ o \in L => Rank(o, L) >= 1
<1> DEFINE U == {q \in L : q >= o}
<1>1. IsFiniteSet(L) /\ Cardinality(L) <= Cardinality(Orders)
  BY FS_Subset, ConstantsAssumption
<1>2. IsFiniteSet(U) /\ Cardinality(U) <= Cardinality(L)
  BY <1>1, FS_Subset
<1>3. Cardinality(U) \in Nat /\ Cardinality(L) \in Nat
  BY <1>1, <1>2, FS_CardinalityType
<1>4. o \in L => Cardinality(U) # 0
  <2>1. o \in L => o \in U
    BY ConstantsAssumption
  <2>2. Cardinality(U) = 0 <=> U = {}
    BY <1>2, FS_EmptySet
  <2> QED BY <2>1, <2>2
<1> QED BY <1>1, <1>2, <1>3, <1>4 DEF Rank

LEMMA RankMonotone ==
    ASSUME NEW L \in SUBSET Orders, NEW M \in SUBSET Orders, L \subseteq M, NEW o \in Orders
    PROVE  Rank(o, L) <= Rank(o, M)
<1> DEFINE U == {q \in L : q >= o}
           V == {q \in M : q >= o}
<1>1. IsFiniteSet(V)
  <2>1. V \in SUBSET Orders OBVIOUS
  <2> QED BY <2>1, FS_Subset, ConstantsAssumption
<1>2. U \in SUBSET V OBVIOUS
<1> QED BY <1>1, <1>2, FS_Subset DEF Rank

\* The places of a listing have no gaps: if an order is behind place n, one has
\* the place after it.
LEMMA NextRank ==
    ASSUME NEW L \in SUBSET Orders, NEW n \in Nat, NEW o \in L, Rank(o, L) > n
    PROVE  \E q \in L : Rank(q, L) = n + 1
<1> DEFINE X == {q \in L : Rank(q, L) > n}
<1>1. X \in SUBSET Orders /\ X # {}
  OBVIOUS
<1>2. PICK q \in X : \A r \in X : r <= q
  BY <1>1, LeastOrder
<1> DEFINE A == {r \in L : r > q}
           U == {r \in L : r >= q}
<1>n. \A r \in L : r \in Nat
  BY ConstantsAssumption
<1>3. IsFiniteSet(A) /\ Cardinality(A) \in Nat
  <2>1. A \in SUBSET Orders OBVIOUS
  <2>2. IsFiniteSet(A) BY <2>1, FS_Subset, ConstantsAssumption
  <2> QED BY <2>2, FS_CardinalityType
<1>4. U = A \cup {q} /\ q \notin A
  BY <1>n
<1>5. Cardinality(U) = Cardinality(A) + 1
  <2> HIDE DEF A, U
  <2> QED BY <1>3, <1>4, FS_AddElement
<1>6. Rank(q, L) = Cardinality(A) + 1
  BY <1>5 DEF Rank
<1>7. Cardinality(A) <= n
  <2>1. CASE A = {}
    <3>1. Cardinality(A) = 0
      BY <2>1, FS_EmptySet
    <3> QED BY <3>1
  <2>2. CASE A # {}
    <3>1. A \in SUBSET Orders OBVIOUS
    <3>2. PICK r \in A : \A s \in A : r <= s
      <4> HIDE DEF A
      <4> QED BY <2>2, <3>1, LeastOrder
    <3>3. A = {s \in L : s >= r}
      BY <1>n, <3>2
    <3>4. Rank(r, L) = Cardinality(A)
      BY <3>3 DEF Rank
    <3>5. r \notin X
      BY <1>n, <1>2, <3>2
    <3>6. ~(Rank(r, L) > n)
      BY <3>2, <3>5
    <3> QED BY <1>3, <3>4, <3>6
  <2> QED BY <2>1, <2>2
<1>8. Rank(q, L) > n /\ q \in L
  BY <1>2
<1> HIDE DEF A
<1> QED BY <1>3, <1>6, <1>7, <1>8

-----------------------------------------------------------------------------
(* Types *)

\* The clock goes on, orders stay, and one that changes does so now.
Onward ==
    /\ now' \in Nat /\ now <= now'
    /\ ShopTypes'
    /\ \A o \in Orders : /\ shop[o].status # "none" => shop'[o].status # "none"
                         /\ shop'[o] = shop[o] \/ shop'[o].time = now'

LEMMA NoTypes ==
    /\ NoOrder \in Order /\ NoOrder.status = "none" /\ NoOrder.time = 0
    /\ NoRow \in Row /\ NoRow.status = "none" /\ NoRow.time = 0 /\ NoRow.at = 0
    /\ NoHook \in Request /\ NoHook.pc = "idle"
    /\ NoBulk \in Bulk /\ NoBulk.pc = "idle"
  BY DEF NoOrder, NoRow, NoHook, NoBulk, Order, Row, Request, Bulk, Status

LEMMA NoSyncTypes ==
    /\ NoSync \in Run
    /\ NoSync.pc = "idle" /\ NoSync.start = 0 /\ NoSync.page = 0 /\ NoSync.todo = {} /\ NoSync.say = {}
    /\ ~NoSync.failed /\ ~NoSync.processed /\ ~NoSync.more /\ ~NoSync.full
    /\ NoSync.snap \in [Orders -> Order] /\ \A o \in Orders : NoSync.snap[o] = NoOrder
    /\ NoSync.existing \in [Orders -> Statuses \cup {"none"}]
    /\ \A o \in Orders : NoSync.existing[o] = "none"
<1>1. [o \in Orders |-> NoOrder] \in [Orders -> Order]
  BY NoTypes
<1>2. [o \in Orders |-> "none"] \in [Orders -> Statuses \cup {"none"}]
  OBVIOUS
<1> QED BY <1>1, <1>2 DEF NoSync, Run

LEMMA RowRests ==
    ASSUME Types, Onward, row' = row
    PROVE  RowTypes'
  BY DEF Types, ShopTypes, RowTypes, Onward, Row, Order

LEMMA HookRests ==
    ASSUME Types, Onward, hook' = hook,
           \A h \in Hooks : hook[h].pc = "received" => now' - hook[h].since < Buffer
    PROVE  HookTypes'
<1> SUFFICES ASSUME NEW h \in Hooks
             PROVE  /\ hook[h].pc # "idle" => hook[h].order \in Orders /\ shop'[hook[h].order].status # "none"
                    /\ hook[h].pc = "stored" => hook[h].payload.status \in Statuses
                    /\ hook[h].pc = "received" =>
                        /\ hook[h].payload.status # "none" /\ hook[h].payload.time <= now'
                        /\ hook[h].since <= now' /\ now' - hook[h].since < Buffer
                        /\ hook[h].payload = shop'[hook[h].order] \/ hook[h].since <= shop'[hook[h].order].time
  BY DEF Types, HookTypes
<1>1. hook[h].since \in Nat /\ hook[h].payload.time \in Nat /\ now \in Nat
  BY DEF Types, HookTypes, ShopTypes, Request, Order
<1> QED BY <1>1 DEF Types, HookTypes, Onward

LEMMA SyncRests ==
    ASSUME Types, Onward, sync' = sync, checkpoint' = checkpoint
    PROVE  SyncTypes'
<1>1. sync.start \in Nat /\ now \in Nat /\ \A o \in Orders : sync.snap[o].time \in Nat
  BY DEF Types, SyncTypes, ShopTypes, Run, Order
<1>2. ASSUME NEW o \in Orders, sync.snap[o].status # "none"
      PROVE  /\ shop'[o].status # "none" /\ sync.snap[o].time <= now'
             /\ sync.snap[o] = shop'[o] \/ sync.start <= shop'[o].time
  BY <1>1, <1>2 DEF Types, SyncTypes, Onward
<1> QED BY <1>1, <1>2 DEF Types, SyncTypes, Onward

LEMMA BulkRests ==
    ASSUME Types, Onward, bulk' = bulk, bulk.pc = "updated" => now' - bulk.since < Buffer
    PROVE  BulkTypes'
<1>1. bulk.since \in Nat /\ now \in Nat
  BY DEF Types, BulkTypes, ShopTypes, Bulk
<1> QED BY <1>1 DEF Types, BulkTypes, Onward

LEMMA HistoryRests ==
    ASSUME Types, seen' = seen, sent' = sent, unsaid' = unsaid, created' = created
    PROVE  HistoryTypes'
  BY DEF Types, HistoryTypes

\* Nothing happens in the shop.
LEMMA ShopRests ==
    ASSUME Types, now' = now, shop' = shop
    PROVE  /\ Onward
           /\ \A g \in Hooks : hook[g].pc = "received" => now' - hook[g].since < Buffer
           /\ bulk.pc = "updated" => now' - bulk.since < Buffer
<1>1. ShopTypes' /\ now \in Nat
  BY DEF Types, ShopTypes
<1> QED BY <1>1 DEF Types, HookTypes, BulkTypes, Onward

\* An order changes.
LEMMA ShopMoves ==
    ASSUME Types, NEW o \in Orders, NEW s \in Status \ {"none"}, ShopSets(o, s), now' = now
    PROVE  /\ Onward
           /\ shop'[o].time = now /\ shop'[o].status = s
           /\ \A q \in Orders : q # o => shop'[q] = shop[q]
           /\ \A g \in Hooks : hook[g].pc = "received" => now' - hook[g].since < Buffer
           /\ bulk.pc = "updated" => now' - bulk.since < Buffer
<1> DEFINE new == [status |-> s, time |-> now]
<1>1. shop' = [shop EXCEPT ![o] = new]
  BY DEF ShopSets
<1>2. new \in Order /\ new.time = now /\ new.status = s
  BY DEF Types, ShopTypes, Order
<1> HIDE DEF new
<1>3. shop' \in [Orders -> Order] /\ shop'[o] = new /\ \A q \in Orders : q # o => shop'[q] = shop[q]
  BY <1>1, <1>2 DEF Types, ShopTypes
<1>4. ShopTypes'
  BY <1>2, <1>3 DEF Types, ShopTypes
<1>5. \A q \in Orders : /\ shop[q].status # "none" => shop'[q].status # "none"
                        /\ shop'[q] = shop[q] \/ shop'[q].time = now'
  BY <1>2, <1>3
<1>6. now \in Nat
  BY DEF Types, ShopTypes
<1> QED BY <1>2, <1>3, <1>4, <1>5, <1>6 DEF Types, HookTypes, BulkTypes, Onward

LEMMA TickTypes ==
    ASSUME Types, Tick
    PROVE  Types' /\ Onward
<1>u. /\ shop' = shop /\ row' = row /\ checkpoint' = checkpoint /\ seen' = seen
      /\ hook' = hook /\ sync' = sync /\ sent' = sent /\ unsaid' = unsaid
      /\ created' = created /\ bulk' = bulk
  BY DEF Tick, local, counts, drift
<1>s. /\ Onward
      /\ \A g \in Hooks : hook[g].pc = "received" => now' - hook[g].since < Buffer
      /\ bulk.pc = "updated" => now' - bulk.since < Buffer
  <2>1. now \in Nat /\ now' = now + 1
    BY DEF Tick, Types, ShopTypes
  <2>2. ShopTypes'
    BY <1>u, <2>1 DEF Types, ShopTypes, Order
  <2>3. now <= now' /\ now' \in Nat
    BY <2>1
  <2>4. Onward
    BY <1>u, <2>2, <2>3 DEF Onward
  <2>5. ASSUME NEW g \in Hooks, hook[g].pc = "received" PROVE now' - hook[g].since < Buffer
    <3>1. now + 1 - hook[g].since < Buffer
      BY <2>5 DEF Tick
    <3>2. hook[g].since \in Nat
      BY DEF Types, HookTypes, Request
    <3> QED BY <2>1, <3>1, <3>2
  <2>6. bulk.pc = "updated" => now' - bulk.since < Buffer
    <3>1. bulk.since \in Nat
      BY DEF Types, BulkTypes, Bulk
    <3> QED BY <2>1, <3>1 DEF Tick
  <2> QED BY <2>4, <2>5, <2>6
<1>1. RowTypes'
  BY <1>s, <1>u, RowRests
<1>2. HookTypes'
  BY <1>s, <1>u, HookRests
<1>3. SyncTypes'
  BY <1>s, <1>u, SyncRests
<1>4. BulkTypes'
  BY <1>s, <1>u, BulkRests
<1>5. HistoryTypes'
  BY <1>s, <1>u, HistoryRests
<1> QED BY <1>s, <1>1, <1>2, <1>3, <1>4, <1>5 DEF Types, Onward

LEMMA ShopCreatesTypes ==
    ASSUME Types, NEW o \in Orders, ShopCreates(o)
    PROVE  Types' /\ Onward
<1>q. PICK s \in Status \ {"none"} : ShopSets(o, s)
  BY ConstantsAssumption DEF ShopCreates, Status
<1>u. /\ now' = now /\ row' = row /\ checkpoint' = checkpoint /\ seen' = seen
      /\ hook' = hook /\ sync' = sync /\ sent' = sent /\ unsaid' = unsaid
      /\ created' = created /\ bulk' = bulk
  BY DEF ShopCreates, local, counts, drift
<1>s. /\ Onward
      /\ \A g \in Hooks : hook[g].pc = "received" => now' - hook[g].since < Buffer
      /\ bulk.pc = "updated" => now' - bulk.since < Buffer
  BY <1>q, <1>u, ShopMoves
<1>1. RowTypes'
  BY <1>s, <1>u, RowRests
<1>2. HookTypes'
  BY <1>s, <1>u, HookRests
<1>3. SyncTypes'
  BY <1>s, <1>u, SyncRests
<1>4. BulkTypes'
  BY <1>s, <1>u, BulkRests
<1>5. HistoryTypes'
  BY <1>s, <1>u, HistoryRests
<1> QED BY <1>s, <1>1, <1>2, <1>3, <1>4, <1>5 DEF Types, Onward

LEMMA ShopChangesTypes ==
    ASSUME Types, NEW o \in Orders, ShopChanges(o)
    PROVE  Types' /\ Onward
<1>q. PICK s \in Status \ {"none"} : ShopSets(o, s)
  BY ConstantsAssumption DEF ShopChanges, Status
<1>u. /\ now' = now /\ row' = row /\ checkpoint' = checkpoint /\ seen' = seen
      /\ hook' = hook /\ sync' = sync /\ sent' = sent /\ unsaid' = unsaid
      /\ created' = created /\ bulk' = bulk
  BY DEF ShopChanges, local, counts, drift
<1>s. /\ Onward
      /\ \A g \in Hooks : hook[g].pc = "received" => now' - hook[g].since < Buffer
      /\ bulk.pc = "updated" => now' - bulk.since < Buffer
  BY <1>q, <1>u, ShopMoves
<1>1. RowTypes'
  BY <1>s, <1>u, RowRests
<1>2. HookTypes'
  BY <1>s, <1>u, HookRests
<1>3. SyncTypes'
  BY <1>s, <1>u, SyncRests
<1>4. BulkTypes'
  BY <1>s, <1>u, BulkRests
<1>5. HistoryTypes'
  BY <1>s, <1>u, HistoryRests
<1> QED BY <1>s, <1>1, <1>2, <1>3, <1>4, <1>5 DEF Types, Onward

LEMMA HookReceivesTypes ==
    ASSUME Types, NEW h \in Hooks, NEW o \in Orders, HookReceives(h, o)
    PROVE  Types' /\ Onward
<1>u. /\ now' = now /\ shop' = shop /\ row' = row /\ checkpoint' = checkpoint
      /\ seen' = seen /\ sync' = sync /\ bulk' = bulk /\ sent' = sent /\ unsaid' = unsaid
      /\ created' = created
  BY DEF HookReceives, history, counts, drift
<1>s. /\ Onward
      /\ \A g \in Hooks : hook[g].pc = "received" => now' - hook[g].since < Buffer
      /\ bulk.pc = "updated" => now' - bulk.since < Buffer
  BY <1>u, ShopRests
<1>1. RowTypes'
  BY <1>s, <1>u, RowRests
<1>2. HookTypes'
  <2> DEFINE c == [pc |-> "received", order |-> o, payload |-> shop[o], since |-> now]
  <2>1. hook' = [hook EXCEPT ![h] = c] /\ shop[o].status # "none"
    BY DEF HookReceives
  <2>2. c \in Request /\ c.pc = "received" /\ c.order = o /\ c.payload = shop[o] /\ c.since = now
    BY ConstantsAssumption DEF Request, Types, ShopTypes
  <2> HIDE DEF c
  <2>3. hook' \in [Hooks -> Request] /\ hook'[h] = c /\ \A g \in Hooks : g # h => hook'[g] = hook[g]
    BY <2>1, <2>2 DEF Types, HookTypes
  <2>4. shop[o].time <= now /\ now \in Nat /\ now - now = 0 /\ 0 < Buffer
    BY ConstantsAssumption DEF Types, ShopTypes
  <2> QED BY <1>u, <2>1, <2>2, <2>3, <2>4 DEF Types, HookTypes
<1>3. SyncTypes'
  BY <1>s, <1>u, SyncRests
<1>4. BulkTypes'
  BY <1>s, <1>u, BulkRests
<1>5. HistoryTypes'
  BY <1>s, <1>u, HistoryRests
<1> QED BY <1>s, <1>1, <1>2, <1>3, <1>4, <1>5 DEF Types, Onward

\* What a request may do to its own state and to the table when it stores.
LEMMA HookStoresMoves ==
    ASSUME Types, NEW h \in Hooks, HookStores(h)
    PROVE  /\ hook[h].pc = "received"
           /\ hook' \in [Hooks -> Request] /\ \A g \in Hooks : g # h => hook'[g] = hook[g]
           /\ \/ row' = row /\ hook'[h].pc = "idle"
              \/ /\ hook'[h].pc = "stored" /\ hook'[h].order = hook[h].order
                 /\ hook'[h].payload.status = hook[h].payload.status
                 /\ hook[h].payload.status \in Statuses
                 /\ Store(hook[h].order, hook[h].payload) \/ row' = row
<1> DEFINE c == hook[h]
           n == [c EXCEPT !.pc = "stored", !.since = 0, !.payload.time = 0]
<1>1. c.pc = "received" /\ c \in Request /\ c.payload \in Order /\ c.payload.status # "none"
  BY DEF HookStores, Types, HookTypes, Request
<1>2. CASE c.payload.status \in Excluded
  <2>1. hook' = [hook EXCEPT ![h] = NoHook] /\ row' = row
    BY <1>2 DEF HookStores
  <2> QED BY <1>1, <2>1, NoTypes DEF Types, HookTypes
<1>3. CASE c.payload.status \notin Excluded
  <2>1. hook' = [hook EXCEPT ![h] = n] /\ (Store(c.order, c.payload) \/ row' = row)
    BY <1>3 DEF HookStores
  <2>2. /\ n \in Request /\ n.pc = "stored" /\ n.order = c.order
        /\ n.payload.status = c.payload.status
    BY <1>1 DEF Request, Order
  <2>3. c.payload.status \in Statuses
    BY <1>1, <1>3 DEF Excluded, Order, Status
  <2> HIDE DEF n
  <2>4. hook' \in [Hooks -> Request] /\ hook'[h] = n /\ \A g \in Hooks : g # h => hook'[g] = hook[g]
    BY <2>1, <2>2 DEF Types, HookTypes
  <2> QED BY <1>1, <2>1, <2>2, <2>3, <2>4
<1> QED BY <1>2, <1>3

LEMMA HookStoresTypes ==
    ASSUME Types, NEW h \in Hooks, HookStores(h)
    PROVE  Types' /\ Onward
<1>u. /\ now' = now /\ shop' = shop /\ checkpoint' = checkpoint /\ seen' = seen
      /\ sync' = sync /\ bulk' = bulk /\ sent' = sent /\ unsaid' = unsaid
      /\ created' = created
  BY DEF HookStores, history, counts, drift
<1>s. /\ Onward
      /\ \A g \in Hooks : hook[g].pc = "received" => now' - hook[g].since < Buffer
      /\ bulk.pc = "updated" => now' - bulk.since < Buffer
  BY <1>u, ShopRests
<1>1. RowTypes'
  <2> DEFINE o == hook[h].order
             n == [status |-> hook[h].payload.status, time |-> hook[h].payload.time, at |-> now]
  <2>1. CASE row' = row
    BY <1>s, <2>1, RowRests
  <2>2. CASE row' # row
    <3>1. /\ o \in Orders /\ shop[o].status # "none" /\ hook[h].payload.time <= now
          /\ hook[h].payload.time \in Nat
      BY <2>2, HookStoresMoves DEF Types, HookTypes, Request, Order
    <3>2. hook[h].payload.status \in Statuses
      BY <2>2, HookStoresMoves
    <3>3. row' = [row EXCEPT ![o] = n]
      BY <2>2, HookStoresMoves DEF Store
    <3>4. n \in Row /\ n.time <= now /\ n.at <= now
      BY <3>1, <3>2 DEF Row, Types, ShopTypes
    <3> HIDE DEF n
    <3> QED BY <1>u, <3>1, <3>3, <3>4 DEF Types, RowTypes
  <2> QED BY <2>1, <2>2
<1>2. HookTypes'
  BY <1>u, HookStoresMoves DEF Types, HookTypes
<1>3. SyncTypes'
  BY <1>s, <1>u, SyncRests
<1>4. BulkTypes'
  BY <1>s, <1>u, BulkRests
<1>5. HistoryTypes'
  BY <1>s, <1>u, HistoryRests
<1> QED BY <1>s, <1>1, <1>2, <1>3, <1>4, <1>5 DEF Types, Onward

\* CREATED is emitted for a key that was not there, or for a cause.
LEMMA HookEmitsMoves ==
    ASSUME Types, Excuses, NEW h \in Hooks, HookEmits(h)
    PROVE  LET o == hook[h].order IN
           /\ o \in Orders /\ hook[h].pc = "stored"
           /\ created' \in [Orders -> [hook : Nat, sync : Nat]] /\ Excuses'
           /\ seen \subseteq seen' /\ seen' \subseteq Orders
           /\ \A q \in Orders : /\ created'[q].sync = created[q].sync /\ excused'[q].sync = excused[q].sync
                                /\ q # o => created'[q] = created[q] /\ excused'[q] = excused[q]
           /\ \/ created'[o] = created[o] /\ excused'[o] = excused[o]
              \/ /\ created'[o].hook = created[o].hook + 1 /\ excused'[o] = excused[o]
                 /\ o \notin seen /\ o \in seen'
              \/ created'[o].hook = created[o].hook + 1 /\ excused'[o].hook = excused[o].hook + 1
<1> DEFINE o == hook[h].order
<1>1. /\ o \in Orders /\ hook[h].pc = "stored"
      /\ created \in [Orders -> [hook : Nat, sync : Nat]] /\ excused \in [Orders -> [hook : Nat, sync : Nat]]
      /\ seen \subseteq Orders /\ passing \subseteq Orders /\ passed \subseteq Orders
  BY DEF HookEmits, Types, HookTypes, HistoryTypes, Excuses
<1>2. passing' = passing /\ passed' = passed
  BY DEF HookEmits, drift
<1>3. EmitsUpdated \/ EmitsCreated(o) \/ EmitsUnkeyed(o)
  BY DEF HookEmits
<1> HIDE DEF o
<1>4. CASE EmitsUpdated
  BY <1>1, <1>2, <1>4 DEF EmitsUpdated, Excuses, o
<1>5. CASE EmitsCreated(o)
  <2>1. seen' = seen \cup {o} /\ excused' = excused
    BY <1>5 DEF EmitsCreated
  <2>2. CASE o \in seen
    BY <1>1, <1>2, <1>5, <2>1, <2>2 DEF EmitsCreated, Excuses, o
  <2>3. CASE o \notin seen
    <3>1. created' = [created EXCEPT ![o].hook = @ + 1]
      BY <1>5, <2>3 DEF EmitsCreated
    <3>2. /\ created' \in [Orders -> [hook : Nat, sync : Nat]]
          /\ created'[o].hook = created[o].hook + 1
          /\ \A q \in Orders : created'[q].sync = created[q].sync /\ (q # o => created'[q] = created[q])
      BY <1>1, <3>1
    <3> QED BY <1>1, <1>2, <2>1, <2>3, <3>2 DEF Excuses, o
  <2> QED BY <2>2, <2>3
<1>6. CASE EmitsUnkeyed(o)
  <2>1. /\ seen' = seen /\ created' = [created EXCEPT ![o].hook = @ + 1]
        /\ excused' = [excused EXCEPT ![o].hook = @ + 1]
    BY <1>6 DEF EmitsUnkeyed
  <2>2. /\ created' \in [Orders -> [hook : Nat, sync : Nat]]
        /\ created'[o].hook = created[o].hook + 1
        /\ \A q \in Orders : created'[q].sync = created[q].sync /\ (q # o => created'[q] = created[q])
    BY <1>1, <2>1
  <2>3. /\ excused' \in [Orders -> [hook : Nat, sync : Nat]]
        /\ excused'[o].hook = excused[o].hook + 1
        /\ \A q \in Orders : excused'[q].sync = excused[q].sync /\ (q # o => excused'[q] = excused[q])
    BY <1>1, <2>1
  <2> QED BY <1>1, <1>2, <2>1, <2>2, <2>3 DEF Excuses, o
<1> QED BY <1>3, <1>4, <1>5, <1>6

LEMMA HookEmitsTypes ==
    ASSUME Types, Excuses, NEW h \in Hooks, HookEmits(h)
    PROVE  Types' /\ Onward
<1>u. /\ now' = now /\ shop' = shop /\ row' = row /\ checkpoint' = checkpoint
      /\ sync' = sync /\ bulk' = bulk /\ unsaid' = unsaid
  BY DEF HookEmits
<1>s. /\ Onward
      /\ \A g \in Hooks : hook[g].pc = "received" => now' - hook[g].since < Buffer
      /\ bulk.pc = "updated" => now' - bulk.since < Buffer
  BY <1>u, ShopRests
<1>1. RowTypes'
  BY <1>s, <1>u, RowRests
<1>2. HookTypes'
  <2>1. hook' = [hook EXCEPT ![h] = NoHook]
    BY DEF HookEmits
  <2>2. hook' \in [Hooks -> Request] /\ hook'[h].pc = "idle" /\ \A g \in Hooks : g # h => hook'[g] = hook[g]
    BY <2>1, NoTypes DEF Types, HookTypes
  <2> QED BY <1>u, <2>2 DEF Types, HookTypes
<1>3. SyncTypes'
  BY <1>s, <1>u, SyncRests
<1>4. BulkTypes'
  BY <1>s, <1>u, BulkRests
<1>5. HistoryTypes'
  <2>1. hook[h].order \in Orders /\ hook[h].payload.status \in Statuses
    BY DEF HookEmits, Types, HookTypes
  <2>2. Says(hook[h].order, hook[h].payload.status)
    BY DEF HookEmits
  <2>3. sent' \in [Orders -> SUBSET Status]
    BY <2>1, <2>2 DEF Says, Types, HistoryTypes, Status
  <2>4. created' \in [Orders -> [hook : Nat, sync : Nat]] /\ seen' \subseteq Orders
    BY HookEmitsMoves
  <2> QED BY <1>u, <2>3, <2>4 DEF Types, HistoryTypes
<1> QED BY <1>s, <1>1, <1>2, <1>3, <1>4, <1>5 DEF Types, Onward

LEMMA KeyExpiresTypes ==
    ASSUME Types, NEW o \in Orders, KeyExpires(o)
    PROVE  Types' /\ Onward
<1>u. /\ now' = now /\ shop' = shop /\ row' = row /\ checkpoint' = checkpoint
      /\ hook' = hook /\ sync' = sync /\ bulk' = bulk /\ sent' = sent /\ unsaid' = unsaid
      /\ created' = created
  BY DEF KeyExpires
<1>s. /\ Onward
      /\ \A g \in Hooks : hook[g].pc = "received" => now' - hook[g].since < Buffer
      /\ bulk.pc = "updated" => now' - bulk.since < Buffer
  BY <1>u, ShopRests
<1>1. RowTypes'
  BY <1>s, <1>u, RowRests
<1>2. HookTypes'
  BY <1>s, <1>u, HookRests
<1>3. SyncTypes'
  BY <1>s, <1>u, SyncRests
<1>4. BulkTypes'
  BY <1>s, <1>u, BulkRests
<1>5. HistoryTypes'
  BY <1>u DEF KeyExpires, Types, HistoryTypes
<1> QED BY <1>s, <1>1, <1>2, <1>3, <1>4, <1>5 DEF Types, Onward

LEMMA HookAbortsTypes ==
    ASSUME Types, NEW h \in Hooks, HookAborts(h)
    PROVE  Types' /\ Onward
<1>u. /\ now' = now /\ shop' = shop /\ row' = row /\ checkpoint' = checkpoint
      /\ seen' = seen /\ sync' = sync /\ bulk' = bulk /\ sent' = sent
      /\ created' = created
  BY DEF HookAborts, counts
<1>s. /\ Onward
      /\ \A g \in Hooks : hook[g].pc = "received" => now' - hook[g].since < Buffer
      /\ bulk.pc = "updated" => now' - bulk.since < Buffer
  BY <1>u, ShopRests
<1>1. RowTypes'
  BY <1>s, <1>u, RowRests
<1>2. HookTypes'
  <2>1. hook' = [hook EXCEPT ![h] = NoHook]
    BY DEF HookAborts
  <2>2. hook' \in [Hooks -> Request] /\ hook'[h].pc = "idle" /\ \A g \in Hooks : g # h => hook'[g] = hook[g]
    BY <2>1, NoTypes DEF Types, HookTypes
  <2> QED BY <1>u, <2>2 DEF Types, HookTypes
<1>3. SyncTypes'
  BY <1>s, <1>u, SyncRests
<1>4. BulkTypes'
  BY <1>s, <1>u, BulkRests
<1>5. HistoryTypes'
  <2>1. unsaid' = [unsaid EXCEPT ![hook[h].order] = @ \cup HookOwes(h)] /\ hook[h].pc # "idle"
    BY DEF HookAborts
  <2>2. HookOwes(h) \in SUBSET Status
    BY DEF HookOwes, Types, HookTypes, Status
  <2>3. unsaid' \in [Orders -> SUBSET Status]
    BY <2>1, <2>2 DEF Types, HistoryTypes
  <2> QED BY <1>u, <2>3 DEF Types, HistoryTypes
<1> QED BY <1>s, <1>1, <1>2, <1>3, <1>4, <1>5 DEF Types, Onward

LEMMA SyncStartsMoves ==
    ASSUME Types, SyncStarts
    PROVE  /\ sync.pc = "idle"
           /\ sync' \in Run
           /\ sync'.pc = "fetch" /\ sync'.start = now /\ sync'.page = 1 /\ ~sync'.more
           /\ sync'.snap = NoSync.snap /\ sync'.existing = NoSync.existing
           /\ sync'.todo = {} /\ sync'.say = {} /\ ~sync'.failed /\ ~sync'.processed
<1>p. PICK full \in BOOLEAN : /\ sync' = [NoSync EXCEPT !.pc = "fetch", !.start = now, !.full = full, !.page = 1]
                             /\ sync.pc = "idle"
  BY DEF SyncStarts
<1> DEFINE n == [NoSync EXCEPT !.pc = "fetch", !.start = now, !.full = full, !.page = 1]
<1>1. sync' = n /\ sync.pc = "idle"
  BY <1>p
<1>2. sync \in Run
  BY DEF Types, SyncTypes
<1>3. now \in Nat
  BY ConstantsAssumption DEF Types, ShopTypes
<1>4. n \in Run
  BY <1>2, <1>3, NoSyncTypes DEF Run
<1>5. /\ n.pc = "fetch" /\ n.start = now /\ n.page = 1 /\ ~n.more
      /\ n.snap = NoSync.snap /\ n.existing = NoSync.existing /\ n.todo = {}
      /\ n.say = {} /\ ~n.failed /\ ~n.processed
  BY <1>2, <1>3, NoSyncTypes DEF Run
<1> HIDE DEF n
<1> QED BY <1>1, <1>3, <1>4, <1>5

\* The page that is fetched.
Page == PageOf(sync.page, Listing(After))

LEMMA SyncFetchesMoves ==
    ASSUME Types, SyncFetches
    PROVE  /\ sync.pc = "fetch"
           /\ sync' \in Run
           /\ sync'.start = sync.start /\ sync'.full = sync.full
           /\ sync'.page = sync.page
           /\ sync'.more = (sync.page * PageSize < Cardinality(Listing(After)))
           /\ sync'.existing = sync.existing /\ sync'.todo = sync.todo
           /\ sync'.say = sync.say /\ sync'.failed = sync.failed
           /\ sync'.processed = sync.processed
           /\ sync'.pc = IF Page = {} THEN "end" ELSE "read"
           /\ \A o \in Orders : sync'.snap[o] = IF o \in Page THEN shop[o] ELSE NoOrder
<1> DEFINE m == sync.page * PageSize < Cardinality(Listing(After))
           n == [sync EXCEPT
                    !.pc = IF Page = {} THEN "end" ELSE "read",
                    !.snap = [o \in Orders |-> IF o \in Page THEN shop[o] ELSE NoOrder],
                    !.more = m]
<1>1. sync' = n /\ sync.pc = "fetch"
  BY DEF SyncFetches, Page
<1>m. m \in BOOLEAN
  OBVIOUS
<1> HIDE DEF m
<1>2. sync \in Run
  BY DEF Types, SyncTypes
<1>3. [o \in Orders |-> IF o \in Page THEN shop[o] ELSE NoOrder] \in [Orders -> Order]
  BY NoTypes DEF Types, ShopTypes
<1>4. n \in Run
  BY <1>2, <1>3, <1>m, NoSyncTypes DEF Run
<1>5. /\ n.start = sync.start /\ n.full = sync.full /\ n.page = sync.page
      /\ n.more = m
      /\ n.existing = sync.existing /\ n.todo = sync.todo /\ n.say = sync.say
      /\ n.failed = sync.failed /\ n.processed = sync.processed
  BY <1>2, <1>3, <1>m, NoSyncTypes DEF Run
<1>6. n.pc = IF Page = {} THEN "end" ELSE "read"
  BY <1>2 DEF Run
<1>7. n.snap = [o \in Orders |-> IF o \in Page THEN shop[o] ELSE NoOrder]
  BY <1>2 DEF Run
<1>8. \A o \in Orders : n.snap[o] = IF o \in Page THEN shop[o] ELSE NoOrder
  BY <1>7
<1> HIDE DEF n
<1>9. sync'.more = (sync.page * PageSize < Cardinality(Listing(After)))
  BY <1>1, <1>5 DEF m
<1> QED BY <1>1, <1>4, <1>5, <1>6, <1>8, <1>9

\* What a page has to store.
InPage == {o \in Orders : sync.snap[o].status # "none" /\ sync.snap[o].status \notin Excluded}

LEMMA SyncReadsMoves ==
    ASSUME Types, SyncReads
    PROVE  /\ sync.pc = "read"
           /\ sync' \in Run
           /\ sync'.pc = "store" /\ sync'.start = sync.start /\ sync'.full = sync.full
           /\ sync'.page = sync.page /\ sync'.more = sync.more /\ sync'.snap = sync.snap
           /\ sync'.todo = InPage /\ sync'.say = sync.say /\ sync'.failed = sync.failed
           /\ sync'.processed = sync.processed
           /\ \A o \in Orders : sync'.existing[o] = IF o \in InPage THEN row[o].status ELSE "none"
           /\ row' = [o \in Orders |-> IF /\ sync.snap[o].status \in Excluded /\ sync.snap[o].status # "none"
                                          /\ row[o].status # "none"
                                       THEN [row[o] EXCEPT !.at = now] ELSE row[o]]
<1> DEFINE n == [sync EXCEPT
                    !.pc = "store", !.todo = InPage,
                    !.existing = [o \in Orders |-> IF o \in InPage THEN row[o].status ELSE "none"]]
<1> DEFINE P == {o \in Orders : sync.snap[o].status # "none"}
           kept == {o \in P : sync.snap[o].status \notin Excluded}
<1>k. kept = InPage
  BY DEF InPage
<1>1. sync' = n /\ sync.pc = "read"
  <2>1. sync' = [sync EXCEPT !.pc = "store", !.todo = kept,
                   !.existing = [o \in Orders |-> IF o \in kept THEN row[o].status ELSE "none"]]
    BY DEF SyncReads
  <2> HIDE DEF kept
  <2> QED BY <1>k, <2>1 DEF SyncReads
<1>r. row' = [o \in Orders |-> IF /\ sync.snap[o].status \in Excluded /\ sync.snap[o].status # "none"
                                 /\ row[o].status # "none"
                              THEN [row[o] EXCEPT !.at = now] ELSE row[o]]
  <2>1. row' = [o \in Orders |-> IF o \in P \ kept /\ row[o].status # "none"
                                THEN [row[o] EXCEPT !.at = now] ELSE row[o]]
    BY DEF SyncReads
  <2>2. \A o \in Orders : o \in P \ kept <=> sync.snap[o].status \in Excluded /\ sync.snap[o].status # "none"
    OBVIOUS
  <2> HIDE DEF P, kept
  <2> QED BY <2>1, <2>2
<1>2. sync \in Run
  BY DEF Types, SyncTypes
<1>3. /\ [o \in Orders |-> IF o \in InPage THEN row[o].status ELSE "none"] \in [Orders -> Statuses \cup {"none"}]
      /\ InPage \in SUBSET Orders
  BY DEF Types, RowTypes, Row, InPage
<1>4. n \in Run
  BY <1>2, <1>3, NoSyncTypes DEF Run
<1>5. /\ n.pc = "store" /\ n.start = sync.start /\ n.full = sync.full
      /\ n.page = sync.page /\ n.more = sync.more /\ n.snap = sync.snap
      /\ n.todo = InPage /\ n.say = sync.say /\ n.failed = sync.failed
      /\ n.processed = sync.processed
  BY <1>2, <1>3, NoSyncTypes DEF Run
<1>6. n.existing = [o \in Orders |-> IF o \in InPage THEN row[o].status ELSE "none"]
  BY <1>2 DEF Run
<1>7. \A o \in Orders : n.existing[o] = IF o \in InPage THEN row[o].status ELSE "none"
  BY <1>6
<1> HIDE DEF n
<1> QED BY <1>1, <1>r, <1>4, <1>5, <1>7

\* An upsert of the sync is done, or fails.
Upserted(o) == /\ Store(o, sync.snap[o])
               /\ sync'.say = sync.say \cup {o} /\ sync'.failed = sync.failed
UpsertFailed(o) == /\ row' = IF row[o].status = "none" THEN row ELSE [row EXCEPT ![o].at = now]
                   /\ sync'.say = sync.say /\ sync'.failed

LEMMA SyncStoresMoves ==
    ASSUME Types, NEW o \in Orders, SyncStores(o)
    PROVE  /\ sync.pc = "store" /\ o \in sync.todo
           /\ sync' \in Run
           /\ sync'.pc = sync.pc /\ sync'.start = sync.start /\ sync'.full = sync.full
           /\ sync'.page = sync.page /\ sync'.more = sync.more /\ sync'.snap = sync.snap
           /\ sync'.existing = sync.existing /\ sync'.todo = sync.todo \ {o}
           /\ Upserted(o) \/ UpsertFailed(o)
<1> DEFINE n == [sync EXCEPT !.todo = @ \ {o}, !.say = @ \cup {o}, !.processed = TRUE]
           m == [sync EXCEPT !.todo = @ \ {o}, !.failed = TRUE]
<1>1. sync \in Run /\ sync.pc = "store" /\ o \in sync.todo
  BY DEF SyncStores, Types, SyncTypes
<1>2. n \in Run /\ m \in Run
  BY <1>1 DEF Run
<1>3. /\ n.pc = sync.pc /\ n.start = sync.start /\ n.full = sync.full
      /\ n.page = sync.page /\ n.more = sync.more /\ n.snap = sync.snap
      /\ n.existing = sync.existing /\ n.todo = sync.todo \ {o}
      /\ n.say = sync.say \cup {o} /\ n.failed = sync.failed /\ n.processed
  BY <1>1 DEF Run
<1>4. /\ m.pc = sync.pc /\ m.start = sync.start /\ m.full = sync.full
      /\ m.page = sync.page /\ m.more = sync.more /\ m.snap = sync.snap
      /\ m.existing = sync.existing /\ m.todo = sync.todo \ {o} /\ m.say = sync.say
      /\ m.failed /\ m.processed = sync.processed
  BY <1>1 DEF Run
<1>5. \/ Store(o, sync.snap[o]) /\ sync' = n
      \/ /\ row' = IF row[o].status = "none" THEN row ELSE [row EXCEPT ![o].at = now]
         /\ sync' = m
  BY DEF SyncStores
<1> HIDE DEF n, m
<1> QED BY <1>1, <1>2, <1>3, <1>4, <1>5 DEF Upserted, UpsertFailed

LEMMA SyncEmitsMoves ==
    ASSUME Types, NEW o \in Orders, SyncEmits(o)
    PROVE  /\ sync.pc = "store" /\ sync.todo = {} /\ o \in sync.say
           /\ sync' \in Run
           /\ sync'.pc = sync.pc /\ sync'.start = sync.start /\ sync'.full = sync.full
           /\ sync'.page = sync.page /\ sync'.more = sync.more /\ sync'.snap = sync.snap
           /\ sync'.existing = sync.existing /\ sync'.todo = sync.todo
           /\ sync'.say = sync.say \ {o} /\ sync'.failed = sync.failed
           /\ sync'.processed = sync.processed
<1> DEFINE n == [sync EXCEPT !.say = @ \ {o}]
<1>1. sync' = n /\ sync.pc = "store" /\ sync.todo = {} /\ o \in sync.say
  BY DEF SyncEmits
<1>2. sync \in Run
  BY DEF Types, SyncTypes
<1>3. sync.say \ {o} \in SUBSET Orders
  BY <1>2 DEF Run
<1>4. n \in Run
  BY <1>2, <1>3, NoSyncTypes DEF Run
<1>5. /\ n.pc = sync.pc /\ n.start = sync.start /\ n.full = sync.full
      /\ n.page = sync.page /\ n.more = sync.more /\ n.snap = sync.snap
      /\ n.existing = sync.existing /\ n.todo = sync.todo /\ n.say = sync.say \ {o}
      /\ n.failed = sync.failed /\ n.processed = sync.processed
  BY <1>2, <1>3, NoSyncTypes DEF Run
<1> HIDE DEF n
<1> QED BY <1>1, <1>3, <1>4, <1>5

LEMMA SyncTurnsPageMoves ==
    ASSUME Types, SyncTurnsPage
    PROVE  /\ sync.pc = "store" /\ sync.todo = {} /\ sync.say = {} /\ sync.more
           /\ sync' \in Run
           /\ sync'.pc = "fetch" /\ sync'.start = sync.start /\ sync'.full = sync.full
           /\ sync'.page = sync.page + 1 /\ sync'.more = sync.more
           /\ sync'.snap = NoSync.snap /\ sync'.existing = NoSync.existing
           /\ sync'.todo = sync.todo /\ sync'.say = sync.say
           /\ sync'.failed = sync.failed /\ sync'.processed = sync.processed
<1> DEFINE n == [sync EXCEPT !.pc = "fetch", !.page = sync.page + 1,
                   !.snap = NoSync.snap, !.existing = NoSync.existing]
<1>1. sync' = n /\ sync.pc = "store" /\ sync.todo = {} /\ sync.say = {} /\ sync.more
  BY DEF SyncTurnsPage, PageDone
<1>2. sync \in Run
  BY DEF Types, SyncTypes
<1>3. /\ sync.page + 1 \in Nat /\ NoSync.snap \in [Orders -> Order]
      /\ NoSync.existing \in [Orders -> Statuses \cup {"none"}]
  BY <1>2, NoSyncTypes DEF Run
<1>4. n \in Run
  BY <1>2, <1>3 DEF Run
<1>5. /\ n.pc = "fetch" /\ n.start = sync.start /\ n.full = sync.full
      /\ n.page = sync.page + 1 /\ n.more = sync.more /\ n.snap = NoSync.snap
      /\ n.existing = NoSync.existing /\ n.todo = sync.todo /\ n.say = sync.say
      /\ n.failed = sync.failed /\ n.processed = sync.processed
  BY <1>2, <1>3 DEF Run
<1> HIDE DEF n
<1> QED BY <1>1, <1>3, <1>4, <1>5

LEMMA SyncStartsTypes ==
    ASSUME Types, SyncStarts
    PROVE  Types' /\ Onward
<1>u. /\ now' = now /\ shop' = shop /\ seen' = seen /\ hook' = hook /\ bulk' = bulk
      /\ sent' = sent /\ unsaid' = unsaid /\ created' = created
      /\ checkpoint' = checkpoint /\ row' = row
  BY DEF SyncStarts, history, counts, drift
<1>s. /\ Onward
      /\ \A g \in Hooks : hook[g].pc = "received" => now' - hook[g].since < Buffer
      /\ bulk.pc = "updated" => now' - bulk.since < Buffer
  BY <1>u, ShopRests
<1>1. RowTypes'
  BY <1>s, <1>u, RowRests
<1>2. HookTypes'
  BY <1>s, <1>u, HookRests
<1>3. SyncTypes'
  <2>1. now \in Nat /\ sync \in Run /\ checkpoint \in Nat /\ checkpoint <= now
    BY DEF Types, ShopTypes, SyncTypes
  
  <2>2. \A o \in Orders : sync'.snap[o].status = "none"
    BY SyncStartsMoves, NoSyncTypes, NoTypes
  <2> QED BY <1>u, <2>1, <2>2, SyncStartsMoves DEF SyncTypes
<1>4. BulkTypes'
  BY <1>s, <1>u, BulkRests
<1>5. HistoryTypes'
  BY <1>s, <1>u, HistoryRests
<1> QED BY <1>s, <1>1, <1>2, <1>3, <1>4, <1>5 DEF Types, Onward

LEMMA SyncFetchesTypes ==
    ASSUME Types, SyncFetches
    PROVE  Types' /\ Onward
<1>u. /\ now' = now /\ shop' = shop /\ seen' = seen /\ hook' = hook /\ bulk' = bulk
      /\ sent' = sent /\ unsaid' = unsaid /\ created' = created
      /\ checkpoint' = checkpoint /\ row' = row
  BY DEF SyncFetches, history, counts, drift
<1>s. /\ Onward
      /\ \A g \in Hooks : hook[g].pc = "received" => now' - hook[g].since < Buffer
      /\ bulk.pc = "updated" => now' - bulk.since < Buffer
  BY <1>u, ShopRests
<1>1. RowTypes'
  BY <1>s, <1>u, RowRests
<1>2. HookTypes'
  BY <1>s, <1>u, HookRests
<1>3. SyncTypes'
  <2>1. now \in Nat /\ sync \in Run /\ checkpoint \in Nat /\ checkpoint <= now
    BY DEF Types, ShopTypes, SyncTypes
  
  <2>2. sync.start <= now /\ checkpoint <= sync.start /\ sync.page >= 1 /\ sync.todo = {} /\ sync.say = {}
    BY SyncFetchesMoves DEF Types, SyncTypes
  <2>3. \A o \in Orders : sync'.snap[o].status # "none" => sync'.snap[o] = shop[o] /\ shop[o].time <= now
    BY SyncFetchesMoves, NoTypes DEF Types, ShopTypes
  <2>4. sync'.pc # "store" /\ sync'.pc # "idle"
    BY SyncFetchesMoves
  <2> QED BY <1>u, <2>1, <2>2, <2>3, <2>4, SyncFetchesMoves DEF SyncTypes
<1>4. BulkTypes'
  BY <1>s, <1>u, BulkRests
<1>5. HistoryTypes'
  BY <1>s, <1>u, HistoryRests
<1> QED BY <1>s, <1>1, <1>2, <1>3, <1>4, <1>5 DEF Types, Onward

LEMMA SyncReadsTypes ==
    ASSUME Types, SyncReads
    PROVE  Types' /\ Onward
<1>u. /\ now' = now /\ shop' = shop /\ seen' = seen /\ hook' = hook /\ bulk' = bulk
      /\ sent' = sent /\ unsaid' = unsaid /\ created' = created
      /\ checkpoint' = checkpoint
  BY DEF SyncReads, history, counts, drift
<1>s. /\ Onward
      /\ \A g \in Hooks : hook[g].pc = "received" => now' - hook[g].since < Buffer
      /\ bulk.pc = "updated" => now' - bulk.since < Buffer
  BY <1>u, ShopRests
<1>1. RowTypes'
  <2>1. now \in Nat /\ row \in [Orders -> Row] /\ now <= now
    BY DEF Types, ShopTypes, RowTypes
  <2>2. ASSUME NEW o \in Orders
        PROVE  /\ [row[o] EXCEPT !.at = now] \in Row
               /\ [row[o] EXCEPT !.at = now].status = row[o].status
               /\ [row[o] EXCEPT !.at = now].time = row[o].time
               /\ [row[o] EXCEPT !.at = now].at = now
    BY <2>1 DEF Row
  <2>3. row' \in [Orders -> Row] /\ \A o \in Orders : row'[o] = row[o] \/ row'[o] = [row[o] EXCEPT !.at = now]
    BY <2>1, <2>2, SyncReadsMoves
  <2> QED BY <1>u, <2>1, <2>2, <2>3 DEF Types, RowTypes
<1>2. HookTypes'
  BY <1>s, <1>u, HookRests
<1>3. SyncTypes'
  <2>1. now \in Nat /\ sync \in Run /\ checkpoint \in Nat /\ checkpoint <= now
    BY DEF Types, ShopTypes, SyncTypes
  
  <2>2. sync.start <= now /\ checkpoint <= sync.start /\ sync.page >= 1 /\ sync.say = {}
    BY SyncReadsMoves DEF Types, SyncTypes
  <2>3. \A o \in InPage : sync.snap[o].status \in Statuses
    BY <2>1 DEF InPage, Run, Order, Status, Excluded
  <2>4. sync'.snap = sync.snap /\ sync'.todo = InPage /\ sync'.say = {} /\ sync'.pc = "store"
    BY <2>2, SyncReadsMoves
  <2> QED BY <1>u, <2>1, <2>2, <2>3, <2>4, SyncReadsMoves DEF Types, SyncTypes
<1>4. BulkTypes'
  BY <1>s, <1>u, BulkRests
<1>5. HistoryTypes'
  BY <1>s, <1>u, HistoryRests
<1> QED BY <1>s, <1>1, <1>2, <1>3, <1>4, <1>5 DEF Types, Onward

LEMMA SyncStoresTypes ==
    ASSUME Types, NEW o \in Orders, SyncStores(o)
    PROVE  Types' /\ Onward
<1>u. /\ now' = now /\ shop' = shop /\ seen' = seen /\ hook' = hook /\ bulk' = bulk
      /\ sent' = sent /\ unsaid' = unsaid /\ created' = created
      /\ checkpoint' = checkpoint
  BY DEF SyncStores, history, counts, drift
<1>s. /\ Onward
      /\ \A g \in Hooks : hook[g].pc = "received" => now' - hook[g].since < Buffer
      /\ bulk.pc = "updated" => now' - bulk.since < Buffer
  BY <1>u, ShopRests
<1>1. RowTypes'
  <2> DEFINE n == [status |-> sync.snap[o].status, time |-> sync.snap[o].time, at |-> now]
             m == [row[o] EXCEPT !.at = now]
  <2>1. /\ now \in Nat /\ row \in [Orders -> Row] /\ shop[o].status # "none"
        /\ sync.snap[o].status \in Statuses /\ sync.snap[o].time \in Nat /\ sync.snap[o].time <= now
    <3>1. sync.snap[o].status \in Statuses
      BY SyncStoresMoves DEF Types, SyncTypes
    <3>2. sync.snap[o].status # "none"
      BY <3>1, ConstantsAssumption
    <3> QED BY <3>1, <3>2 DEF Types, ShopTypes, RowTypes, SyncTypes, Run, Order
  <2>2. n \in Row /\ n.time <= now /\ n.at <= now
    BY <2>1 DEF Row
  <2>3. m \in Row /\ m.time = row[o].time /\ m.at = now /\ m.status = row[o].status /\ now <= now
    BY <2>1 DEF Row
  <2>4. \/ row' = row \/ row' = [row EXCEPT ![o] = n] \/ row' = [row EXCEPT ![o] = m]
    BY SyncStoresMoves DEF Upserted, UpsertFailed, Store
  <2> HIDE DEF n, m
  <2>5. CASE row' = row
    BY <1>s, <2>5, RowRests
  <2>6. CASE row' = [row EXCEPT ![o] = n]
    BY <1>u, <2>1, <2>2, <2>6 DEF Types, RowTypes
  <2>7. CASE row' = [row EXCEPT ![o] = m]
    BY <1>u, <2>1, <2>3, <2>7 DEF Types, RowTypes
  <2> QED BY <2>4, <2>5, <2>6, <2>7
<1>2. HookTypes'
  BY <1>s, <1>u, HookRests
<1>3. SyncTypes'
  <2>1. now \in Nat /\ sync \in Run /\ checkpoint \in Nat /\ checkpoint <= now
    BY DEF Types, ShopTypes, SyncTypes
  
  <2>2. sync'.todo \cup sync'.say \subseteq sync.todo \cup sync.say
    BY SyncStoresMoves DEF Upserted, UpsertFailed
  <2> QED BY <1>u, <2>1, <2>2, SyncStoresMoves DEF Types, SyncTypes
<1>4. BulkTypes'
  BY <1>s, <1>u, BulkRests
<1>5. HistoryTypes'
  BY <1>s, <1>u, HistoryRests
<1> QED BY <1>s, <1>1, <1>2, <1>3, <1>4, <1>5 DEF Types, Onward

LEMMA SyncEmitsTypes ==
    ASSUME Types, NEW o \in Orders, SyncEmits(o)
    PROVE  Types' /\ Onward
<1>u. /\ now' = now /\ shop' = shop /\ seen' = seen /\ hook' = hook /\ bulk' = bulk
      /\ row' = row /\ checkpoint' = checkpoint
  BY DEF SyncEmits
<1>s. /\ Onward
      /\ \A g \in Hooks : hook[g].pc = "received" => now' - hook[g].since < Buffer
      /\ bulk.pc = "updated" => now' - bulk.since < Buffer
  BY <1>u, ShopRests
<1>1. RowTypes'
  BY <1>s, <1>u, RowRests
<1>2. HookTypes'
  BY <1>s, <1>u, HookRests
<1>3. SyncTypes'
  <2>1. now \in Nat /\ sync \in Run /\ checkpoint \in Nat /\ checkpoint <= now
    BY DEF Types, ShopTypes, SyncTypes
  
  <2> QED BY <1>u, <2>1, SyncEmitsMoves DEF Types, SyncTypes
<1>4. BulkTypes'
  BY <1>s, <1>u, BulkRests
<1>5. HistoryTypes'
  <2>1. sync.snap[o].status \in Statuses
    BY SyncEmitsMoves DEF Types, SyncTypes
  <2>2. SyncOwes(o) \in SUBSET Status
    BY <2>1 DEF SyncOwes, Status
  <2>3. sent' = sent \/ Says(o, sync.snap[o].status)
    BY DEF SyncEmits
  <2>4. sent' \in [Orders -> SUBSET Status]
    BY <2>1, <2>3 DEF Says, Types, HistoryTypes, Status
  <2>5. unsaid' = unsaid \/ unsaid' = [unsaid EXCEPT ![o] = @ \cup SyncOwes(o)]
    BY DEF SyncEmits
  <2>6. unsaid' \in [Orders -> SUBSET Status]
    BY <2>2, <2>5 DEF Types, HistoryTypes
  <2>7. created' = created \/ created' = [created EXCEPT ![o].sync = @ + 1]
    BY DEF SyncEmits
  <2>8. created' \in [Orders -> [hook : Nat, sync : Nat]]
    BY <2>7 DEF Types, HistoryTypes
  <2> QED BY <1>u, <2>4, <2>6, <2>8 DEF Types, HistoryTypes
<1> QED BY <1>s, <1>1, <1>2, <1>3, <1>4, <1>5 DEF Types, Onward

LEMMA SyncTurnsPageTypes ==
    ASSUME Types, SyncTurnsPage
    PROVE  Types' /\ Onward
<1>u. /\ now' = now /\ shop' = shop /\ seen' = seen /\ hook' = hook /\ bulk' = bulk
      /\ sent' = sent /\ unsaid' = unsaid /\ created' = created
      /\ checkpoint' = checkpoint /\ row' = row
  BY DEF SyncTurnsPage, history, counts, drift
<1>s. /\ Onward
      /\ \A g \in Hooks : hook[g].pc = "received" => now' - hook[g].since < Buffer
      /\ bulk.pc = "updated" => now' - bulk.since < Buffer
  BY <1>u, ShopRests
<1>1. RowTypes'
  BY <1>s, <1>u, RowRests
<1>2. HookTypes'
  BY <1>s, <1>u, HookRests
<1>3. SyncTypes'
  <2>1. now \in Nat /\ sync \in Run /\ checkpoint \in Nat /\ checkpoint <= now
    BY DEF Types, ShopTypes, SyncTypes
  
  <2>2. sync.start <= now /\ checkpoint <= sync.start /\ sync.page \in Nat /\ sync.page >= 1
    BY SyncTurnsPageMoves DEF Types, SyncTypes, Run
  <2>3. sync.page + 1 >= 1
    BY <2>2
  <2>4. \A o \in Orders : sync'.snap[o].status = "none"
    BY SyncTurnsPageMoves, NoSyncTypes, NoTypes
  <2> QED BY <1>u, <2>1, <2>2, <2>3, <2>4, SyncTurnsPageMoves DEF SyncTypes
<1>4. BulkTypes'
  BY <1>s, <1>u, BulkRests
<1>5. HistoryTypes'
  BY <1>s, <1>u, HistoryRests
<1> QED BY <1>s, <1>1, <1>2, <1>3, <1>4, <1>5 DEF Types, Onward

LEMMA SyncEndsMoves ==
    ASSUME SyncEnds
    PROVE  /\ sync.pc = "end" \/ (sync.pc = "store" /\ sync.todo = {} /\ sync.say = {} /\ ~sync.more)
           /\ sync' = NoSync
           /\ \/ row' = row /\ checkpoint' = checkpoint
              \/ /\ ~sync.failed /\ checkpoint' = sync.start
                 /\ \E gone \in SUBSET Orders :
                      /\ row' = [o \in Orders |-> IF o \in gone THEN NoRow ELSE row[o]]
                      /\ gone # {} => sync.full /\ gone = Untouched
<1> DEFINE gone == IF sync.full /\ sync.processed /\ Cardinality(Untouched) <= Cap THEN Untouched ELSE {}
<1>1. gone \in SUBSET Orders /\ (gone # {} => sync.full /\ gone = Untouched)
  BY DEF Untouched
<1>2. CASE sync.failed
  BY <1>2 DEF SyncEnds, PageDone
<1>3. CASE ~sync.failed
  <2>1. row' = [o \in Orders |-> IF o \in gone THEN NoRow ELSE row[o]] /\ checkpoint' = sync.start
    BY <1>3 DEF SyncEnds, NewCheckpoint
  <2> HIDE DEF gone
  <2> QED BY <1>1, <1>3, <2>1 DEF SyncEnds, PageDone
<1> QED BY <1>2, <1>3

\* A run that failed leaves no trace of its end; one that did not counts the rows of
\* live orders that it deletes.
LEMMA SyncEndsCauses ==
    ASSUME Types, Excuses, SyncEnds
    PROVE  /\ sync.failed => row' = row /\ checkpoint' = checkpoint /\ excused' = excused /\ passed' = passed
           /\ ~sync.failed => checkpoint' = sync.start /\ passed' = Missed
           /\ passing' = passing /\ Excuses'
           /\ \A o \in Orders :
                /\ excused'[o].hook = excused[o].hook
                /\ excused'[o].sync \in {excused[o].sync, excused[o].sync + 1}
                /\ row[o].status # "none" /\ row'[o].status = "none" /\ shop[o].status # "trash"
                     => excused'[o].sync = excused[o].sync + 1
<1> DEFINE gone == IF sync.full /\ sync.processed /\ Cardinality(Untouched) <= Cap THEN Untouched ELSE {}
<1>1. /\ excused \in [Orders -> [hook : Nat, sync : Nat]]
      /\ passing \subseteq Orders /\ passed \subseteq Orders /\ Missed \subseteq Orders
  BY DEF Excuses, Missed
<1>2. passing' = passing
  BY DEF SyncEnds
<1>3. CASE sync.failed
  <2>1. row' = row /\ checkpoint' = checkpoint /\ excused' = excused /\ passed' = passed
    BY <1>3 DEF SyncEnds
  <2> QED BY <1>1, <1>2, <1>3, <2>1 DEF Excuses
<1>4. CASE ~sync.failed
  <2>1. /\ row' = [o \in Orders |-> IF o \in gone THEN NoRow ELSE row[o]]
        /\ checkpoint' = sync.start /\ passed' = Missed
        /\ excused' = [o \in Orders |-> IF o \in gone /\ shop[o].status # "trash"
                       THEN [excused[o] EXCEPT !.sync = @ + 1] ELSE excused[o]]
    BY <1>4 DEF SyncEnds, NewCheckpoint
  <2> HIDE DEF gone
  <2>2. \A o \in Orders : /\ [excused[o] EXCEPT !.sync = @ + 1] \in [hook : Nat, sync : Nat]
                          /\ [excused[o] EXCEPT !.sync = @ + 1].hook = excused[o].hook
                          /\ [excused[o] EXCEPT !.sync = @ + 1].sync = excused[o].sync + 1
    BY <1>1
  <2>3. excused' \in [Orders -> [hook : Nat, sync : Nat]]
    BY <1>1, <2>1, <2>2
  <2>4. ASSUME NEW o \in Orders
        PROVE  /\ excused'[o].hook = excused[o].hook
               /\ excused'[o].sync \in {excused[o].sync, excused[o].sync + 1}
               /\ o \in gone /\ shop[o].status # "trash" => excused'[o].sync = excused[o].sync + 1
    BY <1>1, <2>1, <2>2
  <2>5. \A o \in Orders : row[o].status # "none" /\ row'[o].status = "none" => o \in gone
    BY <2>1
  <2> QED BY <1>1, <1>2, <1>4, <2>1, <2>3, <2>4, <2>5 DEF Excuses
<1> QED BY <1>3, <1>4

LEMMA SyncEndsTypes ==
    ASSUME Types, SyncEnds
    PROVE  Types' /\ Onward
<1>u. /\ now' = now /\ shop' = shop /\ seen' = seen /\ hook' = hook /\ bulk' = bulk
      /\ sent' = sent /\ unsaid' = unsaid /\ created' = created
  BY DEF SyncEnds, history, counts, drift
<1>s. /\ Onward
      /\ \A g \in Hooks : hook[g].pc = "received" => now' - hook[g].since < Buffer
      /\ bulk.pc = "updated" => now' - bulk.since < Buffer
  BY <1>u, ShopRests
<1>1. RowTypes'
  <2>1. \A o \in Orders : row'[o] = row[o] \/ row'[o] = NoRow
    BY SyncEndsMoves DEF Types, RowTypes
  <2>2. row' \in [Orders -> Row]
    BY NoTypes, SyncEndsMoves DEF Types, RowTypes
  <2>3. now \in Nat
    BY DEF Types, ShopTypes
  <2> QED BY <1>u, <2>1, <2>2, <2>3, NoTypes DEF Types, RowTypes
<1>2. HookTypes'
  BY <1>s, <1>u, HookRests
<1>3. SyncTypes'
  <2>1. now \in Nat /\ sync \in Run /\ checkpoint \in Nat /\ checkpoint <= now
    BY DEF Types, ShopTypes, SyncTypes
  
  <2>e. sync' = NoSync
    BY DEF SyncEnds
  <2>f. checkpoint' \in Nat /\ checkpoint' <= now
    BY <2>1, SyncEndsMoves DEF Types, SyncTypes, Run
  
  <2>2. \A o \in Orders : sync'.snap[o].status = "none"
    BY <2>e, NoSyncTypes, NoTypes
  <2> QED BY <1>u, <2>1, <2>2, <2>e, <2>f, NoSyncTypes DEF SyncTypes
<1>4. BulkTypes'
  BY <1>s, <1>u, BulkRests
<1>5. HistoryTypes'
  BY <1>s, <1>u, HistoryRests
<1> QED BY <1>s, <1>1, <1>2, <1>3, <1>4, <1>5 DEF Types, Onward

LEMMA SyncAbortsTypes ==
    ASSUME Types, SyncAborts
    PROVE  Types' /\ Onward
<1>u. /\ now' = now /\ shop' = shop /\ row' = row /\ checkpoint' = checkpoint
      /\ seen' = seen /\ hook' = hook /\ bulk' = bulk /\ sent' = sent
      /\ created' = created
  BY DEF SyncAborts, counts
<1>s. /\ Onward
      /\ \A g \in Hooks : hook[g].pc = "received" => now' - hook[g].since < Buffer
      /\ bulk.pc = "updated" => now' - bulk.since < Buffer
  BY <1>u, ShopRests
<1>1. RowTypes'
  BY <1>s, <1>u, RowRests
<1>2. HookTypes'
  BY <1>s, <1>u, HookRests
<1>3. SyncTypes'
  <2>1. now \in Nat /\ sync \in Run /\ checkpoint \in Nat /\ checkpoint <= now
    BY DEF Types, ShopTypes, SyncTypes
  
  <2>e. sync' = NoSync
    BY DEF SyncAborts
  <2>f. checkpoint' \in Nat /\ checkpoint' <= now
    BY <1>u, <2>1
  
  <2>2. \A o \in Orders : sync'.snap[o].status = "none"
    BY <2>e, NoSyncTypes, NoTypes
  <2> QED BY <1>u, <2>1, <2>2, <2>e, <2>f, NoSyncTypes DEF SyncTypes
<1>4. BulkTypes'
  BY <1>s, <1>u, BulkRests
<1>5. HistoryTypes'
  <2>1. unsaid' = [o \in Orders |-> unsaid[o] \cup SyncOwes(o)]
    BY DEF SyncAborts
  <2>2. \A o \in Orders : SyncOwes(o) \in SUBSET Status
    BY DEF SyncOwes, Types, SyncTypes, Status
  <2>3. unsaid' \in [Orders -> SUBSET Status]
    BY <2>1, <2>2 DEF Types, HistoryTypes
  <2> QED BY <1>u, <2>3 DEF Types, HistoryTypes
<1> QED BY <1>s, <1>1, <1>2, <1>3, <1>4, <1>5 DEF Types, Onward

LEMMA BulkReadsTypes ==
    ASSUME Types, NEW o \in Orders, BulkReads(o)
    PROVE  Types' /\ Onward
<1>u. /\ now' = now /\ shop' = shop /\ row' = row /\ checkpoint' = checkpoint
      /\ seen' = seen /\ hook' = hook /\ sync' = sync /\ sent' = sent /\ unsaid' = unsaid
      /\ created' = created
  BY DEF BulkReads, local, counts, drift
<1>s. /\ Onward
      /\ \A g \in Hooks : hook[g].pc = "received" => now' - hook[g].since < Buffer
      /\ bulk.pc = "updated" => now' - bulk.since < Buffer
  BY <1>u, ShopRests
<1>1. RowTypes'
  BY <1>s, <1>u, RowRests
<1>2. HookTypes'
  BY <1>s, <1>u, HookRests
<1>3. SyncTypes'
  BY <1>s, <1>u, SyncRests
<1>4. BulkTypes'
  <2>1. PICK s \in Statuses :
          bulk' = [pc |-> "read", order |-> o, prev |-> row[o].status, new |-> s, since |-> 0]
    BY DEF BulkReads
  <2>2. row[o].status \in Statuses \cup {"none"} /\ o \in Nat
    BY <2>1, ConstantsAssumption DEF Types, RowTypes, Row
  <2> QED BY <1>u, <2>1, <2>2 DEF BulkTypes, Bulk
<1>5. HistoryTypes'
  BY <1>s, <1>u, HistoryRests
<1> QED BY <1>s, <1>1, <1>2, <1>3, <1>4, <1>5 DEF Types, Onward

LEMMA BulkUpdatesShopTypes ==
    ASSUME Types, BulkUpdatesShop
    PROVE  Types' /\ Onward
<1>u. /\ now' = now /\ row' = row /\ checkpoint' = checkpoint /\ seen' = seen
      /\ hook' = hook /\ sync' = sync /\ sent' = sent /\ unsaid' = unsaid
      /\ created' = created
  BY DEF BulkUpdatesShop, local, counts, drift
<1>t. bulk \in Bulk /\ bulk.order \in Orders /\ bulk.new \in Statuses /\ now \in Nat
  BY DEF BulkUpdatesShop, Types, ShopTypes, BulkTypes
<1>g. bulk.new \in Status \ {"none"}
  BY <1>t, ConstantsAssumption DEF Status
<1>c. \/ ShopSets(bulk.order, bulk.new) /\ bulk' = [bulk EXCEPT !.pc = "updated", !.since = now]
      \/ shop' = shop /\ bulk' = NoBulk
  BY DEF BulkUpdatesShop
<1>s. /\ Onward
      /\ \A g \in Hooks : hook[g].pc = "received" => now' - hook[g].since < Buffer
  <2>1. CASE shop' = shop
    BY <1>u, <2>1, ShopRests
  <2>2. CASE ShopSets(bulk.order, bulk.new)
    BY <1>u, <1>t, <1>g, <2>2, ShopMoves
  <2> QED BY <1>c, <2>1, <2>2
<1>1. RowTypes'
  BY <1>s, <1>u, RowRests
<1>2. HookTypes'
  BY <1>s, <1>u, HookRests
<1>3. SyncTypes'
  BY <1>s, <1>u, SyncRests
<1>4. BulkTypes'
  <2>1. CASE bulk' = NoBulk
    BY <2>1, NoTypes DEF BulkTypes
  <2>2. CASE ShopSets(bulk.order, bulk.new) /\ bulk' = [bulk EXCEPT !.pc = "updated", !.since = now]
    <3> DEFINE n == [bulk EXCEPT !.pc = "updated", !.since = now]
    <3>1. /\ n \in Bulk /\ n.pc = "updated" /\ n.since = now /\ n.order = bulk.order
          /\ n.prev = bulk.prev /\ n.new = bulk.new
      BY <1>t DEF Bulk
    <3>2. shop'[bulk.order].time = now /\ shop'[bulk.order].status # "none"
      BY <1>u, <1>t, <1>g, <2>2, ShopMoves
    <3>3. bulk' = n
      BY <2>2
    <3>4. now <= now /\ now - now < Buffer
      BY <1>t, ConstantsAssumption
    <3> HIDE DEF n
    <3> QED BY <1>u, <1>t, <3>1, <3>2, <3>3, <3>4 DEF BulkTypes
  <2> QED BY <1>c, <2>1, <2>2
<1>5. HistoryTypes'
  BY <1>s, <1>u, HistoryRests
<1> QED BY <1>s, <1>1, <1>2, <1>3, <1>4, <1>5 DEF Types, Onward

LEMMA BulkStoresMoves ==
    ASSUME Types, BulkStores
    PROVE  /\ bulk.pc = "updated" /\ bulk' \in Bulk
           /\ \/ /\ bulk'.pc = "stored" /\ bulk'.order = bulk.order /\ bulk'.prev = bulk.prev
                 /\ bulk'.new = bulk.new
                 /\ row' = IF row[bulk.order].status = "none" THEN row
                           ELSE [row EXCEPT ![bulk.order] = [row[bulk.order] EXCEPT !.status = bulk.new, !.at = now]]
              \/ bulk'.pc = "idle" /\ row' = row
              \/ /\ bulk'.pc = "read" /\ bulk'.order = bulk.order /\ bulk'.prev = bulk.prev
                 /\ bulk'.new = bulk.new /\ row' = row
<1> DEFINE n == [bulk EXCEPT !.pc = "stored"]
           m == [bulk EXCEPT !.pc = "read", !.since = 0]
<1>1. bulk \in Bulk
  BY DEF Types, BulkTypes
<1>2. /\ n \in Bulk /\ n.pc = "stored" /\ n.order = bulk.order /\ n.prev = bulk.prev
      /\ n.new = bulk.new
  BY <1>1 DEF Bulk
<1>3. /\ m \in Bulk /\ m.pc = "read" /\ m.order = bulk.order /\ m.prev = bulk.prev
      /\ m.new = bulk.new
  BY <1>1 DEF Bulk
<1>4. \/ /\ bulk' = n
         /\ row' = IF row[bulk.order].status = "none" THEN row
                   ELSE [row EXCEPT ![bulk.order] = [row[bulk.order] EXCEPT !.status = bulk.new, !.at = now]]
      \/ bulk' \in {NoBulk, m} /\ row' = row
  BY DEF BulkStores
<1>5. bulk.pc = "updated"
  BY DEF BulkStores
<1> HIDE DEF n, m
<1> QED BY <1>2, <1>3, <1>4, <1>5, NoTypes

LEMMA BulkStoresTypes ==
    ASSUME Types, BulkStores
    PROVE  Types' /\ Onward
<1>u. /\ now' = now /\ shop' = shop /\ checkpoint' = checkpoint /\ seen' = seen
      /\ hook' = hook /\ sync' = sync /\ sent' = sent /\ unsaid' = unsaid
      /\ created' = created
  BY DEF BulkStores, history, counts, drift
<1>s. /\ Onward
      /\ \A g \in Hooks : hook[g].pc = "received" => now' - hook[g].since < Buffer
      /\ bulk.pc = "updated" => now' - bulk.since < Buffer
  BY <1>u, ShopRests
<1>1. RowTypes'
  <2>1. row' = row \/ row' = [row EXCEPT ![bulk.order] = [row[bulk.order] EXCEPT !.status = bulk.new, !.at = now]]
    BY DEF BulkStores
  <2>2. CASE row' = row
    BY <1>s, <2>2, RowRests
  <2>3. CASE row' = [row EXCEPT ![bulk.order] = [row[bulk.order] EXCEPT !.status = bulk.new, !.at = now]]
    <3> DEFINE n == [row[bulk.order] EXCEPT !.status = bulk.new, !.at = now]
    <3>1. /\ bulk.order \in Orders /\ bulk.new \in Statuses
          /\ shop[bulk.order].status # "none" /\ now \in Nat /\ now <= now
      BY DEF BulkStores, Types, BulkTypes, ShopTypes
    <3>2. row[bulk.order] \in Row
      BY <3>1 DEF Types, RowTypes
    <3>3. n \in Row /\ n.time = row[bulk.order].time /\ n.at = now
      BY <3>1, <3>2 DEF Row
    <3>4. row' = [row EXCEPT ![bulk.order] = n]
      BY <2>3
    <3> HIDE DEF n
    <3> QED BY <1>u, <3>1, <3>3, <3>4 DEF Types, RowTypes
  <2> QED BY <2>1, <2>2, <2>3
<1>2. HookTypes'
  BY <1>s, <1>u, HookRests
<1>3. SyncTypes'
  BY <1>s, <1>u, SyncRests
<1>4. BulkTypes'
  BY <1>u, BulkStoresMoves, NoTypes DEF Types, BulkTypes
<1>5. HistoryTypes'
  BY <1>s, <1>u, HistoryRests
<1> QED BY <1>s, <1>1, <1>2, <1>3, <1>4, <1>5 DEF Types, Onward

LEMMA BulkEmitsTypes ==
    ASSUME Types, BulkEmits
    PROVE  Types' /\ Onward
<1>u. /\ now' = now /\ shop' = shop /\ row' = row /\ checkpoint' = checkpoint
      /\ seen' = seen /\ hook' = hook /\ sync' = sync
      /\ created' = created
  BY DEF BulkEmits, counts
<1>s. /\ Onward
      /\ \A g \in Hooks : hook[g].pc = "received" => now' - hook[g].since < Buffer
      /\ bulk.pc = "updated" => now' - bulk.since < Buffer
  BY <1>u, ShopRests
<1>1. RowTypes'
  BY <1>s, <1>u, RowRests
<1>2. HookTypes'
  BY <1>s, <1>u, HookRests
<1>3. SyncTypes'
  BY <1>s, <1>u, SyncRests
<1>4. BulkTypes'
  <2>1. bulk' = NoBulk
    BY DEF BulkEmits
  <2> QED BY <2>1, NoTypes DEF BulkTypes
<1>5. HistoryTypes'
  <2>1. /\ bulk.pc # "idle" /\ sent' = [sent EXCEPT ![bulk.order] = @ \cup BulkOwes]
        /\ unsaid' = [unsaid EXCEPT ![bulk.order] = @ \cup BulkSilent]
    BY DEF BulkEmits
  <2>2. BulkOwes \in SUBSET Status /\ BulkSilent \in SUBSET Status
    BY <2>1 DEF BulkOwes, BulkSilent, Types, BulkTypes, Status
  <2>3. sent' \in [Orders -> SUBSET Status] /\ unsaid' \in [Orders -> SUBSET Status]
    BY <2>1, <2>2 DEF Types, HistoryTypes
  <2> QED BY <1>u, <2>3 DEF Types, HistoryTypes
<1> QED BY <1>s, <1>1, <1>2, <1>3, <1>4, <1>5 DEF Types, Onward

LEMMA BulkAbortsTypes ==
    ASSUME Types, BulkAborts
    PROVE  Types' /\ Onward
<1>u. /\ now' = now /\ shop' = shop /\ row' = row /\ checkpoint' = checkpoint
      /\ seen' = seen /\ hook' = hook /\ sync' = sync /\ sent' = sent
      /\ created' = created
  BY DEF BulkAborts, counts
<1>s. /\ Onward
      /\ \A g \in Hooks : hook[g].pc = "received" => now' - hook[g].since < Buffer
      /\ bulk.pc = "updated" => now' - bulk.since < Buffer
  BY <1>u, ShopRests
<1>1. RowTypes'
  BY <1>s, <1>u, RowRests
<1>2. HookTypes'
  BY <1>s, <1>u, HookRests
<1>3. SyncTypes'
  BY <1>s, <1>u, SyncRests
<1>4. BulkTypes'
  <2>1. bulk' = NoBulk
    BY DEF BulkAborts
  <2> QED BY <2>1, NoTypes DEF BulkTypes
<1>5. HistoryTypes'
  <2>1. bulk.pc # "idle" /\ unsaid' = [unsaid EXCEPT ![bulk.order] = @ \cup BulkOwes \cup BulkSilent]
    BY DEF BulkAborts
  <2>2. BulkOwes \in SUBSET Status /\ BulkSilent \in SUBSET Status
    BY <2>1 DEF BulkOwes, BulkSilent, Types, BulkTypes, Status
  <2>3. unsaid' \in [Orders -> SUBSET Status]
    BY <2>1, <2>2 DEF Types, HistoryTypes
  <2> QED BY <1>u, <2>3 DEF Types, HistoryTypes
<1> QED BY <1>s, <1>1, <1>2, <1>3, <1>4, <1>5 DEF Types, Onward

-----------------------------------------------------------------------------
(* Announcements *)

\* What is told stays told: an announcer gives up a status only to sent or unsaid.
HooksKeep == \A h \in Hooks : hook[h].pc = "stored" =>
    \/ hook'[h].pc = "stored" /\ hook'[h].order = hook[h].order /\ hook'[h].payload.status = hook[h].payload.status
    \/ hook[h].payload.status \in sent'[hook[h].order] \cup unsaid'[hook[h].order]

SyncKeeps == \A o \in sync.say : sync.existing[o] # sync.snap[o].status =>
    \/ o \in sync'.say /\ sync'.existing[o] = sync.existing[o] /\ sync'.snap[o].status = sync.snap[o].status
    \/ sync.snap[o].status \in sent'[o] \cup unsaid'[o]

BulkKeeps == bulk.pc = "stored" /\ bulk.prev # bulk.new =>
    \/ bulk' = bulk
    \/ bulk.new \in sent'[bulk.order] \cup unsaid'[bulk.order]

Grows == \A o \in Orders : sent[o] \subseteq sent'[o] /\ unsaid[o] \subseteq unsaid'[o]

ToldNext(s, o) ==
    \/ s \in sent'[o] \/ s \in unsaid'[o]
    \/ \E h \in Hooks : hook'[h].pc = "stored" /\ hook'[h].order = o /\ hook'[h].payload.status = s
    \/ o \in sync'.say /\ sync'.existing[o] # sync'.snap[o].status /\ sync'.snap[o].status = s
    \/ bulk'.pc = "stored" /\ bulk'.order = o /\ bulk'.prev # bulk'.new /\ bulk'.new = s

LEMMA StaysTold ==
    ASSUME Grows, HooksKeep, SyncKeeps, BulkKeeps, NEW s, NEW o \in Orders, Told(s, o)
    PROVE  ToldNext(s, o)
<1>1. CASE s \in sent[o] \/ s \in unsaid[o]
  BY <1>1 DEF Grows, Told, ToldNext
<1>2. CASE \E h \in Hooks : hook[h].pc = "stored" /\ hook[h].order = o /\ hook[h].payload.status = s
  BY <1>2 DEF HooksKeep, Told, ToldNext
<1>3. CASE o \in sync.say /\ sync.existing[o] # sync.snap[o].status /\ sync.snap[o].status = s
  BY <1>3 DEF SyncKeeps, Told, ToldNext
<1>4. CASE bulk.pc = "stored" /\ bulk.order = o /\ bulk.prev # bulk.new /\ bulk.new = s
  BY <1>4 DEF BulkKeeps, Told, ToldNext
<1> QED BY <1>1, <1>2, <1>3, <1>4 DEF Told

\* Nothing new in the table, nothing new read from it.
RowsTold == \A o \in Orders : row'[o].status # "none" =>
    row'[o].status = row[o].status \/ ToldNext(row'[o].status, o)
ReadsTold == sync'.pc = "store" =>
    \/ sync.pc = "store" /\ sync'.existing = sync.existing
    \/ \A o \in Orders : sync'.existing[o] # "none" => ToldNext(sync'.existing[o], o)
PrevTold == bulk'.pc \in {"read", "updated"} /\ bulk'.prev # "none" =>
    \/ bulk.pc \in {"read", "updated"} /\ bulk'.prev = bulk.prev /\ bulk'.order = bulk.order
    \/ ToldNext(bulk'.prev, bulk'.order)

LEMMA AnnouncesOn ==
    ASSUME Types, Announces, Grows, HooksKeep, SyncKeeps, BulkKeeps, RowsTold, ReadsTold, PrevTold
    PROVE  Announces'
<1>1. ASSUME NEW o \in Orders, row'[o].status # "none" PROVE ToldNext(row'[o].status, o)
  <2>1. CASE row'[o].status = row[o].status
    <3>1. Told(row[o].status, o)
      BY <1>1, <2>1 DEF Announces
    <3>2. Told(row'[o].status, o)
      BY <2>1, <3>1
    <3> QED BY <3>2, StaysTold
  <2> QED BY <1>1, <2>1 DEF RowsTold
<1>2. ASSUME sync'.pc = "store", NEW o \in Orders, sync'.existing[o] # "none" PROVE ToldNext(sync'.existing[o], o)
  <2>1. CASE sync.pc = "store" /\ sync'.existing = sync.existing
    <3>1. Told(sync'.existing[o], o)
      BY <1>2, <2>1 DEF Announces
    <3> QED BY <3>1, StaysTold
  <2> QED BY <1>2, <2>1 DEF ReadsTold
<1>3. ASSUME bulk'.pc \in {"read", "updated"}, bulk'.prev # "none" PROVE ToldNext(bulk'.prev, bulk'.order)
  <2>1. CASE bulk.pc \in {"read", "updated"} /\ bulk'.prev = bulk.prev /\ bulk'.order = bulk.order
    <3>1. Told(bulk'.prev, bulk'.order)
      BY <1>3, <2>1 DEF Announces
    <3>2. bulk'.order \in Orders
      BY <2>1 DEF Types, BulkTypes
    <3> QED BY <3>1, <3>2, StaysTold
  <2> QED BY <1>3, <2>1 DEF PrevTold
<1> QED BY <1>1, <1>2, <1>3 DEF Announces, Told, ToldNext

LEMMA NothingAnnounced ==
    ASSUME Types, Announces, row' = row, hook' = hook, sync' = sync, bulk' = bulk, sent' = sent, unsaid' = unsaid
    PROVE  Announces'
<1>1. Grows /\ HooksKeep /\ SyncKeeps /\ BulkKeeps
  BY DEF Grows, HooksKeep, SyncKeeps, BulkKeeps
<1>2. RowsTold /\ ReadsTold /\ PrevTold
  BY DEF RowsTold, ReadsTold, PrevTold
<1> QED BY <1>1, <1>2, AnnouncesOn

LEMMA HookReceivesAnnounces ==
    ASSUME Types, Announces, NEW h \in Hooks, NEW o \in Orders, HookReceives(h, o)
    PROVE  Announces'
<1>u. row' = row /\ sync' = sync /\ bulk' = bulk /\ sent' = sent /\ unsaid' = unsaid
  BY DEF HookReceives, history, counts, drift
<1>1. Grows
  BY <1>u DEF Grows
<1>2. HooksKeep
  <2>1. hook[h].pc = "idle" /\ \A g \in Hooks : g # h => hook'[g] = hook[g]
    BY DEF HookReceives, Types, HookTypes
  <2> QED BY <2>1 DEF HooksKeep
<1>3. SyncKeeps
  BY <1>u DEF SyncKeeps
<1>4. BulkKeeps
  BY <1>u DEF BulkKeeps
<1>5. RowsTold
  BY <1>u DEF RowsTold
<1>6. ReadsTold
  BY <1>u DEF ReadsTold
<1>7. PrevTold
  BY <1>u DEF PrevTold
<1> QED BY <1>1, <1>2, <1>3, <1>4, <1>5, <1>6, <1>7, AnnouncesOn

LEMMA HookStoresAnnounces ==
    ASSUME Types, Announces, NEW h \in Hooks, HookStores(h)
    PROVE  Announces'
<1>u. sync' = sync /\ bulk' = bulk /\ sent' = sent /\ unsaid' = unsaid
  BY DEF HookStores, history, counts, drift
<1>1. Grows
  BY <1>u DEF Grows
<1>2. HooksKeep
  BY HookStoresMoves DEF HooksKeep
<1>3. SyncKeeps
  BY <1>u DEF SyncKeeps
<1>4. BulkKeeps
  BY <1>u DEF BulkKeeps
<1>5. RowsTold
  <2>1. CASE row' = row
    BY <2>1 DEF RowsTold
  <2>2. CASE row' # row
    <3>1. /\ Store(hook[h].order, hook[h].payload)
          /\ hook'[h].pc = "stored" /\ hook'[h].order = hook[h].order
          /\ hook'[h].payload.status = hook[h].payload.status
      BY <2>2, HookStoresMoves
    <3>2. ToldNext(hook[h].payload.status, hook[h].order)
      BY <3>1 DEF ToldNext
    <3>3. hook[h].order \in Orders
      BY HookStoresMoves DEF Types, HookTypes
    <3>4. \A o \in Orders : o # hook[h].order => row'[o] = row[o]
      BY <3>1, <3>3 DEF Store, Types, RowTypes
    <3>5. row'[hook[h].order].status = hook[h].payload.status
      BY <3>1, <3>3 DEF Store, Types, RowTypes
    <3> QED BY <3>2, <3>4, <3>5 DEF RowsTold
  <2> QED BY <2>1, <2>2
<1>6. ReadsTold
  BY <1>u DEF ReadsTold
<1>7. PrevTold
  BY <1>u DEF PrevTold
<1> QED BY <1>1, <1>2, <1>3, <1>4, <1>5, <1>6, <1>7, AnnouncesOn

LEMMA HookEmitsAnnounces ==
    ASSUME Types, Announces, NEW h \in Hooks, HookEmits(h)
    PROVE  Announces'
<1>u. row' = row /\ sync' = sync /\ bulk' = bulk /\ unsaid' = unsaid
  BY DEF HookEmits
<1>1. Grows
  <2>1. Says(hook[h].order, hook[h].payload.status)
    BY DEF HookEmits
  <2>2. hook[h].order \in Orders
    BY DEF HookEmits, Types, HookTypes
  <2> QED BY <1>u, <2>1, <2>2 DEF Grows, Says, Types, HistoryTypes
<1>2. HooksKeep
  <2>1. hook'[h] = NoHook /\ \A g \in Hooks : g # h => hook'[g] = hook[g]
    BY DEF HookEmits, Types, HookTypes
  <2>2. hook[h].pc = "stored" => hook[h].payload.status \in sent'[hook[h].order]
    <3>1. Says(hook[h].order, hook[h].payload.status)
      BY DEF HookEmits
    <3>2. hook[h].order \in Orders
      BY DEF HookEmits, Types, HookTypes
    <3> QED BY <3>1, <3>2 DEF Says, Types, HistoryTypes
  <2> QED BY <2>1, <2>2 DEF HooksKeep
<1>3. SyncKeeps
  BY <1>u DEF SyncKeeps
<1>4. BulkKeeps
  BY <1>u DEF BulkKeeps
<1>5. RowsTold
  BY <1>u DEF RowsTold
<1>6. ReadsTold
  BY <1>u DEF ReadsTold
<1>7. PrevTold
  BY <1>u DEF PrevTold
<1> QED BY <1>1, <1>2, <1>3, <1>4, <1>5, <1>6, <1>7, AnnouncesOn

LEMMA HookAbortsAnnounces ==
    ASSUME Types, Announces, NEW h \in Hooks, HookAborts(h)
    PROVE  Announces'
<1>u. row' = row /\ sync' = sync /\ bulk' = bulk /\ sent' = sent
  BY DEF HookAborts
<1>1. Grows
  <2>1. unsaid' = [unsaid EXCEPT ![hook[h].order] = unsaid[hook[h].order] \cup HookOwes(h)]
    BY DEF HookAborts
  <2>2. hook[h].order \in Orders
    BY DEF HookAborts, Types, HookTypes
  <2> QED BY <1>u, <2>1, <2>2 DEF Grows, Types, HistoryTypes
<1>2. HooksKeep
  <2>1. hook'[h] = NoHook /\ \A g \in Hooks : g # h => hook'[g] = hook[g]
    BY DEF HookAborts, Types, HookTypes
  <2>2. hook[h].pc = "stored" => hook[h].payload.status \in unsaid'[hook[h].order]
    <3>1. unsaid' = [unsaid EXCEPT ![hook[h].order] = unsaid[hook[h].order] \cup HookOwes(h)]
      BY DEF HookAborts
    <3>2. hook[h].order \in Orders
      BY DEF HookAborts, Types, HookTypes
    <3> QED BY <3>1, <3>2 DEF HookOwes, Types, HistoryTypes
  <2> QED BY <2>1, <2>2 DEF HooksKeep
<1>3. SyncKeeps
  BY <1>u DEF SyncKeeps
<1>4. BulkKeeps
  BY <1>u DEF BulkKeeps
<1>5. RowsTold
  BY <1>u DEF RowsTold
<1>6. ReadsTold
  BY <1>u DEF ReadsTold
<1>7. PrevTold
  BY <1>u DEF PrevTold
<1> QED BY <1>1, <1>2, <1>3, <1>4, <1>5, <1>6, <1>7, AnnouncesOn

LEMMA SyncStartsAnnounces ==
    ASSUME Types, Announces, SyncStarts
    PROVE  Announces'
<1>u. row' = row /\ hook' = hook /\ bulk' = bulk /\ sent' = sent /\ unsaid' = unsaid
  BY DEF SyncStarts, history, counts, drift
<1>1. Grows
  BY <1>u DEF Grows
<1>2. HooksKeep
  BY <1>u DEF HooksKeep
<1>3. SyncKeeps
  <2>1. sync.say = {}
    BY SyncStartsMoves DEF Types, SyncTypes
  <2> QED BY <2>1 DEF SyncKeeps
<1>4. BulkKeeps
  BY <1>u DEF BulkKeeps
<1>5. RowsTold
  BY <1>u DEF RowsTold
<1>6. ReadsTold
  BY SyncStartsMoves, NoSyncTypes DEF ReadsTold
<1>7. PrevTold
  BY <1>u DEF PrevTold
<1> QED BY <1>1, <1>2, <1>3, <1>4, <1>5, <1>6, <1>7, AnnouncesOn

LEMMA SyncFetchesAnnounces ==
    ASSUME Types, Announces, SyncFetches
    PROVE  Announces'
<1>u. row' = row /\ hook' = hook /\ bulk' = bulk /\ sent' = sent /\ unsaid' = unsaid
  BY DEF SyncFetches, history, counts, drift
<1>1. Grows
  BY <1>u DEF Grows
<1>2. HooksKeep
  BY <1>u DEF HooksKeep
<1>3. SyncKeeps
  <2>1. sync.say = {}
    BY SyncFetchesMoves DEF Types, SyncTypes
  <2> QED BY <2>1 DEF SyncKeeps
<1>4. BulkKeeps
  BY <1>u DEF BulkKeeps
<1>5. RowsTold
  BY <1>u DEF RowsTold
<1>6. ReadsTold
  BY SyncFetchesMoves, NoSyncTypes DEF ReadsTold
<1>7. PrevTold
  BY <1>u DEF PrevTold
<1> QED BY <1>1, <1>2, <1>3, <1>4, <1>5, <1>6, <1>7, AnnouncesOn

LEMMA SyncTurnsPageAnnounces ==
    ASSUME Types, Announces, SyncTurnsPage
    PROVE  Announces'
<1>u. row' = row /\ hook' = hook /\ bulk' = bulk /\ sent' = sent /\ unsaid' = unsaid
  BY DEF SyncTurnsPage, history, counts, drift
<1>1. Grows
  BY <1>u DEF Grows
<1>2. HooksKeep
  BY <1>u DEF HooksKeep
<1>3. SyncKeeps
  <2>1. sync.say = {}
    BY SyncTurnsPageMoves DEF Types, SyncTypes
  <2> QED BY <2>1 DEF SyncKeeps
<1>4. BulkKeeps
  BY <1>u DEF BulkKeeps
<1>5. RowsTold
  BY <1>u DEF RowsTold
<1>6. ReadsTold
  BY SyncTurnsPageMoves, NoSyncTypes DEF ReadsTold
<1>7. PrevTold
  BY <1>u DEF PrevTold
<1> QED BY <1>1, <1>2, <1>3, <1>4, <1>5, <1>6, <1>7, AnnouncesOn

LEMMA SyncReadsAnnounces ==
    ASSUME Types, Announces, SyncReads
    PROVE  Announces'
<1>u. hook' = hook /\ bulk' = bulk /\ sent' = sent /\ unsaid' = unsaid
  BY DEF SyncReads, history, counts, drift
<1>1. Grows
  BY <1>u DEF Grows
<1>2. HooksKeep
  BY <1>u DEF HooksKeep
<1>3. SyncKeeps
  <2>1. sync.say = {}
    BY SyncReadsMoves DEF Types, SyncTypes
  <2> QED BY <2>1 DEF SyncKeeps
<1>4. BulkKeeps
  BY <1>u DEF BulkKeeps
<1>5. RowsTold
  <2>1. \A o \in Orders : row'[o].status = row[o].status
    BY SyncReadsMoves DEF Types, RowTypes, Row
  <2> QED BY <2>1 DEF RowsTold
<1>6. ReadsTold
  <2>1. Grows /\ HooksKeep /\ SyncKeeps /\ BulkKeeps
    BY <1>1, <1>2, <1>3, <1>4
  <2>2. ASSUME NEW o \in Orders, sync'.existing[o] # "none" PROVE ToldNext(sync'.existing[o], o)
    <3>1. sync'.existing[o] = row[o].status
      BY <2>2, SyncReadsMoves
    <3>2. Told(sync'.existing[o], o)
      BY <2>2, <3>1 DEF Announces
    <3> QED BY <2>1, <3>2, StaysTold
  <2> QED BY <2>2 DEF ReadsTold
<1>7. PrevTold
  BY <1>u DEF PrevTold
<1> QED BY <1>1, <1>2, <1>3, <1>4, <1>5, <1>6, <1>7, AnnouncesOn

LEMMA SyncStoresAnnounces ==
    ASSUME Types, Announces, NEW o \in Orders, SyncStores(o)
    PROVE  Announces'
<1>u. hook' = hook /\ bulk' = bulk /\ sent' = sent /\ unsaid' = unsaid
  BY DEF SyncStores, history, counts, drift
<1>1. Grows
  BY <1>u DEF Grows
<1>2. HooksKeep
  BY <1>u DEF HooksKeep
<1>3. SyncKeeps
  <2>1. sync.say \subseteq sync'.say
    BY SyncStoresMoves DEF Upserted, UpsertFailed
  <2> QED BY <2>1, SyncStoresMoves DEF SyncKeeps
<1>4. BulkKeeps
  BY <1>u DEF BulkKeeps
<1>5. RowsTold
  <2>1. CASE UpsertFailed(o)
    <3>1. \A q \in Orders : row'[q].status = row[q].status
      BY <2>1 DEF UpsertFailed, Types, RowTypes, Row
    <3> QED BY <3>1 DEF RowsTold
  <2>2. CASE Upserted(o)
    <3>1. \A q \in Orders : q # o => row'[q] = row[q]
      BY <2>2 DEF Upserted, Store, Types, RowTypes
    <3>2. row'[o].status = sync.snap[o].status
      BY <2>2 DEF Upserted, Store, Types, RowTypes
    <3>3. o \in sync'.say /\ sync'.existing = sync.existing /\ sync'.snap = sync.snap
      BY <2>2, SyncStoresMoves DEF Upserted
    <3>4. CASE sync.existing[o] # sync.snap[o].status
      <4>1. ToldNext(row'[o].status, o)
        BY <3>2, <3>3, <3>4 DEF ToldNext
      <4> QED BY <3>1, <4>1 DEF RowsTold
    <3>5. CASE sync.existing[o] = sync.snap[o].status
      <4>1. sync.existing[o] # "none" => Told(sync.existing[o], o)
        BY SyncStoresMoves DEF Announces
      <4>2. sync.existing[o] # "none" => ToldNext(sync.existing[o], o)
        BY <1>1, <1>2, <1>3, <1>4, <4>1, StaysTold
      <4>3. row'[o].status # "none" => ToldNext(row'[o].status, o)
        BY <3>2, <3>5, <4>2
      <4> QED BY <3>1, <4>3 DEF RowsTold
    <3> QED BY <3>4, <3>5
  <2> QED BY <2>1, <2>2, SyncStoresMoves
<1>6. ReadsTold
  BY SyncStoresMoves DEF ReadsTold
<1>7. PrevTold
  BY <1>u DEF PrevTold
<1> QED BY <1>1, <1>2, <1>3, <1>4, <1>5, <1>6, <1>7, AnnouncesOn

LEMMA SyncEmitsAnnounces ==
    ASSUME Types, Announces, NEW o \in Orders, SyncEmits(o)
    PROVE  Announces'
<1>u. row' = row /\ hook' = hook /\ bulk' = bulk
  BY DEF SyncEmits
<1>t. sent \in [Orders -> SUBSET Status] /\ unsaid \in [Orders -> SUBSET Status]
  BY DEF Types, HistoryTypes
<1>v. /\ sent' = sent \/ Says(o, sync.snap[o].status)
      /\ unsaid' = unsaid \/ unsaid' = [unsaid EXCEPT ![o] = unsaid[o] \cup SyncOwes(o)]
  BY DEF SyncEmits
<1>1. Grows
  BY <1>t, <1>v DEF Grows, Says
<1>2. HooksKeep
  BY <1>u DEF HooksKeep
<1>3. SyncKeeps
  <2>1. ASSUME sync.existing[o] # sync.snap[o].status PROVE sync.snap[o].status \in sent'[o] \cup unsaid'[o]
    <3>1. o \in sync.say /\ Changed(o) /\ SyncOwes(o) = {sync.snap[o].status}
      BY <2>1, SyncEmitsMoves DEF SyncOwes, Changed
    <3>2. CASE Announcing(o)
      <4>1. Says(o, sync.snap[o].status)
        BY <3>2 DEF SyncEmits
      <4> QED BY <1>t, <4>1 DEF Says
    <3>3. CASE ~Announcing(o)
      <4>1. IsNew(o) /\ Baseline
        BY <3>1, <3>3 DEF Announcing
      <4>2. unsaid' = [unsaid EXCEPT ![o] = unsaid[o] \cup SyncOwes(o)]
        BY <4>1 DEF SyncEmits
      <4> QED BY <1>t, <3>1, <4>2
    <3> QED BY <3>2, <3>3
  <2>2. \A q \in sync.say : q # o => q \in sync'.say
    BY SyncEmitsMoves
  <2> QED BY <2>1, <2>2, SyncEmitsMoves DEF SyncKeeps
<1>4. BulkKeeps
  BY <1>u DEF BulkKeeps
<1>5. RowsTold
  BY <1>u DEF RowsTold
<1>6. ReadsTold
  BY SyncEmitsMoves DEF ReadsTold
<1>7. PrevTold
  BY <1>u DEF PrevTold
<1> QED BY <1>1, <1>2, <1>3, <1>4, <1>5, <1>6, <1>7, AnnouncesOn

LEMMA SyncEndsAnnounces ==
    ASSUME Types, Announces, SyncEnds
    PROVE  Announces'
<1>u. hook' = hook /\ bulk' = bulk /\ sent' = sent /\ unsaid' = unsaid
  BY DEF SyncEnds, history, counts, drift
<1>1. Grows
  BY <1>u DEF Grows
<1>2. HooksKeep
  BY <1>u DEF HooksKeep
<1>3. SyncKeeps
  <2>1. sync.say = {}
    BY SyncEndsMoves DEF Types, SyncTypes
  <2> QED BY <2>1 DEF SyncKeeps
<1>4. BulkKeeps
  BY <1>u DEF BulkKeeps
<1>5. RowsTold
  <2>1. \A o \in Orders : row'[o] = row[o] \/ row'[o].status = "none"
    BY SyncEndsMoves, NoTypes
  <2> QED BY <2>1 DEF RowsTold
<1>6. ReadsTold
  BY SyncEndsMoves, NoSyncTypes DEF ReadsTold
<1>7. PrevTold
  BY <1>u DEF PrevTold
<1> QED BY <1>1, <1>2, <1>3, <1>4, <1>5, <1>6, <1>7, AnnouncesOn

LEMMA SyncAbortsAnnounces ==
    ASSUME Types, Announces, SyncAborts
    PROVE  Announces'
<1>u. row' = row /\ hook' = hook /\ bulk' = bulk /\ sent' = sent
  BY DEF SyncAborts
<1>v. unsaid' = [o \in Orders |-> unsaid[o] \cup SyncOwes(o)] /\ sync' = NoSync
  BY DEF SyncAborts
<1>1. Grows
  BY <1>u, <1>v DEF Grows
<1>2. HooksKeep
  BY <1>u DEF HooksKeep
<1>3. SyncKeeps
  <2>1. sync.say \subseteq Orders
    BY DEF Types, SyncTypes, Run
  <2> QED BY <1>v, <2>1 DEF SyncKeeps, SyncOwes, Changed
<1>4. BulkKeeps
  BY <1>u DEF BulkKeeps
<1>5. RowsTold
  BY <1>u DEF RowsTold
<1>6. ReadsTold
  BY <1>v, NoSyncTypes DEF ReadsTold
<1>7. PrevTold
  BY <1>u DEF PrevTold
<1> QED BY <1>1, <1>2, <1>3, <1>4, <1>5, <1>6, <1>7, AnnouncesOn

LEMMA BulkReadsAnnounces ==
    ASSUME Types, Announces, NEW o \in Orders, BulkReads(o)
    PROVE  Announces'
<1>u. row' = row /\ hook' = hook /\ sync' = sync /\ sent' = sent /\ unsaid' = unsaid
  BY DEF BulkReads, local, counts, drift
<1>1. Grows
  BY <1>u DEF Grows
<1>2. HooksKeep
  BY <1>u DEF HooksKeep
<1>3. SyncKeeps
  BY <1>u DEF SyncKeeps
<1>4. BulkKeeps
  BY DEF BulkKeeps, BulkReads
<1>5. RowsTold
  BY <1>u DEF RowsTold
<1>6. ReadsTold
  BY <1>u DEF ReadsTold
<1>7. PrevTold
  <2>1. bulk'.prev = row[o].status /\ bulk'.order = o
    BY DEF BulkReads
  <2>2. CASE row[o].status = "none"
    BY <2>1, <2>2 DEF PrevTold
  <2>3. CASE row[o].status # "none"
    <3>1. Told(row[o].status, o)
      BY <2>3 DEF Announces
    <3>2. Told(bulk'.prev, bulk'.order) /\ bulk'.order \in Orders
      BY <2>1, <3>1
    <3> QED BY <1>1, <1>2, <1>3, <1>4, <3>2, StaysTold DEF PrevTold
  <2> QED BY <2>2, <2>3
<1> QED BY <1>1, <1>2, <1>3, <1>4, <1>5, <1>6, <1>7, AnnouncesOn

LEMMA BulkUpdatesShopAnnounces ==
    ASSUME Types, Announces, BulkUpdatesShop
    PROVE  Announces'
<1>u. row' = row /\ hook' = hook /\ sync' = sync /\ sent' = sent /\ unsaid' = unsaid
  BY DEF BulkUpdatesShop, local, counts, drift
<1>v. /\ bulk.pc = "read" /\ bulk \in Bulk
      /\ bulk' = [bulk EXCEPT !.pc = "updated", !.since = now] \/ bulk' = NoBulk
  BY DEF BulkUpdatesShop, Types, BulkTypes
<1>1. Grows
  BY <1>u DEF Grows
<1>2. HooksKeep
  BY <1>u DEF HooksKeep
<1>3. SyncKeeps
  BY <1>u DEF SyncKeeps
<1>4. BulkKeeps
  BY <1>v DEF BulkKeeps
<1>5. RowsTold
  BY <1>u DEF RowsTold
<1>6. ReadsTold
  BY <1>u DEF ReadsTold
<1>7. PrevTold
  BY <1>v, NoTypes DEF PrevTold, Bulk
<1> QED BY <1>1, <1>2, <1>3, <1>4, <1>5, <1>6, <1>7, AnnouncesOn

LEMMA BulkStoresAnnounces ==
    ASSUME Types, Announces, BulkStores
    PROVE  Announces'
<1>u. hook' = hook /\ sync' = sync /\ sent' = sent /\ unsaid' = unsaid
  BY DEF BulkStores, history, counts, drift
<1>1. Grows
  BY <1>u DEF Grows
<1>2. HooksKeep
  BY <1>u DEF HooksKeep
<1>3. SyncKeeps
  BY <1>u DEF SyncKeeps
<1>4. BulkKeeps
  BY BulkStoresMoves DEF BulkKeeps
<1>5. RowsTold
  <2>1. CASE row' = row
    BY <2>1 DEF RowsTold
  <2>2. CASE row' # row
    <3>1. /\ bulk'.pc = "stored" /\ bulk'.order = bulk.order /\ bulk'.prev = bulk.prev /\ bulk'.new = bulk.new
          /\ row' = [row EXCEPT ![bulk.order] = [row[bulk.order] EXCEPT !.status = bulk.new, !.at = now]]
      BY <2>2, BulkStoresMoves
    <3>2. bulk.order \in Orders
      BY BulkStoresMoves DEF Types, BulkTypes
    <3>3. /\ \A o \in Orders : o # bulk.order => row'[o] = row[o]
          /\ row'[bulk.order].status = bulk.new
      BY <3>1, <3>2 DEF Types, RowTypes, Row
    <3>4. CASE bulk.prev # bulk.new
      <4>1. ToldNext(bulk.new, bulk.order)
        BY <3>1, <3>4 DEF ToldNext
      <4> QED BY <3>3, <4>1 DEF RowsTold
    <3>5. CASE bulk.prev = bulk.new
      <4>1. Told(bulk.new, bulk.order)
        <5>1. bulk.prev # "none"
          BY <3>5, BulkStoresMoves, ConstantsAssumption DEF Types, BulkTypes
        <5> QED BY <3>5, <5>1, BulkStoresMoves DEF Announces
      <4>2. ToldNext(bulk.new, bulk.order)
        BY <1>1, <1>2, <1>3, <1>4, <3>2, <4>1, StaysTold
      <4> QED BY <3>3, <4>2 DEF RowsTold
    <3> QED BY <3>4, <3>5
  <2> QED BY <2>1, <2>2
<1>6. ReadsTold
  BY <1>u DEF ReadsTold
<1>7. PrevTold
  BY BulkStoresMoves DEF PrevTold
<1> QED BY <1>1, <1>2, <1>3, <1>4, <1>5, <1>6, <1>7, AnnouncesOn

LEMMA BulkEmitsAnnounces ==
    ASSUME Types, Announces, BulkEmits
    PROVE  Announces'
<1>u. row' = row /\ hook' = hook /\ sync' = sync
  BY DEF BulkEmits
<1>v. /\ sent' = [sent EXCEPT ![bulk.order] = sent[bulk.order] \cup BulkOwes]
      /\ unsaid' = [unsaid EXCEPT ![bulk.order] = unsaid[bulk.order] \cup BulkSilent]
      /\ bulk' = NoBulk /\ bulk.pc # "idle"
  BY DEF BulkEmits
<1>t. /\ bulk.order \in Orders
      /\ sent \in [Orders -> SUBSET Status] /\ unsaid \in [Orders -> SUBSET Status]
  BY <1>v DEF Types, BulkTypes, HistoryTypes
<1>1. Grows
  BY <1>u, <1>v, <1>t DEF Grows
<1>2. HooksKeep
  BY <1>u DEF HooksKeep
<1>3. SyncKeeps
  BY <1>u DEF SyncKeeps
<1>4. BulkKeeps
  BY <1>v, <1>t DEF BulkKeeps, BulkOwes, BulkSilent
<1>5. RowsTold
  BY <1>u DEF RowsTold
<1>6. ReadsTold
  BY <1>u DEF ReadsTold
<1>7. PrevTold
  BY <1>v, NoTypes DEF PrevTold
<1> QED BY <1>1, <1>2, <1>3, <1>4, <1>5, <1>6, <1>7, AnnouncesOn

LEMMA BulkAbortsAnnounces ==
    ASSUME Types, Announces, BulkAborts
    PROVE  Announces'
<1>u. row' = row /\ hook' = hook /\ sync' = sync /\ sent' = sent
  BY DEF BulkAborts
<1>v. /\ unsaid' = [unsaid EXCEPT ![bulk.order] = unsaid[bulk.order] \cup BulkOwes \cup BulkSilent]
      /\ bulk' = NoBulk /\ bulk.pc # "idle"
  BY DEF BulkAborts
<1>t. bulk.order \in Orders /\ unsaid \in [Orders -> SUBSET Status]
  BY <1>v DEF Types, BulkTypes, HistoryTypes
<1>1. Grows
  BY <1>u, <1>v, <1>t DEF Grows
<1>2. HooksKeep
  BY <1>u DEF HooksKeep
<1>3. SyncKeeps
  BY <1>u DEF SyncKeeps
<1>4. BulkKeeps
  BY <1>v, <1>t DEF BulkKeeps, BulkOwes, BulkSilent
<1>5. RowsTold
  BY <1>u DEF RowsTold
<1>6. ReadsTold
  BY <1>u DEF ReadsTold
<1>7. PrevTold
  BY <1>v, NoTypes DEF PrevTold
<1> QED BY <1>1, <1>2, <1>3, <1>4, <1>5, <1>6, <1>7, AnnouncesOn

-----------------------------------------------------------------------------
(* Pages to come *)

LEMMA RankStays ==
    ASSUME NEW L \in SUBSET Orders, NEW M \in SUBSET Orders, NEW o \in Orders, o \in M,
           NEW n \in Nat, Rank(o, L) > n * PageSize, L \subseteq M \/ n = 0
    PROVE  Rank(o, M) > n * PageSize
<1> DEFINE k == n * PageSize
<1>1. k \in Nat /\ (n = 0 => k = 0)
  BY ConstantsAssumption
<1>2. Rank(o, L) \in Nat /\ Rank(o, M) \in Nat /\ Rank(o, M) >= 1 /\ Rank(o, L) > k
  BY RankBounds
<1> HIDE DEF k
<1>3. Rank(o, M) > k
  <2>1. CASE L \subseteq M
    <3>1. Rank(o, L) <= Rank(o, M)
      BY <2>1, RankMonotone
    <3> QED BY <1>1, <1>2, <3>1
  <2>2. CASE n = 0
    BY <1>1, <1>2, <2>2
  <2> QED BY <2>1, <2>2
<1> QED BY <1>3 DEF k

\* The first pages, and the one after them.
LEMMA Pages ==
    ASSUME NEW n \in Nat, n >= 1
    PROVE  /\ n * PageSize \in Nat /\ (n - 1) * PageSize \in Nat /\ n - 1 \in Nat
           /\ n * PageSize = (n - 1) * PageSize + PageSize
           /\ PageSize >= 1 /\ (n + 1) - 1 = n
  BY ConstantsAssumption

LEMMA ListedType ==
    /\ Listed \in SUBSET Orders
    /\ \A o \in Orders : o \in Listed <=> shop[o].status \notin {"none", "trash"} /\ shop[o].time > After
  BY DEF Listed, Listing

LEMMA ListedSame ==
    ASSUME shop' = shop, checkpoint' = checkpoint, sync'.full = sync.full
    PROVE  Listed' = Listed
  BY DEF Listed, Listing, After

LEMMA MissedSame ==
    ASSUME passing' = passing, passed' = passed, sync'.full = sync.full
    PROVE  Missed' = Missed
  BY DEF Missed

LEMMA AheadSame ==
    ASSUME sync' = sync, checkpoint' = checkpoint, shop' = shop, NEW o \in Orders, Ahead(o)
    PROVE  Ahead(o)'
<1>1. Listed' = Listed
  BY ListedSame
<1> QED BY <1>1 DEF Ahead, ToCome

\* Rows change only where the shop changed since, and are touched.
LEMMA ReachesOn ==
    ASSUME Types, Reaches, sync' = sync, checkpoint' = checkpoint, shop' = shop, now' \in Nat,
           passing' = passing, passed' = passed,
           \A o \in Orders : \/ row'[o] = row[o]
                             \/ /\ row'[o].at = now
                                /\ Behind(o)' => Behind(o) \/ shop[o].time > now - Buffer
    PROVE  Reaches'
<1>1. /\ now \in Nat /\ sync.start \in Nat /\ sync.start <= now /\ checkpoint \in Nat /\ checkpoint <= now
      /\ Buffer \in Nat /\ \A o \in Orders : shop[o].time \in Nat
  BY ConstantsAssumption DEF Types, ShopTypes, SyncTypes, Run, Order
<1>m. Missed' = Missed
  BY MissedSame
<1>2. ASSUME NEW o \in Orders, Behind(o)'
      PROVE  Behind(o) \/ (shop[o].time > sync.start - Buffer /\ shop[o].time > checkpoint - Buffer)
  <2>1. CASE row'[o] = row[o]
    BY <1>2, <2>1 DEF Behind, Kept
  <2>2. CASE shop[o].time > now - Buffer
    BY <1>1, <2>2
  <2> QED BY <1>2, <2>1, <2>2
<1>3. ASSUME NEW o \in Orders, LongBehind(o)' PROVE LongBehind(o)
  <2>1. Behind(o)' /\ shop[o].time <= sync.start - Buffer /\ o \notin Missed
    BY <1>3, <1>m DEF LongBehind
  <2>2. Behind(o)
    BY <1>1, <1>2, <2>1
  <2> QED BY <2>1, <2>2 DEF LongBehind
<1>4. ASSUME NEW o \in Orders, NotTouched(o)' PROVE NotTouched(o)
  <2>1. row'[o].at < sync.start
    BY <1>4 DEF NotTouched
  <2>2. row'[o] = row[o]
    BY <1>1, <2>1
  <2> QED BY <1>4, <1>m, <2>2 DEF NotTouched
<1>5. CheckpointSafe'
  BY <1>2 DEF Reaches, CheckpointSafe
<1>6. ASSUME NEW o \in Orders, sync'.pc # "idle" /\ ~sync'.failed /\ (LongBehind(o)' \/ NotTouched(o)')
      PROVE  Ahead(o)'
  <2>1. Ahead(o)
    BY <1>3, <1>4, <1>6 DEF Reaches
  <2> QED BY <2>1, AheadSame
<1> QED BY <1>5, <1>6 DEF Reaches

\* An order changes.  The listing grows, or is left by one order, and then those that
\* were to come still are, unless they slipped onto a page already read.
LEMMA ReachesShop ==
    ASSUME Types, Reaches, sync' = sync, checkpoint' = checkpoint, row' = row, now' = now,
           NEW o \in Orders, NEW s \in Status \ {"none"}, ShopSets(o, s),
           shop[o].status # "trash",
           passing' = IF s = "trash" THEN passing \cup Slipping(o) ELSE passing, passed' = passed
    PROVE  Reaches'
<1>1. /\ shop'[o].time = now /\ shop'[o].status = s
      /\ \A q \in Orders : q # o => shop'[q] = shop[q]
  BY ShopMoves
<1>2. /\ now \in Nat /\ now >= 1 /\ sync.start \in Nat /\ sync.start <= now
      /\ checkpoint \in Nat /\ checkpoint <= now /\ Buffer \in Nat /\ Buffer >= 1 /\ sync.page \in Nat
      /\ sync.pc # "idle" => sync.page >= 1
  BY ConstantsAssumption DEF Types, ShopTypes, SyncTypes, Run
<1>3. After' = After /\ now > After
  BY <1>2 DEF After
<1>4. ASSUME NEW q \in Listed, q # o \/ s # "trash" PROVE q \in Listed'
  <2>1. q \in Orders /\ shop[q].status \notin {"none", "trash"} /\ shop[q].time > After
    BY ListedType
  <2>2. shop'[q].status \notin {"none", "trash"} /\ shop'[q].time > After
    BY <1>1, <1>3, <1>4, <2>1
  <2> QED BY <1>3, <2>1, <2>2 DEF Listed, Listing
<1>5. Listed \in SUBSET Orders /\ Listed' \in SUBSET Orders
  BY DEF Listed, Listing
<1>6. ASSUME s = "trash" PROVE Listed' = Listed \ {o}
  <2>1. ASSUME NEW q \in Listed' PROVE q \in Listed /\ q # o
    <3>1. q \in Orders /\ shop'[q].status # "trash" /\ shop'[q].status # "none" /\ shop'[q].time > After
      BY <1>3 DEF Listed, Listing
    <3>2. q # o
      BY <1>1, <1>6, <3>1
    <3> QED BY <1>1, <3>1, <3>2, ListedType
  <2> QED BY <1>4, <2>1
\* What does not pass with o.
<1> DEFINE Keeps(q) == s # "trash" \/ (q # o /\ q \notin Slipping(o))
<1>7. ASSUME NEW q \in Orders, NEW n \in Nat, ToCome(q, n),
             s # "trash" \/ (q # o /\ ~(Rank(q, Listed \ {o}) <= n * PageSize))
      PROVE  q \in Listed' /\ Rank(q, Listed') > n * PageSize
  <2>1. q \in Listed /\ Rank(q, Listed) > n * PageSize
    BY <1>7 DEF ToCome
  <2>2. q \in Listed'
    BY <1>4, <1>7, <2>1
  <2>3. CASE s # "trash"
    <3>1. Listed \subseteq Listed'
      BY <1>4, <2>3
    <3> QED BY <1>5, <2>1, <2>2, <3>1, RankStays
  <2>4. CASE s = "trash"
    <3>1. ~(Rank(q, Listed') <= n * PageSize)
      BY <1>6, <1>7, <2>4
    <3>2. Rank(q, Listed') \in Nat
      BY <1>5, RankBounds
    <3>3. n * PageSize \in Nat
      BY ConstantsAssumption
    <3> QED BY <2>2, <3>1, <3>2, <3>3
  <2> QED BY <2>3, <2>4
<1>8. ASSUME NEW q \in Orders, Ahead(q), Keeps(q), sync.pc # "idle" PROVE Ahead(q)'
  <2>1. sync.page - 1 \in Nat
    BY <1>2, <1>8
  <2>2. CASE sync.pc = "fetch" /\ ToCome(q, sync.page - 1)
    <3>1. s # "trash" \/ (q # o /\ ~(Rank(q, Listed \ {o}) <= (sync.page - 1) * PageSize))
      BY <1>8, <2>2 DEF Slipping, PagesRead, Listed, ToCome
    <3> QED BY <1>7, <2>1, <2>2, <3>1 DEF Ahead, ToCome
  <2>3. CASE sync.pc \in {"read", "store"} /\ sync.more /\ ToCome(q, sync.page)
    <3>1. s # "trash" \/ (q # o /\ ~(Rank(q, Listed \ {o}) <= sync.page * PageSize))
      BY <1>8, <2>3 DEF Slipping, PagesRead, Listed, ToCome
    <3> QED BY <1>2, <1>7, <2>3, <3>1 DEF Ahead, ToCome
  <2> QED BY <1>8, <2>2, <2>3 DEF Ahead
<1>9. ASSUME NEW q \in Orders, Behind(q)' PROVE q = o \/ Behind(q)
  BY <1>1, <1>9 DEF Behind, Kept
<1>10. CheckpointSafe'
  <2> SUFFICES ASSUME NEW q \in Orders, Behind(q)'
               PROVE  shop'[q].time > checkpoint - Buffer \/ q \in passed
    BY DEF CheckpointSafe
  <2>1. CASE q = o
    BY <1>1, <1>2, <2>1
  <2>2. CASE q # o
    BY <1>1, <1>9, <2>2 DEF Reaches, CheckpointSafe
  <2> QED BY <2>1, <2>2
<1>11. ASSUME NEW q \in Orders, q \notin Missed' PROVE q \notin Missed /\ (s = "trash" => q \notin Slipping(o))
  BY <1>11 DEF Missed
<1>12. ASSUME NEW q \in Orders, LongBehind(q)' PROVE LongBehind(q) /\ Keeps(q)
  <2>1. shop'[q].time <= sync.start - Buffer /\ Behind(q)' /\ q \notin Missed'
    BY <1>12 DEF LongBehind
  <2>2. q # o
    BY <1>1, <1>2, <2>1
  <2> QED BY <1>1, <1>9, <1>11, <2>1, <2>2 DEF LongBehind
<1>13. ASSUME NEW q \in Orders, NotTouched(q)' PROVE NotTouched(q) /\ Keeps(q)
  <2>1. /\ sync.full /\ row[q].status # "none" /\ row[q].at < sync.start
        /\ shop'[q].status # "trash" /\ q \notin Missed'
    BY <1>13 DEF NotTouched
  <2> QED BY <1>1, <1>11, <2>1 DEF NotTouched
<1> HIDE DEF Keeps
<1>14. ASSUME NEW q \in Orders, sync'.pc # "idle" /\ ~sync'.failed /\ (LongBehind(q)' \/ NotTouched(q)')
       PROVE  Ahead(q)'
  <2>1. Ahead(q) /\ Keeps(q)
    BY <1>12, <1>13, <1>14 DEF Reaches
  <2> QED BY <1>8, <1>14, <2>1
<1> QED BY <1>10, <1>14 DEF Reaches

LEMMA ShopReaches ==
    ASSUME Types, Reaches, NEW o \in Orders, ShopCreates(o) \/ ShopChanges(o)
    PROVE  Reaches'
<1>1. sync' = sync /\ checkpoint' = checkpoint /\ row' = row /\ now' = now /\ passed' = passed
  BY DEF ShopCreates, ShopChanges, local, drift
<1>2. PICK s \in Status \ {"none"} :
          /\ ShopSets(o, s)
          /\ passing' = IF s = "trash" THEN passing \cup Slipping(o) ELSE passing
  <2>1. CASE ShopCreates(o)
    <3>1. PICK s \in {"pending"} \cup ({"draft"} \cap Env) : ShopSets(o, s)
      BY <2>1 DEF ShopCreates
    <3>2. s \in Status \ {"none"} /\ s # "trash"
      BY ConstantsAssumption DEF Status
    <3>3. passing' = passing
      BY <2>1 DEF ShopCreates, drift
    <3> QED BY <3>1, <3>2, <3>3
  <2>2. CASE ShopChanges(o)
    <3>1. PICK s \in Statuses \cup ({"trash"} \cap Env) :
              /\ ShopSets(o, s)
              /\ passing' = IF s = "trash" THEN passing \cup Slipping(o) ELSE passing
      BY <2>2 DEF ShopChanges
    <3>2. s \in Status \ {"none"}
      BY ConstantsAssumption DEF Status
    <3> QED BY <3>1, <3>2
  <2> QED BY <2>1, <2>2
<1>3. shop[o].status # "trash"
  BY DEF ShopCreates, ShopChanges
<1> QED BY <1>1, <1>2, <1>3, ReachesShop

LEMMA QuietReaches ==
    ASSUME Types, Reaches, sync' = sync, checkpoint' = checkpoint, shop' = shop, row' = row, now' \in Nat,
           passing' = passing, passed' = passed
    PROVE  Reaches'
  BY ReachesOn

LEMMA TickReaches ==
    ASSUME Types, Reaches, Tick
    PROVE  Reaches'
<1>1. now \in Nat
  BY DEF Types, ShopTypes
<1>2. /\ sync' = sync /\ checkpoint' = checkpoint /\ shop' = shop /\ row' = row /\ now' = now + 1
      /\ passing' = passing /\ passed' = passed
  BY DEF Tick, local, drift
<1> QED BY <1>1, <1>2, QuietReaches

\* A payload is what the shop says, or the shop changed less than a look-back ago.
LEMMA HookStoresReaches ==
    ASSUME Types, Reaches, NEW h \in Hooks, HookStores(h)
    PROVE  Reaches'
<1> DEFINE o == hook[h].order
<1>1. /\ sync' = sync /\ checkpoint' = checkpoint /\ shop' = shop /\ now' = now
      /\ passing' = passing /\ passed' = passed
  BY DEF HookStores, history, drift
<1>2. now \in Nat /\ row \in [Orders -> Row] /\ shop \in [Orders -> Order]
  BY DEF Types, ShopTypes, RowTypes
<1>3. CASE row' = row
  BY <1>1, <1>2, <1>3, QuietReaches
<1>4. CASE Store(hook[h].order, hook[h].payload)
  <2>1. /\ o \in Orders /\ hook[h].payload \in Order
        /\ hook[h].since \in Nat /\ now - hook[h].since < Buffer
        /\ hook[h].payload = shop[o] \/ hook[h].since <= shop[o].time
    BY HookStoresMoves DEF Types, HookTypes, Request
  <2>2. \A q \in Orders : q # o => row'[q] = row[q]
    BY <1>2, <1>4 DEF Store
  <2>3. row'[o] = [status |-> hook[h].payload.status, time |-> hook[h].payload.time, at |-> now]
    BY <1>2, <1>4, <2>1 DEF Store
  <2>4. /\ row'[o].at = now /\ row'[o].status = hook[h].payload.status
        /\ row'[o].time = hook[h].payload.time
    BY <2>3
  <2>5. [status |-> row'[o].status, time |-> row'[o].time] = hook[h].payload
    BY <2>1, <2>4 DEF Order
  <2>6. ASSUME NEW q \in Orders, q = o, Behind(q)' PROVE shop[q].time > now - Buffer
    <3>1. shop[q].time \in Nat /\ Buffer \in Nat
      BY <1>2, ConstantsAssumption DEF Order
    <3>2. hook[h].payload # shop[q]
      BY <1>1, <2>5, <2>6 DEF Behind
    <3> HIDE DEF o
    <3> QED BY <1>2, <2>1, <2>6, <3>1, <3>2
  <2> HIDE DEF o
  <2>7. ASSUME NEW q \in Orders PROVE row'[q] = row[q] \/ (row'[q].at = now /\ (Behind(q)' => shop[q].time > now - Buffer))
    BY <2>2, <2>4, <2>6
  <2> QED BY <1>1, <1>2, <2>7, ReachesOn
<1> QED BY <1>3, <1>4, HookStoresMoves

LEMMA BulkStoresReaches ==
    ASSUME Types, Reaches, BulkStores
    PROVE  Reaches'
<1> DEFINE o == bulk.order
<1>1. /\ sync' = sync /\ checkpoint' = checkpoint /\ shop' = shop /\ now' = now
      /\ passing' = passing /\ passed' = passed
  BY DEF BulkStores, history, drift
<1>2. now \in Nat /\ row \in [Orders -> Row] /\ shop \in [Orders -> Order]
  BY DEF Types, ShopTypes, RowTypes
<1>3. CASE row' = row
  BY <1>1, <1>2, <1>3, QuietReaches
<1>4. CASE row' # row
  <2>1. /\ o \in Orders /\ bulk.since \in Nat /\ now - bulk.since < Buffer /\ bulk.since <= shop[o].time
    BY BulkStoresMoves DEF Types, BulkTypes, Bulk
  <2>2. row' = [row EXCEPT ![o] = [row[o] EXCEPT !.status = bulk.new, !.at = now]]
    BY <1>4, BulkStoresMoves
  <2>3. \A q \in Orders : q # o => row'[q] = row[q]
    BY <1>2, <2>2
  <2>4. row'[o].at = now
    BY <1>2, <2>1, <2>2 DEF Row
  <2>5. shop[o].time > now - Buffer
    <3>1. shop[o].time \in Nat /\ Buffer \in Nat
      BY <1>2, <2>1, ConstantsAssumption DEF Order
    <3> QED BY <1>2, <2>1, <3>1
  <2> HIDE DEF o
  <2> QED BY <1>1, <1>2, <2>3, <2>4, <2>5, ReachesOn
<1> QED BY <1>3, <1>4

LEMMA BulkUpdatesShopReaches ==
    ASSUME Types, Reaches, BulkUpdatesShop
    PROVE  Reaches'
<1>1. /\ sync' = sync /\ checkpoint' = checkpoint /\ row' = row /\ now' = now /\ now \in Nat
      /\ passing' = passing /\ passed' = passed
  BY DEF BulkUpdatesShop, local, drift, Types, ShopTypes
<1>2. CASE shop' = shop
  BY <1>1, <1>2, QuietReaches
<1>3. CASE shop' # shop
  <2>1. /\ bulk.order \in Orders /\ bulk.new \in Statuses
        /\ ShopSets(bulk.order, bulk.new) /\ shop[bulk.order].status # "trash"
    BY <1>3 DEF BulkUpdatesShop, Types, BulkTypes
  <2>2. bulk.new \in Status \ {"none"} /\ bulk.new # "trash"
    BY <2>1, ConstantsAssumption DEF Status
  <2> QED BY <1>1, <2>1, <2>2, ReachesShop
<1> QED BY <1>2, <1>3

\* A sync that starts lists everything that is behind, a full one every live order.
LEMMA SyncStartsReaches ==
    ASSUME Types, Reaches, SyncStarts
    PROVE  Reaches'
<1>1. checkpoint' = checkpoint /\ shop' = shop /\ row' = row /\ passing' = {} /\ passed' = passed
  BY DEF SyncStarts
<1>2. sync'.pc = "fetch" /\ sync'.page = 1 /\ ~sync'.more
  BY SyncStartsMoves
<1>3. ASSUME NEW o \in Orders, LongBehind(o)' \/ NotTouched(o)' PROVE o \in Listed'
  <2>1. shop[o].time \in Nat /\ (shop[o].status # "none" => shop[o].time >= 1)
    BY DEF Types, ShopTypes, Order
  <2>2. CASE LongBehind(o)'
    <3>1. Behind(o) /\ shop[o].status \notin {"none", "draft", "trash"}
      BY <1>1, <2>2 DEF LongBehind, Behind, Kept, Excluded
    <3>2. shop[o].time > checkpoint - Buffer \/ sync'.full
      BY <1>1, <2>2, <3>1 DEF Reaches, CheckpointSafe, LongBehind, Missed
    <3>3. shop[o].time > After'
      BY <1>1, <2>1, <3>1, <3>2 DEF After
    <3> QED BY <1>1, <3>1, <3>3 DEF Listed, Listing
  <2>3. CASE NotTouched(o)'
    <3>1. sync'.full /\ row[o].status # "none" /\ shop[o].status # "trash"
      BY <1>1, <2>3 DEF NotTouched
    <3>2. shop[o].status # "none"
      BY <3>1 DEF Types, RowTypes
    <3>3. shop[o].time > After'
      BY <2>1, <3>1, <3>2 DEF After
    <3> QED BY <1>1, <3>1, <3>2, <3>3 DEF Listed, Listing
  <2> QED BY <1>3, <2>2, <2>3
<1>4. ASSUME NEW o \in Listed' PROVE o \in Orders /\ ToCome(o, sync.page - 1)'
  <2>1. Listed' \in SUBSET Orders
    BY DEF Listed, Listing
  <2>2. Rank(o, Listed') \in Nat /\ Rank(o, Listed') >= 1
    BY <2>1, RankBounds
  <2>3. (sync'.page - 1) * PageSize = 0
    BY <1>2, ConstantsAssumption
  <2> QED BY <2>1, <2>2, <2>3 DEF ToCome
<1>5. \A o \in Orders : LongBehind(o)' \/ NotTouched(o)' => Ahead(o)'
  BY <1>2, <1>3, <1>4 DEF Ahead
<1>6. CheckpointSafe'
  BY <1>1 DEF Reaches, CheckpointSafe, Behind, Kept
<1> QED BY <1>2, <1>5, <1>6 DEF Reaches

\* The page that is fetched holds the order, or is followed by others; and it is
\* empty only if nothing is to come.
LEMMA SyncFetchesReaches ==
    ASSUME Types, Reaches, SyncFetches
    PROVE  Reaches'
<1>1. checkpoint' = checkpoint /\ shop' = shop /\ row' = row /\ passing' = passing /\ passed' = passed
  BY DEF SyncFetches, history, drift
<1> DEFINE n == sync.page
<1>2. n \in Nat /\ n >= 1 /\ sync.pc = "fetch"
  BY SyncFetchesMoves DEF Types, SyncTypes, Run
<1>3. /\ n * PageSize \in Nat /\ (n - 1) * PageSize \in Nat /\ n - 1 \in Nat
      /\ n * PageSize = (n - 1) * PageSize + PageSize /\ PageSize >= 1 /\ PageSize \in Nat
  <2> HIDE DEF n
  <2> QED BY <1>2, Pages, ConstantsAssumption
<1>4. Listed' = Listed /\ Listed \in SUBSET Orders
  BY <1>1, ListedSame, ListedType, SyncFetchesMoves
<1>5. /\ sync'.page = n /\ sync'.start = sync.start /\ sync'.full = sync.full
      /\ sync'.failed = sync.failed /\ sync'.more = (n * PageSize < Cardinality(Listed))
      /\ sync'.pc = IF Page = {} THEN "end" ELSE "read"
      /\ \A o \in Orders : sync'.snap[o] = IF o \in Page THEN shop[o] ELSE NoOrder
  BY SyncFetchesMoves DEF Listed
<1>6. \A o \in Listed : o \in Page <=> (n - 1) * PageSize < Rank(o, Listed) /\ Rank(o, Listed) <= n * PageSize
  BY DEF Page, PageOf, Listed
<1>7. \A o \in Listed : Rank(o, Listed) \in Nat /\ Rank(o, Listed) <= Cardinality(Listed)
  BY <1>4, RankBounds
<1>n. Cardinality(Listed) \in Nat
  BY <1>4, RankBounds, ConstantsAssumption, FS_Subset, FS_CardinalityType
<1>8. ASSUME NEW o \in Listed, Rank(o, Listed) > (n - 1) * PageSize PROVE Page # {}
  <2>1. PICK q \in Listed : Rank(q, Listed) = (n - 1) * PageSize + 1
    BY <1>3, <1>4, <1>8, NextRank
  <2>2. (n - 1) * PageSize < Rank(q, Listed) /\ Rank(q, Listed) <= n * PageSize
    <3> DEFINE k == (n - 1) * PageSize
               m == n * PageSize
    <3>1. k \in Nat /\ m = k + PageSize /\ Rank(q, Listed) = k + 1
      BY <1>3, <2>1
    <3>2. k < Rank(q, Listed) /\ Rank(q, Listed) <= m
      <4> HIDE DEF k, m
      <4> QED BY <1>3, <3>1
    <3> QED BY <3>2
  <2> QED BY <1>6, <2>2
<1>9. ASSUME NEW o \in Orders, Ahead(o) PROVE Ahead(o)'
  <2>1. o \in Listed /\ Rank(o, Listed) > (n - 1) * PageSize
    BY <1>2, <1>9 DEF Ahead, ToCome
  <2>2. sync'.pc = "read"
    BY <1>5, <1>8, <2>1
  <2>3. CASE Rank(o, Listed) <= n * PageSize
    <3>1. o \in Page
      BY <1>6, <2>1, <2>3
    <3>2. sync'.snap[o] = shop[o] /\ shop[o].status # "none"
      BY <1>5, <2>1, <3>1, ListedType
    <3> QED BY <2>2, <3>2 DEF Ahead
  <2>4. CASE ~(Rank(o, Listed) <= n * PageSize)
    <3>1. Rank(o, Listed) > n * PageSize /\ n * PageSize < Cardinality(Listed)
      BY <1>3, <1>7, <1>n, <2>1, <2>4
    <3>2. sync'.more
      BY <1>5, <3>1
    <3> QED BY <1>4, <1>5, <2>1, <2>2, <3>1, <3>2 DEF Ahead, ToCome
  <2> QED BY <2>3, <2>4
<1>10. \A o \in Orders : (LongBehind(o)' => LongBehind(o)) /\ (NotTouched(o)' => NotTouched(o))
  BY <1>1, <1>5, MissedSame DEF LongBehind, NotTouched, Behind, Kept
<1>12. CheckpointSafe'
  BY <1>1 DEF Reaches, CheckpointSafe, Behind, Kept
<1>13. ASSUME NEW o \in Orders, sync'.pc # "idle" /\ ~sync'.failed /\ (LongBehind(o)' \/ NotTouched(o)')
       PROVE  Ahead(o)'
  <2>1. Ahead(o)
    BY <1>2, <1>5, <1>10, <1>13 DEF Reaches
  <2> QED BY <1>9, <2>1
<1> QED BY <1>12, <1>13 DEF Reaches

\* What a page does not store it touches.
LEMMA SyncReadsReaches ==
    ASSUME Types, Reaches, SyncReads
    PROVE  Reaches'
<1>1. checkpoint' = checkpoint /\ shop' = shop /\ now' = now /\ passing' = passing /\ passed' = passed
  BY DEF SyncReads, history, drift
<1>2. /\ sync.pc = "read" /\ sync'.pc = "store" /\ sync'.todo = InPage
      /\ sync'.page = sync.page /\ sync'.more = sync.more /\ sync'.start = sync.start
      /\ sync'.full = sync.full /\ sync'.failed = sync.failed
  BY SyncReadsMoves
<1>3. Listed' = Listed /\ Missed' = Missed
  BY <1>1, <1>2, ListedSame, MissedSame
<1>4. \A o \in Orders : row'[o].status = row[o].status /\ row'[o].time = row[o].time
  BY SyncReadsMoves DEF Types, RowTypes, Row
<1>5. ASSUME NEW o \in Orders, sync.snap[o].status \in Excluded, sync.snap[o].status # "none"
      PROVE  ~NotTouched(o)'
  <2>1. CASE row[o].status = "none"
    BY <1>4, <2>1 DEF NotTouched
  <2>2. CASE row[o].status # "none"
    <3>1. row'[o] = [row[o] EXCEPT !.at = now]
      BY <1>5, <2>2, SyncReadsMoves
    <3>2. row'[o].at = now
      BY <3>1 DEF Types, RowTypes, Row
    <3>3. now \in Nat /\ sync.start \in Nat /\ sync.start <= now
      BY DEF Types, ShopTypes, SyncTypes, Run
    <3> QED BY <1>2, <3>2, <3>3 DEF NotTouched
  <2> QED BY <2>1, <2>2
<1>6. \A o \in Orders : Behind(o)' <=> Behind(o)
  BY <1>1, <1>4 DEF Behind, Kept
<1>7. ASSUME NEW o \in Orders, NotTouched(o)' PROVE NotTouched(o)
  <2>1. now \in Nat /\ sync.start \in Nat /\ sync.start <= now
    BY DEF Types, ShopTypes, SyncTypes, Run
  <2>2. row'[o] = row[o] \/ row'[o].at = now
    BY SyncReadsMoves DEF Types, RowTypes, Row
  <2>3. /\ row'[o].at < sync.start /\ sync.full /\ row[o].status # "none"
        /\ shop[o].status # "trash" /\ o \notin Missed
    BY <1>1, <1>2, <1>3, <1>4, <1>7 DEF NotTouched
  <2>4. row[o].at < sync.start
    BY <2>1, <2>2, <2>3
  <2> QED BY <2>3, <2>4 DEF NotTouched
<1>8. ASSUME NEW o \in Orders, LongBehind(o), sync.snap[o].status # "none"
      PROVE  o \in InPage
  <2>1. /\ sync.snap[o] = shop[o] \/ sync.start <= shop[o].time
        /\ sync.start \in Nat /\ shop[o].time \in Nat /\ Buffer \in Nat /\ Buffer >= 1
    BY <1>8, ConstantsAssumption DEF Types, SyncTypes, ShopTypes, Run, Order
  <2>2. shop[o].time <= sync.start - Buffer /\ Kept(o)
    BY <1>8 DEF LongBehind, Behind
  <2>3. sync.snap[o] = shop[o]
    BY <2>1, <2>2
  <2> QED BY <1>8, <2>2, <2>3 DEF InPage, Kept
<1>9. CheckpointSafe'
  BY <1>1, <1>6 DEF Reaches, CheckpointSafe
<1>10. ASSUME NEW o \in Orders, sync'.pc # "idle" /\ ~sync'.failed /\ (LongBehind(o)' \/ NotTouched(o)')
       PROVE  Ahead(o)'
  <2>1. LongBehind(o)' => LongBehind(o)
    BY <1>1, <1>2, <1>3, <1>6 DEF LongBehind
  <2>2. Ahead(o)
    BY <1>2, <1>7, <1>10, <2>1 DEF Reaches
  <2>3. CASE sync.snap[o].status # "none"
    <3>1. o \in InPage
      BY <1>5, <1>8, <1>10, <2>1, <2>3 DEF InPage
    <3> QED BY <1>2, <3>1 DEF Ahead
  <2>4. CASE sync.more /\ ToCome(o, sync.page)
    BY <1>2, <1>3, <2>4 DEF Ahead, ToCome
  <2> QED BY <1>2, <2>2, <2>3, <2>4 DEF Ahead
<1> QED BY <1>2, <1>9, <1>10 DEF Reaches

\* A snapshot that is stored leaves its row behind only if the shop changed in the run.
LEMMA SyncStoresReaches ==
    ASSUME Types, Reaches, NEW o \in Orders, SyncStores(o)
    PROVE  Reaches'
<1>1. checkpoint' = checkpoint /\ shop' = shop /\ now' = now /\ passing' = passing /\ passed' = passed
  BY DEF SyncStores, history, drift
<1>2. /\ sync.pc = "store" /\ o \in sync.todo /\ sync'.pc = "store" /\ sync'.todo = sync.todo \ {o}
      /\ sync'.page = sync.page /\ sync'.more = sync.more /\ sync'.start = sync.start
      /\ sync'.full = sync.full
  BY SyncStoresMoves
<1>3. Listed' = Listed /\ Missed' = Missed
  BY <1>1, <1>2, ListedSame, MissedSame
<1>4. /\ now \in Nat /\ sync.start \in Nat /\ sync.start <= now /\ checkpoint \in Nat
      /\ checkpoint <= sync.start /\ Buffer \in Nat /\ Buffer >= 1
      /\ \A q \in Orders : shop[q].time \in Nat
      /\ row \in [Orders -> Row]
  BY <1>2, ConstantsAssumption DEF Types, ShopTypes, SyncTypes, RowTypes, Run, Order
<1>5. CASE UpsertFailed(o)
  <2>1. \A q \in Orders : row'[q].status = row[q].status /\ row'[q].time = row[q].time
    BY <1>4, <1>5 DEF UpsertFailed, Row
  <2>2. \A q \in Orders : Behind(q)' <=> Behind(q)
    BY <1>1, <2>1 DEF Behind, Kept
  <2>3. CheckpointSafe'
    BY <1>1, <2>2 DEF Reaches, CheckpointSafe
  <2>4. sync'.failed
    BY <1>5 DEF UpsertFailed
  <2> QED BY <1>2, <2>3, <2>4 DEF Reaches
<1>6. CASE Upserted(o)
  <2>1. \A q \in Orders : q # o => row'[q] = row[q]
    BY <1>4, <1>6 DEF Upserted, Store
  <2>2. row'[o] = [status |-> sync.snap[o].status, time |-> sync.snap[o].time, at |-> now]
    BY <1>4, <1>6 DEF Upserted, Store
  <2>3. sync.snap[o] \in Order /\ sync.snap[o].status # "none"
    <3>1. sync.snap[o].status \in Statuses
      BY <1>2 DEF Types, SyncTypes
    <3> QED BY <3>1, ConstantsAssumption DEF Types, SyncTypes, Run
  <2>4. /\ row'[o].at = now /\ row'[o].status = sync.snap[o].status
        /\ row'[o].time = sync.snap[o].time
    BY <2>2
  <2>5. [status |-> row'[o].status, time |-> row'[o].time] = sync.snap[o]
    BY <2>3, <2>4 DEF Order
  <2>6. Behind(o)' => sync.snap[o] # shop[o]
    BY <1>1, <2>5 DEF Behind
  <2>7. Behind(o)' => sync.start <= shop[o].time
    BY <2>3, <2>6 DEF Types, SyncTypes
  <2>8. \A q \in Orders : q # o => (Behind(q)' <=> Behind(q))
    BY <1>1, <2>1 DEF Behind, Kept
  <2>9. CheckpointSafe'
    <3> SUFFICES ASSUME NEW q \in Orders, Behind(q)' PROVE shop[q].time > checkpoint - Buffer \/ q \in passed
      BY <1>1 DEF CheckpointSafe
    <3>1. CASE q = o
      BY <1>4, <2>7, <3>1
    <3>2. CASE q # o
      BY <2>8, <3>2 DEF Reaches, CheckpointSafe
    <3> QED BY <3>1, <3>2
  <2>10. sync'.failed = sync.failed
    BY <1>6 DEF Upserted
  <2>11. ASSUME NEW q \in Orders, LongBehind(q)' PROVE q # o /\ LongBehind(q)
    <3>1. Behind(q)' /\ shop[q].time <= sync.start - Buffer /\ q \notin Missed
      BY <1>1, <1>2, <1>3, <2>11 DEF LongBehind
    <3>2. q # o
      BY <1>4, <2>7, <3>1
    <3> QED BY <2>8, <3>1, <3>2 DEF LongBehind
  <2>12. ASSUME NEW q \in Orders, NotTouched(q)' PROVE q # o /\ NotTouched(q)
    <3>1. row'[q].at < sync.start
      BY <1>2, <2>12 DEF NotTouched
    <3>2. q # o
      BY <1>4, <2>4, <3>1
    <3> QED BY <1>1, <1>2, <1>3, <2>1, <2>12, <3>2 DEF NotTouched
  <2>13. ASSUME NEW q \in Orders, sync'.pc # "idle" /\ ~sync'.failed /\ (LongBehind(q)' \/ NotTouched(q)')
         PROVE  Ahead(q)'
    <3>1. q # o /\ Ahead(q)
      BY <1>2, <2>10, <2>11, <2>12, <2>13 DEF Reaches
    <3> QED BY <1>2, <1>3, <3>1 DEF Ahead, ToCome
  <2> QED BY <1>2, <2>9, <2>13 DEF Reaches
<1> QED BY <1>5, <1>6, SyncStoresMoves

LEMMA SyncEmitsReaches ==
    ASSUME Types, Reaches, NEW o \in Orders, SyncEmits(o)
    PROVE  Reaches'
<1>1. checkpoint' = checkpoint /\ shop' = shop /\ row' = row /\ passing' = passing /\ passed' = passed
  BY DEF SyncEmits, history, drift
<1>2. /\ sync'.pc = sync.pc /\ sync'.todo = sync.todo /\ sync'.page = sync.page /\ sync'.more = sync.more
      /\ sync'.start = sync.start /\ sync'.full = sync.full /\ sync'.failed = sync.failed
      /\ sync'.snap = sync.snap
  BY SyncEmitsMoves
<1>3. Listed' = Listed
  BY <1>1, <1>2, ListedSame
<1>4. \A q \in Orders : (LongBehind(q)' => LongBehind(q)) /\ (NotTouched(q)' => NotTouched(q))
  BY <1>1, <1>2, MissedSame DEF LongBehind, NotTouched, Behind, Kept
<1>5. \A q \in Orders : Ahead(q) => Ahead(q)'
  BY <1>2, <1>3 DEF Ahead, ToCome
<1>6. CheckpointSafe'
  BY <1>1 DEF Reaches, CheckpointSafe, Behind, Kept
<1> QED BY <1>2, <1>4, <1>5, <1>6 DEF Reaches

LEMMA SyncTurnsPageReaches ==
    ASSUME Types, Reaches, SyncTurnsPage
    PROVE  Reaches'
<1>1. checkpoint' = checkpoint /\ shop' = shop /\ row' = row /\ passing' = passing /\ passed' = passed
  BY DEF SyncTurnsPage, history, drift
<1>2. /\ sync.pc = "store" /\ sync.todo = {} /\ sync.more /\ sync'.pc = "fetch"
      /\ sync'.page = sync.page + 1 /\ sync'.start = sync.start /\ sync'.full = sync.full
      /\ sync'.failed = sync.failed
  BY SyncTurnsPageMoves
<1>3. Listed' = Listed
  BY <1>1, <1>2, ListedSame
<1>4. \A q \in Orders : (LongBehind(q)' => LongBehind(q)) /\ (NotTouched(q)' => NotTouched(q))
  BY <1>1, <1>2, MissedSame DEF LongBehind, NotTouched, Behind, Kept
<1>5. ASSUME NEW q \in Orders, Ahead(q) PROVE Ahead(q)'
  <2>1. ToCome(q, sync.page)
    BY <1>2, <1>5 DEF Ahead
  <2>2. sync'.page - 1 = sync.page
    BY <1>2 DEF Types, SyncTypes, Run
  <2> QED BY <1>2, <1>3, <2>1, <2>2 DEF Ahead, ToCome
<1>6. CheckpointSafe'
  BY <1>1 DEF Reaches, CheckpointSafe, Behind, Kept
<1> QED BY <1>2, <1>4, <1>5, <1>6 DEF Reaches

\* At the end of a run nothing is ahead.
LEMMA EndReached ==
    ASSUME Types, Reaches, SyncEnds, ~sync.failed, NEW o \in Orders
    PROVE  ~LongBehind(o) /\ ~NotTouched(o)
<1>1. sync.pc = "end" \/ (sync.pc = "store" /\ sync.todo = {} /\ ~sync.more)
  BY SyncEndsMoves
<1>2. ~Ahead(o)
  BY <1>1 DEF Ahead
<1> QED BY <1>1, <1>2 DEF Reaches

\* The reconciliation deletes the rows of trashed orders, and of live ones it missed.
LEMMA EndsGone ==
    ASSUME Types, Reaches, SyncEnds, NEW o \in Orders, row[o].status # "none", row'[o].status = "none"
    PROVE  shop[o].status = "trash" \/ o \in passing
<1>1. row' # row
  OBVIOUS
<1>2. ~sync.failed
  BY <1>1, SyncEndsMoves
<1>3. PICK gone \in SUBSET Orders : /\ row' = [q \in Orders |-> IF q \in gone THEN NoRow ELSE row[q]]
                                    /\ gone # {} => sync.full /\ gone = Untouched
  BY <1>1, SyncEndsMoves
<1>4. o \in gone /\ sync.full /\ o \in Untouched
  BY <1>3
<1>5. ~NotTouched(o)
  BY <1>2, EndReached
<1>6. Missed = passing
  BY <1>4 DEF Missed
<1> QED BY <1>4, <1>5, <1>6 DEF NotTouched, Untouched

LEMMA EndsKeep ==
    ASSUME SyncEnds, NEW o \in Orders, ~NotTouched(o), shop[o].status # "trash", o \notin Missed
    PROVE  row'[o] = row[o]
<1>1. CASE row' = row
  BY <1>1
<1>2. CASE row' # row
  <2>1. PICK gone \in SUBSET Orders : /\ row' = [q \in Orders |-> IF q \in gone THEN NoRow ELSE row[q]]
                                      /\ gone # {} => sync.full /\ gone = Untouched
    BY <1>2, SyncEndsMoves
  <2>2. o \notin gone
    BY <2>1 DEF NotTouched, Untouched
  <2> QED BY <2>1, <2>2
<1> QED BY <1>1, <1>2

LEMMA SyncEndsReaches ==
    ASSUME Types, Excuses, Reaches, SyncEnds
    PROVE  Reaches'
<1>1. shop' = shop /\ sync' = NoSync
  BY DEF SyncEnds
<1>2. sync'.pc = "idle"
  BY <1>1, NoSyncTypes
<1>3. CASE sync.failed
  <2>1. row' = row /\ checkpoint' = checkpoint /\ passed' = passed
    BY <1>3, SyncEndsCauses
  <2>2. CheckpointSafe'
    BY <1>1, <2>1 DEF Reaches, CheckpointSafe, Behind, Kept
  <2> QED BY <1>2, <2>2 DEF Reaches
<1>4. CASE ~sync.failed
  <2>1. checkpoint' = sync.start /\ passed' = Missed
    BY <1>4, SyncEndsCauses
  <2>2. ASSUME NEW o \in Orders, Behind(o)', o \notin Missed PROVE shop[o].time > sync.start - Buffer
    <3>1. shop[o].status \notin {"none", "draft", "trash"} /\ Kept(o)
      BY <1>1, <2>2 DEF Behind, Kept, Excluded
    <3>2. ~NotTouched(o) /\ ~LongBehind(o)
      BY <1>4, EndReached
    <3>3. row'[o] = row[o]
      BY <2>2, <3>1, <3>2, EndsKeep
    <3>4. Behind(o)
      BY <1>1, <2>2, <3>3 DEF Behind, Kept
    <3>5. ~(shop[o].time <= sync.start - Buffer)
      BY <2>2, <3>2, <3>4 DEF LongBehind
    <3>6. shop[o].time \in Nat /\ sync.start \in Nat /\ Buffer \in Nat
      BY ConstantsAssumption DEF Types, ShopTypes, SyncTypes, Run, Order
    <3> QED BY <3>5, <3>6
  <2>3. CheckpointSafe'
    BY <1>1, <2>1, <2>2 DEF CheckpointSafe
  <2> QED BY <1>2, <2>3 DEF Reaches
<1> QED BY <1>3, <1>4

LEMMA SyncAbortsReaches ==
    ASSUME Types, Reaches, SyncAborts
    PROVE  Reaches'
<1>1. shop' = shop /\ row' = row /\ checkpoint' = checkpoint /\ sync' = NoSync /\ passed' = passed
  BY DEF SyncAborts, drift
<1>2. CheckpointSafe'
  BY <1>1 DEF Reaches, CheckpointSafe, Behind, Kept
<1> QED BY <1>1, <1>2, NoSyncTypes DEF Reaches

-----------------------------------------------------------------------------
(* Notifications *)

\* Rows and trashed orders stay, no order is new.
LEMMA CountsOn ==
    ASSUME Counts, created' = created, excused' = excused, seen' = seen, sync' = sync,
           \A o \in Orders : /\ row[o].status # "none" => row'[o].status # "none"
                             /\ shop[o].status = "trash" => shop'[o].status = "trash"
    PROVE  Counts'
  BY DEF Counts, Owing

\* The sync has no page in hand.
LEMMA CountsBetween ==
    ASSUME Counts, created' = created, excused' = excused, seen' = seen, shop' = shop, row' = row,
           sync'.pc # "read", sync'.todo = {}, sync'.say = {}
    PROVE  Counts'
  BY DEF Counts, Owing

\* What the webhooks count is no matter of the sync.
LEMMA CountsHook ==
    ASSUME Counts, sync' = sync, row' = row, shop' = shop,
           \A q \in Orders : /\ created'[q].sync = created[q].sync /\ excused'[q].sync = excused[q].sync
                             /\ created'[q].hook <= 1 + excused'[q].hook
                             /\ q \notin seen' => created'[q].hook <= excused'[q].hook
    PROVE  Counts'
  BY DEF Counts, Owing

LEMMA ShopCounts ==
    ASSUME Types, Counts, NEW o \in Orders, ShopCreates(o) \/ ShopChanges(o)
    PROVE  Counts'
<1>1. created' = created /\ excused' = excused /\ seen' = seen /\ sync' = sync /\ row' = row
  BY DEF ShopCreates, ShopChanges, local, counts
<1>2. shop[o].status # "trash"
  BY DEF ShopCreates, ShopChanges
<1>3. \A q \in Orders : q # o => shop'[q] = shop[q]
  BY DEF ShopCreates, ShopChanges, ShopSets, Types, ShopTypes
<1> QED BY <1>1, <1>2, <1>3, CountsOn

LEMMA BulkUpdatesShopCounts ==
    ASSUME Types, Counts, BulkUpdatesShop
    PROVE  Counts'
<1>1. created' = created /\ excused' = excused /\ seen' = seen /\ sync' = sync /\ row' = row
  BY DEF BulkUpdatesShop, local, counts
<1>2. \A q \in Orders : shop[q].status = "trash" => shop'[q] = shop[q]
  BY DEF BulkUpdatesShop, ShopSets, Types, ShopTypes
<1> QED BY <1>1, <1>2, CountsOn

LEMMA HookStoresCounts ==
    ASSUME Types, Counts, NEW h \in Hooks, HookStores(h)
    PROVE  Counts'
<1>1. created' = created /\ excused' = excused /\ seen' = seen /\ sync' = sync /\ shop' = shop
  BY DEF HookStores, history, counts
<1>2. ASSUME NEW o \in Orders, row[o].status # "none" PROVE row'[o].status # "none"
  <2>1. CASE row' = row
    BY <1>2, <2>1
  <2>2. CASE row' # row
    <3>1. Store(hook[h].order, hook[h].payload) /\ hook[h].payload.status \in Statuses
      BY <2>2, HookStoresMoves
    <3>2. hook[h].payload.status # "none"
      BY <3>1, ConstantsAssumption
    <3>3. row'[o] = row[o] \/ row'[o].status = hook[h].payload.status
      BY <3>1 DEF Store, Types, RowTypes
    <3> QED BY <1>2, <3>2, <3>3
  <2> QED BY <2>1, <2>2
<1> QED BY <1>1, <1>2, CountsOn

LEMMA BulkStoresCounts ==
    ASSUME Types, Counts, BulkStores
    PROVE  Counts'
<1>1. created' = created /\ excused' = excused /\ seen' = seen /\ sync' = sync /\ shop' = shop
  BY DEF BulkStores, history, counts
<1>2. ASSUME NEW o \in Orders, row[o].status # "none" PROVE row'[o].status # "none"
  <2>1. bulk.new \in Statuses /\ bulk.new # "none"
    BY BulkStoresMoves, ConstantsAssumption DEF Types, BulkTypes
  <2>2. row'[o] = row[o] \/ row'[o].status = bulk.new
    BY BulkStoresMoves DEF Types, RowTypes, Row
  <2> QED BY <1>2, <2>1, <2>2
<1> QED BY <1>1, <1>2, CountsOn

\* A delivery that is known is not counted again, one that is not has a cause.
LEMMA HookEmitsCounts ==
    ASSUME Types, Excuses, Counts, NEW h \in Hooks, HookEmits(h)
    PROVE  Counts'
<1> DEFINE o == hook[h].order
<1>1. sync' = sync /\ row' = row /\ shop' = shop
  BY DEF HookEmits
<1>2. /\ o \in Orders /\ seen \subseteq seen'
      /\ \A q \in Orders : /\ created'[q].sync = created[q].sync /\ excused'[q].sync = excused[q].sync
                           /\ q # o => created'[q] = created[q] /\ excused'[q] = excused[q]
      /\ \/ created'[o] = created[o] /\ excused'[o] = excused[o]
         \/ /\ created'[o].hook = created[o].hook + 1 /\ excused'[o] = excused[o]
            /\ o \notin seen /\ o \in seen'
         \/ created'[o].hook = created[o].hook + 1 /\ excused'[o].hook = excused[o].hook + 1
  BY HookEmitsMoves
<1> HIDE DEF o
<1>3. /\ created[o].hook \in Nat /\ excused[o].hook \in Nat
      /\ created[o].hook <= 1 + excused[o].hook
      /\ o \notin seen => created[o].hook <= excused[o].hook
  BY <1>2 DEF Types, HistoryTypes, Excuses, Counts
<1>4. created'[o].hook <= 1 + excused'[o].hook /\ (o \notin seen' => created'[o].hook <= excused'[o].hook)
  BY <1>2, <1>3
<1>5. ASSUME NEW q \in Orders
      PROVE  created'[q].hook <= 1 + excused'[q].hook /\ (q \notin seen' => created'[q].hook <= excused'[q].hook)
  <2>1. CASE q = o
    BY <1>4, <2>1
  <2>2. CASE q # o
    BY <1>2, <2>2 DEF Counts
  <2> QED BY <2>1, <2>2
<1> QED BY <1>1, <1>2, <1>5, CountsHook

\* A key that ends is a cause.
LEMMA KeyExpiresMoves ==
    ASSUME Excuses, NEW o \in Orders, KeyExpires(o)
    PROVE  /\ created' = created /\ seen' = seen \ {o} /\ Excuses'
           /\ excused'[o].hook = excused[o].hook + 1 /\ excused'[o].sync = excused[o].sync
           /\ \A q \in Orders : q # o => excused'[q] = excused[q]
<1>1. /\ excused' = [excused EXCEPT ![o].hook = @ + 1]
      /\ created' = created /\ seen' = seen \ {o} /\ passing' = passing /\ passed' = passed
  BY DEF KeyExpires, drift
<1> QED BY <1>1 DEF Excuses

LEMMA KeyExpiresCounts ==
    ASSUME Types, Excuses, Counts, NEW o \in Orders, KeyExpires(o)
    PROVE  Counts'
<1>1. sync' = sync /\ row' = row /\ shop' = shop
  BY DEF KeyExpires
<1>2. ASSUME NEW q \in Orders
      PROVE  /\ created'[q].sync = created[q].sync /\ excused'[q].sync = excused[q].sync
             /\ created'[q].hook <= 1 + excused'[q].hook
             /\ q \notin seen' => created'[q].hook <= excused'[q].hook
  <2>1. created[q].hook \in Nat /\ excused[q].hook \in Nat /\ created[q].hook <= 1 + excused[q].hook
    BY DEF Types, HistoryTypes, Excuses, Counts
  <2>2. CASE q = o
    BY <2>1, <2>2, KeyExpiresMoves
  <2>3. CASE q # o
    BY <2>3, KeyExpiresMoves DEF Counts
  <2> QED BY <2>2, <2>3
<1> QED BY <1>1, <1>2, CountsHook

LEMMA SyncFetchesCounts ==
    ASSUME Types, Counts, SyncFetches
    PROVE  Counts'
<1>1. created' = created /\ excused' = excused /\ seen' = seen /\ row' = row /\ shop' = shop
  BY DEF SyncFetches, history, counts
<1>2. sync'.todo = {} /\ sync'.say = {}
  BY SyncFetchesMoves DEF Types, SyncTypes
<1>3. ASSUME NEW o \in Orders, sync'.snap[o].status # "none" PROVE shop[o].status # "trash"
  <2>1. o \in Page
    BY <1>3, SyncFetchesMoves, NoTypes
  <2>2. o \in Listed
    BY <2>1 DEF Page, PageOf, Listed
  <2> QED BY <2>2, ListedType
<1> QED BY <1>1, <1>2, <1>3 DEF Counts, Owing

LEMMA SyncReadsCounts ==
    ASSUME Types, Counts, SyncReads
    PROVE  Counts'
<1>1. created' = created /\ excused' = excused /\ seen' = seen /\ shop' = shop
  BY DEF SyncReads, history, counts
<1>2. \A o \in Orders : row'[o].status = row[o].status
  BY SyncReadsMoves DEF Types, RowTypes, Row
<1>3. sync.pc = "read" /\ sync'.pc = "store" /\ sync'.todo = InPage /\ sync'.say = {}
  BY SyncReadsMoves DEF Types, SyncTypes
<1>4. ASSUME NEW o \in InPage, sync'.existing[o] = "none" PROVE Owing(o)
  <2>1. o \in Orders /\ sync.snap[o].status # "none"
    BY DEF InPage
  <2>2. row[o].status = "none"
    BY <1>4, <2>1, SyncReadsMoves
  <2> QED BY <1>3, <2>1, <2>2 DEF Counts
<1> QED BY <1>1, <1>2, <1>3, <1>4 DEF Counts, Owing

LEMMA SyncStoresCounts ==
    ASSUME Types, Counts, NEW o \in Orders, SyncStores(o)
    PROVE  Counts'
<1>1. created' = created /\ excused' = excused /\ seen' = seen /\ shop' = shop
  BY DEF SyncStores, history, counts
<1>2. /\ sync'.pc = "store" /\ sync'.existing = sync.existing /\ o \in sync.todo
      /\ sync'.todo \cup sync'.say \subseteq sync.todo \cup sync.say /\ sync'.say \subseteq sync.say \cup {o}
  BY SyncStoresMoves DEF Upserted, UpsertFailed
<1>3. sync.snap[o].status \in Statuses /\ sync.snap[o].status # "none"
  BY <1>2, ConstantsAssumption DEF Types, SyncTypes
<1>4. \A q \in Orders : row[q].status # "none" => row'[q].status # "none"
  <2>1. CASE Upserted(o)
    BY <1>3, <2>1 DEF Upserted, Store, Types, RowTypes
  <2>2. CASE UpsertFailed(o)
    BY <2>2 DEF UpsertFailed, Types, RowTypes, Row
  <2> QED BY <2>1, <2>2, SyncStoresMoves
<1>5. o \in sync'.say => row'[o].status # "none"
  <2>1. CASE Upserted(o)
    BY <1>3, <2>1 DEF Upserted, Store, Types, RowTypes
  <2>2. CASE UpsertFailed(o)
    BY <1>4, <2>2 DEF UpsertFailed, Counts
  <2> QED BY <2>1, <2>2, SyncStoresMoves
<1>6. \A q \in Orders : q \in sync'.say => row'[q].status # "none"
  BY <1>2, <1>4, <1>5 DEF Counts
<1> QED BY <1>1, <1>2, <1>4, <1>6 DEF Counts, Owing

\* An order that is counted has a row, and leaves the page.
LEMMA SyncEmitsCounts ==
    ASSUME Types, Excuses, Counts, NEW o \in Orders, SyncEmits(o)
    PROVE  Counts'
<1>1. seen' = seen /\ shop' = shop /\ row' = row /\ excused' = excused
  BY DEF SyncEmits
<1>2. /\ sync.pc = "store" /\ sync'.pc = "store" /\ sync'.todo = {} /\ sync'.say = sync.say \ {o}
      /\ sync.todo = {} /\ o \in sync.say /\ sync'.existing = sync.existing
  BY SyncEmitsMoves
<1>3. /\ created \in [Orders -> [hook : Nat, sync : Nat]]
      /\ excused \in [Orders -> [hook : Nat, sync : Nat]]
  BY DEF Types, HistoryTypes, Excuses
<1>4. \/ created' = created
      \/ created' = [created EXCEPT ![o].sync = @ + 1] /\ IsNew(o)
  BY DEF SyncEmits
<1>5. /\ \A q \in Orders : q # o => created'[q] = created[q]
      /\ created'[o].hook = created[o].hook
      /\ created'[o].sync = created[o].sync \/ (created'[o].sync = created[o].sync + 1 /\ IsNew(o))
  BY <1>3, <1>4
<1>6. IsNew(o) => created[o].sync <= excused[o].sync
  BY <1>2 DEF IsNew, Counts, Owing
<1>7. row[o].status # "none"
  BY <1>2 DEF Counts
<1>8. created'[o].sync <= 1 + excused[o].sync
  BY <1>3, <1>5, <1>6 DEF Counts
<1>9. ASSUME NEW q \in Orders
      PROVE  /\ created'[q].hook <= 1 + excused[q].hook
             /\ q \notin seen => created'[q].hook <= excused[q].hook
             /\ created'[q].sync <= 1 + excused[q].sync
             /\ row[q].status = "none" /\ shop[q].status # "trash" => created'[q].sync <= excused[q].sync
             /\ q \in sync.say \ {o} /\ sync.existing[q] = "none" => created'[q].sync <= excused[q].sync
             /\ q \in sync.say => row[q].status # "none"
  <2>1. CASE q = o
    BY <1>5, <1>7, <1>8, <2>1 DEF Counts
  <2>2. CASE q # o
    BY <1>5, <2>2 DEF Counts, Owing
  <2> QED BY <2>1, <2>2
<1> QED BY <1>1, <1>2, <1>9 DEF Counts, Owing

LEMMA SyncStartsCounts ==
    ASSUME Types, Counts, SyncStarts
    PROVE  Counts'
<1>1. created' = created /\ excused' = excused /\ seen' = seen /\ shop' = shop /\ row' = row
  BY DEF SyncStarts, counts
<1> QED BY <1>1, SyncStartsMoves, CountsBetween

LEMMA SyncTurnsPageCounts ==
    ASSUME Types, Counts, SyncTurnsPage
    PROVE  Counts'
<1>1. created' = created /\ excused' = excused /\ seen' = seen /\ shop' = shop /\ row' = row
  BY DEF SyncTurnsPage, history, counts
<1>2. sync'.pc = "fetch" /\ sync'.todo = {} /\ sync'.say = {}
  BY SyncTurnsPageMoves
<1> QED BY <1>1, <1>2, CountsBetween

\* A row that is deleted while its order lives is a cause.
LEMMA SyncEndsCounts ==
    ASSUME Types, Excuses, Counts, SyncEnds
    PROVE  Counts'
<1>1. created' = created /\ seen' = seen /\ shop' = shop /\ sync' = NoSync
  BY DEF SyncEnds
<1>2. sync'.pc = "idle" /\ sync'.todo = {} /\ sync'.say = {}
  BY <1>1, NoSyncTypes
<1>3. ASSUME NEW o \in Orders
      PROVE  /\ created[o].hook <= 1 + excused'[o].hook
             /\ o \notin seen => created[o].hook <= excused'[o].hook
             /\ created[o].sync <= 1 + excused'[o].sync
             /\ row'[o].status = "none" /\ shop[o].status # "trash" => created[o].sync <= excused'[o].sync
  <2>1. created[o].sync \in Nat /\ excused[o].sync \in Nat
    BY DEF Types, HistoryTypes, Excuses
  <2>2. /\ excused'[o].hook = excused[o].hook
        /\ excused'[o].sync \in {excused[o].sync, excused[o].sync + 1}
        /\ row[o].status # "none" /\ row'[o].status = "none" /\ shop[o].status # "trash"
             => excused'[o].sync = excused[o].sync + 1
    BY SyncEndsCauses
  <2>3. /\ created[o].hook <= 1 + excused[o].hook
        /\ o \notin seen => created[o].hook <= excused[o].hook
        /\ created[o].sync <= 1 + excused[o].sync
        /\ row[o].status = "none" /\ shop[o].status # "trash" => created[o].sync <= excused[o].sync
    BY DEF Counts, Owing
  <2>4. created[o].sync <= 1 + excused'[o].sync
    BY <2>1, <2>2, <2>3
  <2>5. ASSUME row'[o].status = "none", shop[o].status # "trash" PROVE created[o].sync <= excused'[o].sync
    BY <2>1, <2>2, <2>3, <2>5
  <2> QED BY <2>2, <2>3, <2>4, <2>5
<1> QED BY <1>1, <1>2, <1>3 DEF Counts, Owing

LEMMA SyncAbortsCounts ==
    ASSUME Types, Counts, SyncAborts
    PROVE  Counts'
<1>1. /\ created' = created /\ excused' = excused /\ seen' = seen /\ shop' = shop
      /\ row' = row /\ sync' = NoSync
  BY DEF SyncAborts, counts
<1>2. sync'.pc = "idle" /\ sync'.todo = {} /\ sync'.say = {}
  BY <1>1, NoSyncTypes
<1> QED BY <1>1, <1>2, CountsBetween

\* Steps that touch neither rows nor counts.
LEMMA QuietCounts ==
    ASSUME Counts, created' = created, excused' = excused, seen' = seen, sync' = sync, row' = row, shop' = shop
    PROVE  Counts'
  BY CountsOn

-----------------------------------------------------------------------------
(* Causes *)

\* Most steps add no cause.
LEMMA ExcusesStay ==
    ASSUME Excuses, excused' = excused, passing' \subseteq Orders, passed' = passed
    PROVE  Excuses'
  BY DEF Excuses

LEMMA SlippingOrders == \A o \in Orders : Slipping(o) \subseteq Orders
  BY DEF Slipping, Listing

-----------------------------------------------------------------------------
(* The invariant *)

IInv == Types /\ Excuses /\ Announces /\ Reaches /\ Counts

LEMMA SaidIsTold ==
    ASSUME NEW o \in Orders, NEW s, Told(s, o)
    PROVE  s \in sent[o] \cup unsaid[o] \cup Owed(o)
<1>1. CASE s \in sent[o] \/ s \in unsaid[o]
  BY <1>1
<1>2. CASE \E h \in Hooks : hook[h].pc = "stored" /\ hook[h].order = o /\ hook[h].payload.status = s
  <2>1. PICK h \in Hooks : hook[h].pc = "stored" /\ hook[h].order = o /\ hook[h].payload.status = s
    BY <1>2
  <2>2. s \in HookOwes(h)
    BY <2>1 DEF HookOwes
  <2>3. s \in OwedByHooks(o)
    BY <2>1, <2>2 DEF OwedByHooks
  <2> QED BY <2>3 DEF Owed
<1>3. CASE o \in sync.say /\ sync.existing[o] # sync.snap[o].status /\ sync.snap[o].status = s
  <2>1. s \in SyncOwes(o)
    BY <1>3 DEF SyncOwes, Changed
  <2> QED BY <2>1 DEF Owed
<1>4. CASE bulk.pc = "stored" /\ bulk.order = o /\ bulk.prev # bulk.new /\ bulk.new = s
  <2>1. bulk.order = o /\ s \in BulkOwes \cup BulkSilent
    BY <1>4 DEF BulkOwes, BulkSilent
  <2> QED BY <2>1 DEF Owed
<1> QED BY <1>1, <1>2, <1>3, <1>4 DEF Told

LEMMA InitTypes ==
    ASSUME Init
    PROVE  Types
<1>1. ShopTypes
  BY NoTypes DEF Init, ShopTypes
<1>2. RowTypes
  BY <1>1, NoTypes DEF Init, RowTypes
<1>3. HookTypes
  BY NoTypes DEF Init, HookTypes
<1>4. SyncTypes
  BY NoSyncTypes, NoTypes DEF Init, SyncTypes
<1>5. BulkTypes
  BY NoTypes DEF Init, BulkTypes
<1>6. HistoryTypes
  BY DEF Init, HistoryTypes
<1> QED BY <1>1, <1>2, <1>3, <1>4, <1>5, <1>6 DEF Types

LEMMA InitAnnounces ==
    ASSUME Init
    PROVE  Announces
  BY NoTypes, NoSyncTypes DEF Init, Announces

LEMMA InitReaches ==
    ASSUME Init
    PROVE  Reaches /\ Counts /\ Excuses
<1>1. sync.pc = "idle" /\ sync.todo = {} /\ sync.say = {}
  BY NoSyncTypes DEF Init
<1>2. CheckpointSafe
  BY NoTypes DEF Init, CheckpointSafe, Behind, Kept
<1>3. Reaches
  BY <1>1, <1>2 DEF Reaches
<1>4. Counts
  BY <1>1 DEF Init, Counts, Owing
<1>5. Excuses
  BY DEF Init, Excuses
<1> QED BY <1>3, <1>4, <1>5

\* The steps of Next, one at a time.
LEMMA Steps ==
    ASSUME Next
    PROVE  \/ Tick
           \/ \E o \in Orders : ShopCreates(o) \/ ShopChanges(o)
           \/ \E o \in Orders : BulkReads(o)
           \/ \E o \in Orders : KeyExpires(o)
           \/ \E h \in Hooks : HookStores(h)
           \/ \E h \in Hooks : HookEmits(h)
           \/ \E h \in Hooks : HookAborts(h)
           \/ \E h \in Hooks, o \in Orders : HookReceives(h, o)
           \/ SyncStarts \/ SyncFetches \/ SyncReads
           \/ \E o \in Orders : SyncStores(o)
           \/ \E o \in Orders : SyncEmits(o)
           \/ SyncTurnsPage \/ SyncEnds \/ SyncAborts
           \/ BulkUpdatesShop \/ BulkStores \/ BulkEmits \/ BulkAborts
  BY DEF Next, HookSteps, SyncSteps, BulkSteps

LEMMA NextTypes ==
    ASSUME Types, Excuses, Next
    PROVE  Types'
<1>1. CASE Tick BY <1>1, TickTypes
<1>2. CASE \E o \in Orders : ShopCreates(o) \/ ShopChanges(o)
  BY <1>2, ShopCreatesTypes, ShopChangesTypes
<1>3. CASE \E o \in Orders : BulkReads(o) BY <1>3, BulkReadsTypes
<1>4. CASE \E h \in Hooks : HookStores(h) BY <1>4, HookStoresTypes
<1>5. CASE \E h \in Hooks : HookEmits(h) BY <1>5, HookEmitsTypes
<1>6. CASE \E h \in Hooks : HookAborts(h) BY <1>6, HookAbortsTypes
<1>7. CASE \E h \in Hooks, o \in Orders : HookReceives(h, o) BY <1>7, HookReceivesTypes
<1>8. CASE SyncStarts BY <1>8, SyncStartsTypes
<1>9. CASE SyncFetches BY <1>9, SyncFetchesTypes
<1>10. CASE SyncReads BY <1>10, SyncReadsTypes
<1>11. CASE \E o \in Orders : SyncStores(o) BY <1>11, SyncStoresTypes
<1>12. CASE \E o \in Orders : SyncEmits(o) BY <1>12, SyncEmitsTypes
<1>13. CASE SyncTurnsPage BY <1>13, SyncTurnsPageTypes
<1>14. CASE SyncEnds BY <1>14, SyncEndsTypes
<1>15. CASE SyncAborts BY <1>15, SyncAbortsTypes
<1>16. CASE BulkUpdatesShop BY <1>16, BulkUpdatesShopTypes
<1>17. CASE BulkStores BY <1>17, BulkStoresTypes
<1>18. CASE BulkEmits BY <1>18, BulkEmitsTypes
<1>19. CASE BulkAborts BY <1>19, BulkAbortsTypes
<1>20. CASE \E o \in Orders : KeyExpires(o) BY <1>20, KeyExpiresTypes
<1> QED
  BY <1>1, <1>2, <1>3, <1>4, <1>5, <1>6, <1>7, <1>8, <1>9, <1>10, <1>11, <1>12, <1>13, <1>14,
     <1>15,
     <1>16, <1>17, <1>18, <1>19, <1>20, Steps

LEMMA NextAnnounces ==
    ASSUME Types, Announces, Next
    PROVE  Announces'
<1>1. CASE Tick BY <1>1, NothingAnnounced DEF Tick, local, counts, drift
<1>2. CASE \E o \in Orders : ShopCreates(o) \/ ShopChanges(o)
  BY <1>2, NothingAnnounced DEF ShopCreates, ShopChanges, local, counts, drift
<1>3. CASE \E o \in Orders : BulkReads(o) BY <1>3, BulkReadsAnnounces
<1>4. CASE \E h \in Hooks : HookStores(h) BY <1>4, HookStoresAnnounces
<1>5. CASE \E h \in Hooks : HookEmits(h) BY <1>5, HookEmitsAnnounces
<1>6. CASE \E h \in Hooks : HookAborts(h) BY <1>6, HookAbortsAnnounces
<1>7. CASE \E h \in Hooks, o \in Orders : HookReceives(h, o) BY <1>7, HookReceivesAnnounces
<1>8. CASE SyncStarts BY <1>8, SyncStartsAnnounces
<1>9. CASE SyncFetches BY <1>9, SyncFetchesAnnounces
<1>10. CASE SyncReads BY <1>10, SyncReadsAnnounces
<1>11. CASE \E o \in Orders : SyncStores(o) BY <1>11, SyncStoresAnnounces
<1>12. CASE \E o \in Orders : SyncEmits(o) BY <1>12, SyncEmitsAnnounces
<1>13. CASE SyncTurnsPage BY <1>13, SyncTurnsPageAnnounces
<1>14. CASE SyncEnds BY <1>14, SyncEndsAnnounces
<1>15. CASE SyncAborts BY <1>15, SyncAbortsAnnounces
<1>16. CASE BulkUpdatesShop BY <1>16, BulkUpdatesShopAnnounces
<1>17. CASE BulkStores BY <1>17, BulkStoresAnnounces
<1>18. CASE BulkEmits BY <1>18, BulkEmitsAnnounces
<1>19. CASE BulkAborts BY <1>19, BulkAbortsAnnounces
<1>20. CASE \E o \in Orders : KeyExpires(o) BY <1>20, NothingAnnounced DEF KeyExpires
<1> QED
  BY <1>1, <1>2, <1>3, <1>4, <1>5, <1>6, <1>7, <1>8, <1>9, <1>10, <1>11, <1>12, <1>13, <1>14,
     <1>15,
     <1>16, <1>17, <1>18, <1>19, <1>20, Steps

LEMMA NextReaches ==
    ASSUME Types, Excuses, Reaches, Next
    PROVE  Reaches'
<1>n. now \in Nat
  BY DEF Types, ShopTypes
<1>1. CASE Tick BY <1>1, TickReaches
<1>2. CASE \E o \in Orders : ShopCreates(o) \/ ShopChanges(o)
  BY <1>2, ShopReaches
<1>3. CASE \E o \in Orders : BulkReads(o) BY <1>n, <1>3, QuietReaches DEF BulkReads, local, drift
<1>4. CASE \E h \in Hooks : HookStores(h) BY <1>4, HookStoresReaches
<1>5. CASE \E h \in Hooks : HookEmits(h) BY <1>n, <1>5, QuietReaches DEF HookEmits, drift
<1>6. CASE \E h \in Hooks : HookAborts(h) BY <1>n, <1>6, QuietReaches DEF HookAborts, drift
<1>7. CASE \E h \in Hooks, o \in Orders : HookReceives(h, o) BY <1>n, <1>7, QuietReaches DEF HookReceives, history, drift
<1>8. CASE SyncStarts BY <1>8, SyncStartsReaches
<1>9. CASE SyncFetches BY <1>9, SyncFetchesReaches
<1>10. CASE SyncReads BY <1>10, SyncReadsReaches
<1>11. CASE \E o \in Orders : SyncStores(o) BY <1>11, SyncStoresReaches
<1>12. CASE \E o \in Orders : SyncEmits(o) BY <1>12, SyncEmitsReaches
<1>13. CASE SyncTurnsPage BY <1>13, SyncTurnsPageReaches
<1>14. CASE SyncEnds BY <1>14, SyncEndsReaches
<1>15. CASE SyncAborts BY <1>15, SyncAbortsReaches
<1>16. CASE BulkUpdatesShop BY <1>16, BulkUpdatesShopReaches
<1>17. CASE BulkStores BY <1>17, BulkStoresReaches
<1>18. CASE BulkEmits BY <1>n, <1>18, QuietReaches DEF BulkEmits, drift
<1>19. CASE BulkAborts BY <1>n, <1>19, QuietReaches DEF BulkAborts, drift
<1>20. CASE \E o \in Orders : KeyExpires(o) BY <1>n, <1>20, QuietReaches DEF KeyExpires, drift
<1> QED
  BY <1>1, <1>2, <1>3, <1>4, <1>5, <1>6, <1>7, <1>8, <1>9, <1>10, <1>11, <1>12, <1>13, <1>14,
     <1>15,
     <1>16, <1>17, <1>18, <1>19, <1>20, Steps

LEMMA NextCounts ==
    ASSUME Types, Excuses, Counts, Next
    PROVE  Counts'
<1>1. CASE Tick BY <1>1, QuietCounts DEF Tick, local, counts
<1>2. CASE \E o \in Orders : ShopCreates(o) \/ ShopChanges(o)
  BY <1>2, ShopCounts
<1>3. CASE \E o \in Orders : BulkReads(o) BY <1>3, QuietCounts DEF BulkReads, local, counts
<1>4. CASE \E h \in Hooks : HookStores(h) BY <1>4, HookStoresCounts
<1>5. CASE \E h \in Hooks : HookEmits(h) BY <1>5, HookEmitsCounts
<1>6. CASE \E h \in Hooks : HookAborts(h) BY <1>6, QuietCounts DEF HookAborts, counts
<1>7. CASE \E h \in Hooks, o \in Orders : HookReceives(h, o) BY <1>7, QuietCounts DEF HookReceives, history, counts
<1>8. CASE SyncStarts BY <1>8, SyncStartsCounts
<1>9. CASE SyncFetches BY <1>9, SyncFetchesCounts
<1>10. CASE SyncReads BY <1>10, SyncReadsCounts
<1>11. CASE \E o \in Orders : SyncStores(o) BY <1>11, SyncStoresCounts
<1>12. CASE \E o \in Orders : SyncEmits(o) BY <1>12, SyncEmitsCounts
<1>13. CASE SyncTurnsPage BY <1>13, SyncTurnsPageCounts
<1>14. CASE SyncEnds BY <1>14, SyncEndsCounts
<1>15. CASE SyncAborts BY <1>15, SyncAbortsCounts
<1>16. CASE BulkUpdatesShop BY <1>16, BulkUpdatesShopCounts
<1>17. CASE BulkStores BY <1>17, BulkStoresCounts
<1>18. CASE BulkEmits BY <1>18, QuietCounts DEF BulkEmits, counts
<1>19. CASE BulkAborts BY <1>19, QuietCounts DEF BulkAborts, counts
<1>20. CASE \E o \in Orders : KeyExpires(o) BY <1>20, KeyExpiresCounts
<1> QED
  BY <1>1, <1>2, <1>3, <1>4, <1>5, <1>6, <1>7, <1>8, <1>9, <1>10, <1>11, <1>12, <1>13, <1>14,
     <1>15,
     <1>16, <1>17, <1>18, <1>19, <1>20, Steps

LEMMA NextExcuses ==
    ASSUME Types, Excuses, Next
    PROVE  Excuses'
<1>1. CASE \E o \in Orders : ShopCreates(o) \/ ShopChanges(o)
  <2>1. PICK o \in Orders : ShopCreates(o) \/ ShopChanges(o)
    BY <1>1
  <2>2. excused' = excused /\ passed' = passed /\ passing' \subseteq passing \cup Slipping(o)
    BY <2>1 DEF ShopCreates, ShopChanges, local, counts, drift
  <2>3. passing' \subseteq Orders
    BY <2>2, SlippingOrders DEF Excuses
  <2> QED BY <2>2, <2>3, ExcusesStay
<1>2. CASE \E h \in Hooks : HookEmits(h)
  BY <1>2, HookEmitsMoves
<1>3. CASE \E o \in Orders : KeyExpires(o)
  BY <1>3, KeyExpiresMoves
<1>4. CASE SyncEnds
  BY <1>4, SyncEndsCauses
<1>5. CASE SyncStarts
  <2>1. excused' = excused /\ passed' = passed /\ passing' = {}
    BY <1>5 DEF SyncStarts, counts
  <2> QED BY <2>1, ExcusesStay
<1>6. CASE excused' = excused /\ passing' = passing /\ passed' = passed
  BY <1>6 DEF Excuses
<1>7. \/ Tick \/ (\E o \in Orders : BulkReads(o)) \/ BulkUpdatesShop
      => excused' = excused /\ passing' = passing /\ passed' = passed
  BY DEF Tick, BulkReads, BulkUpdatesShop, local, counts, drift
<1>8. \/ (\E h \in Hooks : HookStores(h)) \/ (\E h \in Hooks, o \in Orders : HookReceives(h, o))
      \/ SyncFetches \/ SyncReads \/ (\E o \in Orders : SyncStores(o)) \/ SyncTurnsPage \/ BulkStores
      => excused' = excused /\ passing' = passing /\ passed' = passed
  BY DEF HookStores, HookReceives, SyncFetches, SyncReads, SyncStores, SyncTurnsPage, BulkStores,
         history, counts, drift
<1>9. \/ (\E h \in Hooks : HookAborts(h)) \/ (\E o \in Orders : SyncEmits(o)) \/ SyncAborts
      \/ BulkEmits \/ BulkAborts
      => excused' = excused /\ passing' = passing /\ passed' = passed
  BY DEF HookAborts, SyncEmits, SyncAborts, BulkEmits, BulkAborts, counts, drift
<1> QED BY <1>1, <1>2, <1>3, <1>4, <1>5, <1>6, <1>7, <1>8, <1>9, Steps

\* Only the end of a sync deletes rows.
LEMMA RowsStay ==
    ASSUME Types, Reaches, Next, NEW o \in Orders, row[o].status # "none", row'[o].status = "none"
    PROVE  shop[o].status = "trash" \/ o \in passing
<1>1. CASE SyncEnds
  BY <1>1, EndsGone
<1>2. CASE \E h \in Hooks : HookStores(h)
  <2>1. PICK h \in Hooks : HookStores(h)
    BY <1>2
  <2>2. Store(hook[h].order, hook[h].payload) /\ hook[h].payload.status \in Statuses
    BY <2>1, HookStoresMoves
  <2>3. row'[o] = row[o] \/ row'[o].status \in Statuses
    BY <2>2 DEF Store, Types, RowTypes
  <2> QED BY <2>3, ConstantsAssumption
<1>3. CASE BulkStores
  <2>1. bulk.new \in Statuses
    BY <1>3, BulkStoresMoves DEF Types, BulkTypes
  <2>2. row'[o] = row[o] \/ row'[o].status = bulk.new
    BY <1>3, BulkStoresMoves DEF Types, RowTypes, Row
  <2> QED BY <2>1, <2>2, ConstantsAssumption
<1>4. CASE SyncReads
  BY <1>4, SyncReadsMoves DEF Types, RowTypes, Row
<1>5. CASE \E q \in Orders : SyncStores(q)
  <2>1. PICK q \in Orders : SyncStores(q)
    BY <1>5
  <2>2. sync.snap[q].status \in Statuses
    BY <2>1, SyncStoresMoves DEF Types, SyncTypes
  <2>3. CASE Upserted(q)
    <3>1. row'[o] = row[o] \/ row'[o].status \in Statuses
      BY <2>2, <2>3 DEF Upserted, Store, Types, RowTypes
    <3> QED BY <3>1, ConstantsAssumption
  <2>4. CASE UpsertFailed(q)
    BY <2>4 DEF UpsertFailed, Types, RowTypes, Row
  <2> QED BY <2>1, <2>3, <2>4, SyncStoresMoves
<1>6. CASE row' = row
  BY <1>6
<1>7. \/ SyncEnds \/ (\E h \in Hooks : HookStores(h)) \/ BulkStores \/ SyncReads
      \/ (\E q \in Orders : SyncStores(q)) \/ row' = row
  BY Steps
     DEF Tick, ShopCreates, ShopChanges, BulkReads, KeyExpires, HookEmits, HookAborts, HookReceives,
         SyncStarts,
     SyncFetches, SyncEmits, SyncTurnsPage, SyncAborts, BulkUpdatesShop, BulkEmits, BulkAborts, local, counts, drift
<1> QED BY <1>1, <1>2, <1>3, <1>4, <1>5, <1>6, <1>7

LEMMA Stutters ==
    ASSUME UNCHANGED vars
    PROVE  /\ Types => Types'
           /\ Types /\ Announces => Announces'
           /\ Types /\ Reaches => Reaches'
           /\ Counts => Counts'
           /\ Excuses => Excuses'
<1>1. /\ now' = now /\ shop' = shop /\ row' = row /\ checkpoint' = checkpoint /\ seen' = seen
      /\ hook' = hook /\ sync' = sync /\ bulk' = bulk /\ sent' = sent /\ unsaid' = unsaid
      /\ created' = created /\ excused' = excused /\ passing' = passing /\ passed' = passed
  BY DEF vars
<1>2. Types => Types'
  <2> SUFFICES ASSUME Types PROVE Types'
    OBVIOUS
  <2>1. Onward
    BY <1>1, ShopRests
  <2> QED
    BY <1>1, <2>1, ShopRests, RowRests, HookRests, SyncRests, BulkRests, HistoryRests
       DEF Types, Onward
<1>3. Types /\ Announces => Announces'
  BY <1>1, NothingAnnounced
<1>4. Types /\ Reaches => Reaches'
  BY <1>1, QuietReaches DEF Types, ShopTypes
<1>5. Counts => Counts'
  BY <1>1, QuietCounts
<1>6. Excuses => Excuses'
  BY <1>1 DEF Excuses
<1> QED BY <1>2, <1>3, <1>4, <1>5, <1>6

-----------------------------------------------------------------------------
(* Theorems *)

LEMMA Inv == Spec => []IInv
<1>1. Init => IInv
  BY InitTypes, InitAnnounces, InitReaches DEF IInv
<1>2. IInv /\ [Next]_vars => IInv'
  BY NextTypes, NextExcuses, NextAnnounces, NextReaches, NextCounts, Stutters DEF IInv
<1> QED BY <1>1, <1>2, PTL DEF Spec

\* Rows hold statuses of the table only, never an excluded one, and nothing in the
\* state is later than the clock (HookStores, SyncReads, BulkStores).
THEOREM TypesCorrect == Spec => []TypeOK
<1>1. IInv => TypeOK
  <2> SUFFICES ASSUME Types, Excuses PROVE TypeOK
    BY DEF IInv
  <2>1. now \in Nat /\ checkpoint \in 0..now /\ sync.start \in 0..now
    BY DEF Types, ShopTypes, SyncTypes, Run
  <2>2. \A o \in Orders : row[o].status \in Statuses \cup {"none"} /\ {row[o].time, row[o].at} \subseteq 0..now
    BY DEF Types, ShopTypes, RowTypes, Row
  <2>3. sync.pc \in {"idle", "fetch", "read", "store", "end"}
    BY DEF Types, SyncTypes, Run
  <2>4. \A h \in Hooks : hook[h].pc \in {"idle", "received", "stored"}
    BY DEF Types, HookTypes, Request
  <2>5. /\ bulk.pc \in {"idle", "read", "updated", "stored"}
        /\ seen \subseteq Orders /\ passing \subseteq Orders /\ passed \subseteq Orders
    BY DEF Types, BulkTypes, Bulk, HistoryTypes, Excuses
  <2> QED BY <2>1, <2>2, <2>3, <2>4, <2>5 DEF TypeOK
<1> QED BY <1>1, Inv, PTL

\* Whatever the webhooks, the sync and the bulk route write into the table, and in
\* whatever order, its status was announced, will be, died with a process, was passed
\* over by a baseline sync, or was stored by a bulk update that had found no row.
THEOREM StatusesAnnounced == Spec => []Announced
<1>1. IInv => Announced
  BY SaidIsTold DEF IInv, Announces, Announced
<1> QED BY <1>1, Inv, PTL

\* A row that is behind the shop will be listed by the next sync, or is of an order
\* that syncs missed when the listing shifted under them: the checkpoint of a sync
\* passes no other change, whatever late webhooks and bulk updates undid.
THEOREM CheckpointsSafe == Spec => []CheckpointSafe
<1>1. IInv => CheckpointSafe
  BY DEF IInv, Reaches
<1> QED BY <1>1, Inv, PTL

\* A new order is notified once by the webhooks and once by the syncs, and again only
\* for a delivery that Redis did not know or could not be asked for, or for a row
\* that was deleted while its order lived.
THEOREM CreatedOnce == Spec => []CreatedOncePerSource
<1>1. IInv => CreatedOncePerSource
  BY DEF IInv, Counts, CreatedOncePerSource
<1> QED BY <1>1, Inv, PTL

\* The reconciliation of a full sync deletes the row of a live order only if the order
\* slipped onto a page already read, whatever failed in the run and whatever was
\* stored beside it.
THEOREM DeletesGoneOnly == Spec => DeletesOnlyGone
<1>1. ASSUME IInv, [Next]_vars
      PROVE  [\A o \in Orders :
                row[o].status # "none" /\ row'[o].status = "none"
                  => shop[o].status = "trash" \/ o \in passing]_vars
  BY <1>1, RowsStay DEF IInv
<1>2. Spec => [][Next]_vars
  BY PTL DEF Spec
<1> QED BY <1>1, <1>2, Inv, PTL DEF DeletesOnlyGone
=============================================================================
