------------------------ MODULE AbandonedCarts_proofs ------------------------
(***************************************************************************)
(* Proofs about AbandonedCarts, for any number of sessions, orders, scans  *)
(* and handlers: the types, that an order is enrolled once, what the       *)
(* frequency cap lets through, that a purchase ends every follow-up that   *)
(* was committed when its event looked, and, for one scan at a time, that  *)
(* a cart is followed up once.                                             *)
(*                                                                         *)
(* The lock of a key makes its check and its insertion one: whoever is     *)
(* about to insert a key is alone with it (Alone), so what the check found *)
(* is still true (Fresh).  What was seen is a prefix of the enrollments,   *)
(* whose keys never change and whose rows never become active again.       *)
(***************************************************************************)
EXTENDS AbandonedCarts, TLAPS

Kinds    == {"cart", "order"}
Statuses == {"ACTIVE", "COMPLETED", "CANCELLED"}
Served   == Sessions \ Unserved
Carts    == Served \X (1..MaxCarts)
Keys     == ({"cart"} \X Served) \cup ({"order"} \X Orders)

Session    == [cart : 0..MaxCarts, used : 0..MaxCarts, idle : BOOLEAN, notified : BOOLEAN]
Enrollment == [key : Keys, cart : {<<>>} \cup Carts, seen : Nat, status : Statuses]
Scan       == [pc : {"idle", "next", "insert"}, todo : SUBSET (Sessions \X (1..MaxCarts)),
               done : SUBSET Carts, cart : {<<>>} \cup Carts, seen : Nat]
Handler    == [pc : {"idle", "read", "cancel", "check", "insert"}, order : Orders \cup {"none"},
               found : SUBSET Nat, seen : Nat]

Rows == 1..Len(enrollments)

Types ==
    /\ session \in [Sessions -> Session]
    /\ \A s \in Sessions : session[s].cart <= session[s].used
    /\ enrollments \in Seq(Enrollment)
    /\ \A i \in Rows : enrollments[i].seen < i
    /\ scan \in [Scanners -> Scan]
    /\ \A c \in Scanners : scan[c].pc = "insert" => scan[c].cart \in Carts /\ scan[c].seen <= Len(enrollments)
    /\ handler \in [Handlers -> Handler]
    /\ \A h \in Handlers : handler[h].pc # "idle" => handler[h].order \in Orders
    /\ \A h \in Handlers : handler[h].pc \in {"cancel", "check", "insert"} => handler[h].seen <= Len(enrollments)
    /\ handled \in 0..Len(enrollments)

\* Whoever is about to insert a key is alone with it.
Alone ==
    /\ \A c, d \in Scanners : scan[c].pc = "insert" /\ scan[d].pc = "insert"
                              /\ scan[c].cart[1] = scan[d].cart[1] => c = d
    /\ \A h, k \in Handlers : handler[h].pc = "insert" /\ handler[k].pc = "insert"
                              /\ handler[h].order = handler[k].order => h = k

\* What its check found is still true.
Fresh ==
    /\ \A c \in Scanners, i \in Rows : scan[c].pc = "insert" /\ "cart" \in Capped =>
           enrollments[i].key # <<"cart", scan[c].cart[1]>>
    /\ \A h \in Handlers, i \in Rows : handler[h].pc = "insert" =>
           enrollments[i].key # <<"order", handler[h].order>>

\* A cap that looked found no enrollment of the automation.
CapLooked ==
    /\ \A i \in Rows : enrollments[i].key[1] \in Capped =>
           \A q \in Rows : q <= enrollments[i].seen => enrollments[q].key[1] # enrollments[i].key[1]
    /\ \A c \in Scanners, q \in Rows : scan[c].pc = "insert" /\ "cart" \in Capped =>
           (q <= scan[c].seen => enrollments[q].key[1] # "cart")
    /\ \A h \in Handlers, q \in Rows : handler[h].pc = "insert" /\ "order" \in Capped =>
           (q <= handler[h].seen => enrollments[q].key[1] # "order")

\* An order, and with a cap a session, is enrolled once.
Distinct == \A i, q \in Rows : enrollments[i].key = enrollments[q].key =>
    i = q \/ (enrollments[i].key[1] = "cart" /\ "cart" \notin Capped)

\* What an order event knows of the follow-ups it saw.
Following(i) == enrollments[i].key[1] = "cart" /\ enrollments[i].status = "ACTIVE"
Stopping ==
    /\ \A h \in Handlers, i \in Rows : handler[h].pc = "cancel" /\ i <= handler[h].seen =>
           (Following(i) => i \in handler[h].found)
    /\ \A h \in Handlers, i \in Rows : handler[h].pc = "check" /\ i <= handler[h].seen => ~Following(i)
    /\ \A i \in Rows : i <= handled => ~Following(i)

IInv == Types /\ Alone /\ Fresh /\ CapLooked /\ Distinct /\ Stopping
-----------------------------------------------------------------------------
(* Steps that leave the enrollments alone *)

LEMMA CustomerMoves ==
    ASSUME IInv, session' \in [Sessions -> Session],
           \A s \in Sessions : session'[s].cart <= session'[s].used,
           UNCHANGED <<enrollments, scan, handler, handled>>
    PROVE  IInv'
<1>1. Types'
  BY DEF IInv, Types, Rows
<1>2. Alone' /\ Fresh' /\ CapLooked'
  BY DEF IInv, Alone, Fresh, CapLooked, Rows
<1>3. Distinct' /\ Stopping'
  BY DEF IInv, Distinct, Stopping, Following, Rows
<1> QED
  BY <1>1, <1>2, <1>3 DEF IInv

\* A scan that inserts next holds the lock of a key it found to be free.
MayInsertCart(c, local) ==
    /\ local.cart \in Carts /\ local.seen <= Len(enrollments)
    /\ \A d \in Scanners : d # c /\ scan[d].pc = "insert" => scan[d].cart[1] # local.cart[1]
    /\ "cart" \in Capped => \A i \in Rows : enrollments[i].key[1] # "cart"

LEMMA ScanMoves ==
    ASSUME IInv, NEW c \in Scanners, NEW local \in Scan, scan' = [scan EXCEPT ![c] = local],
           session' \in [Sessions -> Session],
           \A s \in Sessions : session'[s].cart <= session'[s].used,
           UNCHANGED <<enrollments, handler, handled>>,
           local.pc = "insert" => MayInsertCart(c, local)
    PROVE  IInv'
<1>1. \A d \in Scanners : scan'[d] = IF d = c THEN local ELSE scan[d]
  BY DEF IInv, Types
<1>2. Types'
  BY <1>1 DEF IInv, Types, Rows, MayInsertCart
<1>3. Alone'
  BY <1>1 DEF IInv, Alone, MayInsertCart
<1>4. Fresh'
  <2>1. \A i \in Rows : local.pc = "insert" /\ "cart" \in Capped =>
            enrollments[i].key # <<"cart", local.cart[1]>>
    BY DEF MayInsertCart
  <2> QED
    BY <1>1, <2>1 DEF IInv, Fresh, Rows
<1>5. CapLooked'
  BY <1>1 DEF IInv, CapLooked, MayInsertCart, Rows
<1>6. Distinct' /\ Stopping'
  BY DEF IInv, Distinct, Stopping, Following, Rows
<1> QED
  BY <1>2, <1>3, <1>4, <1>5, <1>6 DEF IInv

MayInsertOrder(h, local) ==
    /\ \A k \in Handlers : k # h /\ handler[k].pc = "insert" => handler[k].order # local.order
    /\ \A i \in Rows : enrollments[i].key # <<"order", local.order>>
    /\ "order" \in Capped => \A i \in Rows : enrollments[i].key[1] # "order"

LEMMA HandlerMoves ==
    ASSUME IInv, NEW h \in Handlers, NEW local \in Handler, handler' = [handler EXCEPT ![h] = local],
           UNCHANGED <<enrollments, scan, session>>,
           handled' \in 0..Len(enrollments), \A i \in Rows : i <= handled' => ~Following(i),
           local.pc # "idle" => local.order \in Orders,
           local.pc \in {"cancel", "check", "insert"} => local.seen <= Len(enrollments),
           local.pc = "cancel" =>
               \A i \in Rows : i <= local.seen /\ Following(i) => i \in local.found,
           local.pc = "check" => \A i \in Rows : i <= local.seen => ~Following(i),
           local.pc = "insert" => MayInsertOrder(h, local)
    PROVE  IInv'
<1>1. \A k \in Handlers : handler'[k] = IF k = h THEN local ELSE handler[k]
  BY DEF IInv, Types
<1>2. Types'
  BY <1>1 DEF IInv, Types, Rows
<1>3. Alone'
  BY <1>1 DEF IInv, Alone, MayInsertOrder
<1>4. Fresh'
  BY <1>1 DEF IInv, Fresh, MayInsertOrder, Rows
<1>5. CapLooked'
  BY <1>1 DEF IInv, CapLooked, MayInsertOrder, Rows
<1>6. Distinct' /\ Stopping'
  BY <1>1 DEF IInv, Distinct, Stopping, Following, Rows
<1> QED
  BY <1>2, <1>3, <1>4, <1>5, <1>6 DEF IInv

-----------------------------------------------------------------------------
(* Steps that end or add enrollments *)

\* Rows keep their key, cart and what was seen, and none becomes active.
RowsKept ==
    /\ enrollments' \in Seq(Enrollment) /\ Len(enrollments') = Len(enrollments)
    /\ \A i \in Rows :
           /\ enrollments'[i].key = enrollments[i].key /\ enrollments'[i].seen = enrollments[i].seen
           /\ enrollments'[i].status = "ACTIVE" => enrollments[i].status = "ACTIVE"

LEMMA StatusesChange ==
    ASSUME IInv, RowsKept, UNCHANGED <<scan, session, handled>>,
           handler' \in [Handlers -> Handler],
           \A h \in Handlers : handler'[h].pc # "idle" => handler[h].pc # "idle",
           \A h \in Handlers : \/ handler'[h] = handler[h]
                               \/ /\ handler[h].pc = "cancel" /\ handler'[h].pc = "check"
                                  /\ handler'[h].order = handler[h].order
                                  /\ handler'[h].seen = handler[h].seen
                                  /\ \A i \in handler[h].found \cap Rows : enrollments'[i].status # "ACTIVE"
    PROVE  IInv'
<1>1. Rows' = Rows /\ \A i \in Rows : Following(i)' => Following(i)
  BY DEF RowsKept, Rows, Following
<1>2. Types'
  BY <1>1 DEF IInv, Types, RowsKept
<1>3. Alone'
  BY DEF IInv, Alone
<1>4. Fresh'
  BY <1>1 DEF IInv, Fresh, RowsKept
<1>5. CapLooked'
  BY <1>1 DEF IInv, CapLooked, RowsKept
<1>6. Distinct'
  BY <1>1 DEF IInv, Distinct, RowsKept
<1>7. Stopping'
  BY <1>1 DEF IInv, Stopping, Following, RowsKept
<1> QED
  BY <1>2, <1>3, <1>4, <1>5, <1>6, <1>7 DEF IInv

\* A new row, by a scan or a handler that is done with it.
LEMMA RowAdded ==
    ASSUME IInv, NEW e \in Enrollment, enrollments' = Append(enrollments, e),
           e.seen <= Len(enrollments),
           \A i \in Rows : enrollments[i].key # e.key \/ (e.key[1] = "cart" /\ "cart" \notin Capped),
           e.key[1] \in Capped =>
               \A q \in Rows : q <= e.seen => enrollments[q].key[1] # e.key[1],
           UNCHANGED <<session, handled>>,
           scan' \in [Scanners -> Scan], handler' \in [Handlers -> Handler],
           \A c \in Scanners : scan'[c].pc = "insert" =>
               scan'[c] = scan[c] /\ ("cart" \in Capped => e.key # <<"cart", scan[c].cart[1]>>),
           \A h \in Handlers : handler'[h].pc # "idle" =>
               handler'[h] = handler[h]
               /\ (handler[h].pc = "insert" => e.key # <<"order", handler[h].order>>)
    PROVE  IInv'
<1> DEFINE n == Len(enrollments)
<1>1. enrollments \in Seq(Enrollment) /\ n \in Nat
  BY DEF IInv, Types
<1>2. /\ enrollments' \in Seq(Enrollment) /\ Len(enrollments') = n + 1 /\ enrollments'[n + 1] = e
      /\ \A i \in Rows : enrollments'[i] = enrollments[i]
  BY <1>1 DEF Rows
<1>3. /\ Rows \subseteq Rows' /\ n + 1 \in Rows' /\ n + 1 \notin Rows
      /\ \A i \in Rows' : i \in Rows \/ i = n + 1
      /\ \A i \in Rows : i <= n /\ i \in Nat
  BY <1>1, <1>2 DEF Rows
<1>0. \A i \in Rows : enrollments[i] \in Enrollment /\ enrollments[i].seen \in Nat /\ enrollments[i].seen < i
  <2>1. \A i \in Rows : enrollments[i] \in Enrollment
    BY <1>1 DEF Rows
  <2> QED
    BY <2>1 DEF IInv, Types, Enrollment
<1>4. Types'
  <2>1. \A i \in Rows' : enrollments'[i].seen < i
    <3>1. e.seen \in Nat
      BY DEF Enrollment
    <3> QED
      BY <1>0, <1>1, <1>2, <1>3, <3>1
  <2>2. handled' \in 0..Len(enrollments')
    BY <1>1, <1>2 DEF IInv, Types
  <2>3. \A c \in Scanners : scan'[c].pc = "insert" => scan'[c].cart \in Carts /\ scan'[c].seen <= Len(enrollments')
    BY <1>1, <1>2 DEF IInv, Types, Scan
  <2>4. \A h \in Handlers : /\ handler'[h].pc # "idle" => handler'[h].order \in Orders
                            /\ handler'[h].pc \in {"cancel", "check", "insert"} =>
                                   handler'[h].seen <= Len(enrollments')
    BY <1>1, <1>2 DEF IInv, Types, Handler
  <2> QED
    BY <1>2, <2>1, <2>2, <2>3, <2>4 DEF IInv, Types
<1>5. Alone'
  BY DEF IInv, Alone
<1>6. Fresh'
  <2>1. ASSUME NEW c \in Scanners, NEW i \in Rows', scan'[c].pc = "insert", "cart" \in Capped
        PROVE  enrollments'[i].key # <<"cart", scan'[c].cart[1]>>
    <3>1. scan'[c] = scan[c] /\ e.key # <<"cart", scan[c].cart[1]>>
      BY <2>1
    <3>2. i \in Rows => enrollments[i].key # <<"cart", scan[c].cart[1]>>
      BY <2>1, <3>1 DEF IInv, Fresh
    <3> QED
      BY <1>2, <1>3, <3>1, <3>2
  <2>2. ASSUME NEW h \in Handlers, NEW i \in Rows', handler'[h].pc = "insert"
        PROVE  enrollments'[i].key # <<"order", handler'[h].order>>
    <3>1. handler'[h] = handler[h] /\ e.key # <<"order", handler[h].order>>
      BY <2>2
    <3>2. i \in Rows => enrollments[i].key # <<"order", handler[h].order>>
      BY <2>2, <3>1 DEF IInv, Fresh
    <3> QED
      BY <1>2, <1>3, <3>1, <3>2
  <2> QED
    BY <2>1, <2>2 DEF Fresh
<1>7. CapLooked'
  <2>1. \A i, q \in Rows' : enrollments'[i].key[1] \in Capped /\ q <= enrollments'[i].seen =>
            enrollments'[q].key[1] # enrollments'[i].key[1]
    <3>1. ASSUME NEW i \in Rows, NEW q \in Rows', enrollments'[i].key[1] \in Capped, q <= enrollments'[i].seen
          PROVE  enrollments'[q].key[1] # enrollments'[i].key[1]
      <4>1. enrollments[i].seen < i /\ enrollments[i].seen \in Nat
        BY <1>0
      <4>2. q \in Rows
        BY <1>1, <1>2, <1>3, <3>1, <4>1
      <4> QED
        <5>1. /\ enrollments[i].key[1] \in Capped /\ q <= enrollments[i].seen
              /\ enrollments'[i] = enrollments[i] /\ enrollments'[q] = enrollments[q]
          BY <1>2, <3>1, <4>2
        <5>2. enrollments[q].key[1] # enrollments[i].key[1]
          BY <4>2, <5>1 DEF IInv, CapLooked
        <5> QED
          BY <5>1, <5>2
    <3>2. ASSUME NEW q \in Rows', e.key[1] \in Capped, q <= e.seen PROVE enrollments'[q].key[1] # e.key[1]
      <4>1. q \in Rows
        BY <1>1, <1>3, <3>2 DEF Enrollment
      <4> QED
        BY <1>2, <3>2, <4>1
    <3> QED
      BY <1>2, <1>3, <3>1, <3>2
  <2>2. ASSUME NEW c \in Scanners, NEW q \in Rows', scan'[c].pc = "insert", "cart" \in Capped, q <= scan'[c].seen
        PROVE  enrollments'[q].key[1] # "cart"
    <3>1. scan'[c] = scan[c] /\ scan[c].seen <= n /\ scan[c].seen \in Nat
      BY <2>2 DEF IInv, Types, Scan
    <3>2. q \in Rows
      BY <1>1, <1>3, <2>2, <3>1
    <3> QED
      <4>1. scan[c].pc = "insert" /\ q <= scan[c].seen
        BY <2>2, <3>1
      <4>2. enrollments[q].key[1] # "cart"
        BY <2>2, <3>2, <4>1 DEF IInv, CapLooked
      <4> QED
        BY <1>2, <3>2, <4>2
  <2>3. ASSUME NEW h \in Handlers, NEW q \in Rows', handler'[h].pc = "insert", "order" \in Capped, q <= handler'[h].seen
        PROVE  enrollments'[q].key[1] # "order"
    <3>1. handler'[h] = handler[h] /\ handler[h].seen <= n /\ handler[h].seen \in Nat
      BY <2>3 DEF IInv, Types, Handler
    <3>2. q \in Rows
      BY <1>1, <1>3, <2>3, <3>1
    <3> QED
      <4>1. handler[h].pc = "insert" /\ q <= handler[h].seen
        BY <2>3, <3>1
      <4>2. enrollments[q].key[1] # "order"
        BY <2>3, <3>2, <4>1 DEF IInv, CapLooked
      <4> QED
        BY <1>2, <3>2, <4>2
  <2> QED
    BY <2>1, <2>2, <2>3 DEF CapLooked
<1>8. Distinct'
  <2>1. ASSUME NEW i \in Rows', NEW q \in Rows', enrollments'[i].key = enrollments'[q].key
        PROVE  i = q \/ (enrollments'[i].key[1] = "cart" /\ "cart" \notin Capped)
    <3>1. CASE i \in Rows /\ q \in Rows
      <4>1. enrollments[i].key = enrollments[q].key /\ enrollments'[i] = enrollments[i]
        BY <1>2, <2>1, <3>1
      <4> QED
        BY <3>1, <4>1 DEF IInv, Distinct
    <3>2. CASE i \in Rows /\ q = n + 1
      BY <1>2, <2>1, <3>2
    <3>3. CASE i = n + 1 /\ q \in Rows
      BY <1>2, <2>1, <3>3
    <3> QED
      BY <1>3, <3>1, <3>2, <3>3
  <2> QED
    BY <2>1 DEF Distinct
<1>9. Stopping'
  <2>1. \A i \in Rows : Following(i)' = Following(i)
    BY <1>2 DEF Following
  <2>2. ASSUME NEW h \in Handlers, NEW i \in Rows', handler'[h].pc \in {"cancel", "check"}, i <= handler'[h].seen
        PROVE  i \in Rows /\ handler'[h] = handler[h]
    BY <1>1, <1>3, <2>2 DEF IInv, Types, Handler
  <2>3. ASSUME NEW i \in Rows', i <= handled' PROVE i \in Rows
    BY <1>1, <1>3, <2>3 DEF IInv, Types
  <2> QED
    BY <2>1, <2>2, <2>3 DEF IInv, Stopping
<1> QED
  BY <1>4, <1>5, <1>6, <1>7, <1>8, <1>9 DEF IInv

-----------------------------------------------------------------------------
(* The steps *)

CustomerSteps(s) ==
    CartChanges(s) \/ CheckoutChanges(s) \/ Rests(s) \/ Browses(s) \/ Buys(s) \/ PurchaseTracked(s)

\* The cart and its mark stay, or the cart is emptied, or it is one that was never there.
Shopped(s, row) ==
    /\ row.cart <= row.used /\ session[s].used <= row.used
    /\ \/ row.cart = session[s].cart /\ row.notified = session[s].notified
       \/ row.cart = NoCart \/ row.cart > session[s].used

LEMMA RefilledShops ==
    ASSUME IInv, NEW s \in Sessions, session[s].used < MaxCarts,
           NEW row \in {session[s], Unmarked(s)}
    PROVE  Refilled(s, row) \in Session /\ Shopped(s, Refilled(s, row))
<1> DEFINE n == session[s].used + 1
           new == [row EXCEPT !.cart = n, !.used = n, !.idle = FALSE]
<1>1. session[s] \in Session /\ session[s].used \in Nat /\ MaxCarts \in Nat
  BY ConstantsAssumption DEF IInv, Types, Session
<1>2. row \in Session
  BY <1>1 DEF Unmarked, Session
<1>3. n \in 0..MaxCarts /\ session[s].used < n /\ n <= n
  BY <1>1
<1> HIDE DEF n
<1>4. new \in Session /\ new.cart = n /\ new.used = n
  BY <1>2, <1>3 DEF Session
<1>5. Refilled(s, row) = new
  BY Zenon DEF Refilled, n
<1> HIDE DEF new
<1> QED
  BY <1>1, <1>3, <1>4, <1>5 DEF Shopped

LEMMA EmptiedShops ==
    ASSUME IInv, NEW s \in Sessions
    PROVE  Emptied(s) \in Session /\ Shopped(s, Emptied(s))
<1>1. session[s] \in Session /\ session[s].used \in Nat /\ MaxCarts \in Nat /\ NoCart \in 0..MaxCarts
  BY ConstantsAssumption DEF IInv, Types, Session, NoCart
<1> DEFINE new == [session[s] EXCEPT !.cart = NoCart, !.idle = FALSE, !.notified = FALSE]
<1>2. new \in Session /\ new.cart = NoCart /\ new.used = session[s].used
  BY <1>1 DEF Session
<1>3. Emptied(s) = new
  BY Zenon DEF Emptied
<1> HIDE DEF new
<1> QED
  BY <1>1, <1>2, <1>3 DEF Shopped, NoCart

\* What the customer does to a session.
LEMMA CustomerShops ==
    ASSUME IInv, NEW s \in Sessions, CustomerSteps(s)
    PROVE  /\ UNCHANGED <<enrollments, scan, handler, handled, lost>>
           /\ \/ session' = session
              \/ \E row \in Session : Shopped(s, row) /\ session' = [session EXCEPT ![s] = row]
<1> USE DEF TrackerSets
<1>1. session[s] \in Session /\ session[s].cart <= session[s].used /\ session[s].used \in Nat
  BY ConstantsAssumption DEF IInv, Types, Session
<1>2. UNCHANGED <<enrollments, scan, handler, handled, lost>>
  BY Zenon DEF CustomerSteps, CartChanges, CheckoutChanges, Rests, Browses, Buys, PurchaseTracked
<1>3. CASE CartChanges(s)
  BY <1>3, RefilledShops, EmptiedShops, Zenon DEF CartChanges
<1>4. CASE CheckoutChanges(s)
  BY <1>4, RefilledShops, Zenon DEF CheckoutChanges
<1>5. CASE Rests(s) \/ Browses(s)
  <2>1. PICK b \in BOOLEAN : session' = [session EXCEPT ![s] = [session[s] EXCEPT !.idle = b]]
    BY <1>5, Zenon DEF Rests, Browses
  <2> DEFINE row == [session[s] EXCEPT !.idle = b]
  <2>2. /\ row \in Session /\ row.used = session[s].used
        /\ row.cart = session[s].cart /\ row.notified = session[s].notified
    BY <1>1 DEF Session
  <2>3. session' = [session EXCEPT ![s] = row]
    BY <2>1
  <2> HIDE DEF row
  <2>4. Shopped(s, row)
    BY <1>1, <2>2 DEF Shopped
  <2> QED
    BY <1>2, <2>2, <2>3, <2>4
<1>6. CASE Buys(s)
  BY <1>2, <1>6 DEF Buys
<1>7. CASE PurchaseTracked(s)
  BY <1>2, <1>7, EmptiedShops, Zenon DEF PurchaseTracked
<1> QED
  BY <1>2, <1>3, <1>4, <1>5, <1>6, <1>7 DEF CustomerSteps

LEMMA CustomerKeeps == ASSUME IInv, NEW s \in Sessions, CustomerSteps(s) PROVE IInv'
<1>1. UNCHANGED <<enrollments, scan, handler, handled>>
  BY CustomerShops
<1>2. ASSUME NEW row \in Session, Shopped(s, row), session' = [session EXCEPT ![s] = row] PROVE IInv'
  <2>1. \A q \in Sessions : session'[q] = IF q = s THEN row ELSE session[q]
    BY <1>2 DEF IInv, Types
  <2>2. session' \in [Sessions -> Session]
    BY <1>2 DEF IInv, Types
  <2>3. \A q \in Sessions : session'[q].cart <= session'[q].used
    BY <1>2, <2>1 DEF IInv, Types, Shopped
  <2> QED
    BY <1>1, <2>2, <2>3, CustomerMoves
<1>3. CASE session' = session
  BY <1>1, <1>3, CustomerMoves DEF IInv, Types
<1> QED
  BY <1>2, <1>3, CustomerShops

LEMMA ScanType ==
    ASSUME IInv, NEW c \in Scanners
    PROVE  /\ scan[c] \in Scan /\ scan[c].pc \in {"idle", "next", "insert"} /\ scan[c].seen \in Nat
           /\ scan[c].todo \subseteq Sessions \X (1..MaxCarts) /\ scan[c].done \subseteq Carts
           /\ NoScan \in Scan /\ NoScan.pc = "idle"
           /\ Len(enrollments) \in Nat
<1>1. Len(enrollments) \in Nat
  BY DEF IInv, Types
<1>2. NoScan \in Scan /\ NoScan.pc = "idle"
  BY DEF NoScan, Scan
<1> QED
  BY <1>1, <1>2 DEF IInv, Types, Scan

LEMMA ScanReadsKeeps == ASSUME IInv, NEW c \in Scanners, ScanReads(c) PROVE IInv'
<1>1. PICK batch \in SUBSET Abandoned :
          scan' = [scan EXCEPT ![c] = [NoScan EXCEPT !.pc = "next",
                                           !.todo = {<<s, session[s].cart>> : s \in batch}]]
  BY DEF ScanReads, ScanGoes
<1> DEFINE todo == {<<s, session[s].cart>> : s \in batch}
           local == [NoScan EXCEPT !.pc = "next", !.todo = todo]
<1>2. \A s \in batch : s \in Sessions /\ session[s].cart \in 1..MaxCarts
  BY ConstantsAssumption DEF Abandoned, NoCart, IInv, Types, Session
<1>3. todo \subseteq Sessions \X (1..MaxCarts)
  BY <1>2
<1>4. scan' = [scan EXCEPT ![c] = local]
  BY <1>1
<1> HIDE DEF todo
<1>5. local \in Scan /\ local.pc = "next"
  BY <1>3 DEF NoScan, Scan
<1> HIDE DEF local
<1> QED
  BY <1>4, <1>5, ScanMoves DEF ScanReads, IInv, Types

LEMMA ScanChecksKeeps == ASSUME IInv, NEW c \in Scanners, ScanChecks(c) PROVE IInv'
<1> DEFINE Rest(cart) == [scan[c] EXCEPT !.todo = scan[c].todo \ {cart}]
           Next1(cart) == [Rest(cart) EXCEPT !.pc = "insert", !.cart = cart, !.seen = Looked(<<"cart", cart[1]>>)]
<1>0. scan[c] \in Scan /\ scan[c].pc = "next" /\ Len(enrollments) \in Nat
  BY ScanType DEF ScanChecks
<1>1. PICK cart \in scan[c].todo :
          \/ scan' = [scan EXCEPT ![c] = Rest(cart)]
          \/ /\ scan' = [scan EXCEPT ![c] = Next1(cart)]
             /\ cart[1] \notin Unserved /\ Unlocked(<<"cart", cart[1]>>) /\ ~Refused(<<"cart", cart[1]>>)
  BY Zenon DEF ScanChecks, ScanGoes
<1>2. cart \in Sessions \X (1..MaxCarts)
  BY <1>0 DEF Scan
<1>3. Rest(cart) \in Scan /\ Rest(cart).pc = "next"
  BY <1>0 DEF Scan
<1>4. UNCHANGED <<enrollments, handler, handled, session>>
  BY DEF ScanChecks
<1>5. CASE scan' = [scan EXCEPT ![c] = Rest(cart)]
  <2> HIDE DEF Rest
  <2> QED
    BY <1>3, <1>4, <1>5, ScanMoves DEF IInv, Types
<1>6. CASE /\ scan' = [scan EXCEPT ![c] = Next1(cart)]
           /\ cart[1] \notin Unserved /\ Unlocked(<<"cart", cart[1]>>) /\ ~Refused(<<"cart", cart[1]>>)
  <2> DEFINE key == <<"cart", cart[1]>>
             looked == Looked(key)
             local == [Rest(cart) EXCEPT !.pc = "insert", !.cart = cart, !.seen = looked]
  <2>1. looked \in Nat /\ looked <= Len(enrollments)
    BY <1>0 DEF Looked
  <2>2. cart \in Carts
    BY <1>2, <1>6 DEF Carts, Served
  <2>3. local \in Scan /\ local.pc = "insert" /\ local.cart = cart /\ local.seen = looked
    <3> HIDE DEF looked, Rest
    <3> QED
      BY <1>3, <2>1, <2>2 DEF Scan
  <2>4. \A d \in Scanners : d # c /\ scan[d].pc = "insert" => scan[d].cart[1] # cart[1]
    BY <1>6 DEF Unlocked, Locked
  <2>5. ASSUME "cart" \in Capped, NEW i \in Rows PROVE enrollments[i].key[1] # "cart"
    <3>1. ~Caps(key) /\ key[1] = "cart"
      BY <1>6 DEF Refused
    <3>2. i \in DOMAIN enrollments
      BY DEF IInv, Types, Rows
    <3> QED
      BY <2>5, <3>1, <3>2 DEF Caps
  <2>6. scan' = [scan EXCEPT ![c] = local]
    BY <1>6
  <2> HIDE DEF local, looked, key
  <2>7. MayInsertCart(c, local)
    BY <2>1, <2>2, <2>3, <2>4, <2>5 DEF MayInsertCart
  <2> QED
    BY <1>4, <2>3, <2>6, <2>7, ScanMoves DEF IInv, Types
<1> QED
  BY <1>1, <1>5, <1>6

LEMMA ScanMarksKeeps == ASSUME IInv, NEW c \in Scanners, ScanMarks(c) PROVE IInv'
<1>1. ASSUME NEW s \in Sessions
      PROVE  /\ session'[s] \in Session
             /\ session'[s].cart = session[s].cart /\ session'[s].used = session[s].used
  <2>1. session[s] \in Session
    BY DEF IInv, Types
  <2>2. session'[s] = [session[s] EXCEPT !.notified = TRUE] \/ session'[s] = session[s]
    BY DEF ScanMarks
  <2> QED
    BY <2>1, <2>2 DEF Session
<1>2. session' \in [Sessions -> Session]
  BY <1>1 DEF ScanMarks
<1>3. \A s \in Sessions : session'[s].cart <= session'[s].used
  BY <1>1 DEF IInv, Types
<1>4. scan' = [scan EXCEPT ![c] = NoScan] /\ UNCHANGED <<enrollments, handler, handled>>
  BY DEF ScanMarks, ScanGoes
<1> QED
  BY <1>2, <1>3, <1>4, ScanType, ScanMoves

LEMMA ScanFailsKeeps == ASSUME IInv, NEW c \in Scanners, ScanFails(c) PROVE IInv'
<1>1. scan' = [scan EXCEPT ![c] = NoScan] /\ UNCHANGED <<session, enrollments, handler, handled>>
  BY DEF ScanFails, ScanGoes
<1> QED
  BY <1>1, ScanType, ScanMoves DEF IInv, Types

LEMMA ScanInsertsKeeps == ASSUME IInv, NEW c \in Scanners, ScanInserts(c) PROVE IInv'
<1> DEFINE cart == scan[c].cart
           key == <<"cart", cart[1]>>
           e == [key |-> key, cart |-> cart, seen |-> scan[c].seen, status |-> "ACTIVE"]
           local == [NoScan EXCEPT !.pc = "next", !.todo = scan[c].todo, !.done = scan[c].done \cup {cart}]
<1>1. /\ scan[c].pc = "insert" /\ cart \in Carts /\ scan[c].seen <= Len(enrollments)
      /\ cart[1] \in Served
  BY DEF ScanInserts, IInv, Types, Carts
<1>2. /\ enrollments' = Append(enrollments, e) /\ scan' = [scan EXCEPT ![c] = local]
      /\ UNCHANGED <<session, handler, handled>>
  BY DEF ScanInserts, Enrolls, ScanGoes
<1>3. e \in Enrollment /\ e.key = key /\ e.seen = scan[c].seen
  <2>1. key \in Keys
    BY <1>1 DEF Keys
  <2> HIDE DEF key
  <2> QED
    BY <1>1, <2>1, ScanType DEF Enrollment, Statuses
<1>4. local \in Scan /\ local.pc = "next"
  <2>1. scan[c].todo \in SUBSET (Sessions \X (1..MaxCarts)) /\ scan[c].done \cup {cart} \in SUBSET Carts
    BY <1>1, ScanType
  <2> DEFINE done == scan[c].done \cup {cart}
  <2> HIDE DEF done
  <2>2. [NoScan EXCEPT !.pc = "next", !.todo = scan[c].todo, !.done = done] \in Scan
    BY <2>1 DEF NoScan, Scan, done
  <2>3. [NoScan EXCEPT !.pc = "next", !.todo = scan[c].todo, !.done = done].pc = "next"
    BY DEF NoScan
  <2> QED
    BY <2>2, <2>3 DEF done
<1>5. key[1] = "cart" /\ key = <<"cart", cart[1]>>
  OBVIOUS
<1>6. \A i \in Rows : enrollments[i].key # key \/ (key[1] = "cart" /\ "cart" \notin Capped)
  BY <1>1, <1>5 DEF IInv, Fresh
<1>7. key[1] \in Capped => \A q \in Rows : q <= scan[c].seen => enrollments[q].key[1] # key[1]
  BY <1>1, <1>5 DEF IInv, CapLooked
<1>8. \A d \in Scanners : scan'[d].pc = "insert" => scan'[d] = scan[d] /\ d # c
  BY <1>2, <1>4 DEF IInv, Types
<1>9. \A d \in Scanners : scan'[d].pc = "insert" =>
          scan'[d] = scan[d] /\ ("cart" \in Capped => key # <<"cart", scan[d].cart[1]>>)
  BY <1>1, <1>5, <1>8 DEF IInv, Alone
<1>10. \A h \in Handlers : handler'[h].pc # "idle" =>
          handler'[h] = handler[h] /\ (handler[h].pc = "insert" => key # <<"order", handler[h].order>>)
  BY <1>2, <1>5
<1>11. scan' \in [Scanners -> Scan] /\ handler' \in [Handlers -> Handler]
  BY <1>2, <1>4 DEF IInv, Types
<1> HIDE DEF e, key, cart, local
<1> QED
  BY <1>1, <1>2, <1>3, <1>6, <1>7, <1>9, <1>10, <1>11, RowAdded

-----------------------------------------------------------------------------
LEMMA HandlerType ==
    ASSUME IInv, NEW h \in Handlers
    PROVE  /\ handler[h] \in Handler /\ NoHandler \in Handler /\ NoHandler.pc = "idle"
           /\ Len(enrollments) \in Nat /\ DOMAIN enrollments = Rows
           /\ handler[h].seen \in Nat /\ handled \in 0..Len(enrollments)
           /\ \A i \in Rows : i <= handled => ~Following(i)
<1>1. NoHandler \in Handler /\ NoHandler.pc = "idle"
  BY DEF NoHandler, Handler
<1>2. handler[h] \in Handler /\ handled \in 0..Len(enrollments) /\ enrollments \in Seq(Enrollment)
  BY DEF IInv, Types
<1>3. Len(enrollments) \in Nat /\ DOMAIN enrollments = Rows
  BY <1>2 DEF Rows
<1> QED
  BY <1>1, <1>2, <1>3 DEF Handler, IInv, Stopping

LEMMA OrderPaidKeeps == ASSUME IInv, NEW o \in Orders, OrderPaid(o) PROVE IInv'
<1> DEFINE local == [NoHandler EXCEPT !.pc = "read", !.order = o]
<1>1. PICK h \in Handlers : handler' = [handler EXCEPT ![h] = local]
  BY DEF OrderPaid, HandlerGoes
<1>2. local \in Handler /\ local.pc = "read" /\ local.order = o
  BY DEF NoHandler, Handler
<1>3. UNCHANGED <<enrollments, scan, session, handled>>
  BY DEF OrderPaid
<1> HIDE DEF local
<1> QED
  BY <1>1, <1>2, <1>3, HandlerMoves, HandlerType

LEMMA HandlerReadsKeeps == ASSUME IInv, NEW h \in Handlers, HandlerReads(h) PROVE IInv'
<1> DEFINE found == Cancellable(handler[h].order)
           n == Len(enrollments)
           pc == IF found = {} THEN "check" ELSE "cancel"
           local == [handler[h] EXCEPT !.pc = pc, !.found = found, !.seen = n]
<1>1. /\ handler[h].pc = "read" /\ handler' = [handler EXCEPT ![h] = local]
      /\ UNCHANGED <<enrollments, scan, session, handled>>
  BY DEF HandlerReads, HandlerGoes
<1>2. found = {i \in Rows : Following(i)} /\ handler[h].order \in Orders
  BY <1>1, HandlerType DEF Cancellable, Following, IInv, Types
<1>3. found \subseteq Nat /\ pc \in {"check", "cancel"} /\ (pc = "check" => found = {})
  BY <1>2, HandlerType DEF Rows
<1> HIDE DEF pc, found
<1>4. /\ local \in Handler /\ local.pc = pc /\ local.order = handler[h].order
      /\ local.found = found /\ local.seen = n
  BY <1>3, HandlerType DEF Handler
<1> HIDE DEF local
<1>5. n <= n
  BY HandlerType
<1>6. \A i \in Rows : Following(i) => i \in found
  BY <1>2
<1>7. local.pc = "check" => \A i \in Rows : ~Following(i)
  BY <1>2, <1>3, <1>4
<1> QED
  BY <1>1, <1>2, <1>3, <1>4, <1>5, <1>6, <1>7, HandlerMoves, HandlerType

LEMMA HandlerChecksKeeps == ASSUME IInv, NEW h \in Handlers, HandlerChecks(h) PROVE IInv'
<1> DEFINE o == handler[h].order
           key == <<"order", o>>
           looked == Looked(key)
           into == [handler[h] EXCEPT !.pc = "insert", !.seen = looked]
<1>1. /\ handler[h].pc = "check" /\ o \in Orders /\ handler[h].seen <= Len(enrollments)
      /\ UNCHANGED <<enrollments, scan, session>> /\ Unlocked(key)
  BY DEF HandlerChecks, IInv, Types
<1>2. handled' \in 0..Len(enrollments) /\ \A i \in Rows : i <= handled' => ~Following(i)
  <2>1. handled' = handler[h].seen \/ handled' = handled
    BY DEF HandlerChecks
  <2>2. \A i \in Rows : i <= handler[h].seen => ~Following(i)
    BY <1>1 DEF IInv, Stopping
  <2> QED
    BY <1>1, <2>1, <2>2, HandlerType
<1>3. \/ handler' = [handler EXCEPT ![h] = NoHandler]
      \/ handler' = [handler EXCEPT ![h] = into] /\ ~Refused(key)
  BY DEF HandlerChecks, HandlerGoes
<1>4. CASE handler' = [handler EXCEPT ![h] = NoHandler]
  BY <1>1, <1>2, <1>4, HandlerMoves, HandlerType
<1>5. CASE handler' = [handler EXCEPT ![h] = into] /\ ~Refused(key)
  <2>1. looked \in Nat /\ looked <= Len(enrollments)
    BY HandlerType DEF Looked
  <2>2. into \in Handler /\ into.pc = "insert" /\ into.order = o /\ into.seen = looked
    <3> HIDE DEF looked
    <3> QED
      BY <2>1, HandlerType DEF Handler
  <2>3. \A k \in Handlers : k # h /\ handler[k].pc = "insert" => handler[k].order # o
    BY <1>1 DEF Unlocked, Locked
  <2>4. key[1] = "order" /\ ~Caps(key) /\ ~Duplicates(key)
    BY <1>5 DEF Refused
  <2>5. \A i \in Rows : enrollments[i].key # <<"order", o>>
    BY <2>4, HandlerType DEF Duplicates
  <2>6. "order" \in Capped => \A i \in Rows : enrollments[i].key[1] # "order"
    BY <2>4, HandlerType DEF Caps
  <2> HIDE DEF into, looked
  <2>7. MayInsertOrder(h, into)
    BY <2>2, <2>3, <2>5, <2>6 DEF MayInsertOrder
  <2> QED
    BY <1>1, <1>2, <1>5, <2>1, <2>2, <2>7, HandlerMoves
<1> QED
  BY <1>3, <1>4, <1>5

LEMMA HandlerInsertsKeeps == ASSUME IInv, NEW h \in Handlers, HandlerInserts(h) PROVE IInv'
<1> DEFINE o == handler[h].order
           key == <<"order", o>>
           e == [key |-> key, cart |-> <<>>, seen |-> handler[h].seen, status |-> "ACTIVE"]
<1>1. /\ handler[h].pc = "insert" /\ o \in Orders /\ handler[h].seen <= Len(enrollments)
      /\ enrollments' = Append(enrollments, e) /\ handler' = [handler EXCEPT ![h] = NoHandler]
      /\ UNCHANGED <<session, scan, handled>>
  BY DEF HandlerInserts, Enrolls, HandlerGoes, IInv, Types
<1>2. e \in Enrollment /\ e.key = key /\ e.seen = handler[h].seen
  <2>1. key \in Keys
    BY <1>1 DEF Keys
  <2> HIDE DEF key
  <2> QED
    BY <2>1, HandlerType DEF Enrollment, Statuses
<1>3. key[1] = "order"
  OBVIOUS
<1>4. \A i \in Rows : enrollments[i].key # key
  BY <1>1 DEF IInv, Fresh
<1>5. key[1] \in Capped => \A q \in Rows : q <= handler[h].seen => enrollments[q].key[1] # key[1]
  BY <1>1, <1>3 DEF IInv, CapLooked
<1>6. \A c \in Scanners : scan'[c].pc = "insert" =>
          scan'[c] = scan[c] /\ ("cart" \in Capped => key # <<"cart", scan[c].cart[1]>>)
  BY <1>1, <1>3
<1>7. \A k \in Handlers : handler'[k].pc # "idle" => handler'[k] = handler[k] /\ k # h
  BY <1>1, HandlerType DEF IInv, Types
<1>8. \A k \in Handlers : handler'[k].pc # "idle" =>
          handler'[k] = handler[k] /\ (handler[k].pc = "insert" => key # <<"order", handler[k].order>>)
  BY <1>1, <1>7 DEF IInv, Alone
<1>9. scan' \in [Scanners -> Scan] /\ handler' \in [Handlers -> Handler]
  BY <1>1, HandlerType DEF IInv, Types
<1> HIDE DEF e, key, o
<1> QED
  BY <1>1, <1>2, <1>4, <1>5, <1>6, <1>8, <1>9, RowAdded

\* A sequence of rows some of which get another status.
LEMMA StatusesType ==
    ASSUME IInv, NEW S, NEW t \in Statuses, t # "ACTIVE",
           enrollments' = [i \in DOMAIN enrollments |->
               IF i \in S THEN [enrollments[i] EXCEPT !.status = t] ELSE enrollments[i]]
    PROVE  RowsKept /\ \A i \in S \cap Rows : enrollments'[i].status # "ACTIVE"
<1>1. enrollments \in Seq(Enrollment) /\ DOMAIN enrollments = Rows /\ Len(enrollments) \in Nat
  BY DEF IInv, Types, Rows
<1>2. ASSUME NEW i \in Rows
      PROVE  /\ enrollments'[i] \in Enrollment
             /\ enrollments'[i].key = enrollments[i].key /\ enrollments'[i].seen = enrollments[i].seen
             /\ enrollments'[i].status = IF i \in S THEN t ELSE enrollments[i].status
  <2>1. enrollments[i] \in Enrollment
    BY <1>1 DEF Rows
  <2> QED
    BY <1>1, <2>1 DEF Enrollment
<1>3. enrollments' \in [Rows -> Enrollment]
  BY <1>1, <1>2
<1>4. enrollments' \in Seq(Enrollment) /\ Len(enrollments') = Len(enrollments)
  BY <1>1, <1>3 DEF Rows
<1>5. \A i \in Rows : enrollments'[i].status = "ACTIVE" => enrollments[i].status = "ACTIVE"
  BY <1>2
<1>6. \A i \in S \cap Rows : enrollments'[i].status # "ACTIVE"
  BY <1>2
<1> QED
  BY <1>2, <1>4, <1>5, <1>6 DEF RowsKept

LEMMA HandlerCancelsKeeps == ASSUME IInv, NEW h \in Handlers, HandlerCancels(h) PROVE IInv'
<1> DEFINE local == [handler[h] EXCEPT !.pc = "check", !.found = {}]
<1>1. /\ handler[h].pc = "cancel" /\ handler' = [handler EXCEPT ![h] = local]
      /\ UNCHANGED <<scan, session, handled>>
  BY DEF HandlerCancels, HandlerGoes
<1>2. RowsKept /\ \A i \in handler[h].found \cap Rows : enrollments'[i].status # "ACTIVE"
  <2>1. "CANCELLED" \in Statuses
    BY DEF Statuses
  <2> QED
    BY <2>1, StatusesType DEF HandlerCancels
<1>3. /\ local \in Handler /\ local.pc = "check" /\ local.order = handler[h].order
      /\ local.seen = handler[h].seen
  BY HandlerType DEF Handler
<1> HIDE DEF local
<1>4. \A k \in Handlers : handler'[k] = IF k = h THEN local ELSE handler[k]
  BY <1>1 DEF IInv, Types
<1>5. handler' \in [Handlers -> Handler]
  BY <1>1, <1>3 DEF IInv, Types
<1> QED
  BY <1>1, <1>2, <1>3, <1>4, <1>5, StatusesChange

LEMMA CompletesKeeps == ASSUME IInv, NEW i \in DOMAIN enrollments, Completes(i) PROVE IInv'
<1>1. enrollments' = [q \in DOMAIN enrollments |->
          IF q \in {i} THEN [enrollments[q] EXCEPT !.status = "COMPLETED"] ELSE enrollments[q]]
  BY DEF Completes, IInv, Types
<1>2. "COMPLETED" \in Statuses
  BY DEF Statuses
<1>3. RowsKept
  BY <1>1, <1>2, StatusesType
<1>4. UNCHANGED <<scan, session, handled, handler>>
  BY DEF Completes
<1> QED
  BY <1>3, <1>4, StatusesChange DEF IInv, Types

-----------------------------------------------------------------------------
LEMMA Initially == Init => IInv
<1> SUFFICES ASSUME Init PROVE IInv
  OBVIOUS
<1>1. NoScan \in Scan /\ NoHandler \in Handler
  BY DEF NoScan, NoHandler, Scan, Handler
<1>2. Len(enrollments) = 0 /\ Rows = {}
  BY DEF Init, Rows
<1>3. Types
  <2>1. [cart |-> NoCart, used |-> 0, idle |-> FALSE, notified |-> FALSE] \in Session
    BY ConstantsAssumption DEF Session, NoCart
  <2>2. \A s \in Sessions : session[s].cart <= session[s].used /\ session[s] \in Session
    BY <2>1 DEF Init, NoCart
  <2> QED
    BY <1>1, <1>2, <2>1, <2>2 DEF Init, Types, NoScan, NoHandler
<1>4. Alone /\ Fresh /\ CapLooked /\ Distinct /\ Stopping
  BY <1>2 DEF Init, Alone, Fresh, CapLooked, Distinct, Stopping, NoScan, NoHandler
<1> QED
  BY <1>3, <1>4 DEF IInv

\* Every step keeps the invariant.
LEMMA NextKeeps == ASSUME IInv, [Next]_vars PROVE IInv'
<1>1. CASE \E s \in Sessions : CustomerSteps(s)
  BY <1>1, CustomerKeeps
<1>2. CASE \E c \in Scanners : ScanSteps(c) \/ ScanFails(c)
  BY <1>2, ScanReadsKeeps, ScanChecksKeeps, ScanInsertsKeeps, ScanMarksKeeps, ScanFailsKeeps DEF ScanSteps
<1>3. CASE \E o \in Orders : OrderPaid(o)
  BY <1>3, OrderPaidKeeps
<1>4. CASE \E h \in Handlers : HandlerSteps(h)
  BY <1>4, HandlerReadsKeeps, HandlerCancelsKeeps, HandlerChecksKeeps, HandlerInsertsKeeps DEF HandlerSteps
<1>5. CASE \E i \in DOMAIN enrollments : Completes(i)
  BY <1>5, CompletesKeeps
<1>6. CASE UNCHANGED vars
  <2>1. UNCHANGED <<session, enrollments, scan, handler, handled>>
    BY <1>6 DEF vars
  <2> QED
    BY <2>1, CustomerMoves DEF IInv, Types
<1> QED
  BY <1>1, <1>2, <1>3, <1>4, <1>5, <1>6 DEF Next, CustomerSteps

LEMMA Invariance == Spec => []IInv
BY Initially, NextKeeps, PTL DEF Spec

LEMMA Row ==
    ASSUME IInv
    PROVE  /\ DOMAIN enrollments = Rows /\ Rows \subseteq Nat
           /\ \A i \in Rows : enrollments[i] \in Enrollment /\ enrollments[i].seen < i
           /\ \A p \in Pairs : p[1] \in Rows /\ p[2] \in Rows /\ p[1] < p[2]
<1>1. enrollments \in Seq(Enrollment) /\ DOMAIN enrollments = Rows /\ Rows \subseteq Nat
  BY DEF IInv, Types, Rows
<1>2. \A i \in Rows : enrollments[i] \in Enrollment /\ enrollments[i].seen < i
  BY <1>1 DEF IInv, Types, Rows
<1> QED
  BY <1>1, <1>2 DEF Pairs

\* Every variable keeps its type, and no enrollment saw itself or a later one.
THEOREM TypeCorrect == Spec => []TypeOK
<1>1. ASSUME IInv PROVE TypeOK
  <2>1. \A s \in Sessions :
            /\ session[s].cart \in 0..session[s].used /\ session[s].used \in 0..MaxCarts
            /\ session[s].idle \in BOOLEAN /\ session[s].notified \in BOOLEAN
    BY <1>1 DEF IInv, Types, Session
  <2>2. \A i \in DOMAIN enrollments :
            /\ enrollments[i].key \in Keys /\ enrollments[i].cart \in {<<>>} \cup Carts
            /\ enrollments[i].status \in Statuses /\ enrollments[i].seen < i
    BY <1>1, Row DEF Enrollment
  <2>3. handled \in 0..Len(enrollments)
    BY <1>1 DEF IInv, Types
  <2> QED
    BY <2>1, <2>2, <2>3 DEF TypeOK, Keys, Carts, Served, Statuses
<1> QED
  BY Invariance, <1>1, PTL

\* An order enters its automation once, however many of its events are handled and
\* although two of them may be handled at the same time (createEnrollment).
THEOREM EnrolledOnce == Spec => []OrderOnce
<1>1. ASSUME IInv, NEW p \in Pairs, enrollments[p[1]].key[1] = "order"
      PROVE  enrollments[p[1]].key # enrollments[p[2]].key
  BY <1>1, Row DEF IInv, Distinct
<1>2. IInv => OrderOnce
  BY <1>1 DEF OrderOnce
<1> QED
  BY Invariance, <1>2, PTL

\* The frequency cap lets a second enrollment of an automation in only when both were
\* checked before either was committed, for two entities (createEnrollment).
THEOREM CapHolds == Spec => []CapRespected
<1>1. ASSUME IInv, NEW p \in Pairs, enrollments[p[1]].key[1] = enrollments[p[2]].key[1],
             enrollments[p[1]].key[1] \in Capped
      PROVE  enrollments[p[1]].key # enrollments[p[2]].key /\ enrollments[p[2]].seen < p[1]
  <2>1. p[1] \in Rows /\ p[2] \in Rows /\ p[1] # p[2] /\ p[1] \in Nat
    BY <1>1, Row
  <2>2. enrollments[p[1]].key # enrollments[p[2]].key
    BY <1>1, <2>1 DEF IInv, Distinct
  <2>3. ~(p[1] <= enrollments[p[2]].seen)
    BY <1>1, <2>1 DEF IInv, CapLooked
  <2>4. enrollments[p[2]].seen \in Nat
    BY <1>1, <2>1, Row DEF Enrollment
  <2> QED
    BY <2>1, <2>2, <2>3, <2>4
<1>2. IInv => CapRespected
  BY <1>1 DEF CapRespected
<1> QED
  BY Invariance, <1>2, PTL

\* Once an order event was handled, the customer is followed up for no cart whose
\* enrollment was committed when the event looked (processTrigger).
THEOREM FollowUpsStop == Spec => []PurchaseStops
<1>1. ASSUME IInv, NEW i \in 1..handled, enrollments[i].key[1] = "cart"
      PROVE  enrollments[i].status # "ACTIVE"
  <2>1. i \in Rows /\ i <= handled
    BY <1>1 DEF IInv, Types, Rows
  <2> QED
    BY <1>1, <2>1 DEF IInv, Stopping, Following
<1>2. IInv => PurchaseStops
  BY <1>1 DEF PurchaseStops
<1> QED
  BY Invariance, <1>2, PTL
-----------------------------------------------------------------------------
(* One follow-up of a cart, which needs one scan at a time: a second scan  *)
(* may hold a session that the first has marked meanwhile.                 *)

OneScan == \A c, d \in Scanners : c = d

\* What a scan has yet to enroll.
ToEnroll(k, c) == k \in scan[c].todo \/ (scan[c].pc = "insert" /\ scan[c].cart = k)

\* Only follow-ups have a cart.
CartRows == \A i \in Rows : IF enrollments[i].key[1] = "cart" THEN enrollments[i].cart \in Carts
                                                              ELSE enrollments[i].cart = <<>>

ScanShape == \A c \in Scanners :
    /\ scan[c].pc = "idle" => scan[c].todo = {} /\ scan[c].done = {}
    /\ scan[c].pc = "insert" => scan[c].cart \notin scan[c].todo

\* A scan holds carts the session has, or had, that are not followed up.
Unfollowed == \A c \in Scanners : \A k \in Sessions \X (1..MaxCarts) : ToEnroll(k, c) =>
    /\ k[2] <= session[k[1]].used
    /\ \A i \in Rows : enrollments[i].cart = k => k \in lost

\* A cart that is followed up is not found again: the scan is about to mark its
\* session, which is marked, or has another cart.
Covered == \A i \in Rows : enrollments[i].key[1] = "cart" =>
    LET k == enrollments[i].cart IN
    /\ k[2] <= session[k[1]].used
    /\ \/ k \in lost
       \/ \E c \in Scanners : k \in scan[c].done
       \/ session[k[1]].cart # k[2] \/ session[k[1]].notified

Once == \A i, q \in Rows :
    enrollments[i].key[1] = "cart" /\ enrollments[i].cart = enrollments[q].cart =>
        i = q \/ enrollments[i].cart \in lost

Followed == CartRows /\ ScanShape /\ Unfollowed /\ Covered /\ Once

LEMMA FollowedSame ==
    ASSUME IInv, Followed, UNCHANGED <<enrollments, scan, session, lost>>
    PROVE  Followed'
BY DEF Followed, CartRows, ScanShape, Unfollowed, Covered, Once, ToEnroll, Rows

\* The session gets another cart, or keeps its mark with the one it has.
LEMMA CustomerFollows ==
    ASSUME IInv, IInv', Followed, UNCHANGED <<enrollments, scan, lost>>,
           \A s \in Sessions :
               /\ session[s].used <= session'[s].used
               /\ \/ session'[s].cart = session[s].cart /\ (session[s].notified => session'[s].notified)
                  \/ session'[s].cart = NoCart
                  \/ session'[s].cart > session[s].used
    PROVE  Followed'
<1>1. CartRows' /\ ScanShape' /\ Once'
  BY DEF Followed, CartRows, ScanShape, Once, Rows
<1>2. \A s \in Sessions : /\ session[s].used \in Nat /\ session'[s].used \in Nat
                          /\ session[s].cart \in Nat /\ session'[s].cart \in Nat
  BY ConstantsAssumption DEF IInv, Types, Session
<1>3. Unfollowed'
  <2> SUFFICES ASSUME NEW c \in Scanners, NEW k \in Sessions \X (1..MaxCarts), ToEnroll(k, c)'
               PROVE  /\ k[2] <= session'[k[1]].used
                      /\ \A i \in Rows : enrollments[i].cart = k => k \in lost
    BY DEF Unfollowed, Rows
  <2>1. ToEnroll(k, c) /\ k[1] \in Sessions /\ k[2] \in Nat
    BY ConstantsAssumption DEF ToEnroll
  <2>2. k[2] <= session[k[1]].used /\ \A i \in Rows : enrollments[i].cart = k => k \in lost
    BY <2>1 DEF Followed, Unfollowed
  <2> QED
    BY <1>2, <2>1, <2>2
<1>4. Covered'
  <2> SUFFICES ASSUME NEW i \in Rows, enrollments[i].key[1] = "cart", NEW k, k = enrollments[i].cart
               PROVE  /\ k[2] <= session'[k[1]].used
                      /\ \/ k \in lost
                         \/ \E c \in Scanners : k \in scan[c].done
                         \/ session'[k[1]].cart # k[2] \/ session'[k[1]].notified
    BY DEF Covered, Rows
  <2>1. k[1] \in Sessions /\ k[2] \in Nat /\ 1 <= k[2]
    BY ConstantsAssumption DEF Followed, CartRows, Carts, Served
  <2>2. k[2] <= session[k[1]].used
    BY DEF Followed, Covered
  <2>3. \/ k \in lost \/ \E c \in Scanners : k \in scan[c].done
        \/ session[k[1]].cart # k[2] \/ session[k[1]].notified
    BY DEF Followed, Covered
  <2>4. \/ session'[k[1]].cart = session[k[1]].cart /\ (session[k[1]].notified => session'[k[1]].notified)
        \/ session'[k[1]].cart # k[2]
    BY <1>2, <2>1, <2>2 DEF NoCart
  <2>5. k[2] <= session'[k[1]].used
    BY <1>2, <2>1, <2>2
  <2> QED
    BY <2>3, <2>4, <2>5
<1> QED
  BY <1>1, <1>3, <1>4 DEF Followed

LEMMA CustomerStepsFollow ==
    ASSUME IInv, Followed, NEW s \in Sessions, CustomerSteps(s)
    PROVE  Followed'
<1>1. session \in [Sessions -> Session] /\ \A x \in Sessions : session[x].used \in Nat
  BY ConstantsAssumption DEF IInv, Types, Session
<1>2. IInv' /\ UNCHANGED <<enrollments, scan, lost>>
  BY CustomerKeeps, CustomerShops
<1>3. ASSUME NEW row \in Session, Shopped(s, row), session' = [session EXCEPT ![s] = row]
      PROVE  Followed'
  <2>1. ASSUME NEW x \in Sessions
        PROVE  /\ session[x].used <= session'[x].used
               /\ \/ session'[x].cart = session[x].cart /\ (session[x].notified => session'[x].notified)
                  \/ session'[x].cart = NoCart
                  \/ session'[x].cart > session[x].used
    <3>1. session'[x] = IF x = s THEN row ELSE session[x]
      BY <1>1, <1>3
    <3>2. CASE x = s
      BY <1>3, <3>1, <3>2 DEF Shopped
    <3>3. CASE x # s
      BY <1>1, <3>1, <3>3
    <3> QED
      BY <3>2, <3>3
  <2> QED
    BY <1>2, <2>1, CustomerFollows
<1>4. CASE session' = session
  BY <1>2, <1>4, FollowedSame
<1> QED
  BY <1>3, <1>4, CustomerShops

\* A scan takes up carts that are not followed up, and keeps what it has done.
LEMMA ScanFollows ==
    ASSUME IInv, Followed, NEW c \in Scanners, NEW local \in Scan, scan' = [scan EXCEPT ![c] = local],
           UNCHANGED <<enrollments, session, lost>>,
           local.done = scan[c].done, local.pc # "idle",
           local.pc = "insert" => local.cart \notin local.todo,
           \A k \in Sessions \X (1..MaxCarts) : k \in local.todo \/ (local.pc = "insert" /\ local.cart = k) =>
               \/ ToEnroll(k, c)
               \/ /\ k[2] <= session[k[1]].used
                  /\ \A i \in Rows : enrollments[i].cart = k => k \in lost
    PROVE  Followed'
<1>1. \A d \in Scanners : scan'[d] = IF d = c THEN local ELSE scan[d]
  BY DEF IInv, Types
<1>2. CartRows' /\ Once'
  BY DEF Followed, CartRows, Once, Rows
<1>3. ScanShape'
  BY <1>1 DEF Followed, ScanShape
<1>4. Unfollowed'
  <2> SUFFICES ASSUME NEW d \in Scanners, NEW k \in Sessions \X (1..MaxCarts), ToEnroll(k, d)'
               PROVE  /\ k[2] <= session[k[1]].used
                      /\ \A i \in Rows : enrollments[i].cart = k => k \in lost
    BY DEF Unfollowed, Rows
  <2>1. ToEnroll(k, d) \/ (/\ k[2] <= session[k[1]].used
                           /\ \A i \in Rows : enrollments[i].cart = k => k \in lost)
    BY <1>1 DEF ToEnroll
  <2> QED
    BY <2>1 DEF Followed, Unfollowed
<1>5. Covered'
  <2>1. \A d \in Scanners : scan'[d].done = scan[d].done
    BY <1>1
  <2> QED
    BY <2>1 DEF Followed, Covered, Rows
<1> QED
  BY <1>2, <1>3, <1>4, <1>5 DEF Followed

LEMMA ScanReadsFollows == ASSUME OneScan, IInv, Followed, NEW c \in Scanners, ScanReads(c) PROVE Followed'
<1>1. PICK batch \in SUBSET Abandoned :
          scan' = [scan EXCEPT ![c] = [NoScan EXCEPT !.pc = "next",
                                           !.todo = {<<s, session[s].cart>> : s \in batch}]]
  BY ZenonT(40) DEF ScanReads, ScanGoes
<1> DEFINE todo == {<<s, session[s].cart>> : s \in batch}
           local == [NoScan EXCEPT !.pc = "next", !.todo = todo]
<1>2. \A s \in batch : /\ s \in Sessions /\ session[s].cart \in 1..MaxCarts /\ ~session[s].notified
                       /\ session[s].cart <= session[s].used
  BY ConstantsAssumption DEF Abandoned, NoCart, IInv, Types, Session
<1>3. todo \subseteq Sessions \X (1..MaxCarts)
  BY <1>2
<1>4. scan' = [scan EXCEPT ![c] = local] /\ UNCHANGED <<enrollments, session, lost>>
  BY <1>1 DEF ScanReads
<1>5. scan[c].done = {} /\ \A d \in Scanners : d = c
  BY DEF ScanReads, Followed, ScanShape, OneScan
<1>6. ASSUME NEW k \in todo
      PROVE  /\ k[2] <= session[k[1]].used
             /\ \A i \in Rows : enrollments[i].cart = k => k \in lost
  <2>1. PICK s \in batch : k = <<s, session[s].cart>>
    BY <1>6
  <2>2. k[1] = s /\ k[2] = session[s].cart /\ k # <<>>
    BY <2>1
  <2>3. ASSUME NEW i \in Rows, enrollments[i].cart = k
        PROVE  k \in lost
    <3>1. enrollments[i].key[1] = "cart"
      BY <2>2, <2>3 DEF Followed, CartRows
    <3>2. \A d \in Scanners : k \notin scan[d].done
      BY <1>5
    <3>3. session[k[1]].cart = k[2] /\ ~session[k[1]].notified
      BY <1>2, <2>2
    <3> QED
      BY <2>3, <3>1, <3>2, <3>3 DEF Followed, Covered
  <2> QED
    BY <1>2, <2>2, <2>3
<1> HIDE DEF todo
<1>7. local \in Scan /\ local.pc = "next" /\ local.todo = todo /\ local.done = {}
  BY <1>3 DEF NoScan, Scan
<1> HIDE DEF local
<1> QED
  BY <1>4, <1>5, <1>6, <1>7, ScanFollows

LEMMA ScanChecksFollows == ASSUME IInv, Followed, NEW c \in Scanners, ScanChecks(c) PROVE Followed'
<1> DEFINE Rest(cart) == [scan[c] EXCEPT !.todo = scan[c].todo \ {cart}]
           Next1(cart) == [Rest(cart) EXCEPT !.pc = "insert", !.cart = cart, !.seen = Looked(<<"cart", cart[1]>>)]
<1>0. scan[c] \in Scan /\ scan[c].pc = "next" /\ Len(enrollments) \in Nat
  BY ScanType DEF ScanChecks
<1>1. PICK cart \in scan[c].todo :
          \/ scan' = [scan EXCEPT ![c] = Rest(cart)]
          \/ scan' = [scan EXCEPT ![c] = Next1(cart)] /\ cart[1] \notin Unserved
  BY Zenon DEF ScanChecks, ScanGoes
<1>2. cart \in Sessions \X (1..MaxCarts)
  BY <1>0 DEF Scan
<1>3. /\ Rest(cart) \in Scan /\ Rest(cart).pc = "next" /\ Rest(cart).done = scan[c].done
      /\ Rest(cart).todo = scan[c].todo \ {cart}
  BY <1>0 DEF Scan
<1>4. UNCHANGED <<enrollments, session, lost>>
  BY DEF ScanChecks
<1>5. CASE scan' = [scan EXCEPT ![c] = Rest(cart)]
  <2> HIDE DEF Rest
  <2> QED
    BY <1>3, <1>4, <1>5, ScanFollows DEF ToEnroll
<1>6. CASE scan' = [scan EXCEPT ![c] = Next1(cart)] /\ cart[1] \notin Unserved
  <2> DEFINE looked == Looked(<<"cart", cart[1]>>)
             local == [Rest(cart) EXCEPT !.pc = "insert", !.cart = cart, !.seen = looked]
  <2>1. looked \in Nat
    BY <1>0 DEF Looked
  <2>2. cart \in Carts
    BY <1>2, <1>6 DEF Carts, Served
  <2>3. /\ local \in Scan /\ local.pc = "insert" /\ local.cart = cart
        /\ local.done = scan[c].done /\ local.todo = scan[c].todo \ {cart}
    <3> HIDE DEF looked, Rest
    <3> QED
      BY <1>3, <2>1, <2>2 DEF Scan
  <2>4. scan' = [scan EXCEPT ![c] = local]
    BY <1>6
  <2> HIDE DEF local, looked
  <2> QED
    BY <1>1, <1>4, <2>3, <2>4, ScanFollows DEF ToEnroll
<1> QED
  BY <1>1, <1>5, <1>6

\* The scan is over.  What it enrolled is marked, or lost.
LEMMA ScanEndsFollow ==
    ASSUME OneScan, IInv, Followed, NEW c \in Scanners, scan' = [scan EXCEPT ![c] = NoScan],
           UNCHANGED enrollments, lost \subseteq lost',
           \A s \in Sessions : /\ session'[s].cart = session[s].cart /\ session'[s].used = session[s].used
                               /\ session[s].notified => session'[s].notified,
           \A k \in scan[c].done : k \in lost' \/ session'[k[1]].notified
    PROVE  Followed'
<1>1. \A d \in Scanners : scan'[d] = NoScan /\ d = c
  BY DEF IInv, Types, OneScan
<1>2. CartRows'
  BY DEF Followed, CartRows, Rows
<1>3. Once'
  BY DEF Followed, Once, Rows
<1>4. ScanShape' /\ Unfollowed'
  BY <1>1 DEF ScanShape, Unfollowed, ToEnroll, NoScan
<1>5. Covered'
  <2> SUFFICES ASSUME NEW i \in Rows, enrollments[i].key[1] = "cart", NEW k, k = enrollments[i].cart
               PROVE  /\ k[2] <= session'[k[1]].used
                      /\ k \in lost' \/ session'[k[1]].cart # k[2] \/ session'[k[1]].notified
    BY DEF Covered, Rows
  <2>1. k[1] \in Sessions
    BY DEF Followed, CartRows, Carts, Served
  <2>2. /\ k[2] <= session[k[1]].used
        /\ \/ k \in lost \/ k \in scan[c].done
           \/ session[k[1]].cart # k[2] \/ session[k[1]].notified
    BY <1>1 DEF Followed, Covered
  <2> QED
    BY <2>1, <2>2
<1> QED
  BY <1>2, <1>3, <1>4, <1>5 DEF Followed

LEMMA ScanMarksFollows == ASSUME OneScan, IInv, Followed, NEW c \in Scanners, ScanMarks(c) PROVE Followed'
<1>1. ASSUME NEW s \in Sessions
      PROVE  /\ session'[s].cart = session[s].cart /\ session'[s].used = session[s].used
             /\ session[s].notified => session'[s].notified
             /\ s \in Marked(c) => session'[s].notified
  <2>1. session[s] \in Session
    BY DEF IInv, Types
  <2>2. session'[s] = IF s \in Marked(c) THEN [session[s] EXCEPT !.notified = TRUE] ELSE session[s]
    BY DEF ScanMarks
  <2> QED
    BY <2>1, <2>2 DEF Session
<1>2. \A k \in scan[c].done : k[1] \in Sessions /\ k[1] \in Marked(c)
  BY ScanType DEF Marked, Carts, Served
<1>3. scan' = [scan EXCEPT ![c] = NoScan] /\ UNCHANGED <<enrollments, lost>>
  BY DEF ScanMarks, ScanGoes
<1> QED
  BY <1>1, <1>2, <1>3, ScanEndsFollow

LEMMA ScanFailsFollows == ASSUME OneScan, IInv, Followed, NEW c \in Scanners, ScanFails(c) PROVE Followed'
<1>1. /\ scan' = [scan EXCEPT ![c] = NoScan] /\ UNCHANGED <<session, enrollments>>
      /\ lost' = lost \cup scan[c].done
  BY DEF ScanFails, ScanGoes
<1> QED
  BY <1>1, ScanEndsFollow

LEMMA ScanInsertsFollows == ASSUME OneScan, IInv, Followed, NEW c \in Scanners, ScanInserts(c) PROVE Followed'
<1> DEFINE cart == scan[c].cart
           n == Len(enrollments)
           e == [key |-> <<"cart", cart[1]>>, cart |-> cart, seen |-> scan[c].seen, status |-> "ACTIVE"]
           done == scan[c].done \cup {cart}
           local == [NoScan EXCEPT !.pc = "next", !.todo = scan[c].todo, !.done = done]
<1>1. scan[c].pc = "insert" /\ cart \in Carts
  BY DEF ScanInserts, IInv, Types
<1>2. /\ enrollments' = Append(enrollments, e) /\ scan' = [scan EXCEPT ![c] = local]
      /\ UNCHANGED <<session, lost>>
  BY DEF ScanInserts, Enrolls, ScanGoes
<1>3. e.key[1] = "cart" /\ e.cart = cart
  OBVIOUS
<1>4. local.pc = "next" /\ local.todo = scan[c].todo /\ local.done = done
  <2> HIDE DEF done
  <2> QED
    BY DEF NoScan
<1>5. /\ n \in Nat /\ Rows' = Rows \cup {n + 1} /\ n + 1 \notin Rows
      /\ enrollments'[n + 1] = e /\ \A i \in Rows : enrollments'[i] = enrollments[i]
  <2>1. enrollments \in Seq(Enrollment) /\ n \in Nat
    BY DEF IInv, Types
  <2>2. /\ Len(enrollments') = n + 1 /\ enrollments'[n + 1] = e
        /\ \A i \in 1..n : enrollments'[i] = enrollments[i]
    BY <1>2, <2>1
  <2> QED
    BY <2>1, <2>2 DEF Rows
<1> HIDE DEF e, local, n
<1>6. \A d \in Scanners : scan'[d] = IF d = c THEN local ELSE scan[d]
  BY <1>2 DEF IInv, Types
<1>7. \A d \in Scanners : scan[d].pc = "insert" /\ scan[d].cart = cart => d = c
  BY <1>1 DEF IInv, Alone
<1>8. ToEnroll(cart, c) /\ cart \notin scan[c].todo /\ cart \in Sessions \X (1..MaxCarts)
  BY <1>1 DEF ToEnroll, Followed, ScanShape, Carts, Served
<1>9. /\ cart[2] <= session[cart[1]].used
      /\ \A i \in Rows : enrollments[i].cart = cart => cart \in lost
  BY <1>8 DEF Followed, Unfollowed
<1>10. CartRows'
  BY <1>1, <1>3, <1>5 DEF Followed, CartRows
<1>11. ScanShape'
  BY <1>4, <1>6 DEF Followed, ScanShape
<1>12. Covered'
  <2> SUFFICES ASSUME NEW i \in Rows', enrollments'[i].key[1] = "cart", NEW k, k = enrollments'[i].cart
               PROVE  /\ k[2] <= session[k[1]].used
                      /\ \/ k \in lost
                         \/ \E d \in Scanners : k \in scan'[d].done
                         \/ session[k[1]].cart # k[2] \/ session[k[1]].notified
    BY <1>2 DEF Covered
  <2>1. CASE i = n + 1
    BY <1>3, <1>4, <1>5, <1>6, <1>9, <2>1
  <2>2. CASE i \in Rows
    <3>1. \A d \in Scanners : scan[d].done \subseteq scan'[d].done
      BY <1>4, <1>6
    <3>2. /\ k[2] <= session[k[1]].used
          /\ \/ k \in lost \/ \E d \in Scanners : k \in scan[d].done
             \/ session[k[1]].cart # k[2] \/ session[k[1]].notified
      BY <1>5, <2>2 DEF Followed, Covered
    <3> QED
      BY <3>1, <3>2
  <2> QED
    BY <1>5, <2>1, <2>2
<1>13. Once'
  <2>1. \A i \in Rows' : i = n + 1 \/ i \in Rows
    BY <1>5
  <2>2. \A i \in Rows : enrollments'[i].cart = cart => cart \in lost
    BY <1>5, <1>9
  <2>3. \A i, q \in Rows : enrollments'[i].key[1] = "cart" /\ enrollments'[i].cart = enrollments'[q].cart =>
            i = q \/ enrollments'[i].cart \in lost
    BY <1>5 DEF Followed, Once
  <2>4. enrollments'[n + 1].cart = cart /\ lost' = lost
    BY <1>2, <1>3, <1>5
  <2> QED
    BY <2>1, <2>2, <2>3, <2>4 DEF Once
<1>14. Unfollowed'
  <2> SUFFICES ASSUME NEW d \in Scanners, NEW k \in Sessions \X (1..MaxCarts), ToEnroll(k, d)'
               PROVE  /\ k[2] <= session[k[1]].used
                      /\ \A i \in Rows' : enrollments'[i].cart = k => k \in lost
    BY <1>2 DEF Unfollowed
  <2>1. d = c /\ ToEnroll(k, c) /\ k # cart
    BY <1>4, <1>6, <1>8 DEF OneScan, ToEnroll
  <2>2. /\ k[2] <= session[k[1]].used
        /\ \A i \in Rows : enrollments[i].cart = k => k \in lost
    BY <2>1 DEF Followed, Unfollowed
  <2> QED
    BY <1>3, <1>5, <2>1, <2>2
<1> QED
  BY <1>10, <1>11, <1>12, <1>13, <1>14 DEF Followed

LEMMA HandlerInsertsFollows == ASSUME IInv, Followed, NEW h \in Handlers, HandlerInserts(h) PROVE Followed'
<1> DEFINE n == Len(enrollments)
           e == [key |-> <<"order", handler[h].order>>, cart |-> <<>>, seen |-> handler[h].seen, status |-> "ACTIVE"]
<1>1. enrollments' = Append(enrollments, e) /\ UNCHANGED <<session, scan, lost>>
  BY DEF HandlerInserts, Enrolls
<1>2. e.key[1] = "order" /\ e.cart = <<>>
  OBVIOUS
<1>3. /\ Rows' = Rows \cup {n + 1} /\ enrollments'[n + 1] = e
      /\ \A i \in Rows : enrollments'[i] = enrollments[i]
  <2>1. enrollments \in Seq(Enrollment) /\ n \in Nat
    BY DEF IInv, Types
  <2>2. /\ Len(enrollments') = n + 1 /\ enrollments'[n + 1] = e
        /\ \A i \in 1..n : enrollments'[i] = enrollments[i]
    BY <1>1, <2>1
  <2> QED
    BY <2>1, <2>2 DEF Rows
<1> HIDE DEF e, n
<1>4. CartRows'
  BY <1>2, <1>3 DEF Followed, CartRows
<1>5. ScanShape'
  BY <1>1 DEF Followed, ScanShape
<1>6. Unfollowed'
  <2> SUFFICES ASSUME NEW d \in Scanners, NEW k \in Sessions \X (1..MaxCarts), ToEnroll(k, d)
               PROVE  /\ k[2] <= session[k[1]].used
                      /\ \A i \in Rows' : enrollments'[i].cart = k => k \in lost
    BY <1>1 DEF Unfollowed, ToEnroll
  <2>1. PICK s \in Sessions, m \in 1..MaxCarts : k = <<s, m>>
    OBVIOUS
  <2>2. k # <<>>
    BY <2>1
  <2> QED
    BY <1>2, <1>3, <2>2 DEF Followed, Unfollowed
<1>7. Covered'
  BY <1>1, <1>2, <1>3 DEF Followed, Covered
<1>8. Once'
  <2> SUFFICES ASSUME NEW i \in Rows', NEW q \in Rows', enrollments'[i].key[1] = "cart",
                      enrollments'[i].cart = enrollments'[q].cart
               PROVE  i = q \/ enrollments'[i].cart \in lost
    BY <1>1 DEF Once
  <2>1. i \in Rows
    BY <1>2, <1>3
  <2>2. enrollments'[i].cart \in Carts
    BY <1>3, <2>1 DEF Followed, CartRows
  <2>3. enrollments'[i].cart # <<>>
    BY <2>2 DEF Carts
  <2>4. q \in Rows
    BY <1>2, <1>3, <2>3
  <2> QED
    BY <1>3, <2>1, <2>4 DEF Followed, Once
<1> QED
  BY <1>4, <1>5, <1>6, <1>7, <1>8 DEF Followed

\* Enrollments that end keep their key and their cart.
LEMMA StatusesFollow ==
    ASSUME IInv, Followed, NEW S, NEW t,
           enrollments' = [i \in DOMAIN enrollments |->
               IF i \in S THEN [enrollments[i] EXCEPT !.status = t] ELSE enrollments[i]],
           UNCHANGED <<session, scan, lost>>
    PROVE  Followed'
<1>1. enrollments \in Seq(Enrollment) /\ DOMAIN enrollments = Rows /\ Len(enrollments) \in Nat
  BY DEF IInv, Types, Rows
<1>2. ASSUME NEW i \in Rows
      PROVE  enrollments'[i].key = enrollments[i].key /\ enrollments'[i].cart = enrollments[i].cart
  <2>1. enrollments[i] \in Enrollment
    BY <1>1 DEF Rows
  <2> QED
    BY <1>1, <2>1 DEF Enrollment
<1>3. Rows' = Rows
  <2>1. DOMAIN enrollments' = 1..Len(enrollments)
    BY <1>1 DEF Rows
  <2>2. Len(enrollments') = Len(enrollments)
    BY <1>1, <2>1
  <2> QED
    BY <2>2 DEF Rows
<1>4. CartRows' /\ ScanShape'
  BY <1>2, <1>3 DEF Followed, CartRows, ScanShape
<1>5. Unfollowed'
  BY <1>2, <1>3 DEF Followed, Unfollowed, ToEnroll
<1>6. Covered'
  BY <1>2, <1>3 DEF Followed, Covered
<1>7. Once'
  BY <1>2, <1>3 DEF Followed, Once
<1> QED
  BY <1>4, <1>5, <1>6, <1>7 DEF Followed

LEMMA FollowedKept == ASSUME OneScan, IInv, Followed, [Next]_vars PROVE Followed'
<1>1. CASE \E s \in Sessions : CustomerSteps(s)
  BY <1>1, CustomerStepsFollow
<1>2. CASE \E c \in Scanners : ScanSteps(c) \/ ScanFails(c)
  BY <1>2, ScanReadsFollows, ScanChecksFollows, ScanInsertsFollows, ScanMarksFollows, ScanFailsFollows
     DEF ScanSteps
<1>3. CASE \E o \in Orders : OrderPaid(o)
  BY <1>3, FollowedSame DEF OrderPaid
<1>4. CASE \E h \in Handlers : HandlerSteps(h)
  <2>1. PICK h \in Handlers : HandlerSteps(h)
    BY <1>4
  <2>2. CASE HandlerReads(h)
    BY <2>2, FollowedSame DEF HandlerReads
  <2>3. CASE HandlerChecks(h)
    BY <2>3, FollowedSame DEF HandlerChecks
  <2>4. CASE HandlerCancels(h)
    BY <2>4, StatusesFollow DEF HandlerCancels
  <2>5. CASE HandlerInserts(h)
    BY <2>5, HandlerInsertsFollows
  <2> QED
    BY <2>1, <2>2, <2>3, <2>4, <2>5 DEF HandlerSteps
<1>5. ASSUME NEW i \in DOMAIN enrollments, Completes(i)
      PROVE  Followed'
  <2>1. enrollments' = [q \in DOMAIN enrollments |->
            IF q \in {i} THEN [enrollments[q] EXCEPT !.status = "COMPLETED"] ELSE enrollments[q]]
    BY <1>5 DEF Completes, IInv, Types
  <2>2. UNCHANGED <<session, scan, lost>>
    BY <1>5 DEF Completes
  <2> QED
    BY <2>1, <2>2, StatusesFollow
<1>6. CASE UNCHANGED vars
  BY <1>6, FollowedSame DEF vars
<1> QED
  BY <1>1, <1>2, <1>3, <1>4, <1>5, <1>6 DEF Next, CustomerSteps

\* A cart is followed up once, unless the scan that enrolled it failed before it could
\* mark the session, for any number of sessions, orders and handlers and one scan at a
\* time (checkAbandonedCarts, createEnrollment).
THEOREM FollowedOnce == ASSUME OneScan PROVE Spec => []OneRecoveryPerCart
<1>1. Init => Followed
  BY DEF Init, Followed, CartRows, ScanShape, Unfollowed, Covered, Once, ToEnroll, NoScan, Rows
<1>2. IInv /\ Followed /\ [Next]_vars => Followed'
  BY FollowedKept
<1>3. ASSUME IInv, Followed
      PROVE  OneRecoveryPerCart
  <2> SUFFICES ASSUME NEW p \in Pairs, enrollments[p[1]].key[1] = "cart",
                      enrollments[p[1]].cart = enrollments[p[2]].cart
               PROVE  enrollments[p[1]].cart \in lost
    BY DEF OneRecoveryPerCart
  <2>1. p[1] \in Rows /\ p[2] \in Rows /\ p[1] # p[2]
    BY <1>3, Row
  <2> QED
    BY <1>3, <2>1 DEF Followed, Once
<1> QED
  BY Invariance, <1>1, <1>2, <1>3, PTL DEF Spec
=============================================================================
