---------------------------- MODULE AbandonedCarts ----------------------------
(***************************************************************************)
(* Who is let into the automations: the carts the tracker records, the     *)
(* scan for abandoned ones (MarketingScheduler.checkAbandonedCarts), the   *)
(* order events (AutomationEngine.processTrigger), and the transaction     *)
(* both end in (AutomationEnrollmentService.createEnrollment).             *)
(*                                                                         *)
(* All served sessions and orders are of one customer.  The account has a  *)
(* "cart" automation (ABANDONED_CART) and an "order" one.  What happens to *)
(* an enrollment afterwards is AutomationEnrollment's subject.             *)
(***************************************************************************)
EXTENDS Integers, Sequences, FiniteSets

CONSTANTS
    Sessions,      \* visitor sessions that carry an email
    Unserved,      \* those of an account without a "cart" automation
    Orders,        \* orders that may be placed
    Scanners,      \* overlapping runs of the scan
    Handlers,      \* order events handled at the same time
    Capped,        \* automations with a frequency cap, longer than the run
    Take,          \* rows the scan reads
    MaxCarts,      \* bound: contents the cart of a session takes
    MaxEvents,     \* bound: events of orders
    MaxFaults      \* bound: scans that fail

ASSUME ConstantsAssumption ==
    /\ Unserved \subseteq Sessions /\ IsFiniteSet(Sessions)
    /\ Capped \subseteq {"cart", "order"}
    /\ Take \in Nat \ {0} /\ MaxCarts \in Nat /\ MaxEvents \in Nat /\ MaxFaults \in Nat

VARIABLES
    session,      \* the AnalyticsSession rows
    bought,       \* the cart each order bought, <<>> until it is placed
    events,       \* order events so far
    enrollments,  \* the AutomationEnrollment rows, in the order of their commits
    scan,         \* local state of the scans
    handler,      \* local state of the order events
    handled,      \* history: enrollments there were when a handled order event looked
    lost,         \* history: carts enrolled by a scan that failed
    overwritten,  \* history: carts under a mark that is for an older one
    faults

vars == <<session, bought, events, enrollments, scan, handler, handled, lost, overwritten, faults>>

NoScan    == [pc |-> "idle", todo |-> {}, done |-> {}, cart |-> <<>>, seen |-> 0]
NoHandler == [pc |-> "idle", order |-> "none", found |-> {}, seen |-> 0]
NoCart    == 0

Init ==
    /\ session = [s \in Sessions |-> [cart |-> NoCart, used |-> 0, idle |-> FALSE, notified |-> FALSE]]
    /\ bought = [o \in Orders |-> <<>>] /\ events = 0
    /\ enrollments = <<>>
    /\ scan = [c \in Scanners |-> NoScan] /\ handler = [h \in Handlers |-> NoHandler]
    /\ handled = 0 /\ lost = {} /\ overwritten = {} /\ faults = 0

-----------------------------------------------------------------------------
(* The customer, as the tracker sees it (processEvent) *)

TrackerSets(s, row) ==
    /\ session' = [session EXCEPT ![s] = row]
    /\ UNCHANGED <<bought, events, enrollments, scan, handler, handled, lost, overwritten, faults>>

\* The next contents of a cart; each counts as a cart of its own.
Refilled(s, row) == [row EXCEPT !.cart = session[s].used + 1, !.used = session[s].used + 1, !.idle = FALSE]

Emptied(s) == [session[s] EXCEPT !.cart = NoCart, !.idle = FALSE, !.notified = FALSE]

Unmarked(s) == [session[s] EXCEPT !.notified = FALSE]

\* Mutant: the mark of the cart before is kept.
CartChangesQuietly(s) ==
    /\ session[s].used < MaxCarts
    /\ TrackerSets(s, Refilled(s, session[s]))

\* A cart event that brings a total, which may be zero; without one it changes nothing.
CartChanges(s) ==
    \/ session[s].used < MaxCarts /\ TrackerSets(s, Refilled(s, Unmarked(s)))
    \/ session[s].cart # NoCart /\ TrackerSets(s, Emptied(s))

\* checkout_start brings a total and items, and leaves the mark as it is.
CheckoutChanges(s) ==
    /\ session[s].used < MaxCarts
    /\ session' = [session EXCEPT ![s] = Refilled(s, session[s])]
    /\ overwritten' = IF session[s].notified THEN overwritten \cup {<<s, session[s].used + 1>>} ELSE overwritten
    /\ UNCHANGED <<bought, events, enrollments, scan, handler, handled, lost, faults>>

\* An hour without activity; a page view, or the end of the scan's 24 hours.
Rests(s)   == ~session[s].idle /\ TrackerSets(s, [session[s] EXCEPT !.idle = TRUE])
Browses(s) == session[s].idle /\ TrackerSets(s, [session[s] EXCEPT !.idle = FALSE])

Bought == {bought[o] : o \in Orders}

Buys(s) ==
    LET o == CHOOSE o \in Orders : bought[o] = <<>> IN
    /\ s \notin Unserved /\ session[s].cart # NoCart /\ <<s, session[s].cart>> \notin Bought
    /\ <<>> \in Bought
    /\ bought' = [bought EXCEPT ![o] = <<s, session[s].cart>>]
    /\ UNCHANGED <<session, events, enrollments, scan, handler, handled, lost, overwritten, faults>>

\* The browser's purchase event comes later, or never.
PurchaseTracked(s) ==
    /\ <<s, session[s].cart>> \in Bought
    /\ TrackerSets(s, Emptied(s))

-----------------------------------------------------------------------------
(* createEnrollment, for the key <<automation, entity>> *)

\* Keys whose advisory lock is held.
Locked ==
    {<<"cart", scan[c].cart[1]>> : c \in {c \in Scanners : scan[c].pc = "insert"}}
        \cup {<<"order", handler[h].order>> : h \in {h \in Handlers : handler[h].pc = "insert"}}

\* Mutant: enrollments are checked without the lock.
UnlockedAny(key) == TRUE

Unlocked(key) == key \notin Locked

\* Mutant: the cap looks at active enrollments only.
CapsActive(key) ==
    /\ key[1] \in Capped
    /\ \E i \in DOMAIN enrollments : enrollments[i].key[1] = key[1] /\ enrollments[i].status = "ACTIVE"

Caps(key) == key[1] \in Capped /\ \E i \in DOMAIN enrollments : enrollments[i].key[1] = key[1]

\* Enrollments the cap looked at.
Looked(key) == IF key[1] \in Capped THEN Len(enrollments) ELSE 0

\* An order enrolls once, whatever became of its enrollment; a session once at a time.
Duplicates(key) == \E i \in DOMAIN enrollments :
    enrollments[i].key = key /\ (key[1] = "order" \/ enrollments[i].status = "ACTIVE")

Refused(key) == Caps(key) \/ Duplicates(key)

Enrolls(key, cart, seen) == enrollments' = Append(enrollments,
    [key |-> key, cart |-> cart, seen |-> seen, status |-> "ACTIVE"])

\* The engine runs the flow to its end.
Completes(i) ==
    /\ i \in DOMAIN enrollments /\ enrollments[i].status = "ACTIVE"
    /\ enrollments' = [enrollments EXCEPT ![i].status = "COMPLETED"]
    /\ UNCHANGED <<session, bought, events, scan, handler, handled, lost, overwritten, faults>>

-----------------------------------------------------------------------------
(* checkAbandonedCarts *)

ScanGoes(c, local) == scan' = [scan EXCEPT ![c] = local]

\* Mutant: empty carts too.
AbandonedAny == {s \in Sessions : session[s].idle /\ ~session[s].notified}

Abandoned == {s \in Sessions : session[s].cart # NoCart /\ session[s].idle /\ ~session[s].notified}

\* Take rows, in no order.
ScanReads(c) ==
    /\ scan[c].pc = "idle" /\ Abandoned # {}
    /\ \E batch \in SUBSET Abandoned :
           /\ Cardinality(batch) = IF Cardinality(Abandoned) < Take THEN Cardinality(Abandoned) ELSE Take
           /\ ScanGoes(c, [NoScan EXCEPT !.pc = "next", !.todo = {<<s, session[s].cart>> : s \in batch}])
    /\ UNCHANGED <<session, bought, events, enrollments, handler, handled, lost, overwritten, faults>>

\* The session's trigger finds no automation, is refused, or may enroll.
ScanChecks(c) ==
    /\ scan[c].pc = "next"
    /\ \E cart \in scan[c].todo :
           LET rest == [scan[c] EXCEPT !.todo = @ \ {cart}]
               key  == <<"cart", cart[1]>> IN
           IF cart[1] \in Unserved THEN ScanGoes(c, rest)
           ELSE /\ Unlocked(key)
                /\ ScanGoes(c, IF Refused(key) THEN rest
                               ELSE [rest EXCEPT !.pc = "insert", !.cart = cart, !.seen = Looked(key)])
    /\ UNCHANGED <<session, bought, events, enrollments, handler, handled, lost, overwritten, faults>>

ScanInserts(c) ==
    LET cart == scan[c].cart IN
    /\ scan[c].pc = "insert"
    /\ Enrolls(<<"cart", cart[1]>>, cart, scan[c].seen)
    /\ ScanGoes(c, [NoScan EXCEPT !.pc = "next", !.todo = scan[c].todo, !.done = scan[c].done \cup {cart}])
    /\ UNCHANGED <<session, bought, events, handler, handled, lost, overwritten, faults>>

\* Mutant: nobody is marked.
MarkedNone(c) == {}

Marked(c) == {cart[1] : cart \in scan[c].done}

ScanMarks(c) ==
    /\ scan[c].pc = "next" /\ scan[c].todo = {}
    /\ session' = [s \in Sessions |->
           IF s \in Marked(c) THEN [session[s] EXCEPT !.notified = TRUE] ELSE session[s]]
    /\ overwritten' = overwritten \cup
           ({<<s, session[s].cart>> : s \in Marked(c)} \ scan[c].done)
    /\ ScanGoes(c, NoScan)
    /\ UNCHANGED <<bought, events, enrollments, handler, handled, lost, faults>>

\* The process dies, or a trigger throws: what was enrolled is not marked.
ScanFails(c) ==
    /\ scan[c].pc # "idle" /\ faults < MaxFaults
    /\ faults' = faults + 1
    /\ lost' = lost \cup scan[c].done
    /\ ScanGoes(c, NoScan)
    /\ UNCHANGED <<session, bought, events, enrollments, handler, handled, overwritten>>

-----------------------------------------------------------------------------
(* processTrigger of an order event *)

HandlerGoes(h, local) == handler' = [handler EXCEPT ![h] = local]

\* Events run side by side, as many as there are handlers.
OrderPaid(o) ==
    LET free == {h \in Handlers : handler[h].pc = "idle"} IN
    /\ free # {} /\ bought[o] # <<>> /\ events < MaxEvents
    /\ events' = events + 1
    /\ HandlerGoes(CHOOSE h \in free : TRUE, [NoHandler EXCEPT !.pc = "read", !.order = o])
    /\ UNCHANGED <<session, bought, enrollments, scan, handled, lost, overwritten, faults>>

\* Mutant: only the enrollment of the cart that was bought.
CancellableOwn(o) == {i \in DOMAIN enrollments :
    enrollments[i].cart = bought[o] /\ enrollments[i].status = "ACTIVE"}

Cancellable(o) == {i \in DOMAIN enrollments :
    enrollments[i].key[1] = "cart" /\ enrollments[i].status = "ACTIVE"}

HandlerReads(h) ==
    LET found == Cancellable(handler[h].order) IN
    /\ handler[h].pc = "read"
    /\ HandlerGoes(h, [handler[h] EXCEPT !.pc = IF found = {} THEN "check" ELSE "cancel",
                           !.found = found, !.seen = Len(enrollments)])
    /\ UNCHANGED <<session, bought, events, enrollments, scan, handled, lost, overwritten, faults>>

\* By id, whatever became of them.
HandlerCancels(h) ==
    /\ handler[h].pc = "cancel"
    /\ enrollments' = [i \in DOMAIN enrollments |-> IF i \in handler[h].found
           THEN [enrollments[i] EXCEPT !.status = "CANCELLED"] ELSE enrollments[i]]
    /\ HandlerGoes(h, [handler[h] EXCEPT !.pc = "check", !.found = {}])
    /\ UNCHANGED <<session, bought, events, scan, handled, lost, overwritten, faults>>

HandlerChecks(h) ==
    LET o == handler[h].order
        key == <<"order", o>> IN
    /\ handler[h].pc = "check" /\ Unlocked(key)
    /\ handled' = IF handler[h].seen > handled THEN handler[h].seen ELSE handled
    /\ HandlerGoes(h, IF Refused(key) THEN NoHandler
                      ELSE [handler[h] EXCEPT !.pc = "insert", !.seen = Looked(key)])
    /\ UNCHANGED <<session, bought, events, enrollments, scan, lost, overwritten, faults>>

HandlerInserts(h) ==
    /\ handler[h].pc = "insert"
    /\ Enrolls(<<"order", handler[h].order>>, <<>>, handler[h].seen)
    /\ HandlerGoes(h, NoHandler)
    /\ UNCHANGED <<session, bought, events, scan, handled, lost, overwritten, faults>>

-----------------------------------------------------------------------------
ScanSteps(c)    == ScanReads(c) \/ ScanChecks(c) \/ ScanInserts(c) \/ ScanMarks(c)
HandlerSteps(h) == HandlerReads(h) \/ HandlerCancels(h) \/ HandlerChecks(h) \/ HandlerInserts(h)

Next ==
    \/ \E s \in Sessions : CartChanges(s) \/ CheckoutChanges(s) \/ Rests(s) \/ Browses(s) \/ Buys(s) \/ PurchaseTracked(s)
    \/ \E c \in Scanners : ScanSteps(c) \/ ScanFails(c)
    \/ \E o \in Orders : OrderPaid(o)
    \/ \E h \in Handlers : HandlerSteps(h)
    \/ \E i \in DOMAIN enrollments : Completes(i)

\* The scan is on a timer, and what it or an event started goes on; the engine
\* ends what it runs (AutomationEnrollment).  The customer does as he likes.
Fairness ==
    /\ \A c \in Scanners : WF_vars(ScanSteps(c))
    /\ \A h \in Handlers : WF_vars(HandlerSteps(h))
    /\ WF_vars(\E i \in DOMAIN enrollments : Completes(i))

Spec     == Init /\ [][Next]_vars
LiveSpec == Spec /\ Fairness

-----------------------------------------------------------------------------
(* Properties *)

Pairs == {p \in (DOMAIN enrollments) \X (DOMAIN enrollments) : p[1] < p[2]}

TypeOK ==
    /\ \A s \in Sessions :
           /\ session[s].cart \in 0..session[s].used /\ session[s].used \in 0..MaxCarts
           /\ session[s].idle \in BOOLEAN /\ session[s].notified \in BOOLEAN
    /\ \A i \in DOMAIN enrollments :
           /\ enrollments[i].key \in ({"cart"} \X (Sessions \ Unserved)) \cup ({"order"} \X Orders)
           /\ enrollments[i].cart \in {<<>>} \cup ((Sessions \ Unserved) \X (1..MaxCarts))
           /\ enrollments[i].status \in {"ACTIVE", "COMPLETED", "CANCELLED"}
           /\ enrollments[i].seen < i
    /\ handled \in 0..Len(enrollments)

\* An order enters its automation once, however many of its events are handled,
\* and although two of them may be handled at the same time.
OrderOnce == \A p \in Pairs :
    enrollments[p[1]].key[1] = "order" => enrollments[p[1]].key # enrollments[p[2]].key

\* The frequency cap lets a second enrollment in only when both were checked at the
\* same time, for two orders: the lock is by order, the cap by customer.
CapRespected == \A p \in Pairs :
    LET a == enrollments[p[1]]  b == enrollments[p[2]] IN
    a.key[1] = b.key[1] /\ a.key[1] \in Capped => a.key # b.key /\ b.seen < p[1]

\* A cart is followed up once, unless the scan that enrolled it failed before it
\* could mark the session.
OneRecoveryPerCart == \A p \in Pairs :
    LET a == enrollments[p[1]]  b == enrollments[p[2]] IN
    a.key[1] = "cart" /\ a.cart = b.cart => a.cart \in lost

\* Once an order event was handled, the customer is not followed up for any
\* cart, save one whose enrollment had not been committed when the event looked.
PurchaseStops == \A i \in 1..handled :
    enrollments[i].key[1] = "cart" => enrollments[i].status # "ACTIVE"

Waiting(s, n) == session[s].cart = n /\ session[s].idle
Enrolled(s, n) == \E i \in DOMAIN enrollments : enrollments[i].cart = <<s, n>>

\* An abandoned cart is followed up, unless the customer comes back, a day passes, or
\* the session bears the mark of an older cart: the scan set it for a cart that changed
\* meanwhile, or the cart changed at the checkout.  It takes a batch that the sessions
\* nobody serves, which are never marked, do not fill, and an automation without a cap.
EventuallyEnrolled ==
    "cart" \notin Capped /\ Cardinality(Unserved) < Take =>
        \A s \in Sessions \ Unserved : \A n \in 1..MaxCarts :
            Waiting(s, n) ~> (Enrolled(s, n) \/ ~Waiting(s, n) \/ <<s, n>> \in overwritten)
=============================================================================
