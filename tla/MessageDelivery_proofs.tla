------------------------ MODULE MessageDelivery_proofs ------------------------
(***************************************************************************)
(* Proofs about MessageDelivery, for any number of passes and requests and *)
(* any bounds: type correctness, one holder of a claim at a time, no       *)
(* needless redelivery, durability of the acknowledgement, and that the    *)
(* protocols implement DeliveryOnce.                                       *)
(***************************************************************************)
EXTENDS MessageDelivery, TLAPS

Working   == {"note", "send", "ack", "ack_again", "cleanup", "fail"}
Scheduled == {"internal", "email", "other"}

\* Exactly the calls that hold a claim are doing something with it.
HolderWorks == \A p \in Actors : call[p].attempt # 0 <=> call[p].pc \in Working

\* Passes never create a row; requests never clean up a schedule.
PcKinds ==
    /\ \A p \in Passes : ~At(p, "create")
    /\ \A p \in Requests : call[p].pc \notin {"finalize", "note", "cleanup"}

\* A claim belongs to one call.
UniqueAttempt ==
    \A p, q \in Actors :
        call[p].attempt # 0 /\ call[p].attempt = call[q].attempt => p = q

\* A row lives one life: unborn, sent by requests, scheduled, or deleted.
Mode ==
    \/ /\ row = NoRow /\ canceller = "idle" /\ attempts = 0
       /\ \A p \in Passes : At(p, "idle")
       /\ \A p \in Requests : call[p].pc \in {"idle", "create"}
    \/ /\ row.kind = "direct" /\ row.sched = "null" /\ canceller = "idle"
       /\ \A p \in Passes : At(p, "idle")
    \/ /\ row.kind \in Scheduled /\ canceller \in {"idle", "delete"}
       /\ \A p \in Requests : At(p, "idle")
    \/ /\ row = NoRow /\ canceller = "done"
       /\ \A p \in Requests : At(p, "idle")

\* The row carries the latest claim.
RowLatest == Exists => row.attempt = attempts

\* A scheduled row somebody tried to send, and that nobody acknowledged or gave
\* up, is PENDING.
TriedIsPending ==
    row.kind \in Scheduled /\ row.sched # "null" /\ row.pmid = 0 /\ row.attempt # 0
        => row.status = "PENDING"

\* A request that holds a claim holds the latest one, and the row is PENDING.
RequestPending ==
    \A p \in Requests :
        call[p].attempt # 0 => row.status = "PENDING" /\ call[p].attempt = attempts

\* A direct message with a provider's id is SENT; one that is PENDING has none.
DirectSent == row.kind = "direct" => (row.pmid # 0 <=> row.status = "SENT")

\* Only the latest claim can be within its lease.
FreshIsLatest ==
    \A p \in Actors : call[p].attempt \notin {0} \cup stale => call[p].attempt = attempts

\* A call that outlives its lease is known to have done so; what a pass takes
\* for stale is stale.
StaleHeld ==
    \A p \in Actors :
        /\ call[p].attempt \in stale => call[p].attempt \in unconfirmed
        /\ call[p].stale \subseteq stale

\* Before the provider's answer, and after a refusal, nothing was accepted.
NotAccepted ==
    \A p \in Actors :
        /\ call[p].pc \in {"note", "send"} => call[p].attempt \notin accepted
        /\ At(p, "fail") => call[p].attempt \notin accepted \ unconfirmed

\* An accepted attempt is acknowledged, or about to be, or was not confirmed.
Settled ==
    \A a \in accepted \ unconfirmed :
        \/ row.pmid # 0 \/ ~Exists
        \/ \E p \in Actors : call[p].attempt = a /\ call[p].pc \in {"ack", "ack_again"}

\* Whoever cleans up found the acknowledgement in the row.
CleanupAcked == \A p \in Actors : At(p, "cleanup") => row.pmid # 0 \/ ~Exists

\* An attempt that was followed by another one was not confirmed.
Superseded == \A a \in accepted : a < attempts => a \in unconfirmed

\* The conjuncts by what they are about.
CallsInv    == HolderWorks /\ PcKinds /\ UniqueAttempt
RowInv      == Mode /\ RowLatest /\ DirectSent
ClaimInv    == TriedIsPending /\ RequestPending /\ CleanupAcked
LeaseInv    == FreshIsLatest /\ StaleHeld
DeliveryInv == NotAccepted /\ Settled /\ Superseded

\* The inductive invariant.
IInv == TypeOK /\ CallsInv /\ RowInv /\ ClaimInv /\ LeaseInv /\ DeliveryInv

-----------------------------------------------------------------------------
(* Typing *)

\* Claims and message ids are numbers of attempts made.
LEMMA Typed ==
    ASSUME TypeOK
    PROVE  /\ \A p \in Actors : call[p] \in Calls /\ call[p].attempt \in 0..attempts
           /\ row.attempt \in 0..attempts /\ row.pmid \in 0..attempts
           /\ attempts \in Nat
  BY ConstantsAssumption DEF TypeOK, Rows, Calls

\* A set of attempts stays one when an attempt joins it.
LEMMA OneMore ==
    ASSUME NEW n \in Nat, NEW S \in SUBSET (1..n), NEW a \in 0..n, a # 0
    PROVE  S \cup {a} \subseteq 1..n
  OBVIOUS

\* A call starts a new attempt.
LEMMA NextAttempt ==
    ASSUME TypeOK, NEW p \in Actors, NEW l \in {"note", "send"},
           attempts < MaxAttempts, attempts' = attempts + 1,
           row' \in Rows',
           call' = [call EXCEPT ![p] = [@ EXCEPT !.pc = l, !.attempt = attempts']],
           UNCHANGED <<stale, canceller, history, faults>>
    PROVE  TypeOK'
<1>1. attempts \in Nat /\ attempts' \in 0..MaxAttempts /\ 0..attempts \subseteq 0..attempts'
      /\ 1..attempts \subseteq 1..attempts'
  BY ConstantsAssumption DEF TypeOK
<1>2. call' \in [Actors -> Calls']
  <2> DEFINE v == [call[p] EXCEPT !.pc = l, !.attempt = attempts']
  <2>1. Calls \subseteq Calls'
    BY <1>1 DEF Calls
  <2>2. attempts' \in 0..attempts'
    BY <1>1
  <2>3. v \in Calls'
    BY <1>1, <2>2 DEF TypeOK, Calls
  <2>4. call' = [call EXCEPT ![p] = v]
    OBVIOUS
  <2> HIDE DEF v
  <2> QED
    BY <2>1, <2>3, <2>4 DEF TypeOK
<1> QED
  BY <1>1, <1>2 DEF TypeOK, history

\* A new claim of the row.
LEMMA RowClaimed ==
    ASSUME TypeOK, attempts' = attempts + 1, NEW m \in 0..attempts,
           row' = [row EXCEPT !.status = "PENDING", !.attempt = attempts', !.pmid = m]
    PROVE  row' \in Rows'
<1>1. attempts \in Nat /\ 0..attempts \subseteq 0..attempts' /\ attempts' \in 0..attempts'
  BY Typed
<1>2. row \in Rows
  BY DEF TypeOK
<1>3. row' = [kind |-> row.kind, sched |-> row.sched, status |-> "PENDING",
             pmid |-> m, attempt |-> attempts']
  BY <1>2 DEF Rows
<1> QED
  BY <1>1, <1>2, <1>3 DEF Rows

\* Only a scheduled message has a schedule.
LEMMA ScheduledRow ==
    ASSUME Mode, row.sched # "null"
    PROVE  Exists /\ row.kind \in Scheduled
<1>1. row # NoRow
  BY DEF NoRow
<1>2. row.kind \in Scheduled
  BY <1>1 DEF Mode
<1> QED
  BY <1>2 DEF Scheduled, Exists

-----------------------------------------------------------------------------
(* The message, the clock, the canceller and crashes *)

\* A scheduled message is born.
LEMMA ScheduleKeeps == ASSUME IInv, Schedule PROVE IInv'
<1>1. TypeOK'
  <2>1. PICK k \in {"internal", "email", "other"} :
          row' = [NoRow EXCEPT !.kind = k, !.sched = "future"]
    BY DEF Schedule
  <2>2. row' = [kind |-> k, sched |-> "future", status |-> "SENT", pmid |-> 0, attempt |-> 0]
    BY <2>1 DEF NoRow
  <2>3. row' \in Rows'
    BY <2>2, Typed DEF IInv, TypeOK, Schedule, Rows, External, history
  <2> QED
    BY <2>3, SMTT(20) DEF IInv, TypeOK, Schedule, Calls, history
<1>2. CallsInv'
  BY SMTT(20) DEF IInv, Schedule, At, CallsInv, HolderWorks, PcKinds,
       UniqueAttempt
<1>3. RowInv'
  BY SMTT(20) DEF IInv, Schedule, NoRow, At, Actors, Exists, RowInv, Mode,
       Scheduled, RowLatest, DirectSent
<1>4. ClaimInv'
  BY SMTT(20) DEF IInv, Schedule, NoRow, At, Actors, ClaimInv, TriedIsPending,
       RequestPending, CleanupAcked, HolderWorks, Working, CallsInv
<1>5. LeaseInv'
  BY SMTT(20) DEF IInv, Schedule, history, LeaseInv, FreshIsLatest, StaleHeld
<1>6. DeliveryInv'
  BY SMTT(20) DEF IInv, Schedule, history, Exists, DeliveryInv, NotAccepted,
       Settled, Superseded, TypeOK, Mode, Scheduled, RowInv
<1> QED
  BY <1>1, <1>2, <1>3, <1>4, <1>5, <1>6 DEF IInv

\* Its time comes.
LEMMA FallDueKeeps == ASSUME IInv, FallDue PROVE IInv'
<1>1. TypeOK'
  BY SMTT(20) DEF IInv, FallDue, history, TypeOK, Calls, Rows
<1>2. CallsInv'
  BY SMTT(20) DEF IInv, FallDue, CallsInv, HolderWorks, PcKinds, At,
       UniqueAttempt
<1>3. RowInv'
  BY SMTT(20) DEF IInv, FallDue, RowInv, Mode, At, NoRow, RowLatest, Exists,
       DirectSent
<1>4. ClaimInv'
  BY SMTT(20) DEF IInv, FallDue, ClaimInv, TriedIsPending, RequestPending,
       CleanupAcked, Exists, At
<1>5. LeaseInv'
  BY SMTT(20) DEF IInv, FallDue, history, LeaseInv, FreshIsLatest, StaleHeld
<1>6. DeliveryInv'
  BY SMTT(20) DEF IInv, FallDue, history, DeliveryInv, NotAccepted, At, Settled,
       Exists, Superseded
<1> QED
  BY <1>1, <1>2, <1>3, <1>4, <1>5, <1>6 DEF IInv

\* The lease of a claim nobody holds ends.
LEMMA LeaseEndsKeeps == ASSUME IInv, LeaseEnds PROVE IInv'
<1>1. TypeOK'
  <2>1. attempts' = attempts /\ stale' = stale \cup {row.attempt} /\ row.attempt # 0
    BY DEF LeaseEnds
  <2>2. stale' \subseteq 1..attempts'
    BY <2>1, Typed, OneMore DEF IInv, TypeOK
  <2> QED
    BY <2>2, SMTT(20) DEF IInv, TypeOK, LeaseEnds, Calls, history, Rows
<1>2. CallsInv'
  BY SMTT(20) DEF IInv, LeaseEnds, CallsInv, HolderWorks, PcKinds, At,
       UniqueAttempt
<1>3. RowInv'
  BY SMTT(20) DEF IInv, LeaseEnds, RowInv, Mode, At, RowLatest, Exists,
       DirectSent
<1>4. ClaimInv'
  BY SMTT(20) DEF IInv, LeaseEnds, ClaimInv, TriedIsPending, RequestPending,
       CleanupAcked, Exists, At
<1>5. LeaseInv'
  BY SMTT(20) DEF IInv, LeaseEnds, history, LeaseInv, FreshIsLatest, Actors,
       StaleHeld, Mode, At, HolderWorks, Working, RowInv, CallsInv
<1>6. DeliveryInv'
  BY SMTT(20) DEF IInv, LeaseEnds, history, DeliveryInv, NotAccepted, At,
       Settled, Exists, Superseded
<1> QED
  BY <1>1, <1>2, <1>3, <1>4, <1>5, <1>6 DEF IInv

\* The lease of a claim somebody holds ends.
LEMMA LeaseOverrunKeeps == ASSUME IInv, LeaseOverrun PROVE IInv'
<1>1. TypeOK'
  <2>1. PICK p \in Actors : /\ call[p].attempt # 0
                            /\ stale' = stale \cup {call[p].attempt}
                            /\ unconfirmed' = unconfirmed \cup {call[p].attempt}
                            /\ attempts' = attempts
    BY DEF LeaseOverrun, Actors
  <2>2. stale' \subseteq 1..attempts' /\ unconfirmed' \subseteq 1..attempts'
    BY <2>1, Typed, OneMore DEF IInv, TypeOK
  <2> QED
    BY ConstantsAssumption, <2>2, SMTT(20) DEF IInv, TypeOK, LeaseOverrun, Calls, history, Rows, Fault
<1>2. CallsInv'
  BY SMTT(20) DEF IInv, LeaseOverrun, CallsInv, HolderWorks, PcKinds, At,
       UniqueAttempt
<1>3. RowInv'
  BY SMTT(20) DEF IInv, LeaseOverrun, RowInv, Mode, At, RowLatest, Exists,
       DirectSent
<1>4. ClaimInv'
  BY SMTT(20) DEF IInv, LeaseOverrun, ClaimInv, TriedIsPending, RequestPending,
       CleanupAcked, Exists, At
<1>5. LeaseInv'
  BY SMTT(20) DEF IInv, LeaseOverrun, LeaseInv, FreshIsLatest, StaleHeld
<1>6. DeliveryInv'
  BY SMTT(20) DEF IInv, LeaseOverrun, DeliveryInv, NotAccepted, At, Settled,
       Exists, Superseded
<1> QED
  BY <1>1, <1>2, <1>3, <1>4, <1>5, <1>6 DEF IInv

\* The canceller reads.
LEMMA CancelReadKeeps == ASSUME IInv, CancelRead PROVE IInv'
<1>1. TypeOK'
  BY SMTT(20) DEF IInv, CancelRead, history, TypeOK, Calls, Rows
<1>2. CallsInv'
  BY SMTT(20) DEF IInv, CancelRead, CallsInv, HolderWorks, PcKinds, At,
       UniqueAttempt
<1>3. RowInv'
  BY SMTT(20) DEF IInv, CancelRead, RowInv, Mode, At, NoRow, RowLatest, Exists,
       DirectSent
<1>4. ClaimInv'
  BY SMTT(20) DEF IInv, CancelRead, ClaimInv, TriedIsPending, RequestPending,
       CleanupAcked, Exists, At
<1>5. LeaseInv'
  BY SMTT(20) DEF IInv, CancelRead, history, LeaseInv, FreshIsLatest, StaleHeld
<1>6. DeliveryInv'
  BY SMTT(20) DEF IInv, CancelRead, history, DeliveryInv, NotAccepted, At,
       Settled, Exists, Superseded
<1> QED
  BY <1>1, <1>2, <1>3, <1>4, <1>5, <1>6 DEF IInv

\* The canceller deletes: no claim counts any more.
LEMMA CancelDeleteKeeps == ASSUME IInv, CancelDelete PROVE IInv'
<1>1. TypeOK'
  BY SMTT(20) DEF IInv, CancelDelete, history, NoRow, TypeOK, Calls, Rows
<1>2. CallsInv'
  BY SMTT(20) DEF IInv, CancelDelete, CallsInv, HolderWorks, PcKinds, At,
       UniqueAttempt
<1>3. RowInv'
  BY SMTT(20) DEF IInv, CancelDelete, NoRow, RowInv, Mode, At, RowLatest,
       Exists, DirectSent
<1>4. ClaimInv'
  BY SMTT(20) DEF IInv, CancelDelete, NoRow, ClaimInv, TriedIsPending,
       RequestPending, CleanupAcked, Exists, At, Actors, Mode, HolderWorks,
       Working, RowInv, CallsInv
<1>5. LeaseInv'
  BY SMTT(20) DEF IInv, CancelDelete, history, LeaseInv, FreshIsLatest,
       StaleHeld
<1>6. DeliveryInv'
  BY SMTT(20) DEF IInv, CancelDelete, history, NoRow, DeliveryInv, NotAccepted,
       At, Settled, Exists, Superseded
<1> QED
  BY <1>1, <1>2, <1>3, <1>4, <1>5, <1>6 DEF IInv

\* Every claim is dropped, and none of them is confirmed.
LEMMA CrashKeeps == ASSUME IInv, Crash PROVE IInv'
<1>1. TypeOK'
  <2>1. ASSUME NEW a \in unconfirmed' PROVE a \in 1..attempts'
    <3>1. a \in unconfirmed \/ \E p \in Actors : a = call[p].attempt /\ a # 0
      BY <2>1 DEF Crash
    <3>2. attempts' = attempts /\ unconfirmed \subseteq 1..attempts
      BY DEF Crash, IInv, TypeOK
    <3>3. CASE a \in unconfirmed
      BY <3>2, <3>3
    <3>4. CASE \E p \in Actors : a = call[p].attempt /\ a # 0
      <4>1. a \in 0..attempts /\ a # 0 /\ attempts \in Nat
        BY <3>4, Typed DEF IInv
      <4> QED
        BY <3>2, <4>1
    <3> QED
      BY <3>1, <3>3, <3>4
  <2>2. NoCall \in Calls
    BY Typed DEF NoCall, Calls, IInv
  <2>3. call' \in [Actors -> Calls'] /\ row' \in Rows'
    BY <2>2 DEF IInv, TypeOK, Crash, Calls, Rows
  <2> QED
    BY ConstantsAssumption, <2>1, <2>3, SMTT(20) DEF IInv, TypeOK, Crash, Fault
<1>2. CallsInv'
  BY SMTT(20) DEF IInv, Crash, NoCall, Actors, At, CallsInv, HolderWorks,
       Working, PcKinds, UniqueAttempt
<1>3. RowInv'
  BY SMTT(20) DEF IInv, Crash, NoCall, Actors, At, RowInv, Mode, RowLatest,
       Exists, DirectSent
<1>4. ClaimInv'
  BY SMTT(20) DEF IInv, Crash, NoCall, Actors, At, ClaimInv, TriedIsPending,
       RequestPending, CleanupAcked
<1>5. LeaseInv'
  BY SMTT(20) DEF IInv, Crash, NoCall, LeaseInv, FreshIsLatest, StaleHeld,
       TypeOK
<1>6. DeliveryInv'
  BY SMTT(20) DEF IInv, Crash, NoCall, DeliveryInv, NotAccepted, Settled,
       Exists, Superseded, TypeOK
<1> QED
  BY <1>1, <1>2, <1>3, <1>4, <1>5, <1>6 DEF IInv

-----------------------------------------------------------------------------
(* Passes *)

LEMMA PassReadKeeps == ASSUME NEW p \in Passes, IInv, PassRead(p) PROVE IInv'
<1>1. TypeOK'
  BY SMTT(20) DEF IInv, PassRead, history, TypeOK, Calls, Actors, Rows
<1>2. CallsInv'
  BY ConstantsAssumption, SMTT(20) DEF IInv, PassRead, At, CallsInv,
       HolderWorks, Working, PcKinds, UniqueAttempt
<1>3. RowInv'
  BY ConstantsAssumption, SMTT(20) DEF IInv, PassRead, At, RowInv, Mode, NoRow,
       RowLatest, Exists, DirectSent
<1>4. ClaimInv'
  BY SMTT(20) DEF IInv, PassRead, At, ClaimInv, TriedIsPending, RequestPending,
       CleanupAcked, Exists
<1>5. LeaseInv'
  BY SMTT(20) DEF IInv, PassRead, history, LeaseInv, FreshIsLatest, StaleHeld,
       TypeOK
<1>6. DeliveryInv'
  BY SMTT(20) DEF IInv, PassRead, history, At, DeliveryInv, NotAccepted,
       Settled, Exists, Superseded
<1> QED
  BY <1>1, <1>2, <1>3, <1>4, <1>5, <1>6 DEF IInv

LEMMA FinalizeKeeps == ASSUME NEW p \in Passes, IInv, Finalize(p) PROVE IInv'
<1>1. TypeOK'
  BY SMTT(20) DEF IInv, Finalize, history, Finish, NoCall, TypeOK, Calls,
       Actors, Rows
<1>2. CallsInv'
  BY SMTT(20) DEF IInv, Finalize, Finish, NoCall, At, CallsInv, HolderWorks,
       Working, PcKinds, UniqueAttempt
<1>3. RowInv'
  BY SMTT(20) DEF IInv, Finalize, Finish, At, RowInv, Mode, NoRow, RowLatest,
       Exists, DirectSent
<1>4. ClaimInv'
  BY SMTT(20) DEF IInv, Finalize, Finish, NoCall, At, ClaimInv, TriedIsPending,
       RequestPending, CleanupAcked, Exists
<1>5. LeaseInv'
  BY SMTT(20) DEF IInv, Finalize, history, Finish, NoCall, LeaseInv,
       FreshIsLatest, StaleHeld, TypeOK
<1>6. DeliveryInv'
  BY SMTT(20) DEF IInv, Finalize, history, Finish, NoCall, At, DeliveryInv,
       NotAccepted, Settled, Exists, Superseded
<1> QED
  BY <1>1, <1>2, <1>3, <1>4, <1>5, <1>6 DEF IInv

LEMMA ClaimKeeps == ASSUME NEW p \in Passes, IInv, Claim(p) PROVE IInv'
<1>1. TypeOK'
  <2>1. attempts \in Nat /\ attempts' = attempts + 1 /\ row.pmid = 0
        /\ row' = [row EXCEPT !.status = "PENDING", !.attempt = attempts', !.pmid = 0]
    BY Typed DEF Claim, IInv
  <2>2. row' \in Rows'
    <3>1. 0 \in 0..attempts
      BY <2>1
    <3> QED
      BY <2>1, <3>1, RowClaimed DEF IInv
  <2>3. PICK l \in {"note", "send"} : call' = [call EXCEPT ![p] = [@ EXCEPT !.pc = l, !.attempt = attempts']]
    BY DEF Claim
  <2> QED
    BY <2>1, <2>2, <2>3, NextAttempt DEF Claim, Actors, IInv
<1>2. CallsInv'
  BY ConstantsAssumption, SMTT(20) DEF IInv, Claim, At, CallsInv, HolderWorks,
       Working, PcKinds, UniqueAttempt, TypeOK, Calls
<1>3. RowInv'
  BY SMTT(20) DEF IInv, Claim, At, RowInv, Mode, NoRow, RowLatest, DirectSent
<1>4. ClaimInv'
  BY SMTT(20) DEF IInv, Claim, At, ClaimInv, TriedIsPending, RequestPending,
       CleanupAcked, Exists, Actors, Mode, HolderWorks, Working, RowInv,
       CallsInv
<1>5. LeaseInv'
  <2>0. Exists /\ row.kind \in Scheduled
    BY ScheduledRow DEF IInv, RowInv, Claim
  <2>1. row.attempt = attempts /\ (row.attempt = 0 \/ row.attempt \in call[p].stale)
    BY <2>0 DEF Claim, Claimable, IInv, RowInv, RowLatest, ClaimInv, TriedIsPending
  <2>2. attempts = 0 \/ attempts \in stale
    BY <2>1 DEF IInv, LeaseInv, StaleHeld, Actors
  <2>3. \A q \in Actors : call[q].attempt \in {0} \cup stale
    BY <2>2 DEF IInv, LeaseInv, FreshIsLatest
  <2>4. PICK l : call' = [call EXCEPT ![p] = [@ EXCEPT !.pc = l, !.attempt = attempts']]
    BY DEF Claim
  <2>5. \A q \in Actors : /\ call'[q].attempt = IF q = p THEN attempts' ELSE call[q].attempt
                          /\ call'[q].stale = call[q].stale
    BY <2>4 DEF IInv, TypeOK, Calls
  <2>6. attempts' \notin stale
    BY Typed DEF IInv, TypeOK, Claim
  <2> QED
    BY <2>3, <2>5, <2>6 DEF Claim, history, IInv, LeaseInv, FreshIsLatest, StaleHeld
<1>6. DeliveryInv'
  <2>0. Exists /\ row.kind \in Scheduled
    BY ScheduledRow DEF IInv, RowInv, Claim
  <2>1. row.attempt = attempts /\ (row.attempt = 0 \/ row.attempt \in call[p].stale)
    BY <2>0 DEF Claim, Claimable, IInv, RowInv, RowLatest, ClaimInv, TriedIsPending
  <2>2. attempts = 0 \/ attempts \in stale
    BY <2>1 DEF IInv, LeaseInv, StaleHeld, Actors
  <2>3. \A q \in Actors : call[q].attempt \in stale => call[q].attempt \in unconfirmed
    BY DEF IInv, LeaseInv, StaleHeld
  <2>4. \A q \in Actors : call[q].attempt # 0 => call[q].attempt \in unconfirmed
    BY <2>2, <2>3 DEF IInv, LeaseInv, FreshIsLatest
  <2>5. accepted \subseteq unconfirmed
    BY <2>0, <2>4 DEF IInv, DeliveryInv, Settled, Claim, CallsInv, HolderWorks, Working
  <2>6. PICK l \in {"note", "send"} : call' = [call EXCEPT ![p] = [@ EXCEPT !.pc = l, !.attempt = attempts']]
    BY DEF Claim
  <2>7. \A q \in Actors : /\ call'[q].attempt = IF q = p THEN attempts' ELSE call[q].attempt
                          /\ call'[q].pc = IF q = p THEN l ELSE call[q].pc
    BY <2>6 DEF IInv, TypeOK, Calls
  <2>8. attempts' \notin accepted
    BY Typed DEF IInv, TypeOK, Claim
  <2>9. NotAccepted'
    BY <2>5, <2>7, <2>8 DEF Claim, history, At, IInv, DeliveryInv, NotAccepted
  <2> QED
    BY <2>5, <2>9 DEF Claim, history, DeliveryInv, Settled, Superseded
<1> QED
  BY <1>1, <1>2, <1>3, <1>4, <1>5, <1>6 DEF IInv

LEMMA ClaimLostKeeps == ASSUME NEW p \in Passes, IInv, ClaimLost(p) PROVE IInv'
<1>1. TypeOK'
  BY SMTT(20) DEF IInv, ClaimLost, history, Finish, NoCall, TypeOK, Calls,
       Actors, Rows
<1>2. CallsInv'
  BY SMTT(20) DEF IInv, ClaimLost, Finish, NoCall, At, CallsInv, HolderWorks,
       Working, PcKinds, UniqueAttempt
<1>3. RowInv'
  BY SMTT(20) DEF IInv, ClaimLost, Finish, At, RowInv, Mode, RowLatest, Exists,
       DirectSent
<1>4. ClaimInv'
  BY SMTT(20) DEF IInv, ClaimLost, Finish, NoCall, At, ClaimInv, TriedIsPending,
       RequestPending, CleanupAcked, Exists
<1>5. LeaseInv'
  BY SMTT(20) DEF IInv, ClaimLost, history, Finish, NoCall, LeaseInv,
       FreshIsLatest, StaleHeld, TypeOK
<1>6. DeliveryInv'
  BY SMTT(20) DEF IInv, ClaimLost, history, Finish, NoCall, At, DeliveryInv,
       NotAccepted, Settled, Exists, Superseded
<1> QED
  BY <1>1, <1>2, <1>3, <1>4, <1>5, <1>6 DEF IInv

LEMMA ShowNoteKeeps == ASSUME NEW p \in Passes, IInv, ShowNote(p) PROVE IInv'
<1>1. TypeOK'
  <2>1. \/ row' = row \/ row' = [row EXCEPT !.sched = "null", !.status = "SENT"]
    BY DEF ShowNote
  <2>2. row' \in Rows'
    BY <2>1, Typed DEF IInv, TypeOK, Rows, ShowNote
  <2>3. NoCall \in Calls /\ Calls' = Calls
    BY Typed DEF NoCall, Calls, IInv, ShowNote
  <2>4. call' \in [Actors -> Calls']
    BY <2>3 DEF IInv, TypeOK, ShowNote, Finish
  <2> QED
    BY <2>2, <2>4 DEF IInv, TypeOK, ShowNote, history
<1>2. CallsInv'
  BY SMTT(20) DEF IInv, ShowNote, Finish, NoCall, At, CallsInv, HolderWorks,
       Working, PcKinds, UniqueAttempt
<1>3. RowInv'
  BY SMTT(20) DEF IInv, ShowNote, Finish, Exists, At, RowInv, Mode, NoRow,
       Scheduled, RowLatest, DirectSent
<1>4. ClaimInv'
  BY SMTT(20) DEF IInv, ShowNote, Finish, NoCall, Exists, At, ClaimInv,
       TriedIsPending, RequestPending, CleanupAcked, Actors, Mode, HolderWorks,
       Working, RowInv, CallsInv
<1>5. LeaseInv'
  BY SMTT(20) DEF IInv, ShowNote, history, Finish, NoCall, LeaseInv,
       FreshIsLatest, StaleHeld, TypeOK
<1>6. DeliveryInv'
  BY SMTT(20) DEF IInv, ShowNote, history, Finish, NoCall, Exists, At,
       DeliveryInv, NotAccepted, Settled, Superseded
<1> QED
  BY <1>1, <1>2, <1>3, <1>4, <1>5, <1>6 DEF IInv

-----------------------------------------------------------------------------
(* Requests *)

LEMMA LookupKeeps == ASSUME NEW p \in Requests, IInv, Lookup(p) PROVE IInv'
<1>1. TypeOK'
  BY SMTT(20) DEF IInv, Lookup, history, Goto, TypeOK, Calls, Rows
<1>2. CallsInv'
  BY ConstantsAssumption, SMTT(20) DEF IInv, Lookup, Goto, At, CallsInv,
       HolderWorks, Working, Actors, PcKinds, UniqueAttempt, TypeOK, Calls
<1>3. RowInv'
  BY ConstantsAssumption, SMTT(20) DEF IInv, Lookup, Goto, Exists, At, RowInv,
       Mode, NoRow, Scheduled, RowLatest, DirectSent, TypeOK, Calls, Actors
<1>4. ClaimInv'
  BY SMTT(20) DEF IInv, Lookup, Goto, Exists, At, ClaimInv, TriedIsPending,
       RequestPending, CleanupAcked, Actors, TypeOK, Calls
<1>5. LeaseInv'
  BY SMTT(20) DEF IInv, Lookup, history, Goto, LeaseInv, FreshIsLatest,
       StaleHeld, TypeOK, Calls
<1>6. DeliveryInv'
  BY SMTT(20) DEF IInv, Lookup, history, Goto, Exists, At, DeliveryInv,
       NotAccepted, Settled, Superseded, TypeOK, Calls
<1> QED
  BY <1>1, <1>2, <1>3, <1>4, <1>5, <1>6 DEF IInv

LEMMA RetryKeeps == ASSUME NEW p \in Requests, IInv, Retry(p) PROVE IInv'
<1>1. TypeOK'
  <2>1. attempts \in Nat /\ attempts' = attempts + 1
        /\ row' = [row EXCEPT !.status = "PENDING", !.attempt = attempts']
    BY Typed DEF Retry, IInv
  <2>2. row.pmid \in 0..attempts
        /\ row' = [row EXCEPT !.status = "PENDING", !.attempt = attempts', !.pmid = row.pmid]
    BY <2>1, Typed DEF IInv, TypeOK, Rows
  <2>3. row' \in Rows'
    BY <2>1, <2>2, RowClaimed DEF IInv
  <2> QED
    BY <2>1, <2>3, NextAttempt DEF Retry, Actors, IInv
<1>2. CallsInv'
  BY SMTT(20) DEF IInv, Retry, At, CallsInv, HolderWorks, Working, PcKinds,
       UniqueAttempt, TypeOK, Calls
<1>3. RowInv'
  BY SMTT(20) DEF IInv, Retry, At, RowInv, Mode, RowLatest, DirectSent
<1>4. ClaimInv'
  BY SMTT(20) DEF IInv, Retry, At, ClaimInv, TriedIsPending, RequestPending,
       CleanupAcked, Exists
<1>5. LeaseInv'
  BY SMTT(20) DEF IInv, Retry, At, LeaseInv, FreshIsLatest, Actors, StaleHeld,
       TypeOK, RequestPending, Mode, HolderWorks, Working, ClaimInv, RowInv,
       CallsInv
<1>6. DeliveryInv'
  BY SMTT(20) DEF IInv, Retry, history, At, DeliveryInv, NotAccepted, Actors,
       Settled, Exists, Superseded, TypeOK, RequestPending, Mode, DirectSent,
       ClaimInv, RowInv
<1> QED
  BY <1>1, <1>2, <1>3, <1>4, <1>5, <1>6 DEF IInv

LEMMA RetryLostKeeps == ASSUME NEW p \in Requests, IInv, RetryLost(p) PROVE IInv'
<1>1. TypeOK'
  BY SMTT(20) DEF IInv, RetryLost, history, Finish, NoCall, TypeOK, Calls,
       Actors, Rows
<1>2. CallsInv'
  BY SMTT(20) DEF IInv, RetryLost, Finish, NoCall, At, CallsInv, HolderWorks,
       Working, PcKinds, UniqueAttempt
<1>3. RowInv'
  BY SMTT(20) DEF IInv, RetryLost, Finish, At, RowInv, Mode, RowLatest, Exists,
       DirectSent
<1>4. ClaimInv'
  BY SMTT(20) DEF IInv, RetryLost, Finish, NoCall, At, ClaimInv, TriedIsPending,
       RequestPending, CleanupAcked, Exists
<1>5. LeaseInv'
  BY SMTT(20) DEF IInv, RetryLost, history, Finish, NoCall, LeaseInv,
       FreshIsLatest, StaleHeld, TypeOK
<1>6. DeliveryInv'
  BY SMTT(20) DEF IInv, RetryLost, history, Finish, NoCall, At, DeliveryInv,
       NotAccepted, Settled, Exists, Superseded
<1> QED
  BY <1>1, <1>2, <1>3, <1>4, <1>5, <1>6 DEF IInv

LEMMA CreateKeeps == ASSUME NEW p \in Requests, IInv, Create(p) PROVE IInv'
<1>1. TypeOK'
  <2>1. attempts \in Nat /\ attempts' = attempts + 1
        /\ row' = [kind |-> "direct", sched |-> "null", status |-> "PENDING", pmid |-> 0, attempt |-> attempts']
    BY Typed DEF Create, NoRow, IInv
  <2>2. row' \in Rows'
    BY <2>1, SMTT(20) DEF Rows, External
  <2> QED
    BY <2>1, <2>2, NextAttempt DEF Create, Actors, IInv
<1>2. CallsInv'
  BY SMTT(20) DEF IInv, Create, At, CallsInv, HolderWorks, Working, PcKinds,
       UniqueAttempt, TypeOK, Calls
<1>3. RowInv'
  BY SMTT(20) DEF IInv, Create, NoRow, At, RowInv, Mode, RowLatest, DirectSent
<1>4. ClaimInv'
  BY SMTT(20) DEF IInv, Create, Exists, At, ClaimInv, TriedIsPending,
       RequestPending, CleanupAcked, Actors, Mode, RowInv
<1>5. LeaseInv'
  BY SMTT(20) DEF IInv, Create, Exists, At, LeaseInv, FreshIsLatest, StaleHeld,
       TypeOK, Mode, RowInv
<1>6. DeliveryInv'
  BY SMTT(20) DEF IInv, Create, history, Exists, At, DeliveryInv, NotAccepted,
       Settled, Superseded, TypeOK, Mode, RowInv
<1> QED
  BY <1>1, <1>2, <1>3, <1>4, <1>5, <1>6 DEF IInv

LEMMA CreateRefusedKeeps == ASSUME NEW p \in Requests, IInv, CreateRefused(p) PROVE IInv'
<1>1. TypeOK'
  BY SMTT(20) DEF IInv, CreateRefused, history, Finish, NoCall, TypeOK, Calls,
       Actors, Rows
<1>2. CallsInv'
  BY SMTT(20) DEF IInv, CreateRefused, Finish, NoCall, At, CallsInv,
       HolderWorks, Working, PcKinds, UniqueAttempt
<1>3. RowInv'
  BY SMTT(20) DEF IInv, CreateRefused, Finish, NoCall, At, RowInv, Mode,
       RowLatest, DirectSent
<1>4. ClaimInv'
  BY SMTT(20) DEF IInv, CreateRefused, Finish, NoCall, At, ClaimInv,
       TriedIsPending, RequestPending, CleanupAcked
<1>5. LeaseInv'
  BY SMTT(20) DEF IInv, CreateRefused, history, Finish, NoCall, LeaseInv,
       FreshIsLatest, StaleHeld, TypeOK
<1>6. DeliveryInv'
  BY SMTT(20) DEF IInv, CreateRefused, history, Finish, NoCall, At, DeliveryInv,
       NotAccepted, Settled, Superseded
<1> QED
  BY <1>1, <1>2, <1>3, <1>4, <1>5, <1>6 DEF IInv

-----------------------------------------------------------------------------
(* What follows the claim, for both *)

LEMMA UnsupportedKeeps == ASSUME NEW p \in Actors, IInv, Unsupported(p) PROVE IInv'
<1>1. TypeOK'
  BY SMTT(20) DEF IInv, Unsupported, history, Goto, TypeOK, Calls, Rows
<1>2. CallsInv'
  BY SMTT(20) DEF IInv, Unsupported, Goto, At, CallsInv, HolderWorks, Working,
       PcKinds, UniqueAttempt
<1>3. RowInv'
  BY SMTT(20) DEF IInv, Unsupported, Goto, At, RowInv, Mode, RowLatest, Exists,
       DirectSent
<1>4. ClaimInv'
  BY SMTT(20) DEF IInv, Unsupported, Goto, At, ClaimInv, TriedIsPending,
       RequestPending, CleanupAcked, Exists
<1>5. LeaseInv'
  BY SMTT(20) DEF IInv, Unsupported, history, Goto, LeaseInv, FreshIsLatest,
       StaleHeld
<1>6. DeliveryInv'
  BY SMTT(20) DEF IInv, Unsupported, history, Goto, At, DeliveryInv,
       NotAccepted, Settled, Exists, Superseded
<1> QED
  BY <1>1, <1>2, <1>3, <1>4, <1>5, <1>6 DEF IInv

LEMMA AcceptKeeps == ASSUME NEW p \in Actors, IInv, Accept(p) PROVE IInv'
<1>1. TypeOK'
  BY SMTT(20) DEF IInv, Accept, Goto, At, TypeOK, Calls, Rows, HolderWorks,
       Working, CallsInv
<1>2. CallsInv'
  BY SMTT(20) DEF IInv, Accept, Goto, At, CallsInv, HolderWorks, Working,
       PcKinds, UniqueAttempt
<1>3. RowInv'
  BY SMTT(20) DEF IInv, Accept, Goto, At, RowInv, Mode, RowLatest, Exists,
       DirectSent
<1>4. ClaimInv'
  BY SMTT(20) DEF IInv, Accept, Goto, At, ClaimInv, TriedIsPending,
       RequestPending, CleanupAcked, Exists
<1>5. LeaseInv'
  BY SMTT(20) DEF IInv, Accept, Goto, LeaseInv, FreshIsLatest, StaleHeld
<1>6. DeliveryInv'
  BY SMTT(20) DEF IInv, Accept, Goto, At, DeliveryInv, NotAccepted, Settled,
       Exists, Superseded, TypeOK, FreshIsLatest, StaleHeld, HolderWorks,
       Working, UniqueAttempt, LeaseInv, CallsInv
<1> QED
  BY <1>1, <1>2, <1>3, <1>4, <1>5, <1>6 DEF IInv

LEMMA RefuseKeeps == ASSUME NEW p \in Actors, IInv, Refuse(p) PROVE IInv'
<1>1. TypeOK'
  BY SMTT(20) DEF IInv, Refuse, history, Goto, TypeOK, Calls, Rows
<1>2. CallsInv'
  BY SMTT(20) DEF IInv, Refuse, Goto, At, CallsInv, HolderWorks, Working,
       PcKinds, UniqueAttempt
<1>3. RowInv'
  BY SMTT(20) DEF IInv, Refuse, Goto, At, RowInv, Mode, RowLatest, Exists,
       DirectSent
<1>4. ClaimInv'
  BY SMTT(20) DEF IInv, Refuse, Goto, At, ClaimInv, TriedIsPending,
       RequestPending, CleanupAcked, Exists
<1>5. LeaseInv'
  BY SMTT(20) DEF IInv, Refuse, history, Goto, LeaseInv, FreshIsLatest,
       StaleHeld
<1>6. DeliveryInv'
  BY SMTT(20) DEF IInv, Refuse, history, Goto, At, DeliveryInv, NotAccepted,
       Settled, Exists, Superseded
<1> QED
  BY <1>1, <1>2, <1>3, <1>4, <1>5, <1>6 DEF IInv

LEMMA AnswerLostKeeps == ASSUME NEW p \in Actors, IInv, AnswerLost(p) PROVE IInv'
<1>1. TypeOK'
  BY ConstantsAssumption, SMTT(20) DEF IInv, AnswerLost, Goto, Fault, At,
       TypeOK, Calls, Rows, HolderWorks, Working, CallsInv
<1>2. CallsInv'
  BY SMTT(20) DEF IInv, AnswerLost, Goto, At, CallsInv, HolderWorks, Working,
       PcKinds, UniqueAttempt
<1>3. RowInv'
  BY SMTT(20) DEF IInv, AnswerLost, Goto, At, RowInv, Mode, RowLatest, Exists,
       DirectSent
<1>4. ClaimInv'
  BY SMTT(20) DEF IInv, AnswerLost, Goto, At, ClaimInv, TriedIsPending,
       RequestPending, CleanupAcked, Exists
<1>5. LeaseInv'
  BY SMTT(20) DEF IInv, AnswerLost, Goto, LeaseInv, FreshIsLatest, StaleHeld
<1>6. DeliveryInv'
  BY SMTT(20) DEF IInv, AnswerLost, Goto, At, DeliveryInv, NotAccepted, Settled,
       Exists, Superseded, TypeOK, HolderWorks, Working, UniqueAttempt, CallsInv
<1> QED
  BY <1>1, <1>2, <1>3, <1>4, <1>5, <1>6 DEF IInv

LEMMA AckKeeps == ASSUME NEW p \in Actors, IInv, Ack(p) PROVE IInv'
<1>1. TypeOK'
  <2>1. attempts' = attempts /\ row' = [row EXCEPT !.status = "SENT", !.pmid = call[p].attempt]
    BY DEF Ack
  <2>2. row' \in Rows'
    BY <2>1, Typed DEF IInv, TypeOK, Rows
  <2> QED
    BY <2>2, SMTT(20) DEF IInv, TypeOK, Ack, Calls, history, Finish, Goto, NoCall
<1>2. CallsInv'
  BY ConstantsAssumption, SMTT(20) DEF IInv, Ack, Finish, NoCall, Goto, At,
       CallsInv, HolderWorks, Working, Actors, PcKinds, UniqueAttempt, TypeOK,
       Calls
<1>3. RowInv'
  BY SMTT(20) DEF IInv, Ack, Finish, Goto, At, RowInv, Mode, NoRow, RowLatest,
       DirectSent, TypeOK, Calls, Actors, HolderWorks, Working, CallsInv
<1>4. ClaimInv'
  BY SMTT(20) DEF IInv, Ack, Finish, NoCall, Goto, At, ClaimInv, TriedIsPending,
       RequestPending, CleanupAcked, Actors, TypeOK, Mode, HolderWorks, Working,
       UniqueAttempt, RowInv, CallsInv
<1>5. LeaseInv'
  BY SMTT(20) DEF IInv, Ack, history, Finish, NoCall, Goto, LeaseInv,
       FreshIsLatest, StaleHeld, TypeOK, Calls
<1>6. DeliveryInv'
  BY SMTT(20) DEF IInv, Ack, history, Finish, NoCall, Goto, At, DeliveryInv,
       NotAccepted, Settled, Superseded, TypeOK, Calls, HolderWorks, Working,
       CallsInv
<1> QED
  BY <1>1, <1>2, <1>3, <1>4, <1>5, <1>6 DEF IInv

LEMMA AckThrowsKeeps == ASSUME NEW p \in Actors, IInv, AckThrows(p) PROVE IInv'
<1>1. TypeOK'
  BY ConstantsAssumption, SMTT(20) DEF IInv, AckThrows, history, Goto, Fault,
       TypeOK, Calls, Rows
<1>2. CallsInv'
  BY SMTT(20) DEF IInv, AckThrows, Goto, At, CallsInv, HolderWorks, Working,
       PcKinds, UniqueAttempt
<1>3. RowInv'
  BY SMTT(20) DEF IInv, AckThrows, Goto, Exists, At, RowInv, Mode, RowLatest,
       DirectSent
<1>4. ClaimInv'
  BY SMTT(20) DEF IInv, AckThrows, Goto, Exists, At, ClaimInv, TriedIsPending,
       RequestPending, CleanupAcked
<1>5. LeaseInv'
  BY SMTT(20) DEF IInv, AckThrows, history, Goto, LeaseInv, FreshIsLatest,
       StaleHeld
<1>6. DeliveryInv'
  BY SMTT(20) DEF IInv, AckThrows, history, Goto, Exists, At, DeliveryInv,
       NotAccepted, Settled, Superseded
<1> QED
  BY <1>1, <1>2, <1>3, <1>4, <1>5, <1>6 DEF IInv

LEMMA AckAgainKeeps == ASSUME NEW p \in Actors, IInv, AckAgain(p) PROVE IInv'
<1>1. TypeOK'
  <2>1. attempts' = attempts /\ row' = [row EXCEPT !.status = "SENT", !.pmid = call[p].attempt]
    BY DEF AckAgain
  <2>2. row' \in Rows'
    BY <2>1, Typed DEF IInv, TypeOK, Rows
  <2> QED
    BY <2>2, SMTT(20) DEF IInv, TypeOK, AckAgain, Calls, history, Finish, Goto, NoCall
<1>2. CallsInv'
  BY ConstantsAssumption, SMTT(20) DEF IInv, AckAgain, Finish, NoCall, Goto,
       Acknowledgeable, At, CallsInv, HolderWorks, Working, Actors, PcKinds,
       UniqueAttempt, TypeOK, Calls
<1>3. RowInv'
  BY SMTT(20) DEF IInv, AckAgain, Finish, Goto, Acknowledgeable, At, RowInv,
       Mode, NoRow, RowLatest, DirectSent, TypeOK, Actors, HolderWorks, Working,
       CallsInv
<1>4. ClaimInv'
  BY SMTT(20) DEF IInv, AckAgain, Finish, NoCall, Goto, Acknowledgeable, At,
       ClaimInv, TriedIsPending, RequestPending, CleanupAcked, Actors, TypeOK,
       Mode, HolderWorks, Working, UniqueAttempt, RowInv, CallsInv
<1>5. LeaseInv'
  BY SMTT(20) DEF IInv, AckAgain, history, Finish, NoCall, Goto,
       Acknowledgeable, LeaseInv, FreshIsLatest, StaleHeld, TypeOK, Calls
<1>6. DeliveryInv'
  BY SMTT(20) DEF IInv, AckAgain, history, Finish, NoCall, Goto,
       Acknowledgeable, At, DeliveryInv, NotAccepted, Settled, Superseded,
       TypeOK, Calls, HolderWorks, Working, CallsInv
<1> QED
  BY <1>1, <1>2, <1>3, <1>4, <1>5, <1>6 DEF IInv

LEMMA AckGivenUpKeeps == ASSUME NEW p \in Actors, IInv, AckGivenUp(p) PROVE IInv'
<1>1. TypeOK'
  <2>1. /\ attempts' = attempts /\ call[p].attempt # 0
        /\ unconfirmed' = unconfirmed \cup {call[p].attempt}
    BY DEF IInv, AckGivenUp, CallsInv, HolderWorks, At, Working
  <2>2. unconfirmed' \subseteq 1..attempts'
    BY <2>1, Typed, OneMore DEF IInv, TypeOK
  <2> QED
    BY ConstantsAssumption, <2>2, SMTT(20) DEF IInv, TypeOK, AckGivenUp, Calls, history, Rows, Finish, NoCall, Fault
<1>2. CallsInv'
  BY SMTT(20) DEF IInv, AckGivenUp, Finish, NoCall, Acknowledgeable, At,
       CallsInv, HolderWorks, Working, PcKinds, UniqueAttempt
<1>3. RowInv'
  BY SMTT(20) DEF IInv, AckGivenUp, Finish, Acknowledgeable, Exists, At, RowInv,
       Mode, RowLatest, DirectSent
<1>4. ClaimInv'
  BY SMTT(20) DEF IInv, AckGivenUp, Finish, NoCall, Acknowledgeable, Exists, At,
       ClaimInv, TriedIsPending, RequestPending, CleanupAcked
<1>5. LeaseInv'
  BY SMTT(20) DEF IInv, AckGivenUp, Finish, NoCall, Acknowledgeable, LeaseInv,
       FreshIsLatest, StaleHeld, TypeOK
<1>6. DeliveryInv'
  BY SMTT(20) DEF IInv, AckGivenUp, Finish, NoCall, Acknowledgeable, Exists, At,
       DeliveryInv, NotAccepted, Settled, Superseded
<1> QED
  BY <1>1, <1>2, <1>3, <1>4, <1>5, <1>6 DEF IInv

LEMMA CleanupKeeps == ASSUME NEW p \in Actors, IInv, Cleanup(p) PROVE IInv'
<1>1. TypeOK'
  BY SMTT(20) DEF IInv, Cleanup, history, Finish, NoCall, TypeOK, Calls, Rows
<1>2. CallsInv'
  BY SMTT(20) DEF IInv, Cleanup, Finish, NoCall, At, CallsInv, HolderWorks,
       Working, PcKinds, UniqueAttempt
<1>3. RowInv'
  BY SMTT(20) DEF IInv, Cleanup, Finish, Exists, At, RowInv, Mode, NoRow,
       RowLatest, DirectSent
<1>4. ClaimInv'
  BY SMTT(20) DEF IInv, Cleanup, Finish, NoCall, Exists, ClaimInv,
       TriedIsPending, RequestPending, CleanupAcked
<1>5. LeaseInv'
  BY SMTT(20) DEF IInv, Cleanup, history, Finish, NoCall, LeaseInv,
       FreshIsLatest, StaleHeld, TypeOK
<1>6. DeliveryInv'
  BY SMTT(20) DEF IInv, Cleanup, history, Finish, NoCall, Exists, At,
       DeliveryInv, NotAccepted, Settled, Superseded
<1> QED
  BY <1>1, <1>2, <1>3, <1>4, <1>5, <1>6 DEF IInv

LEMMA CleanupThrowsKeeps == ASSUME NEW p \in Actors, IInv, CleanupThrows(p) PROVE IInv'
<1>1. TypeOK'
  BY ConstantsAssumption, SMTT(20) DEF IInv, CleanupThrows, history, Finish,
       NoCall, Fault, TypeOK, Calls, Rows
<1>2. CallsInv'
  BY SMTT(20) DEF IInv, CleanupThrows, Finish, NoCall, CallsInv, HolderWorks,
       Working, PcKinds, At, UniqueAttempt
<1>3. RowInv'
  BY SMTT(20) DEF IInv, CleanupThrows, Finish, RowInv, Mode, At, RowLatest,
       Exists, DirectSent
<1>4. ClaimInv'
  BY SMTT(20) DEF IInv, CleanupThrows, Finish, NoCall, ClaimInv, TriedIsPending,
       RequestPending, CleanupAcked, Exists, At
<1>5. LeaseInv'
  BY SMTT(20) DEF IInv, CleanupThrows, history, Finish, NoCall, LeaseInv,
       FreshIsLatest, StaleHeld, TypeOK
<1>6. DeliveryInv'
  BY SMTT(20) DEF IInv, CleanupThrows, history, Finish, NoCall, DeliveryInv,
       NotAccepted, At, Settled, Exists, Superseded
<1> QED
  BY <1>1, <1>2, <1>3, <1>4, <1>5, <1>6 DEF IInv

LEMMA MarkFailedKeeps == ASSUME NEW p \in Actors, IInv, MarkFailed(p) PROVE IInv'
<1>1. TypeOK'
  <2>1. \/ row' = row
        \/ row' = [row EXCEPT !.status = "FAILED"]
        \/ row' = [row EXCEPT !.status = "FAILED", !.sched = "null"]
    BY DEF MarkFailed
  <2>2. row' \in Rows'
    BY <2>1, Typed DEF IInv, TypeOK, Rows, MarkFailed
  <2> QED
    BY <2>2, SMTT(20) DEF IInv, TypeOK, MarkFailed, Calls, history, Finish, NoCall
<1>2. CallsInv'
  BY SMTT(20) DEF IInv, MarkFailed, Finish, NoCall, At, CallsInv, HolderWorks,
       Working, PcKinds, UniqueAttempt
<1>3. RowInv'
  BY SMTT(20) DEF IInv, MarkFailed, Finish, Exists, At, RowInv, Mode, NoRow,
       Scheduled, RowLatest, DirectSent, HolderWorks, Working, Actors,
       RequestPending, CallsInv, ClaimInv
<1>4. ClaimInv'
  BY SMTT(20) DEF IInv, MarkFailed, Finish, NoCall, Exists, At, ClaimInv,
       TriedIsPending, RequestPending, CleanupAcked, Actors, TypeOK, Mode,
       HolderWorks, Working, UniqueAttempt, RowInv, CallsInv
<1>5. LeaseInv'
  BY SMTT(20) DEF IInv, MarkFailed, history, Finish, NoCall, LeaseInv,
       FreshIsLatest, StaleHeld, TypeOK
<1>6. DeliveryInv'
  BY SMTT(20) DEF IInv, MarkFailed, history, Finish, NoCall, Exists, At,
       DeliveryInv, NotAccepted, Settled, Superseded
<1> QED
  BY <1>1, <1>2, <1>3, <1>4, <1>5, <1>6 DEF IInv

LEMMA MarkFailedThrowsKeeps == ASSUME NEW p \in Actors, IInv, MarkFailedThrows(p) PROVE IInv'
<1>1. TypeOK'
  BY ConstantsAssumption, SMTT(20) DEF IInv, MarkFailedThrows, history, Finish,
       NoCall, Fault, TypeOK, Calls, Rows
<1>2. CallsInv'
  BY SMTT(20) DEF IInv, MarkFailedThrows, Finish, NoCall, At, CallsInv,
       HolderWorks, Working, PcKinds, UniqueAttempt
<1>3. RowInv'
  BY SMTT(20) DEF IInv, MarkFailedThrows, Finish, At, RowInv, Mode, RowLatest,
       Exists, DirectSent
<1>4. ClaimInv'
  BY SMTT(20) DEF IInv, MarkFailedThrows, Finish, NoCall, At, ClaimInv,
       TriedIsPending, RequestPending, CleanupAcked, Exists
<1>5. LeaseInv'
  BY SMTT(20) DEF IInv, MarkFailedThrows, history, Finish, NoCall, LeaseInv,
       FreshIsLatest, StaleHeld, TypeOK
<1>6. DeliveryInv'
  BY SMTT(20) DEF IInv, MarkFailedThrows, history, Finish, NoCall, At,
       DeliveryInv, NotAccepted, Settled, Exists, Superseded
<1> QED
  BY <1>1, <1>2, <1>3, <1>4, <1>5, <1>6 DEF IInv

-----------------------------------------------------------------------------
(* The theorems *)

\* IInv speaks of the variables only.
LEMMA StutterKeeps == ASSUME IInv, UNCHANGED vars PROVE IInv'
<1>1. TypeOK'
  BY DEF IInv, vars, TypeOK, Rows, Calls
<1>2. CallsInv'
  BY DEF IInv, vars, CallsInv, HolderWorks, PcKinds, UniqueAttempt, At
<1>3. RowInv'
  BY DEF IInv, vars, RowInv, Mode, RowLatest, DirectSent, At, Exists
<1>4. ClaimInv'
  BY DEF IInv, vars, ClaimInv, TriedIsPending, RequestPending, CleanupAcked, At, Exists
<1>5. LeaseInv'
  BY DEF IInv, vars, LeaseInv, FreshIsLatest, StaleHeld
<1>6. DeliveryInv'
  BY DEF IInv, vars, DeliveryInv, NotAccepted, Settled, Superseded, At, Exists
<1> QED
  BY <1>1, <1>2, <1>3, <1>4, <1>5, <1>6 DEF IInv

LEMMA OutcomeKeeps == ASSUME NEW p \in Actors, IInv, Outcome(p) PROVE IInv'
  BY UnsupportedKeeps, AcceptKeeps, RefuseKeeps, AnswerLostKeeps, AckKeeps,
       AckThrowsKeeps, AckAgainKeeps, AckGivenUpKeeps, CleanupKeeps,
       CleanupThrowsKeeps, MarkFailedKeeps, MarkFailedThrowsKeeps
     DEF Outcome

LEMMA PassKeeps == ASSUME NEW p \in Passes, IInv, Pass(p) PROVE IInv'
  BY PassReadKeeps, FinalizeKeeps, ClaimKeeps, ClaimLostKeeps, ShowNoteKeeps,
       OutcomeKeeps
     DEF Pass, Actors

LEMMA RequestKeeps == ASSUME NEW p \in Requests, IInv, Request(p) PROVE IInv'
  BY LookupKeeps, RetryKeeps, RetryLostKeeps, CreateKeeps, CreateRefusedKeeps,
       OutcomeKeeps
     DEF Request, Actors

LEMMA NextKeeps == ASSUME IInv, [Next]_vars PROVE IInv'
  BY ScheduleKeeps, FallDueKeeps, LeaseEndsKeeps, LeaseOverrunKeeps,
       CancelReadKeeps, CancelDeleteKeeps, CrashKeeps, PassKeeps, RequestKeeps,
       StutterKeeps
     DEF Next, Rest

LEMMA InitHolds == ASSUME Init PROVE IInv
<1>1. TypeOK
  <2>1. row \in Rows
    BY DEF Init, NoRow, Rows
  <2>2. call \in [Actors -> Calls]
    BY DEF Init, NoCall, Calls
  <2> QED
    BY <2>1, <2>2, ConstantsAssumption DEF Init, TypeOK
<1>2. CallsInv
  BY DEF Init, NoCall, At, Working, CallsInv, HolderWorks, PcKinds, UniqueAttempt, Actors
<1>3. RowInv
  BY DEF Init, NoCall, NoRow, At, Exists, RowInv, Mode, RowLatest, DirectSent, Actors
<1>4. ClaimInv
  BY DEF Init, NoCall, NoRow, At, Exists, ClaimInv, TriedIsPending, RequestPending,
         CleanupAcked, Scheduled, Actors
<1>5. LeaseInv
  BY DEF Init, NoCall, LeaseInv, FreshIsLatest, StaleHeld
<1>6. DeliveryInv
  BY DEF Init, NoCall, At, DeliveryInv, NotAccepted, Settled, Superseded
<1> QED
  BY <1>1, <1>2, <1>3, <1>4, <1>5, <1>6 DEF IInv

\* The invariant holds in every state passes, requests, crashes and the
\* canceller can reach (processScheduledMessages, deliverExternalMessage).
THEOREM Inductive == Spec => []IInv
<1>1. Init => IInv
  BY InitHolds
<1>2. IInv /\ [Next]_vars => IInv'
  BY NextKeeps
<1> QED
  BY <1>1, <1>2, PTL DEF Spec

\* Every variable keeps its type, and message ids and claims belong to attempts
\* that were made.
THEOREM TypeCorrect == Spec => []TypeOK
<1>1. IInv => TypeOK
  BY DEF IInv
<1> QED
  BY <1>1, Inductive, PTL

\* Any number of passes and requests: at most one of those whose claim has not
\* outlived its lease talks to the provider (the claim by updateMany).
THEOREM MutualExclusion == Spec => []OneHolder
<1>1. ASSUME IInv PROVE OneHolder
  <2>1. SUFFICES ASSUME NEW p \in Actors, NEW q \in Actors,
                        call[p].attempt \notin {0} \cup stale,
                        call[q].attempt \notin {0} \cup stale
                 PROVE  p = q
    BY DEF OneHolder
  <2>2. call[p].attempt = attempts /\ call[q].attempt = attempts
    BY <1>1, <2>1 DEF IInv, LeaseInv, FreshIsLatest
  <2> QED
    BY <1>1, <2>1, <2>2 DEF IInv, CallsInv, UniqueAttempt
<1> QED
  BY <1>1, Inductive, PTL

\* The customer gets the message twice only when the outcome of the earlier
\* attempt could not be recorded, however often it is retried.
THEOREM NoNeedlessRedelivery == Spec => []RedeliveryExcused
<1>1. ASSUME IInv PROVE RedeliveryExcused
  <2>1. SUFFICES ASSUME NEW a \in accepted, NEW b \in accepted, a < b
                 PROVE  a \in unconfirmed
    BY DEF RedeliveryExcused
  <2>2. a < attempts
    BY <1>1, <2>1 DEF IInv, TypeOK
  <2> QED
    BY <1>1, <2>2 DEF IInv, DeliveryInv, Superseded
<1> QED
  BY <1>1, Inductive, PTL

\* Only Schedule, Claim, Retry and Create could take the id away or start an
\* attempt, and none of them is possible once the id is stored.
LEMMA DurableStep ==
    ASSUME IInv, [Next]_vars, row.pmid # 0
    PROVE  row' = NoRow \/ (row'.pmid # 0 /\ attempts' = attempts)
<1> DEFINE Kept == row' = NoRow \/ (row'.pmid # 0 /\ attempts' = attempts)
<1> USE DEF Kept
<1>1. Exists /\ row \in Rows
  BY DEF IInv, RowInv, Mode, NoRow, Exists, Scheduled, TypeOK, Rows
<1>2. ASSUME NEW p \in Actors, Outcome(p) PROVE Kept
  <2>1. CASE Ack(p) \/ AckAgain(p)
    <3>1. call[p].attempt # 0
      BY <2>1 DEF IInv, CallsInv, HolderWorks, Working, At, Ack, AckAgain
    <3>2. row' = [row EXCEPT !.status = "SENT", !.pmid = call[p].attempt] /\ attempts' = attempts
      BY <2>1 DEF Ack, AckAgain
    <3> QED
      BY <1>1, <3>1, <3>2 DEF Rows
  <2>2. CASE Cleanup(p) \/ MarkFailed(p)
    <3>1. /\ attempts' = attempts
          /\ \/ row' = [row EXCEPT !.sched = "null"]
             \/ row' = [row EXCEPT !.status = "FAILED"]
             \/ row' = [row EXCEPT !.status = "FAILED", !.sched = "null"]
      BY <1>1, <2>2 DEF Cleanup, MarkFailed, Rows
    <3> QED
      BY <1>1, <3>1 DEF Rows
  <2>3. CASE \/ Unsupported(p) \/ Accept(p) \/ Refuse(p) \/ AnswerLost(p) \/ AckThrows(p)
             \/ AckGivenUp(p) \/ CleanupThrows(p) \/ MarkFailedThrows(p)
    BY <2>3 DEF Unsupported, Accept, Refuse, AnswerLost, AckThrows, AckGivenUp,
                CleanupThrows, MarkFailedThrows
  <2> QED
    BY <1>2, <2>1, <2>2, <2>3 DEF Outcome
<1>3. ASSUME NEW p \in Passes, Pass(p) PROVE Kept
  <2>1. CASE Finalize(p) \/ ShowNote(p)
    <3>1. /\ attempts' = attempts
          /\ \/ row' = row
             \/ row' = [row EXCEPT !.sched = "null"]
             \/ row' = [row EXCEPT !.sched = "null", !.status = "SENT"]
      BY <2>1 DEF Finalize, ShowNote
    <3> QED
      BY <1>1, <3>1 DEF Rows
  <2>2. CASE PassRead(p) \/ Claim(p) \/ ClaimLost(p)
    BY <2>2 DEF PassRead, Claim, ClaimLost
  <2> QED
    BY <1>2, <1>3, <2>1, <2>2 DEF Pass, Actors
<1>4. ASSUME NEW p \in Requests, Request(p) PROVE Kept
  <2>1. ~Retry(p)
    <3>1. SUFFICES ASSUME Retry(p) PROVE FALSE
      OBVIOUS
    <3>2. row.kind = "direct"
      BY <1>1, <3>1 DEF IInv, RowInv, Mode, Retry, At, Exists, NoRow
    <3> QED
      BY <3>1, <3>2 DEF IInv, RowInv, DirectSent, Retry
  <2>2. CASE Lookup(p) \/ RetryLost(p) \/ Create(p) \/ CreateRefused(p)
    BY <1>1, <2>2 DEF Lookup, RetryLost, Create, CreateRefused
  <2> QED
    BY <1>2, <1>4, <2>1, <2>2 DEF Request, Actors
<1>5. CASE FallDue
  <2>1. row' = [row EXCEPT !.sched = "due"] /\ attempts' = attempts
    BY <1>5 DEF FallDue
  <2> QED
    BY <1>1, <2>1 DEF Rows
<1>6. CASE \/ Schedule \/ LeaseEnds \/ LeaseOverrun \/ CancelRead \/ CancelDelete
           \/ Crash \/ Rest \/ UNCHANGED vars
  BY <1>1, <1>6 DEF Schedule, LeaseEnds, LeaseOverrun, CancelRead, CancelDelete, Crash,
                    Rest, vars
<1> QED
  BY <1>3, <1>4, <1>5, <1>6 DEF Next

\* Once the provider's id is stored it stays until the row is deleted, and no
\* attempt starts any more (the comment of the acknowledgement).
THEOREM DurableAcknowledgement == Spec => AckDurable
<1>1. IInv /\ [Next]_vars =>
        [row.pmid # 0 => \/ row' = NoRow
                         \/ row'.pmid # 0 /\ attempts' = attempts]_vars
  BY DurableStep
<1> QED
  BY <1>1, Inductive, PTL DEF Spec, AckDurable

-----------------------------------------------------------------------------
(* Refinement.  An attempt starts only when every accepted one is unconfirmed,
   which is Superseded after the step; an attempt that is accepted late has
   outlived its lease; and the id in the row was given by the provider (Acked). *)

Acked == \A p \in Actors : call[p].pc \in {"ack", "ack_again"} => call[p].attempt \in accepted

\* A step gives at most one call a new state, and only acceptance brings it to
\* its acknowledgement.
LEMMA AckedMoves ==
    ASSUME Acked, NEW p \in Actors, \A q \in Actors \ {p} : call'[q] = call[q],
           accepted \subseteq accepted',
           call'[p].pc \in {"ack", "ack_again"} => call'[p].attempt \in accepted'
    PROVE  Acked'
  BY DEF Acked

\* The call goes somewhere else.
LEMMA AckedLeaves ==
    ASSUME Acked, IInv, NEW p \in Actors, accepted' = accepted,
           \/ Finish(p)
           \/ \E l \in {"claim", "create", "fail", "cleanup"} : Goto(p, l)
           \/ call' = call
    PROVE  Acked'
<1>1. call \in [Actors -> Calls]
  BY DEF IInv, TypeOK
<1>2. CASE Finish(p)
  BY <1>1, <1>2, AckedMoves DEF Finish, NoCall
<1>3. ASSUME NEW l \in {"claim", "create", "fail", "cleanup"}, Goto(p, l) PROVE Acked'
  BY <1>1, <1>3, AckedMoves DEF Goto, Calls
<1>4. CASE call' = call
  BY <1>4 DEF Acked
<1> QED
  BY <1>2, <1>3, <1>4

LEMMA OutcomeAcked == ASSUME IInv, Acked, NEW p \in Actors, Outcome(p) PROVE Acked'
<1>1. call \in [Actors -> Calls]
  BY DEF IInv, TypeOK
<1>2. CASE Accept(p)
  BY <1>1, <1>2, AckedMoves DEF Accept, Goto, Calls
<1>3. CASE AckThrows(p)
  <2>1. /\ call'[p].attempt = call[p].attempt /\ call[p].attempt \in accepted
        /\ \A q \in Actors \ {p} : call'[q] = call[q]
    BY <1>1, <1>3 DEF AckThrows, At, Goto, Calls, Acked
  <2> QED
    BY <1>3, <2>1, AckedMoves DEF AckThrows, history
<1>4. CASE AnswerLost(p)
  BY <1>1, <1>4, AckedMoves DEF AnswerLost, Goto, Calls
<1>5. CASE Unsupported(p) \/ Refuse(p) \/ Ack(p) \/ AckAgain(p) \/ AckGivenUp(p)
  BY <1>5, AckedLeaves DEF Unsupported, Refuse, Ack, AckAgain, AckGivenUp, history
<1>6. CASE Cleanup(p) \/ CleanupThrows(p) \/ MarkFailed(p) \/ MarkFailedThrows(p)
  BY <1>6, AckedLeaves DEF Cleanup, CleanupThrows, MarkFailed, MarkFailedThrows, history
<1> QED
  BY <1>2, <1>3, <1>4, <1>5, <1>6 DEF Outcome

LEMMA AckedKeeps == ASSUME IInv, Acked, [Next]_vars PROVE Acked'
<1>1. call \in [Actors -> Calls] /\ Passes \subseteq Actors /\ Requests \subseteq Actors
  BY DEF IInv, TypeOK, Actors
<1>2. ASSUME NEW p \in Passes, Pass(p) PROVE Acked'
  <2>1. CASE PassRead(p)
    <3>1. /\ call'[p].pc \in {"finalize", "claim"} /\ accepted' = accepted
          /\ \A q \in Actors \ {p} : call'[q] = call[q]
      BY <1>1, <2>1 DEF PassRead, history
    <3> QED
      BY <1>1, <3>1, AckedMoves
  <2>2. CASE Claim(p)
    <3> DEFINE v == [call[p] EXCEPT !.pc = IF row.kind = "internal" THEN "note" ELSE "send",
                                    !.attempt = attempts']
    <3>1. call' = [call EXCEPT ![p] = v] /\ accepted' = accepted
      BY <2>2 DEF Claim, history
    <3>2. v.pc \in {"note", "send"}
      BY <1>1 DEF Calls
    <3>3. call'[p].pc \notin {"ack", "ack_again"} /\ \A q \in Actors \ {p} : call'[q] = call[q]
      BY <1>1, <3>1, <3>2
    <3> QED
      BY <1>1, <3>1, <3>3, AckedMoves
  <2>3. CASE Finalize(p) \/ ClaimLost(p) \/ ShowNote(p)
    BY <1>1, <2>3, AckedLeaves DEF Finalize, ClaimLost, ShowNote, history
  <2> QED
    BY <1>1, <1>2, <2>1, <2>2, <2>3, OutcomeAcked DEF Pass
<1>3. ASSUME NEW p \in Requests, Request(p) PROVE Acked'
  <2>1. CASE Retry(p) \/ Create(p)
    <3> DEFINE v == [call[p] EXCEPT !.pc = "send", !.attempt = attempts']
    <3>1. call' = [call EXCEPT ![p] = v] /\ accepted' = accepted
      BY <2>1 DEF Retry, Create, history
    <3>2. v.pc = "send"
      BY <1>1 DEF Calls
    <3>3. call'[p].pc \notin {"ack", "ack_again"} /\ \A q \in Actors \ {p} : call'[q] = call[q]
      BY <1>1, <3>1, <3>2
    <3> QED
      BY <1>1, <3>1, <3>3, AckedMoves
  <2>2. CASE Lookup(p) \/ RetryLost(p) \/ CreateRefused(p)
    BY <1>1, <2>2, AckedLeaves DEF Lookup, RetryLost, CreateRefused, history
  <2> QED
    BY <1>1, <1>3, <2>1, <2>2, OutcomeAcked DEF Request
<1>4. CASE Crash
  BY <1>4 DEF Crash, Acked, NoCall
<1>5. CASE \/ Schedule \/ FallDue \/ LeaseEnds \/ LeaseOverrun \/ CancelRead \/ CancelDelete
           \/ Rest \/ UNCHANGED vars
  <2>1. call' = call /\ accepted' = accepted
    BY <1>5 DEF Schedule, FallDue, LeaseEnds, LeaseOverrun, CancelRead, CancelDelete, Rest,
       vars, history
  <2> QED
    BY <2>1 DEF Acked
<1> QED
  BY <1>2, <1>3, <1>4, <1>5 DEF Next

Seen == <<attempts, accepted, unconfirmed, row.pmid, canceller = "done">>

\* A step that changes none of the variables of the promise.
LEMMA HiddenStep ==
    ASSUME attempts' = attempts, accepted' = accepted, unconfirmed' = unconfirmed,
           row'.pmid = row.pmid, canceller' = canceller
    PROVE  [Promise!Next]_Seen
  BY DEF Seen

\* A claim is an attempt: nobody knows of a delivery, none is about to be known.
LEMMA TryStep ==
    ASSUME IInv, IInv', attempts' = attempts + 1, canceller # "done", row.pmid = 0,
           row'.pmid = 0, accepted' = accepted, unconfirmed' = unconfirmed,
           canceller' = canceller
    PROVE  [Promise!Next]_Seen
<1>1. accepted \subseteq 1..attempts /\ attempts \in Nat
  BY Typed DEF IInv, TypeOK
<1>2. \A a \in accepted : a < attempts'
  BY <1>1
<1>3. accepted \subseteq unconfirmed
  BY <1>2 DEF IInv, DeliveryInv, Superseded
<1>4. Promise!Try
  BY <1>3 DEF Promise!Try
<1> QED
  BY <1>4 DEF Promise!Next

\* A call that delivers holds a claim, the latest one or one past its lease.
LEMMA DeliverStep ==
    ASSUME IInv, NEW p \in Actors, At(p, "send"), accepted' = accepted \cup {call[p].attempt},
           unconfirmed' \in {unconfirmed, unconfirmed \cup {call[p].attempt}},
           attempts' = attempts, row' = row, canceller' = canceller
    PROVE  [Promise!Next]_Seen
<1> DEFINE a == call[p].attempt
<1>1. a \in 1..attempts
  BY Typed DEF IInv, CallsInv, HolderWorks, Working, At
<1>2. a \notin accepted
  BY DEF IInv, DeliveryInv, NotAccepted, At
<1>3. a = attempts \/ a \in unconfirmed
  BY <1>1 DEF IInv, LeaseInv, FreshIsLatest, StaleHeld
<1> HIDE DEF a
<1>4. Promise!Deliver(a)
  BY <1>1, <1>2, <1>3 DEF Promise!Deliver, a
<1> QED
  BY <1>1, <1>4 DEF Promise!Next

LEMMA LearnStep ==
    ASSUME IInv, Acked, NEW p \in Actors, call[p].pc \in {"ack", "ack_again"}, Exists,
           row'.pmid = call[p].attempt, attempts' = attempts, accepted' = accepted,
           unconfirmed' = unconfirmed, canceller' = canceller
    PROVE  [Promise!Next]_Seen
<1> DEFINE a == call[p].attempt
<1>1. a \in accepted /\ a \in 1..attempts
  BY DEF Acked, IInv, TypeOK
<1>2. canceller # "done"
  BY DEF IInv, RowInv, Mode, Exists, NoRow
<1> HIDE DEF a
<1>3. Promise!Learn(a)
  BY <1>1, <1>2 DEF Promise!Learn, a
<1> QED
  BY <1>1, <1>3 DEF Promise!Next

LEMMA LoseStep ==
    ASSUME NEW A \in SUBSET (1..attempts), unconfirmed' = unconfirmed \cup A,
           attempts' = attempts, accepted' = accepted, row' = row, canceller' = canceller
    PROVE  [Promise!Next]_Seen
<1>1. Promise!Lose(A)
  BY DEF Promise!Lose
<1> QED
  BY <1>1 DEF Promise!Next

LEMMA OutcomeImplements ==
    ASSUME IInv, Acked, NEW p \in Actors, Outcome(p)
    PROVE  [Promise!Next]_Seen
<1>1. row \in Rows
  BY DEF IInv, TypeOK
<1>2. CASE Accept(p) \/ AnswerLost(p)
  BY <1>2, DeliverStep DEF Accept, AnswerLost
<1>3. CASE Ack(p) \/ AckAgain(p)
  <2>1. row'.pmid = call[p].attempt
    BY <1>1, <1>3 DEF Ack, AckAgain, Rows
  <2> QED
    BY <1>3, <2>1, LearnStep DEF Ack, AckAgain, At, history
<1>4. CASE AckGivenUp(p)
  <2>1. call[p].attempt \in 1..attempts
    BY <1>4, Typed DEF IInv, CallsInv, HolderWorks, Working, At, AckGivenUp
  <2>2. {call[p].attempt} \in SUBSET (1..attempts)
    BY <2>1
  <2> QED
    BY <1>4, <2>2, LoseStep DEF AckGivenUp
<1>5. CASE Cleanup(p) \/ MarkFailed(p)
  <2>1. row'.pmid = row.pmid
    BY <1>1, <1>5 DEF Cleanup, MarkFailed, Rows
  <2> QED
    BY <1>5, <2>1, HiddenStep DEF Cleanup, MarkFailed, history
<1>6. CASE Unsupported(p) \/ Refuse(p) \/ AckThrows(p) \/ CleanupThrows(p) \/ MarkFailedThrows(p)
  BY <1>6, HiddenStep DEF Unsupported, Refuse, AckThrows, CleanupThrows, MarkFailedThrows,
     history
<1> QED
  BY <1>2, <1>3, <1>4, <1>5, <1>6 DEF Outcome

LEMMA StepImplements ==
    ASSUME IInv, IInv', Acked, [Next]_vars
    PROVE  [Promise!Next]_Seen
<1>1. row \in Rows /\ Passes \subseteq Actors /\ Requests \subseteq Actors
  BY DEF IInv, TypeOK, Actors
<1>2. Exists => canceller # "done"
  BY DEF IInv, RowInv, Mode, Exists, NoRow
<1>3. ASSUME NEW p \in Passes, Pass(p) PROVE [Promise!Next]_Seen
  <2>1. CASE Claim(p)
    <3>1. row'.pmid = 0
      BY <1>1, <2>1 DEF Claim, Rows
    <3>2. Exists
      BY <1>1, <2>1 DEF IInv, RowInv, Mode, Claim, NoRow, Exists, Scheduled
    <3> QED
      BY <1>2, <2>1, <3>1, <3>2, TryStep DEF Claim, history
  <2>2. CASE Finalize(p) \/ ShowNote(p)
    <3>1. row'.pmid = row.pmid
      BY <1>1, <2>2 DEF Finalize, ShowNote, Rows
    <3> QED
      BY <2>2, <3>1, HiddenStep DEF Finalize, ShowNote, history
  <2>3. CASE PassRead(p) \/ ClaimLost(p)
    BY <2>3, HiddenStep DEF PassRead, ClaimLost, history
  <2> QED
    BY <1>1, <1>3, <2>1, <2>2, <2>3, OutcomeImplements DEF Pass
<1>4. ASSUME NEW p \in Requests, Request(p) PROVE [Promise!Next]_Seen
  <2>1. CASE Retry(p)
    <3>1. row.kind = "direct"
      BY <1>1, <2>1 DEF IInv, RowInv, Mode, Retry, At, NoRow
    <3>2. row.pmid = 0 /\ Exists
      BY <2>1, <3>1 DEF IInv, RowInv, DirectSent, Retry, Exists
    <3>3. row'.pmid = 0
      BY <1>1, <2>1, <3>2 DEF Retry, Rows
    <3> QED
      BY <1>2, <2>1, <3>2, <3>3, TryStep DEF Retry, history
  <2>2. CASE Create(p)
    <3>1. row = NoRow /\ canceller = "idle"
      BY <2>2 DEF IInv, RowInv, Mode, Create, At, Exists, Scheduled
    <3>2. row.pmid = 0 /\ row'.pmid = 0
      BY <2>2, <3>1 DEF Create, NoRow
    <3> QED
      BY <2>2, <3>1, <3>2, TryStep DEF Create, history
  <2>3. CASE Lookup(p) \/ RetryLost(p) \/ CreateRefused(p)
    BY <2>3, HiddenStep DEF Lookup, RetryLost, CreateRefused, history
  <2> QED
    BY <1>1, <1>4, <2>1, <2>2, <2>3, OutcomeImplements DEF Request
<1>5. CASE LeaseOverrun
  <2>1. PICK p \in Passes : /\ call[p].attempt # 0
                            /\ unconfirmed' = unconfirmed \cup {call[p].attempt}
    BY <1>5 DEF LeaseOverrun
  <2>2. {call[p].attempt} \in SUBSET (1..attempts)
    BY <1>1, <2>1, Typed DEF IInv
  <2> QED
    BY <1>5, <2>1, <2>2, LoseStep DEF LeaseOverrun
<1>6. CASE Crash
  <2> DEFINE A == {call[p].attempt : p \in {q \in Actors : call[q].attempt # 0}}
  <2>1. A \in SUBSET (1..attempts)
    BY Typed DEF IInv
  <2>2. unconfirmed' = unconfirmed \cup A
    BY <1>6 DEF Crash
  <2> HIDE DEF A
  <2> QED
    BY <1>6, <2>1, <2>2, LoseStep DEF Crash
<1>7. CASE Schedule
  <2>1. row = NoRow
    BY <1>7 DEF IInv, RowInv, Mode, Schedule, Exists, Scheduled
  <2>2. row'.pmid = row.pmid
    BY <1>7, <2>1 DEF Schedule, NoRow
  <2> QED
    BY <1>7, <2>2, HiddenStep DEF Schedule, history
<1>8. CASE FallDue
  <2>1. row'.pmid = row.pmid
    BY <1>1, <1>8 DEF FallDue, Rows
  <2> QED
    BY <1>8, <2>1, HiddenStep DEF FallDue, history
<1>9. CASE CancelDelete
  <2>1. row'.pmid = 0 /\ canceller = "delete" /\ canceller' = "done"
    BY <1>9 DEF CancelDelete, NoRow
  <2>2. Promise!Withdraw
    BY <1>9, <2>1 DEF CancelDelete, history, Promise!Withdraw
  <2> QED
    BY <2>2 DEF Promise!Next
<1>10. CASE CancelRead
  BY <1>10 DEF CancelRead, history, Seen
<1>11. CASE LeaseEnds \/ Rest \/ UNCHANGED vars
  BY <1>11, HiddenStep DEF LeaseEnds, Rest, vars, history
<1> QED
  BY <1>3, <1>4, <1>5, <1>6, <1>7, <1>8, <1>9, <1>10, <1>11 DEF Next

\* Whatever fails and however passes and requests overlap, what happens to a
\* message is what DeliveryOnce promises.
THEOREM Refinement == Spec => ImplementsDelivery
<1>1. Init => Promise!Init /\ Acked
  BY DEF Init, NoRow, NoCall, Promise!Init, Acked
<1>2. IInv /\ Acked /\ [Next]_vars => Acked'
  BY AckedKeeps
<1>3. IInv /\ IInv' /\ Acked /\ [Next]_vars => [Promise!Next]_Seen
  BY StepImplements
<1> QED
  BY Inductive, <1>1, <1>2, <1>3, PTL DEF Spec, ImplementsDelivery, Promise!Spec, Seen
=============================================================================
