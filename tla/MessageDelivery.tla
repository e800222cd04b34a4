--------------------------- MODULE MessageDelivery ---------------------------
(***************************************************************************)
(* Delivery of one agent message of the inbox to a customer.  The message  *)
(* is either scheduled for later and sent by the minute ticker             *)
(* (src/server/src/services/scheduler/MessageScheduler.ts, routes          *)
(* src/server/src/routes/chat/scheduling.ts), or sent by the request that  *)
(* creates it, which the client may repeat under one clientRequestId       *)
(* (deliverExternalMessage in src/server/src/routes/chat/messages.ts).     *)
(*                                                                         *)
(* An attempt is a claim of the row (deliveryAttemptedAt); attempts are    *)
(* numbered.  stale holds the attempts older than DELIVERY_CLAIM_LEASE_MS. *)
(* The provider's message id is the number of the attempt it confirmed.    *)
(* Passes of the ticker overlap: setInterval does not wait for a pass.     *)
(***************************************************************************)
EXTENDS Integers, FiniteSets

CONSTANTS
    Passes,       \* overlapping passes of processScheduledMessages
    Requests,     \* overlapping requests with the same clientRequestId
    MaxAttempts,  \* bound: claims of the row
    MaxFaults,    \* bound: failures
    Env           \* what fails, see EnvEvents

\* crash: the server process dies; db: a write throws; refused: the provider
\* refuses; lost: the provider accepts and the answer is lost; overrun: a claim
\* outlives its lease; cancel: an agent cancels the scheduled message.
EnvEvents == {"crash", "db", "refused", "lost", "overrun", "cancel"}

ASSUME ConstantsAssumption ==
    /\ Passes \cap Requests = {}
    /\ MaxAttempts \in Nat /\ MaxFaults \in Nat
    /\ Env \subseteq EnvEvents

VARIABLES
    row,        \* the Message row
    attempts,   \* claims made so far
    stale,      \* attempts whose lease has run out
    call,       \* local state of passes and requests
    canceller,
    accepted,   \* history: attempts the provider accepted
    unconfirmed,\* history: attempts whose outcome could not be recorded in time
    faults

vars == <<row, attempts, stale, call, canceller, accepted, unconfirmed, faults>>
history == <<accepted, unconfirmed>>

Actors   == Passes \cup Requests
Attempts == 1..MaxAttempts

NoCall == [pc |-> "idle", pmid |-> 0, stale |-> {}, attempt |-> 0]
NoRow  == [kind |-> "none", sched |-> "null", status |-> "SENT", pmid |-> 0, attempt |-> 0]

At(p, l)    == call[p].pc = l
Goto(p, l)  == call' = [call EXCEPT ![p].pc = l]
Finish(p)   == call' = [call EXCEPT ![p] = NoCall]
Exists      == row.kind # "none"
External    == {"email", "other", "direct"}
Fault(e)    == e \in Env /\ faults < MaxFaults /\ faults' = faults + 1

Init ==
    /\ row = NoRow
    /\ attempts = 0 /\ stale = {}
    /\ call = [p \in Actors |-> NoCall]
    /\ canceller = "idle"
    /\ accepted = {} /\ unconfirmed = {}
    /\ faults = 0

-----------------------------------------------------------------------------
(* POST /:id/messages/schedule, and the clock *)

\* An internal note, an email, or a message of a channel without scheduled
\* delivery.  deliveryStatus keeps its default, SENT.
Schedule == \E k \in {"internal", "email", "other"} :
    /\ ~Exists /\ canceller = "idle"
    /\ \A p \in Actors : At(p, "idle")
    /\ row' = [NoRow EXCEPT !.kind = k, !.sched = "future"]
    /\ UNCHANGED <<attempts, stale, call, canceller, history, faults>>

FallDue ==
    /\ row.sched = "future"
    /\ row' = [row EXCEPT !.sched = "due"]
    /\ UNCHANGED <<attempts, stale, call, canceller, history, faults>>

\* Five minutes after the claim, with its pass gone.
LeaseEnds ==
    LET a == row.attempt IN
    /\ row.kind # "direct" /\ a # 0 /\ a \notin stale
    /\ \A p \in Passes : call[p].attempt # a
    /\ stale' = stale \cup {a}
    /\ UNCHANGED <<row, attempts, call, canceller, history, faults>>

\* Five minutes after the claim, with its pass still waiting.
LeaseOverrun == \E p \in Passes :
    LET a == call[p].attempt IN
    /\ a # 0 /\ a \notin stale
    /\ Fault("overrun")
    /\ stale' = stale \cup {a}
    /\ unconfirmed' = unconfirmed \cup {a}
    /\ UNCHANGED <<row, attempts, call, canceller, accepted>>

-----------------------------------------------------------------------------
(* processScheduledMessages *)

\* Mutant: a claim is never checked to be free.
ClaimableAlways(leaseOver) == row.status \in {"PENDING", "SENT", "FAILED"}

\* Mutant: leases never end.
ClaimableOnce(leaseOver) == row.status # "PENDING" \/ row.attempt = 0

\* A row nobody holds: not PENDING, never attempted, or its lease has run out.
Claimable(leaseOver) ==
    row.status # "PENDING" \/ row.attempt = 0 \/ row.attempt \in leaseOver

\* findMany: the pass keeps the row as it is now, and its own clock.
PassRead(p) ==
    /\ At(p, "idle")
    /\ row.sched = "due"
    /\ row.pmid # 0 \/ Claimable(stale)
    /\ call' = [call EXCEPT ![p] =
           [pc |-> IF row.pmid # 0 THEN "finalize" ELSE "claim",
            pmid |-> row.pmid, stale |-> stale, attempt |-> 0]]
    /\ UNCHANGED <<row, attempts, stale, canceller, history, faults>>

\* The provider has acknowledged: only clean up the schedule.
Finalize(p) ==
    /\ At(p, "finalize")
    /\ row' = IF row.sched = "due" /\ row.pmid = call[p].pmid
              THEN [row EXCEPT !.sched = "null"] ELSE row
    /\ Finish(p)
    /\ UNCHANGED <<attempts, stale, canceller, history, faults>>

\* Mutant: the claim is not conditional on the state of the row.
ClaimUnchecked(p) ==
    /\ At(p, "claim")
    /\ Exists /\ attempts < MaxAttempts
    /\ attempts' = attempts + 1
    /\ row' = [row EXCEPT !.status = "PENDING", !.attempt = attempts', !.pmid = 0]
    /\ call' = [call EXCEPT ![p] = [@ EXCEPT
               !.pc = IF row.kind = "internal" THEN "note" ELSE "send",
               !.attempt = attempts']]
    /\ UNCHANGED <<stale, canceller, history, faults>>

\* updateMany as compare-and-set.
Claim(p) ==
    /\ At(p, "claim")
    /\ row.sched = "due" /\ row.pmid = 0 /\ Claimable(call[p].stale)
    /\ attempts < MaxAttempts
    /\ attempts' = attempts + 1
    /\ row' = [row EXCEPT !.status = "PENDING", !.attempt = attempts', !.pmid = 0]
    /\ call' = [call EXCEPT ![p] = [@ EXCEPT
               !.pc = IF row.kind = "internal" THEN "note" ELSE "send",
               !.attempt = attempts']]
    /\ UNCHANGED <<stale, canceller, history, faults>>

\* claimed.count === 0
ClaimLost(p) ==
    /\ At(p, "claim")
    /\ ~(row.sched = "due" /\ row.pmid = 0 /\ Claimable(call[p].stale))
    /\ Finish(p)
    /\ UNCHANGED <<row, attempts, stale, canceller, history, faults>>

\* An internal note only becomes visible (an update of a deleted row throws).
ShowNote(p) ==
    /\ At(p, "note")
    /\ row' = IF Exists THEN [row EXCEPT !.sched = "null", !.status = "SENT"] ELSE row
    /\ Finish(p)
    /\ UNCHANGED <<attempts, stale, canceller, history, faults>>

\* A write of the schedule or of the note throws: logged, nothing changes.
CleanupThrows(p) ==
    /\ call[p].pc \in {"finalize", "note", "cleanup"}
    /\ Fault("db")
    /\ Finish(p)
    /\ UNCHANGED <<row, attempts, stale, canceller, history>>

\* Channels other than email have no scheduled delivery.
Unsupported(p) ==
    /\ At(p, "send") /\ p \in Passes
    /\ row.kind = "other"
    /\ Goto(p, "fail")
    /\ UNCHANGED <<row, attempts, stale, canceller, history, faults>>

\* The provider accepts and confirms with a message id.
Accept(p) ==
    /\ At(p, "send")
    /\ row.kind # "other"
    /\ accepted' = accepted \cup {call[p].attempt}
    /\ Goto(p, "ack")
    /\ UNCHANGED <<row, attempts, stale, canceller, unconfirmed, faults>>

\* The provider refuses, or the message could not even be composed.
Refuse(p) ==
    /\ "refused" \in Env
    /\ At(p, "send") /\ row.kind # "other"
    /\ Goto(p, "fail")
    /\ UNCHANGED <<row, attempts, stale, canceller, history, faults>>

\* The provider accepts, but no confirmation comes back.
AnswerLost(p) ==
    /\ At(p, "send") /\ row.kind # "other"
    /\ Fault("lost")
    /\ accepted' = accepted \cup {call[p].attempt}
    /\ unconfirmed' = unconfirmed \cup {call[p].attempt}
    /\ Goto(p, "fail")
    /\ UNCHANGED <<row, attempts, stale, canceller>>

\* Mutant: the acknowledgement forgets the provider's message id.
AckWithoutId(p) ==
    /\ At(p, "ack") /\ Exists
    /\ row' = [row EXCEPT !.status = "SENT"]
    /\ IF p \in Passes THEN Goto(p, "cleanup") ELSE Finish(p)
    /\ UNCHANGED <<attempts, stale, canceller, history, faults>>

\* The acknowledgement is made durable; the schedule is cleaned up afterwards.
Ack(p) ==
    /\ At(p, "ack") /\ Exists
    /\ row' = [row EXCEPT !.status = "SENT", !.pmid = call[p].attempt]
    /\ IF p \in Passes THEN Goto(p, "cleanup") ELSE Finish(p)
    /\ UNCHANGED <<attempts, stale, canceller, history, faults>>

\* The write throws (also when the row was deleted): a conditional write.
AckThrows(p) ==
    /\ At(p, "ack")
    /\ \/ ~Exists /\ UNCHANGED faults
       \/ Exists /\ Fault("db")
    /\ Goto(p, "ack_again")
    /\ UNCHANGED <<row, attempts, stale, canceller, history>>

Acknowledgeable(p) ==
    IF p \in Passes
    THEN \/ row.status = "PENDING" /\ row.attempt = call[p].attempt /\ row.pmid = 0
         \/ row.status = "SENT" /\ row.pmid = call[p].attempt
    ELSE row.status = "PENDING"

AckAgain(p) ==
    /\ At(p, "ack_again")
    /\ Exists /\ Acknowledgeable(p)
    /\ row' = [row EXCEPT !.status = "SENT", !.pmid = call[p].attempt]
    /\ IF p \in Passes THEN Goto(p, "cleanup") ELSE Finish(p)
    /\ UNCHANGED <<attempts, stale, canceller, history, faults>>

\* Nothing matched, or the write throws again: the row stays claimed.
AckGivenUp(p) ==
    /\ At(p, "ack_again")
    /\ \/ ~(Exists /\ Acknowledgeable(p)) /\ UNCHANGED faults
       \/ Exists /\ Acknowledgeable(p) /\ Fault("db")
    /\ unconfirmed' = unconfirmed \cup {call[p].attempt}
    /\ Finish(p)
    /\ UNCHANGED <<row, attempts, stale, canceller, accepted>>

\* scheduledFor := null; the update of a deleted row throws and is logged.
Cleanup(p) ==
    /\ At(p, "cleanup")
    /\ row' = IF Exists THEN [row EXCEPT !.sched = "null"] ELSE row
    /\ Finish(p)
    /\ UNCHANGED <<attempts, stale, canceller, history, faults>>

\* FAILED, by id, whatever the row says by now; a schedule is given up.
MarkFailed(p) ==
    /\ At(p, "fail")
    /\ row' = IF Exists
              THEN [row EXCEPT !.status = "FAILED",
                               !.sched = IF p \in Passes THEN "null" ELSE @]
              ELSE row
    /\ Finish(p)
    /\ UNCHANGED <<attempts, stale, canceller, history, faults>>

\* The write throws: the pass, or the request, ends.
MarkFailedThrows(p) ==
    /\ At(p, "fail")
    /\ Fault("db")
    /\ Finish(p)
    /\ UNCHANGED <<row, attempts, stale, canceller, history>>

-----------------------------------------------------------------------------
(* deliverExternalMessage *)

\* findFirst by clientRequestId.  SENT answers 200, PENDING answers 409.
Lookup(p) ==
    /\ At(p, "idle")
    /\ \/ ~Exists /\ canceller = "idle" /\ Goto(p, "create")
       \/ row.kind = "direct" /\ row.status = "FAILED" /\ Goto(p, "claim")
    /\ UNCHANGED <<row, attempts, stale, canceller, history, faults>>

\* The claim of a FAILED row, as compare-and-set.
Retry(p) ==
    /\ At(p, "claim")
    /\ row.status = "FAILED" /\ attempts < MaxAttempts
    /\ attempts' = attempts + 1
    /\ row' = [row EXCEPT !.status = "PENDING", !.attempt = attempts']
    /\ call' = [call EXCEPT ![p] = [@ EXCEPT !.pc = "send", !.attempt = attempts']]
    /\ UNCHANGED <<stale, canceller, history, faults>>

\* claimed.count === 0: answered from the row.  (At the bound the client
\* gives up.)
RetryLost(p) ==
    /\ At(p, "claim")
    /\ row.status # "FAILED" \/ attempts = MaxAttempts
    /\ Finish(p)
    /\ UNCHANGED <<row, attempts, stale, canceller, history, faults>>

\* The unique index lets one request create the row.
Create(p) ==
    /\ At(p, "create")
    /\ ~Exists /\ attempts < MaxAttempts
    /\ attempts' = attempts + 1
    /\ row' = [NoRow EXCEPT !.kind = "direct", !.status = "PENDING", !.attempt = attempts']
    /\ call' = [call EXCEPT ![p] = [@ EXCEPT !.pc = "send", !.attempt = attempts']]
    /\ UNCHANGED <<stale, canceller, history, faults>>

CreateRefused(p) ==
    /\ At(p, "create")
    /\ Exists
    /\ Finish(p)
    /\ UNCHANGED <<row, attempts, stale, canceller, history, faults>>

-----------------------------------------------------------------------------
(* DELETE /messages/:id/schedule, and crashes *)

CancelRead ==
    /\ "cancel" \in Env
    /\ canceller = "idle"
    /\ row.sched # "null"
    /\ canceller' = "delete"
    /\ UNCHANGED <<row, attempts, stale, call, history, faults>>

CancelDelete ==
    /\ canceller = "delete"
    /\ row' = NoRow
    /\ canceller' = "done"
    /\ UNCHANGED <<attempts, stale, call, history, faults>>

\* The process dies with every pass and request.
Crash ==
    /\ Fault("crash")
    /\ \E p \in Actors : ~At(p, "idle")
    /\ unconfirmed' = unconfirmed \cup
           {call[p].attempt : p \in {q \in Actors : call[q].attempt # 0}}
    /\ call' = [p \in Actors |-> NoCall]
    /\ UNCHANGED <<row, attempts, stale, canceller, accepted>>

\* Nothing to do, or a direct message that is not retried.
Rest ==
    /\ \A p \in Actors : At(p, "idle")
    /\ Exists \/ canceller = "done"
    /\ row.sched = "null"
    /\ UNCHANGED vars

Outcome(p) ==
    \/ Unsupported(p) \/ Accept(p) \/ Refuse(p) \/ AnswerLost(p)
    \/ Ack(p) \/ AckThrows(p) \/ AckAgain(p) \/ AckGivenUp(p)
    \/ Cleanup(p) \/ CleanupThrows(p) \/ MarkFailed(p) \/ MarkFailedThrows(p)

Pass(p) ==
    \/ PassRead(p) \/ Finalize(p) \/ Claim(p) \/ ClaimLost(p) \/ ShowNote(p)
    \/ Outcome(p)

Request(p) ==
    \/ Lookup(p) \/ Retry(p) \/ RetryLost(p) \/ Create(p) \/ CreateRefused(p)
    \/ Outcome(p)

Next ==
    \/ Schedule \/ FallDue \/ LeaseEnds \/ LeaseOverrun
    \/ \E p \in Passes : Pass(p)
    \/ \E p \in Requests : Request(p)
    \/ CancelRead \/ CancelDelete \/ Crash
    \/ Rest

Spec == Init /\ [][Next]_vars

\* The ticker fires every minute, calls that were answered go on, time passes.
Fairness ==
    /\ WF_vars(FallDue) /\ WF_vars(LeaseEnds) /\ WF_vars(CancelDelete)
    /\ \A p \in Passes : WF_vars(Pass(p))

LiveSpec == Spec /\ Fairness

-----------------------------------------------------------------------------
(* Properties *)

Rows == [kind : {"none", "internal"} \cup External, sched : {"null", "future", "due"},
         status : {"PENDING", "SENT", "FAILED"}, pmid : 0..attempts, attempt : 0..attempts]
Calls == [pc : {"idle", "finalize", "claim", "note", "send", "ack", "ack_again",
                "cleanup", "fail", "create"},
          pmid : 0..attempts, stale : SUBSET (1..attempts), attempt : 0..attempts]

\* Every variable has its type; message ids and claims belong to attempts made.
TypeOK ==
    /\ row \in Rows
    /\ attempts \in 0..MaxAttempts /\ stale \subseteq 1..attempts
    /\ call \in [Actors -> Calls]
    /\ canceller \in {"idle", "delete", "done"}
    /\ accepted \subseteq 1..attempts /\ unconfirmed \subseteq 1..attempts
    /\ faults \in 0..MaxFaults

\* The customer gets the message twice only when the outcome of the earlier
\* attempt could not be recorded: its answer was lost, its process died, both
\* acknowledging writes failed, or it outlived its lease.
RedeliveryExcused ==
    \A a, b \in accepted : a < b => a \in unconfirmed

\* "A provider acknowledgement is durable before schedule cleanup": once the
\* message id is stored it stays, and no attempt starts any more.
AckDurable == [][row.pmid # 0 => \/ row' = NoRow
                                 \/ row'.pmid # 0 /\ attempts' = attempts]_vars

\* At any time at most one attempt that has not outlived its lease talks to the
\* provider or is about to record the outcome.
OneHolder ==
    \A p, q \in Actors :
        /\ call[p].attempt \notin {0} \cup stale
        /\ call[q].attempt \notin {0} \cup stale
        => p = q

\* A scheduled message is eventually sent, given up or cancelled.
EventuallyUnscheduled == (row.sched = "due") ~> (row.sched = "null")

-----------------------------------------------------------------------------
(* Both protocols implement DeliveryOnce; a deleted row is a withdrawn message. *)

Promise == INSTANCE DeliveryOnce WITH
    delivered <- accepted,
    lost      <- unconfirmed,
    known     <- row.pmid,
    withdrawn <- (canceller = "done")

\* Every step of passes, requests, leases, cancellation and crashes is a step of
\* DeliveryOnce or changes nothing it sees: whatever fails, a message is not tried
\* again while a delivery is known or may still become known, and the id in the
\* row is one the provider gave (processScheduledMessages, deliverExternalMessage).
ImplementsDelivery == Promise!Spec
=============================================================================
