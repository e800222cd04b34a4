------------------------- MODULE AutomationEnrollment -------------------------
(***************************************************************************)
(* One enrollment of a customer in a marketing flow, driven by the BullMQ  *)
(* queue, the minute ticker and cancellation after a purchase              *)
(* (src/server/src/services/AutomationEngine.ts,                           *)
(*  AutomationEnrollmentService.ts, AutomationQueueService.ts).            *)
(*                                                                         *)
(* Every write of nextRunAt draws a fresh stamp: 0 is null, and due is the *)
(* set of stamps whose time has come.  The id of a queue job is made of    *)
(* the enrollment and nextRunAt, so stamps name jobs too, and adding a job *)
(* whose id the queue still remembers does nothing.                        *)
(*                                                                         *)
(* The code between two awaits is one action.                              *)
(***************************************************************************)
EXTENDS Integers, FiniteSets

CONSTANTS
    Nodes, End,    \* flow nodes; End: no outgoing edge matched
    Trigger,       \* the trigger node
    Delays,        \* nodes of type DELAY
    Emails,        \* SEND_EMAIL action nodes (cooldown and quiet hours apply)
    Successors,    \* Successors[n]: what findNextNodeId may answer
    Workers,       \* workers of the queue, one per server process
    MaxSteps,      \* AUTOMATION_MAX_STEPS
    MaxTries,      \* QUEUE_LIMITS.MAX_RETRIES
    MaxStamps,     \* bound: writes of nextRunAt
    LastPostpone,  \* bound: an email is postponed only before this stamp
    MaxFaults,     \* bound: failures
    Env            \* what the environment does, see EnvEvents

\* crash: a worker's process dies; throw: an awaited call of processEnrollment
\* rejects; redis: the release script fails; expiry: the lock outlives its TTL
\* under a live holder; stall: BullMQ takes a running job for stalled; evict:
\* the queue forgets a finished job; postpone: cooldown or quiet hours; edit:
\* nodes vanish from the stored flow; flow: the flow is switched off and on;
\* cancel: the customer orders; loss: the process dies after enrolling.
EnvEvents == {"crash", "throw", "redis", "expiry", "stall", "evict", "postpone",
              "edit", "flow", "cancel", "loss"}

Free   == "free"
Ghost  == "ghost"        \* the token of a call that no longer exists
NoNode == "no node"

ASSUME ConstantsAssumption ==
    /\ End \notin Nodes /\ NoNode \notin Nodes /\ {Free, Ghost} \cap Workers = {}
    /\ Trigger \in Nodes /\ Delays \subseteq Nodes /\ Emails \subseteq Nodes
    /\ Successors \in [Nodes -> SUBSET (Nodes \cup {End})]
    /\ MaxSteps \in Nat \ {0} /\ MaxTries \in Nat \ {0}
    /\ MaxStamps \in Nat /\ LastPostpone \in Nat /\ MaxFaults \in Nat
    /\ Env \subseteq EnvEvents

VARIABLES
    status, node, runAt,  \* the AutomationEnrollment row
    flowOn,               \* automation.isActive and its status
    last, due,            \* stamps drawn; those whose time has come
    job, tries, stalled,  \* queue: state, failed attempts, jobs stalled once
    lock,                 \* holder of automation:enrollment-lock
    call,                 \* local state of each worker
    enroller, ticker, canceller,
    sent,                 \* history: executions of each node
    nodeOf,               \* history: the node a stamp was drawn for
    faults,               \* history: failures that may repeat an execution
    expired               \* history: a lock ended under a live holder

row   == <<status, node, runAt>>
queue == <<job, tries, stalled>>
time  == <<last, due, nodeOf>>
others == <<enroller, ticker, canceller, flowOn>>
failures == <<faults, expired>>
vars  == <<row, time, queue, lock, call, others, sent, failures>>

-----------------------------------------------------------------------------
Stamps == 1..MaxStamps
Kept   == {"done", "failed"}
Known  == {"waiting", "active"} \cup Kept

NoCall == [pc |-> "idle", k |-> 0, mine |-> FALSE, n |-> NoNode, steps |-> 0,
           stamp |-> 0]
At(w, l)   == call[w].pc = l
Goto(w, l) == call' = [call EXCEPT ![w].pc = l]

\* Mutant: a job runs whatever nextRunAt says by now.
DueUnchecked(k) == k \in Nat

\* The early returns of processEnrollment: not ACTIVE, not yet due.
IsDue(k) == k = 0 \/ k \in due

\* Mutant: the status is not looked at.
ActiveUnchecked == status # "none"
Active == status = "ACTIVE"

\* The write nextRunAt := a new time, for node n; past tells that it is due.
Draw(n, past) ==
    /\ last < MaxStamps
    /\ last' = last + 1
    /\ nodeOf' = [nodeOf EXCEPT ![last + 1] = n]
    /\ due' = IF past THEN due \cup {last + 1} ELSE due

\* queue.add with a job id: ignored while the queue knows the id.
Add(k) == job' = IF job[k] = "none" THEN [job EXCEPT ![k] = "waiting"] ELSE job

\* The processor returned; BullMQ refuses the result of a job it took away.
Return(w) ==
    /\ job' = IF call[w].mine THEN [job EXCEPT ![call[w].k] = "done"] ELSE job
    /\ call' = [call EXCEPT ![w] = NoCall]

Unlock(w) == lock' = IF lock = w THEN Free ELSE lock

Init ==
    /\ status = "none" /\ node = NoNode /\ runAt = 0
    /\ flowOn = TRUE
    /\ last = 0 /\ due = {} /\ nodeOf = [k \in Stamps |-> NoNode]
    /\ job = [k \in Stamps |-> "none"] /\ tries = [k \in Stamps |-> 0]
    /\ stalled = {}
    /\ lock = Free
    /\ call = [w \in Workers |-> NoCall]
    /\ enroller = "start" /\ ticker = 0 /\ canceller = "idle"
    /\ sent = [n \in Nodes |-> 0]
    /\ faults = 0 /\ expired = FALSE

-----------------------------------------------------------------------------
(* enroll *)

\* createEnrollment: one transaction.
CreateEnrollment ==
    /\ enroller = "start"
    /\ Draw(Trigger, TRUE)
    /\ status' = "ACTIVE" /\ node' = Trigger /\ runAt' = last + 1
    /\ enroller' = "enqueue"
    /\ UNCHANGED <<queue, lock, call, ticker, canceller, flowOn, sent, failures>>

\* The first job has the stamp of the row just created.
EnqueueFirst ==
    /\ enroller = "enqueue"
    /\ Add(1)
    /\ enroller' = "done"
    /\ UNCHANGED <<row, time, tries, stalled, lock, call, ticker, canceller, flowOn,
                   sent, failures>>

\* The process dies, or Redis refuses, after the transaction.
EnqueueLost ==
    /\ "loss" \in Env
    /\ enroller = "enqueue"
    /\ enroller' = "done"
    /\ UNCHANGED <<row, time, queue, lock, call, ticker, canceller, flowOn, sent, failures>>

-----------------------------------------------------------------------------
(* processEnrollment *)

\* BullMQ gives a job whose delay has elapsed to a free worker.
Take(w) == \E k \in Stamps :
    /\ At(w, "idle")
    /\ job[k] = "waiting" /\ k \in due
    /\ job' = [job EXCEPT ![k] = "active"]
    /\ call' = [call EXCEPT ![w] = [NoCall EXCEPT !.pc = "lock", !.k = k, !.mine = TRUE]]
    /\ UNCHANGED <<row, time, tries, stalled, lock, others, sent, failures>>

\* Mutant: SET without NX.
AcquireBlindly(w) ==
    /\ At(w, "lock")
    /\ lock' = w
    /\ Goto(w, "read")
    /\ UNCHANGED <<row, time, queue, others, sent, failures>>

\* SET lockKey token PX ttl NX
AcquireLock(w) ==
    /\ At(w, "lock")
    /\ lock = Free
    /\ lock' = w
    /\ Goto(w, "read")
    /\ UNCHANGED <<row, time, queue, others, sent, failures>>

\* "Enrollment is already being processed": the job ends as completed.
LockHeld(w) ==
    /\ At(w, "lock")
    /\ lock # Free
    /\ Return(w)
    /\ UNCHANGED <<row, time, tries, stalled, lock, others, sent, failures>>

\* findUnique and the three early returns.
Read(w) ==
    /\ At(w, "read")
    /\ call' = [call EXCEPT ![w] = [@ EXCEPT
               !.n = node,
               !.pc = IF Active /\ ~flowOn THEN "disable"
                      ELSE IF Active /\ IsDue(runAt) /\ node # NoNode THEN "visit"
                      ELSE "release"]]
    /\ UNCHANGED <<row, time, queue, lock, others, sent, failures>>

\* The flow is off: the row is cancelled.
Disable(w) ==
    /\ At(w, "disable")
    /\ status' = "CANCELLED" /\ node' = NoNode /\ runAt' = 0
    /\ Goto(w, "release")
    /\ UNCHANGED <<time, queue, lock, others, sent, failures>>

\* Account-wide cooldown or quiet hours: the node waits for a later time.
Postpone(w) ==
    LET n == call[w].n IN
    /\ "postpone" \in Env /\ last < LastPostpone
    /\ At(w, "visit") /\ n \in Emails
    /\ Draw(n, FALSE)
    /\ node' = n /\ runAt' = last + 1
    /\ call' = [call EXCEPT ![w] = [@ EXCEPT !.pc = "mark", !.stamp = last + 1]]
    /\ UNCHANGED <<status, queue, lock, others, sent, failures>>

\* nodeExecutor.execute: every branch answers NEXT.
Execute(w) ==
    LET n == call[w].n IN
    /\ At(w, "visit")
    /\ sent' = [sent EXCEPT ![n] = @ + 1]
    /\ Goto(w, "advance")
    /\ UNCHANGED <<row, time, queue, lock, others, failures>>

\* Mutant: an enrollment ends although its node has a successor.
CompleteEarly(w) ==
    /\ \/ At(w, "advance")
       \/ At(w, "visit") /\ "edit" \in Env
    /\ status' = "COMPLETED" /\ node' = NoNode /\ runAt' = 0
    /\ Goto(w, "release")
    /\ UNCHANGED <<time, queue, lock, others, sent, failures>>

\* completeEnrollment: whatever the status is by now.
Complete(w) ==
    /\ \/ At(w, "advance") /\ End \in Successors[call[w].n]
       \/ At(w, "visit") /\ "edit" \in Env
    /\ status' = "COMPLETED" /\ node' = NoNode /\ runAt' = 0
    /\ Goto(w, "release")
    /\ UNCHANGED <<time, queue, lock, others, sent, failures>>

\* updateProgress to the next node, due at once unless it is a delay.
Advance(w) == At(w, "advance") /\ \E n \in Successors[call[w].n] \ {End} :
    /\ Draw(n, n \notin Delays)
    /\ node' = n /\ runAt' = last + 1
    /\ call' = [call EXCEPT ![w] = [@ EXCEPT
               !.pc = "check",
               !.n = n,
               !.stamp = last + 1]]
    /\ UNCHANGED <<status, queue, lock, others, sent, failures>>

\* nextRunAt > new Date(): leave the loop; otherwise the next iteration.
Check(w) ==
    /\ At(w, "check")
    /\ IF call[w].stamp \notin due
       THEN Goto(w, "mark")
       ELSE call' = [call EXCEPT ![w] = [@ EXCEPT
               !.steps = call[w].steps + 1,
               !.pc = IF call[w].steps + 1 < MaxSteps THEN "visit" ELSE "guard"]]
    /\ UNCHANGED <<row, time, queue, lock, others, sent, failures>>

\* MAX_STEPS reached: try again in five minutes.
Guard(w) ==
    /\ At(w, "guard")
    /\ Draw(NoNode, FALSE)
    /\ runAt' = last + 1
    /\ call' = [call EXCEPT ![w] = [@ EXCEPT !.pc = "mark", !.stamp = last + 1]]
    /\ UNCHANGED <<status, node, queue, lock, others, sent, failures>>

\* Mutant: markWaiting computes the time anew, so that no job has it.
MarkAnew(w) ==
    /\ At(w, "mark")
    /\ runAt' = last + 1
    /\ Goto(w, "enqueue")
    /\ UNCHANGED <<status, node, time, queue, lock, others, sent, failures>>

\* markWaiting writes nextRunAt a second time.
MarkWaiting(w) ==
    /\ At(w, "mark")
    /\ runAt' = call[w].stamp
    /\ Goto(w, "enqueue")
    /\ UNCHANGED <<status, node, time, queue, lock, others, sent, failures>>

EnqueueEnrollment(w) ==
    /\ At(w, "enqueue")
    /\ Add(call[w].stamp)
    /\ Goto(w, "release")
    /\ UNCHANGED <<row, time, tries, stalled, lock, others, sent, failures>>

\* finally: delete the lock if it still holds this call's token.
Release(w) ==
    /\ At(w, "release")
    /\ Unlock(w)
    /\ Return(w)
    /\ UNCHANGED <<row, time, tries, stalled, others, sent, failures>>

Fault(e) == e \in Env /\ faults < MaxFaults /\ faults' = faults + 1

\* The release script fails: logged, the lock stays until its TTL.
ReleaseFails(w) ==
    /\ Fault("redis")
    /\ At(w, "release")
    /\ lock' = IF lock = w THEN Ghost ELSE lock
    /\ Return(w)
    /\ UNCHANGED <<row, time, tries, stalled, others, sent, expired>>

\* An awaited call rejects: the lock is released and the attempt has failed.
Throw(w) ==
    LET k == call[w].k IN
    /\ Fault("throw")
    /\ call[w].pc \notin {"idle", "release"}
    /\ Unlock(w)
    /\ IF call[w].mine
       THEN /\ tries' = [tries EXCEPT ![k] = @ + 1]
            /\ job' = [job EXCEPT ![k] = IF tries[k] + 1 < MaxTries THEN "waiting"
                                                                    ELSE "failed"]
       ELSE UNCHANGED <<job, tries>>
    /\ call' = [call EXCEPT ![w] = NoCall]
    /\ UNCHANGED <<row, time, stalled, others, sent, expired>>

-----------------------------------------------------------------------------
(* The queue and the clock *)

\* A stalled job is run again once, then it has failed.
Requeue(k) ==
    /\ stalled' = stalled \cup {k}
    /\ job' = [job EXCEPT ![k] = IF k \in stalled THEN "failed" ELSE "waiting"]

Stall(w) ==
    /\ "stall" \in Env
    /\ call[w].mine
    /\ Requeue(call[w].k)
    /\ call' = [call EXCEPT ![w].mine = FALSE]
    /\ UNCHANGED <<row, time, tries, lock, others, sent, failures>>

\* The process dies; its job is found stalled, its lock lives on.
Crash(w) ==
    /\ Fault("crash")
    /\ ~At(w, "idle")
    /\ IF call[w].mine THEN Requeue(call[w].k) ELSE UNCHANGED <<job, stalled>>
    /\ lock' = IF lock = w THEN Ghost ELSE lock
    /\ call' = [call EXCEPT ![w] = NoCall]
    /\ UNCHANGED <<row, time, tries, others, sent, expired>>

\* The TTL of the lock elapses.
LockExpires ==
    /\ \/ lock = Ghost /\ UNCHANGED failures
       \/ lock \in Workers /\ Fault("expiry") /\ expired' = TRUE
    /\ lock' = Free
    /\ UNCHANGED <<row, time, queue, call, others, sent>>

\* removeOnComplete, removeOnFail: the id may be used again.
Evict == \E k \in Stamps :
    /\ "evict" \in Env
    /\ job[k] \in Kept
    /\ job' = [job EXCEPT ![k] = "none"]
    /\ tries' = [tries EXCEPT ![k] = 0]
    /\ stalled' = stalled \ {k}
    /\ UNCHANGED <<row, time, lock, call, others, sent, failures>>

Elapse == \E k \in 1..last :
    /\ k \notin due
    /\ due' = due \cup {k}
    /\ UNCHANGED <<row, last, nodeOf, queue, lock, call, others, sent, failures>>

-----------------------------------------------------------------------------
(* runTicker *)

\* findMany of the due rows: remembers nextRunAt.
TickRead ==
    /\ ticker = 0
    /\ status = "ACTIVE" /\ runAt \in due /\ flowOn
    /\ ticker' = runAt
    /\ UNCHANGED <<row, time, queue, lock, call, enroller, canceller, flowOn, sent, failures>>

\* Mutant: the ticker finds the row and does not enqueue it.
TickSkipped ==
    /\ ticker # 0
    /\ ticker' = 0
    /\ UNCHANGED <<row, time, queue, lock, call, enroller, canceller, flowOn, sent, failures>>

TickEnqueue ==
    /\ ticker # 0
    /\ Add(ticker)
    /\ ticker' = 0
    /\ UNCHANGED <<row, time, tries, stalled, lock, call, enroller, canceller, flowOn,
                   sent, failures>>

-----------------------------------------------------------------------------
(* cancelActiveAbandonedCartEnrollments, and the switch of the flow *)

CancelRead ==
    /\ "cancel" \in Env
    /\ canceller = "idle"
    /\ status = "ACTIVE"
    /\ canceller' = "write"
    /\ UNCHANGED <<row, time, queue, lock, call, enroller, ticker, flowOn, sent, failures>>

\* updateMany by id: the status is not looked at again.
CancelWrite ==
    /\ canceller = "write"
    /\ status' = "CANCELLED" /\ runAt' = 0
    /\ canceller' = "done"
    /\ UNCHANGED <<node, time, queue, lock, call, enroller, ticker, flowOn, sent, failures>>

SwitchFlow ==
    /\ "flow" \in Env
    /\ flowOn' = ~flowOn
    /\ UNCHANGED <<row, time, queue, lock, call, enroller, ticker, canceller, sent, failures>>

\* Nothing left to do.
Rest ==
    /\ status \in {"COMPLETED", "CANCELLED"}
    /\ \A w \in Workers : At(w, "idle")
    /\ UNCHANGED vars

Serve(w) ==
    \/ AcquireLock(w) \/ LockHeld(w) \/ Read(w) \/ Disable(w) \/ Postpone(w)
    \/ Execute(w) \/ Complete(w) \/ Advance(w) \/ Check(w) \/ Guard(w)
    \/ MarkWaiting(w) \/ EnqueueEnrollment(w) \/ Release(w)

Fail(w) == ReleaseFails(w) \/ Throw(w) \/ Stall(w) \/ Crash(w)

Next ==
    \/ CreateEnrollment \/ EnqueueFirst \/ EnqueueLost
    \/ \E w \in Workers : Take(w) \/ Serve(w) \/ Fail(w)
    \/ LockExpires \/ Evict \/ Elapse
    \/ TickRead \/ TickEnqueue
    \/ CancelRead \/ CancelWrite \/ SwitchFlow
    \/ Rest

Spec == Init /\ [][Next]_vars

\* The event loop runs what is ready, the workers poll the queue, the ticker
\* fires every minute, time passes and the TTL of a dead lock elapses.
Fairness ==
    /\ WF_vars(EnqueueFirst \/ EnqueueLost) /\ WF_vars(CancelWrite)
    /\ \A w \in Workers : WF_vars(Take(w)) /\ WF_vars(Serve(w))
    /\ WF_vars(Elapse) /\ WF_vars(LockExpires /\ lock = Ghost)
    /\ WF_vars(TickRead) /\ WF_vars(TickEnqueue)

LiveSpec == Spec /\ Fairness

-----------------------------------------------------------------------------
(* Properties *)

Locals == [pc : {"idle", "lock", "read", "disable", "visit", "advance", "check",
                 "guard", "mark", "enqueue", "release"},
           k : 0..last, mine : BOOLEAN, n : Nodes \cup {NoNode},
           steps : 0..MaxSteps, stamp : 0..last]

\* Every variable has its type; no stamp is used before it was drawn, and no
\* job is tried more often than the queue is configured to.
TypeOK ==
    /\ status \in {"none", "ACTIVE", "CANCELLED", "COMPLETED"}
    /\ node \in Nodes \cup {NoNode} /\ runAt \in 0..last
    /\ flowOn \in BOOLEAN
    /\ last \in 0..MaxStamps /\ due \subseteq 1..last
    /\ nodeOf \in [Stamps -> Nodes \cup {NoNode}]
    /\ job \in [Stamps -> Known \cup {"none"}]
    /\ \A k \in Stamps : job[k] # "none" => k <= last
    /\ tries \in [Stamps -> 0..MaxTries] /\ stalled \subseteq Stamps
    /\ lock \in Workers \cup {Free, Ghost}
    /\ call \in [Workers -> Locals]
    /\ enroller \in {"start", "enqueue", "done"} /\ ticker \in 0..last
    /\ canceller \in {"idle", "write", "done"}
    /\ sent \in [Nodes -> Nat] /\ faults \in 0..MaxFaults /\ expired \in BOOLEAN

\* In a flow without cycles a node, and so its email, is executed once, and
\* once more only for a failure each time: neither the ticker's repeated jobs
\* nor stalled jobs nor a second worker repeat an action
\* (AutomationQueueService.ts: the stable job id; the lock of processEnrollment).
\* A lock that expires under its holder is worse: the slower of two calls takes the
\* row back to where it is, and both go on from there.
RepeatsAreFaults == ~expired => \A n \in Nodes : sent[n] <= 1 + faults

\* Whatever fails, nothing in the flow is passed over: what was executed was
\* reached from an executed node, and a completed enrollment ends after an
\* executed node without successor.
NothingSkipped ==
    /\ \A n \in Nodes \ {Trigger} : sent[n] > 0 =>
           \E m \in Nodes : n \in Successors[m] /\ sent[m] > 0
    /\ status = "COMPLETED" => \E m \in Nodes : End \in Successors[m] /\ sent[m] > 0

\* A delay node is passed only when a time written for that very node has come:
\* early, stale or repeated jobs and failed attempts do not shorten a wait.  (A holder
\* whose lock expired between Advance and MarkWaiting can: it makes the row due again
\* at the time of its own node, although the row is at the next delay.)
DelayHonoured ==
    [][\A d \in Delays : sent'[d] # sent[d] /\ ~expired =>
            \E k \in due : nodeOf[k] = d]_vars

Inside(w) == call[w].pc \notin {"idle", "lock", "read", "release"}
Quiet == status \in {"CANCELLED", "COMPLETED"} /\ \A w \in Workers : ~Inside(w)

\* Once the enrollment is over and no call is past its read of the row, no
\* retry, stalled job, ticker or expired lock executes a node again.
OverIsOver == [][Quiet => Quiet' /\ sent' = sent]_vars

\* An enrollment whose flow stays on is eventually completed or cancelled,
\* even if its first job was never enqueued or one attempt failed.
EventuallySettles == Active ~> (~Active \/ ~flowOn)
=============================================================================
