------------------------- MODULE ConversionDelivery -------------------------
(***************************************************************************)
(* One conversion on its way to one advertising platform: its ingestion    *)
(* under a receipt (services/tracking/EventProcessor.ts), the delivery row *)
(* and the first attempts of the platform's service (MetaCAPIService.ts    *)
(* and its siblings), the retry pass of every ten minutes                  *)
(* (ConversionRetryService.ts) and the retry staff ask for, which exists   *)
(* for Google only (GoogleEnhancedConversionsService.ts).                  *)
(*                                                                         *)
(* An attempt takes seconds (its request times out), so the 15 minutes     *)
(* after which a pending row is stale pass only when nobody works on it.   *)
(***************************************************************************)
EXTENDS Integers

CONSTANTS
    Requests,     \* requests that carry the conversion: the shop repeats it
    Passes,       \* retry passes that may overlap
    Staff,        \* people who may ask for a retry
    MaxTries,     \* MAX_RETRIES of a platform's service
    MaxAttempts,  \* MAX_ATTEMPTS of the retry pass
    MaxFaults,    \* bound: failures
    MaxSwitches,  \* bound: changes of the platform's configuration, manual retries
    Env           \* what happens, see EnvEvents

\* crash: a process dies; db: a write fails; ingest: the ingestion throws; lost:
\* the platform accepts and its answer is lost; old: a day passes; switch: the
\* configuration is switched; manual: a retry by hand.
EnvEvents == {"crash", "db", "ingest", "lost", "old", "switch", "manual"}

ASSUME ConstantsAssumption ==
    /\ Requests \cap Passes = {} /\ Requests \cap Staff = {} /\ Passes \cap Staff = {}
    /\ "none" \notin Requests
    /\ {MaxTries, MaxAttempts} \subseteq Nat \ {0}
    /\ {MaxFaults, MaxSwitches} \subseteq Nat
    /\ Env \subseteq EnvEvents

VARIABLES
    platform,  \* where the conversion goes
    enabled,   \* is the platform's feature enabled?
    receipt,   \* does the ConversionEventReceipt exist?
    row,       \* the ConversionDelivery each request created, if any; "loose"
               \* is history: was it ever written without regard to a claim?
    at,        \* where each actor is, and what it knows
    todo,      \* rows as a pass read them, not handled yet
    accepted,  \* history: how often the platform accepted the conversion
    excused,   \* history: acceptances that could not be recorded
    lost,      \* history: did an ingestion die, or could it not be undone or logged?
    faults, switches

vars == <<platform, enabled, receipt, row, at, todo, accepted, excused, lost, faults, switches>>

Actors  == Requests \cup Passes \cup Staff
NoRow   == [status |-> "none", attempts |-> 0, stale |-> FALSE, old |-> FALSE, loose |-> FALSE]
Idle    == [pc |-> "idle", id |-> "none", attempts |-> 0, tries |-> 0, verdict |-> "none"]
Over(q) == IF q \in Requests THEN [Idle EXCEPT !.pc = "over"] ELSE Idle

Fault(e) == e \in Env /\ faults < MaxFaults /\ faults' = faults + 1
NoFault  == faults' = faults
Goes(a, pc) == at' = [at EXCEPT ![a].pc = pc]
Count(b)    == IF b THEN 1 ELSE 0

Init ==
    /\ platform \in {"GOOGLE", "META"} /\ enabled = TRUE
    /\ receipt = FALSE
    /\ row = [q \in Requests |-> NoRow]
    /\ at = [a \in Actors |-> Idle] /\ todo = [p \in Passes |-> {}]
    /\ accepted = 0 /\ excused = 0 /\ lost = FALSE
    /\ faults = 0 /\ switches = 0

-----------------------------------------------------------------------------
(* processEvent *)

\* Mutant: the receipt is not unique.
IngestsAny(q) ==
    /\ at[q].pc = "idle"
    /\ receipt' = TRUE /\ Goes(q, "ingest")
    /\ UNCHANGED <<platform, enabled, row, todo, accepted, excused, lost, faults, switches>>

\* The receipt is created, or it exists and the repeated event is ignored.
Ingests(q) ==
    /\ at[q].pc = "idle"
    /\ receipt' = TRUE /\ Goes(q, IF receipt THEN "over" ELSE "ingest")
    /\ UNCHANGED <<platform, enabled, row, todo, accepted, excused, lost, faults, switches>>

\* processEventOnce, up to the point where it forwards the conversion.
Ingested(q) ==
    /\ at[q].pc = "ingest"
    /\ \/ NoFault /\ Goes(q, "log")
       \/ Fault("ingest") /\ Goes(q, "undo")
    /\ UNCHANGED <<platform, enabled, receipt, row, todo, accepted, excused, lost, switches>>

\* Mutant: the receipt of a failed ingestion stays.
UndoesNothing(q) ==
    /\ at[q].pc = "undo"
    /\ Goes(q, "over") /\ NoFault
    /\ UNCHANGED <<platform, enabled, receipt, row, todo, accepted, excused, lost, switches>>

\* The receipt is deleted; a failure to delete it is swallowed.
Undoes(q) ==
    /\ at[q].pc = "undo"
    /\ \/ NoFault /\ receipt' = FALSE /\ lost' = lost
       \/ Fault("db") /\ receipt' = receipt /\ lost' = TRUE
    /\ Goes(q, "over")
    /\ UNCHANGED <<platform, enabled, row, todo, accepted, excused, switches>>

-----------------------------------------------------------------------------
(* sendEvent of a platform's service *)

Sending(id) == [pc |-> "send", id |-> id, attempts |-> 0, tries |-> 1, verdict |-> "none"]

\* Nothing is sent, and the receipt stays: a bot or an excluded address, consent denied,
\* a configuration that is missing or cannot be read, or sendEvent itself returns (Meta
\* lacks match data, Google its tokens, or its quota cools down) or throws.
Declines(q) ==
    /\ at[q].pc = "log"
    /\ Goes(q, "declined") /\ NoFault
    /\ UNCHANGED <<platform, enabled, receipt, row, todo, accepted, excused, lost, switches>>

\* logDelivery.  When the row cannot be created the event is sent all the same.
Logs(q) ==
    /\ at[q].pc = "log"
    /\ \/ /\ NoFault /\ lost' = lost
          /\ row' = [row EXCEPT ![q] = [NoRow EXCEPT !.status = "PENDING"]]
          /\ at' = [at EXCEPT ![q] = Sending(q)]
       \/ /\ Fault("db") /\ lost' = TRUE
          /\ row' = row
          /\ at' = [at EXCEPT ![q] = Sending("none")]
    /\ UNCHANGED <<platform, enabled, receipt, todo, accepted, excused, switches>>

Refusals == {"FAILED"} \cup (IF platform = "GOOGLE" THEN {"FINAL"} ELSE {})

\* The platform accepts and says so, or refuses; "FINAL" is a failure marked
\* NON_RETRYABLE.
Answered(a, next) ==
    /\ at[a].pc = "send" /\ NoFault
    /\ \E v \in {"SENT"} \cup Refusals :
        /\ at' = [at EXCEPT ![a] = [at[a] EXCEPT !.pc = next, !.verdict = v]]
        /\ accepted' = accepted + Count(v = "SENT")
    /\ excused' = excused

\* No answer, or one that says to try again: the platform may have accepted.
Unanswered(a) ==
    /\ at[a].pc = "send"
    /\ \/ NoFault /\ UNCHANGED <<accepted, excused>>
       \/ Fault("lost") /\ accepted' = accepted + 1 /\ excused' = excused + 1

\* sendWithRetry: up to MaxTries requests.
Sends(a) ==
    /\ \/ Answered(a, "mark")
       \/ /\ Unanswered(a)
          /\ IF at[a].tries < MaxTries
             THEN at' = [at EXCEPT ![a].tries = @ + 1]
             ELSE at' = [at EXCEPT ![a] = [at[a] EXCEPT !.pc = "mark", !.verdict = "FAILED"]]
    /\ UNCHANGED <<platform, enabled, receipt, row, todo, lost, switches>>

\* Google's access token cannot be refreshed: the row stays pending.
TokenThrows(a) ==
    /\ platform = "GOOGLE" /\ at[a].pc = "send" /\ at[a].tries = 1
    /\ at' = [at EXCEPT ![a] = Over(a)]
    /\ UNCHANGED <<platform, enabled, receipt, row, todo, accepted, excused, lost, faults, switches>>

\* markDelivery writes by id; a failure is logged.
Marks(a) ==
    LET c == at[a] IN
    /\ c.pc = "mark"
    /\ \/ /\ NoFault /\ excused' = excused
          /\ row' = IF c.id = "none" THEN row
                    ELSE [row EXCEPT ![c.id] = [row[c.id] EXCEPT !.status = c.verdict, !.attempts = c.tries]]
       \/ /\ Fault("db") /\ excused' = excused + Count(c.verdict = "SENT")
          /\ row' = row
    /\ at' = [at EXCEPT ![a] = Over(a)]
    /\ UNCHANGED <<platform, enabled, receipt, todo, accepted, lost, switches>>

-----------------------------------------------------------------------------
(* retryFailedConversions *)

\* Mutant: pending rows are left to whoever made them pending.
DueFailed(q) == ~row[q].old /\ row[q].status = "FAILED" /\ row[q].attempts < MaxAttempts

\* Mutant: the limit of attempts is forgotten.
DueAlways(q) ==
    /\ ~row[q].old
    /\ row[q].status = "FAILED" \/ (row[q].status = "PENDING" /\ row[q].stale)

\* The rows a pass reads.
Due(q) ==
    /\ ~row[q].old
    /\ \/ row[q].status = "FAILED" /\ row[q].attempts < MaxAttempts
       \/ row[q].status = "PENDING" /\ row[q].stale

\* Somebody works on the row since it was created or claimed.
Busy(q) == \E a \in Requests \cup Passes : at[a].id = q

Snapshot(q) == [id |-> q, status |-> row[q].status, attempts |-> row[q].attempts]

PassReads(p) ==
    LET due == {q \in Requests : Due(q)} IN
    /\ at[p].pc = "idle" /\ due # {}
    /\ todo' = [todo EXCEPT ![p] = {Snapshot(q) : q \in due}]
    /\ Goes(p, "next")
    /\ UNCHANGED <<platform, enabled, receipt, row, accepted, excused, lost, faults, switches>>

\* Is the configuration of the platform missing?  Google's is not looked at.
Unconfigured == platform # "GOOGLE" /\ ~enabled
Exhausted(d) == d.status = "PENDING" /\ d.attempts >= MaxAttempts

\* failStrandedPending, for a pending row that is not retried any more.  A failed
\* row whose platform has no configuration is passed over.
PassGivesUp(p, d) ==
    /\ at[p].pc = "next" /\ d \in todo[p]
    /\ Exhausted(d) \/ Unconfigured
    /\ row' = IF d.status = "PENDING" /\ row[d.id].status = "PENDING"
              THEN [row EXCEPT ![d.id] = [row[d.id] EXCEPT
                        !.status = "FAILED", !.loose = @ \/ Busy(d.id)]]
              ELSE row
    /\ todo' = [todo EXCEPT ![p] = @ \ {d}]
    /\ UNCHANGED <<platform, enabled, receipt, at, accepted, excused, lost, faults, switches>>

\* Mutant: a row is claimed by its id.
ClaimableById(d) == row[d.id].status # "SENT"

\* The condition under which a row is claimed: it is as the pass read it.
Claimable(d) == row[d.id].status = d.status /\ row[d.id].attempts = d.attempts

PassClaims(p, d) ==
    /\ at[p].pc = "next" /\ d \in todo[p]
    /\ ~Exhausted(d) /\ ~Unconfigured
    /\ IF Claimable(d)
       THEN /\ row' = [row EXCEPT ![d.id] = [row[d.id] EXCEPT
                           !.status = "PENDING", !.attempts = @ + 1, !.stale = FALSE]]
            /\ at' = [at EXCEPT ![p] = Sending(d.id)]
       ELSE UNCHANGED <<row, at>>
    /\ todo' = [todo EXCEPT ![p] = @ \ {d}]
    /\ UNCHANGED <<platform, enabled, receipt, accepted, excused, lost, faults, switches>>

\* One request.  An exception is a failure, written once.
PassSends(p) ==
    /\ \/ Answered(p, "finish")
       \/ /\ Unanswered(p)
          /\ at' = [at EXCEPT ![p] = [at[p] EXCEPT !.pc = "finish", !.tries = 2, !.verdict = "FAILED"]]
    /\ UNCHANGED <<platform, enabled, receipt, row, todo, lost, switches>>

\* finishAttempt writes by id.  When that throws, the failure is written instead;
\* when that throws too, the pass ends.
PassFinishes(p) ==
    LET c == at[p] IN
    /\ c.pc = "finish"
    /\ \/ /\ NoFault /\ UNCHANGED <<excused, todo>>
          /\ row' = [row EXCEPT ![c.id].status = c.verdict]
          /\ at' = [at EXCEPT ![p] = [Idle EXCEPT !.pc = "next"]]
       \/ /\ Fault("db") /\ excused' = excused + Count(c.verdict = "SENT")
          /\ row' = row
          /\ IF c.tries = 1
             THEN /\ at' = [at EXCEPT ![p] = [c EXCEPT !.tries = 2, !.verdict = "FAILED"]]
                  /\ todo' = todo
             ELSE /\ at' = [at EXCEPT ![p] = Idle]
                  /\ todo' = [todo EXCEPT ![p] = {}]
    /\ UNCHANGED <<platform, enabled, receipt, accepted, lost, switches>>

PassEnds(p) ==
    /\ at[p].pc = "next" /\ todo[p] = {}
    /\ Goes(p, "idle")
    /\ UNCHANGED <<platform, enabled, receipt, row, todo, accepted, excused, lost, faults, switches>>

-----------------------------------------------------------------------------
(* retryFailedDeliveries, by hand and for Google only *)

Reads(q) == [pc |-> "set", id |-> q, attempts |-> row[q].attempts, tries |-> 0, verdict |-> "none"]

ManualReads(s) == \E q \in Requests :
    /\ "manual" \in Env /\ platform = "GOOGLE" /\ switches < MaxSwitches
    /\ at[s].pc = "idle" /\ row[q].status = "FAILED" /\ ~row[q].old
    /\ switches' = switches + 1
    /\ at' = [at EXCEPT ![s] = Reads(q)]
    /\ UNCHANGED <<platform, enabled, receipt, row, todo, accepted, excused, lost, faults>>

\* The row is made pending by id, and lastAttemptAt stays as it was.
ManualSets(s) ==
    LET c == at[s] IN
    /\ c.pc = "set"
    /\ \/ /\ NoFault
          /\ row' = [row EXCEPT ![c.id] = [row[c.id] EXCEPT
                        !.status = "PENDING", !.attempts = c.attempts + 1, !.loose = TRUE]]
          /\ at' = [at EXCEPT ![s] = Sending(c.id)]
       \/ /\ Fault("db") /\ row' = row
          /\ at' = [at EXCEPT ![s] = Idle]
    /\ UNCHANGED <<platform, enabled, receipt, todo, accepted, excused, lost, switches>>

-----------------------------------------------------------------------------
(* Time, configuration and crashes *)

GoesStale(q) ==
    /\ row[q].status # "none" /\ ~row[q].stale /\ ~Busy(q)
    /\ row' = [row EXCEPT ![q].stale = TRUE]
    /\ UNCHANGED <<platform, enabled, receipt, at, todo, accepted, excused, lost, faults, switches>>

GoesOld(q) ==
    /\ "old" \in Env
    /\ row[q].status # "none" /\ row[q].stale /\ ~row[q].old /\ ~Busy(q)
    /\ row' = [row EXCEPT ![q].old = TRUE]
    /\ UNCHANGED <<platform, enabled, receipt, at, todo, accepted, excused, lost, faults, switches>>

Switches ==
    /\ "switch" \in Env /\ switches < MaxSwitches
    /\ switches' = switches + 1 /\ enabled' = ~enabled
    /\ UNCHANGED <<platform, receipt, row, at, todo, accepted, excused, lost, faults>>

Dies(a) ==
    /\ at[a].pc \notin {"idle", "over", "declined"}
    /\ Fault("crash")
    /\ lost' = (lost \/ at[a].pc \in {"ingest", "undo", "log"})
    /\ excused' = excused + Count(at[a].verdict = "SENT")
    /\ at' = [at EXCEPT ![a] = Over(a)]
    /\ todo' = [p \in Passes |-> IF p = a THEN {} ELSE todo[p]]
    /\ UNCHANGED <<platform, enabled, receipt, row, accepted, switches>>

-----------------------------------------------------------------------------
RequestSteps(q) ==
    \/ Ingests(q) \/ Ingested(q) \/ Undoes(q)
    \/ Declines(q) \/ Logs(q) \/ TokenThrows(q) \/ Sends(q) \/ Marks(q)

PassSteps(p) ==
    \/ PassReads(p) \/ PassSends(p) \/ PassFinishes(p) \/ PassEnds(p)
    \/ \E d \in todo[p] : PassGivesUp(p, d) \/ PassClaims(p, d)

ManualSteps(s) == ManualSets(s) \/ TokenThrows(s) \/ Sends(s) \/ Marks(s)

Next ==
    \/ \E q \in Requests : RequestSteps(q) \/ GoesStale(q) \/ GoesOld(q)
    \/ \E p \in Passes : PassSteps(p)
    \/ \E s \in Staff : ManualReads(s) \/ ManualSteps(s)
    \/ \E a \in Actors : Dies(a)
    \/ Switches

\* What was begun goes on, a pass comes every ten minutes, and time passes.
Fairness ==
    /\ \A q \in Requests : WF_vars(RequestSteps(q)) /\ WF_vars(GoesStale(q))
    /\ \A p \in Passes : WF_vars(PassSteps(p))
    /\ \A s \in Staff : WF_vars(ManualSteps(s))

Spec     == Init /\ [][Next]_vars
LiveSpec == Spec /\ Fairness

-----------------------------------------------------------------------------
(* Properties *)

Stages   == {"idle", "over", "declined", "ingest", "undo", "log", "send", "mark", "next", "finish", "set"}
Verdicts == {"SENT", "FAILED", "FINAL"}

\* A row made, or failed, by the service respects MaxTries and the passes respect
\* MaxAttempts: only retries by hand take a row beyond both.
Limit == IF MaxTries > MaxAttempts THEN MaxTries ELSE MaxAttempts

Row     == [status : {"none", "PENDING"} \cup Verdicts, attempts : Nat,
            stale : BOOLEAN, old : BOOLEAN, loose : BOOLEAN]
Call    == [pc : Stages, id : Requests \cup {"none"}, attempts : Nat,
            tries : 0..MaxTries + 1, verdict : {"none"} \cup Verdicts]
Reading == [id : Requests, status : {"PENDING", "FAILED"}, attempts : Nat]

TypeOK ==
    /\ platform \in {"GOOGLE", "META"}
    /\ enabled \in BOOLEAN /\ receipt \in BOOLEAN /\ lost \in BOOLEAN
    /\ row \in [Requests -> Row] /\ at \in [Actors -> Call] /\ todo \in [Passes -> SUBSET Reading]
    /\ accepted \in Nat /\ excused \in Nat /\ faults \in Nat /\ switches \in Nat
    /\ \A q \in Requests : row[q].attempts <= Limit + switches

\* Repeated events, overlapping passes and retries do not send a conversion again
\* that the platform has accepted, once for each acceptance that a crash, a lost
\* answer or a failed write kept from being recorded.  A retry by hand looks at no
\* claim, nor does failStrandedPending: these void it.
RepeatsExcused == accepted <= 1 + excused \/ \E q \in Requests : row[q].loose

\* "A failed ingestion must remain retryable with the same source event ID": a
\* receipt without a delivery belongs to an ingestion under way, or to one that
\* declined to deliver, or is left by a crash or a failing database.
FailedRetryable ==
    receipt => \/ lost \/ \E q \in Requests : row[q].status # "none"
               \/ \E q \in Requests : at[q].pc \in {"ingest", "undo", "log", "declined"}

\* A conversion recorded as sent stays so, although all outcomes are written by
\* id and passes overlap, unless the row was written without regard to a claim.
SentStays == [][\A q \in Requests : row[q].status = "SENT" =>
    row'[q].status = "SENT" \/ row'[q].loose]_vars

\* Whatever fails, a conversion younger than a day ends as sent, or as failed with
\* its attempts used up or its platform switched off; none stays pending.
Settled(q) ==
    \/ row[q].status \in {"none", "SENT", "FINAL"} \/ row[q].old
    \/ row[q].status = "FAILED" /\ (row[q].attempts >= MaxAttempts \/ Unconfigured)
EventuallySettled == <>[](\A q \in Requests : Settled(q))
=============================================================================
