-------------------------- MODULE CatalogGenerations --------------------------
(***************************************************************************)
(* The wholesale catalog PDFs of one catalog, from request to approval and *)
(* the extension of their validity: generations.ts, worker.ts,             *)
(* validityWorker.ts and reconciliation.ts in                              *)
(* src/server/src/services/wholesale.                                      *)
(*                                                                         *)
(* The directory of a generation holds its temporary file (Tmp), the       *)
(* master PDF (0) and the PDF of validity revision n (n).  A transaction   *)
(* at isolation level Serializable is one step, but for the one that       *)
(* creates a generation: it removes files on its way, which no rollback    *)
(* brings back.                                                            *)
(***************************************************************************)
EXTENDS Integers, FiniteSets

CONSTANTS
    Generations,   \* rows of WholesaleCatalogGeneration that may be created
    Requesters,    \* overlapping requests of the staff
    MaxRevision,   \* bound: extensions of a generation
    MaxFaults,     \* bound: failures
    Env            \* what fails, see EnvEvents

\* crash: a request or a worker dies; enqueue: adding a job fails, or its answer
\* is lost; render: rendering fails; db: the closing transaction of a worker fails;
\* commit: it commits, and the worker does not hear of it; late: a worker is alive
\* when the lease of its generation ends.
EnvEvents == {"crash", "enqueue", "render", "db", "commit", "late"}

ASSUME ConstantsAssumption ==
    /\ IsFiniteSet(Generations)
    /\ MaxRevision \in Nat /\ MaxFaults \in Nat
    /\ Env \subseteq EnvEvents

VARIABLES
    gen,        \* the rows
    disk,       \* files in the directory of each generation
    late,       \* generations whose startedAt is 35 minutes ago
    job,        \* the generation job of each row
    xjob,       \* the extension jobs, by generation and revision to be made
    req,        \* local state of the requests
    worker,     \* local state of the one worker of the generation queue
    ext,        \* local state of the one worker of the extension queue
    abandoned,  \* history: generations nobody will finish
    lost,       \* history: generations whose files were removed by the sweep of an
                \* expired lease, or by a worker that did not hear of its commit
    faults

vars == <<gen, disk, late, job, xjob, req, worker, ext, abandoned, lost, faults>>

Tmp  == -1
Null == -2
None == "none"

Active    == {"QUEUED", "RENDERING"}
Over      == {"CANCELLED", "FAILED"}
Published == {"AWAITING_APPROVAL", "APPROVED"}

NoGen  == [status |-> None, cancel |-> FALSE, path |-> Null, version |-> 0,
           stale |-> FALSE, revision |-> 0, artifact |-> "CURRENT"]
NoReq  == [pc |-> "idle", g |-> None, seen |-> None, revision |-> 0, expired |-> {}]
NoWork == [pc |-> "idle", g |-> None, cancelled |-> FALSE]
NoExt  == [pc |-> "idle", g |-> None, revision |-> 0]

Init ==
    /\ gen = [g \in Generations |-> NoGen] /\ disk = [g \in Generations |-> {}]
    /\ late = {}
    /\ job = [g \in Generations |-> None]
    /\ xjob = [j \in Generations \X (1..MaxRevision) |-> None]
    /\ req = [r \in Requesters |-> NoReq]
    /\ worker = NoWork /\ ext = NoExt
    /\ abandoned = {} /\ lost = {} /\ faults = 0

Fault(e) == e \in Env /\ faults < MaxFaults /\ faults' = faults + 1
NoFault  == faults' = faults
RequestDone(r) == req' = [req EXCEPT ![r] = NoReq]

-----------------------------------------------------------------------------
(* create, retry *)

Status(S)  == {g \in Generations : gen[g].status \in S}

\* Mutant: generations that are being rendered do not count.
BlockingQueued(expired) == Status({"QUEUED"})

\* ensureNoActive: a rendering whose lease is over does not count.
Blocking(expired) == Status(Active) \ expired

\* The snapshot of the transaction; it is taken before the request has the advisory
\* lock of the account, which it holds while "swept".  (A request that finds another
\* generation active, and no lease over, changes nothing.)
SweepReads(r) ==
    LET expired == Status({"RENDERING"}) \cap late IN
    /\ req[r].pc = "idle" /\ Status({None}) # {}
    /\ expired # {} \/ Blocking(expired) = {}
    /\ req' = [req EXCEPT ![r] = [NoReq EXCEPT
           !.pc = "sweep", !.expired = expired,
           !.seen = IF Blocking(expired) = {} THEN None ELSE "active"]]
    /\ UNCHANGED <<gen, disk, late, job, xjob, worker, ext, abandoned, lost, faults>>

\* The directories go at once.
SweepRemoves(r) ==
    /\ req[r].pc = "sweep"
    /\ \A q \in Requesters : req[q].pc # "swept"
    /\ disk' = [g \in Generations |-> IF g \in req[r].expired THEN {} ELSE disk[g]]
    /\ lost' = lost \cup req[r].expired
    /\ req' = [req EXCEPT ![r].pc = "swept"]
    /\ UNCHANGED <<gen, late, job, xjob, worker, ext, abandoned, faults>>

\* The transaction commits only if the rows it expires are what they were, and no
\* other request created one meanwhile.  A retry makes a new row of the same snapshot.
Creates(r) ==
    LET g == CHOOSE q \in Generations : gen[q].status = None IN
    /\ req[r].pc = "swept" /\ req[r].seen = None /\ Status({None}) # {}
    /\ req[r].expired \subseteq Status({"RENDERING"})
    /\ Blocking(req[r].expired) = {}
    /\ gen' = [q \in Generations |->
           IF q = g THEN [NoGen EXCEPT !.status = "QUEUED"]
           ELSE IF q \in req[r].expired THEN [gen[q] EXCEPT !.status = "FAILED", !.path = Null] ELSE gen[q]]
    /\ req' = [req EXCEPT ![r] = [NoReq EXCEPT !.pc = "enqueue", !.g = g]]
    /\ UNCHANGED <<disk, late, job, xjob, worker, ext, abandoned, lost, faults>>

\* Another generation is active, something the catalog needs is missing, or the
\* transaction conflicts with another one, or is too slow.
RollsBack(r) ==
    /\ req[r].pc = "swept"
    /\ RequestDone(r)
    /\ UNCHANGED <<gen, disk, late, job, xjob, worker, ext, abandoned, lost, faults>>

\* When adding the job fails, it may have been added all the same.
Enqueues(r) ==
    /\ req[r].pc = "enqueue"
    /\ \/ /\ NoFault /\ RequestDone(r)
          /\ job' = [job EXCEPT ![req[r].g] = "waiting"]
       \/ /\ Fault("enqueue")
          /\ req' = [req EXCEPT ![r].pc = "failed"]
          /\ \/ job' = job
             \/ job' = [job EXCEPT ![req[r].g] = "waiting"]
    /\ UNCHANGED <<gen, disk, late, xjob, worker, ext, abandoned, lost>>

\* By id, whatever the row has become.
EnqueueFailed(r) ==
    /\ req[r].pc = "failed"
    /\ gen' = [gen EXCEPT ![req[r].g].status = "FAILED"]
    /\ RequestDone(r)
    /\ UNCHANGED <<disk, late, job, xjob, worker, ext, abandoned, lost, faults>>

RequestDies(r) ==
    /\ req[r].pc # "idle"
    /\ Fault("crash")
    /\ abandoned' = IF req[r].pc \in {"enqueue", "failed", "extend", "extendFailed"}
                    THEN abandoned \cup {req[r].g} ELSE abandoned
    /\ RequestDone(r)
    /\ UNCHANGED <<gen, disk, late, job, xjob, worker, ext, lost>>

-----------------------------------------------------------------------------
(* cancel, approve *)

Reads(r, g, pc) == req' = [req EXCEPT ![r] =
    [NoReq EXCEPT !.pc = pc, !.g = g, !.seen = gen[g].status, !.revision = gen[g].revision]]

CancelReads(r, g) ==
    /\ req[r].pc = "idle" /\ gen[g].status \in Active
    /\ Reads(r, g, "cancel")
    /\ UNCHANGED <<gen, disk, late, job, xjob, worker, ext, abandoned, lost, faults>>

\* By id, as the status that was read says.  A job that waits is removed.
CancelWrites(r) ==
    LET g == req[r].g IN
    /\ req[r].pc = "cancel"
    /\ gen' = IF req[r].seen = "QUEUED"
              THEN [gen EXCEPT ![g] = [gen[g] EXCEPT !.status = "CANCELLED", !.cancel = TRUE]]
              ELSE [gen EXCEPT ![g] = [gen[g] EXCEPT !.cancel = TRUE]]
    /\ job' = IF req[r].seen = "QUEUED" /\ job[g] = "waiting" THEN [job EXCEPT ![g] = None] ELSE job
    /\ RequestDone(r)
    /\ UNCHANGED <<disk, late, xjob, worker, ext, abandoned, lost, faults>>

ApproveReads(r, g) ==
    /\ req[r].pc = "idle" /\ gen[g].status = "AWAITING_APPROVAL"
    /\ Reads(r, g, "approve")
    /\ UNCHANGED <<gen, disk, late, job, xjob, worker, ext, abandoned, lost, faults>>

ApproveWrites(r) ==
    /\ req[r].pc = "approve"
    /\ gen' = [gen EXCEPT ![req[r].g].status = "APPROVED"]
    /\ RequestDone(r)
    /\ UNCHANGED <<disk, late, job, xjob, worker, ext, abandoned, lost, faults>>

\* reconcileWholesaleProducts, markApprovedGenerationsStale
GoesStale(g) ==
    /\ gen[g].status = "APPROVED" /\ ~gen[g].stale
    /\ gen' = [gen EXCEPT ![g].stale = TRUE]
    /\ UNCHANGED <<disk, late, job, xjob, req, worker, ext, abandoned, lost, faults>>

-----------------------------------------------------------------------------
(* WholesaleCatalogWorker.process *)

WorkerGoes(pc) == worker' = [worker EXCEPT !.pc = pc]
WorkerFree(g)  == worker' = NoWork /\ job' = [job EXCEPT ![g] = None]

WorkerClaims(g) ==
    /\ worker.pc = "idle" /\ job[g] = "waiting"
    /\ IF gen[g].status = "QUEUED" /\ ~gen[g].cancel
       THEN /\ gen' = [gen EXCEPT ![g].status = "RENDERING"]
            /\ worker' = [pc |-> "render", g |-> g, cancelled |-> FALSE]
            /\ job' = [job EXCEPT ![g] = "active"]
       ELSE gen' = gen /\ WorkerFree(g)
    /\ UNCHANGED <<disk, late, xjob, req, ext, abandoned, lost, faults>>

\* Rendering checks for the cancellation and the deadline as it goes on.
WorkerRenders ==
    LET g == worker.g IN
    /\ worker.pc = "render"
    /\ IF gen[g].cancel \/ g \in late
       THEN worker' = [worker EXCEPT !.pc = "fail", !.cancelled = g \notin late] /\ disk' = disk /\ NoFault
       ELSE \/ NoFault /\ WorkerGoes("rename") /\ disk' = [disk EXCEPT ![g] = @ \cup {Tmp}]
            \/ Fault("render") /\ WorkerGoes("fail") /\ disk' = disk
    /\ UNCHANGED <<gen, late, job, xjob, req, ext, abandoned, lost>>

WorkerRenames ==
    LET g == worker.g IN
    /\ worker.pc = "rename"
    /\ IF Tmp \in disk[g]
       THEN WorkerGoes("finalize") /\ disk' = [disk EXCEPT ![g] = (@ \ {Tmp}) \cup {0}]
       ELSE WorkerGoes("fail") /\ disk' = disk
    /\ UNCHANGED <<gen, late, job, xjob, req, ext, abandoned, lost, faults>>

\* Mutant: off by one.
NextVersionSkips == Cardinality(Status(Published)) + 2

NextVersion ==
    LET versions == {gen[q].version : q \in Generations} IN
    1 + CHOOSE n \in versions : \A k \in versions : k <= n

\* Mutant: only the cancellation is looked at.
FinalizableUnlessCancelled(g) == ~gen[g].cancel

\* Mutant: only the status is looked at.
FinalizableByStatus(g) == gen[g].status = "RENDERING"

Finalizable(g) == gen[g].status = "RENDERING" /\ ~gen[g].cancel

\* A worker that does not hear of its commit fails, and removes what it published.
WorkerFinalizes ==
    LET g == worker.g IN
    /\ worker.pc = "finalize"
    /\ \/ /\ Finalizable(g)
          /\ gen' = [gen EXCEPT ![g] = [gen[g] EXCEPT
                 !.status = "AWAITING_APPROVAL", !.version = NextVersion, !.path = 0]]
          /\ \/ NoFault /\ WorkerFree(g) /\ lost' = lost
             \/ Fault("commit") /\ WorkerGoes("fail") /\ job' = job /\ lost' = lost \cup {g}
       \/ /\ NoFault /\ ~Finalizable(g)
          /\ WorkerGoes("discard") /\ UNCHANGED <<gen, job, lost>>
       \/ /\ Fault("db")
          /\ WorkerGoes("fail") /\ UNCHANGED <<gen, job, lost>>
    /\ UNCHANGED <<disk, late, xjob, req, ext, abandoned>>

\* Mutant: the cancellation is not confirmed.
WorkerDiscardsFile ==
    /\ worker.pc = "discard"
    /\ disk' = [disk EXCEPT ![worker.g] = {}]
    /\ WorkerFree(worker.g)
    /\ UNCHANGED <<gen, late, xjob, req, ext, abandoned, lost, faults>>

\* Not finalized: the file goes, and a cancellation is confirmed.
WorkerDiscards ==
    LET g == worker.g IN
    /\ worker.pc = "discard"
    /\ disk' = [disk EXCEPT ![g] = {}]
    /\ gen' = IF gen[g].status = "RENDERING" /\ gen[g].cancel
              THEN [gen EXCEPT ![g].status = "CANCELLED"] ELSE gen
    /\ WorkerFree(g)
    /\ UNCHANGED <<late, xjob, req, ext, abandoned, lost, faults>>

\* An error while a cancellation is pending changes nothing.
WorkerFails ==
    LET g == worker.g
        ours == gen[g].status = "RENDERING" /\ (worker.cancelled \/ ~gen[g].cancel) IN
    /\ worker.pc = "fail"
    /\ disk' = [disk EXCEPT ![g] = {}]
    /\ gen' = IF ours THEN [gen EXCEPT ![g] = [gen[g] EXCEPT !.path = Null,
                                !.status = IF worker.cancelled THEN "CANCELLED" ELSE "FAILED"]]
              ELSE gen
    /\ abandoned' = IF gen[g].status = "RENDERING" /\ ~ours THEN abandoned \cup {g} ELSE abandoned
    /\ WorkerFree(g)
    /\ UNCHANGED <<late, xjob, req, ext, lost, faults>>

\* The stalled job comes back and finds the row claimed.
WorkerDies ==
    LET g == worker.g IN
    /\ worker.pc # "idle"
    /\ Fault("crash")
    /\ abandoned' = abandoned \cup {g}
    /\ job' = [job EXCEPT ![g] = "waiting"]
    /\ worker' = NoWork
    /\ UNCHANGED <<gen, disk, late, xjob, req, ext, lost>>

\* 35 minutes after the claim; the deadline of the worker is 30.
LeaseEnds(g) ==
    /\ gen[g].status = "RENDERING" /\ g \notin late
    /\ IF worker.g = g THEN Fault("late") ELSE NoFault
    /\ late' = late \cup {g}
    /\ UNCHANGED <<gen, disk, job, xjob, req, worker, ext, abandoned, lost>>

-----------------------------------------------------------------------------
(* extendValidity, WholesaleCatalogValidityWorker.process *)

Extends(r, g) ==
    /\ req[r].pc = "idle"
    /\ gen[g].status = "APPROVED" /\ ~gen[g].stale /\ gen[g].artifact # "UPDATING"
    /\ gen[g].revision < MaxRevision
    /\ gen' = [gen EXCEPT ![g].artifact = "UPDATING"]
    /\ Reads(r, g, "extend")
    /\ UNCHANGED <<disk, late, job, xjob, worker, ext, abandoned, lost, faults>>

\* The name of a job is its generation and revision; the queue keeps finished
\* jobs for a while, and adding a job it still knows does nothing.
Added(j) == xjob' = IF xjob[j] = None THEN [xjob EXCEPT ![j] = "waiting"] ELSE xjob

ExtendEnqueues(r) ==
    LET j == <<req[r].g, req[r].revision + 1>> IN
    /\ req[r].pc = "extend"
    /\ \/ NoFault /\ RequestDone(r) /\ Added(j)
       \/ /\ Fault("enqueue")
          /\ req' = [req EXCEPT ![r].pc = "extendFailed"]
          /\ xjob' = xjob \/ Added(j)
    /\ abandoned' = IF xjob[j] = "done" THEN abandoned \cup {req[r].g} ELSE abandoned
    /\ UNCHANGED <<gen, disk, late, job, worker, ext, lost>>

ExtendFailed(r) ==
    LET g == req[r].g IN
    /\ req[r].pc = "extendFailed"
    /\ gen' = IF gen[g].artifact = "UPDATING" /\ gen[g].revision = req[r].revision
              THEN [gen EXCEPT ![g].artifact = "FAILED"] ELSE gen
    /\ RequestDone(r)
    /\ UNCHANGED <<disk, late, job, xjob, worker, ext, abandoned, lost, faults>>

\* 100 completed jobs are kept, and failed ones for 24 hours.
QueueForgets(j) ==
    /\ xjob[j] = "done"
    /\ xjob' = [xjob EXCEPT ![j] = None]
    /\ UNCHANGED <<gen, disk, late, job, req, worker, ext, abandoned, lost, faults>>

ExtGoes(pc) == ext' = [ext EXCEPT !.pc = pc]
Made        == <<ext.g, ext.revision + 1>>     \* the job, and the revision it makes
ExtDone(j)  == ext' = NoExt /\ xjob' = [xjob EXCEPT ![j] = "done"]

\* The row is read; a job that no longer applies is dropped.
ExtTakes(j) ==
    LET g == j[1] IN
    /\ ext.pc = "idle" /\ xjob[j] = "waiting"
    /\ IF /\ gen[g].status = "APPROVED" /\ ~gen[g].stale
          /\ gen[g].artifact = "UPDATING" /\ j[2] = gen[g].revision + 1
       THEN /\ ext' = [pc |-> "clean", g |-> g, revision |-> gen[g].revision]
            /\ xjob' = [xjob EXCEPT ![j] = "active"]
       ELSE ExtDone(j)
    /\ UNCHANGED <<gen, disk, late, job, req, worker, abandoned, lost, faults>>

ExtCleans ==
    /\ ext.pc = "clean"
    /\ disk' = [disk EXCEPT ![ext.g] = @ \ {Made[2]}]
    /\ ExtGoes("render")
    /\ UNCHANGED <<gen, late, job, xjob, req, worker, abandoned, lost, faults>>

ExtRenders ==
    /\ ext.pc = "render"
    /\ \/ NoFault /\ ExtGoes("switch") /\ disk' = [disk EXCEPT ![ext.g] = @ \cup {Made[2]}]
       \/ Fault("render") /\ ExtGoes("fail") /\ disk' = disk
    /\ UNCHANGED <<gen, late, job, xjob, req, worker, abandoned, lost>>

Switchable ==
    LET row == gen[ext.g] IN
    /\ row.status = "APPROVED" /\ ~row.stale /\ row.artifact = "UPDATING"
    /\ row.revision = ext.revision

ExtSwitches ==
    /\ ext.pc = "switch"
    /\ \/ /\ Switchable
          /\ gen' = [gen EXCEPT ![ext.g] = [gen[ext.g] EXCEPT
                 !.revision = Made[2], !.artifact = "CURRENT", !.path = Made[2]]]
          /\ \/ NoFault /\ ExtDone(Made) /\ lost' = lost
             \/ Fault("commit") /\ ExtGoes("fail") /\ xjob' = xjob /\ lost' = lost \cup {ext.g}
       \/ /\ NoFault /\ ~Switchable
          /\ ExtGoes("fail") /\ UNCHANGED <<gen, xjob, lost>>
       \/ /\ Fault("db")
          /\ ExtGoes("fail") /\ UNCHANGED <<gen, xjob, lost>>
    /\ UNCHANGED <<disk, late, job, req, worker, abandoned>>

\* Mutant: a failed extension removes the directory of the generation.
ExtFailsAll ==
    LET g == ext.g IN
    /\ ext.pc = "fail"
    /\ disk' = [disk EXCEPT ![g] = {}]
    /\ gen' = IF gen[g].artifact = "UPDATING" /\ gen[g].revision = ext.revision
              THEN [gen EXCEPT ![g].artifact = "FAILED"] ELSE gen
    /\ ExtDone(Made)
    /\ UNCHANGED <<late, job, req, worker, abandoned, lost, faults>>

\* Mutant: the failure is not recorded.
ExtFailsSilently ==
    /\ ext.pc = "fail"
    /\ disk' = [disk EXCEPT ![ext.g] = @ \ {Made[2]}]
    /\ ExtDone(Made)
    /\ UNCHANGED <<gen, late, job, req, worker, abandoned, lost, faults>>

ExtFails ==
    LET g == ext.g IN
    /\ ext.pc = "fail"
    /\ disk' = [disk EXCEPT ![g] = @ \ {Made[2]}]
    /\ gen' = IF gen[g].artifact = "UPDATING" /\ gen[g].revision = ext.revision
              THEN [gen EXCEPT ![g].artifact = "FAILED"] ELSE gen
    /\ ExtDone(Made)
    /\ UNCHANGED <<late, job, req, worker, abandoned, lost, faults>>

\* The stalled job comes back.
ExtDies ==
    /\ ext.pc # "idle"
    /\ Fault("crash")
    /\ ext' = NoExt /\ xjob' = [xjob EXCEPT ![Made] = "waiting"]
    /\ UNCHANGED <<gen, disk, late, job, req, worker, abandoned, lost>>

-----------------------------------------------------------------------------
RequestSteps(r) ==
    \/ SweepRemoves(r) \/ Creates(r) \/ RollsBack(r)
    \/ Enqueues(r) \/ EnqueueFailed(r) \/ CancelWrites(r) \/ ApproveWrites(r)
    \/ ExtendEnqueues(r) \/ ExtendFailed(r)

WorkerSteps ==
    \/ \E g \in Generations : WorkerClaims(g)
    \/ WorkerRenders \/ WorkerRenames \/ WorkerFinalizes \/ WorkerDiscards \/ WorkerFails

ExtSteps ==
    \/ \E j \in DOMAIN xjob : ExtTakes(j)
    \/ ExtCleans \/ ExtRenders \/ ExtSwitches \/ ExtFails

Next ==
    \/ \E r \in Requesters, g \in Generations :
           CancelReads(r, g) \/ ApproveReads(r, g) \/ Extends(r, g)
    \/ \E r \in Requesters : SweepReads(r) \/ RequestSteps(r) \/ RequestDies(r)
    \/ \E g \in Generations : GoesStale(g) \/ LeaseEnds(g)
    \/ WorkerSteps \/ WorkerDies
    \/ ExtSteps \/ ExtDies
    \/ \E j \in DOMAIN xjob : QueueForgets(j)

\* Requests that were started go on, and the workers take their jobs.
Fairness ==
    /\ \A r \in Requesters : WF_vars(RequestSteps(r))
    /\ WF_vars(WorkerSteps)
    /\ WF_vars(ExtSteps)

Spec     == Init /\ [][Next]_vars
LiveSpec == Spec /\ Fairness

-----------------------------------------------------------------------------
(* Properties *)

TypeOK ==
    /\ \A g \in Generations :
           /\ gen[g].status \in {None} \cup Active \cup Published \cup Over
           /\ gen[g].path \in {Null} \cup 0..MaxRevision /\ gen[g].revision \in 0..MaxRevision
           /\ gen[g].artifact \in {"CURRENT", "UPDATING", "FAILED"}
           /\ gen[g].version \in 0..Cardinality(Generations)
           /\ disk[g] \subseteq {Tmp} \cup 0..MaxRevision
    /\ late \subseteq Generations /\ abandoned \subseteq Generations /\ lost \subseteq Generations

\* At most one generation of the account is active, whoever asks for it and however
\* earlier ones ended ("one active generation per account", plan :100).
OneActive == Cardinality(Status(Active)) <= 1

\* A catalog on offer has its PDF on the disk, the one of its validity revision,
\* although discards and failed or repeated extensions remove files beside it.  Two
\* things take it away: a request that found the lease over removed the directory, and
\* the worker published all the same; or the worker published, did not hear of it, and
\* cleaned up.
PublishedHasFile == \A g \in Status(Published) :
    gen[g].path = gen[g].revision /\ (gen[g].path \in disk[g] \/ g \in lost)

\* No worker puts up for approval a generation that was cancelled or failed, or has a
\* cancellation pending, although it may still be rendering it.  (An approval that had
\* read the row before may still approve a closed one, as it writes by id.)
ClosedStaysClosed == [][\A g \in Generations :
    (gen[g].status \in Over \/ (gen[g].status \in Active /\ gen[g].cancel))
        => gen'[g].status # "AWAITING_APPROVAL"]_vars

\* A generation that is under way, and an extension of a catalog that did not go stale.
HalfDone(g) ==
    /\ g \notin abandoned
    /\ \/ gen[g].status \in Active
       \/ gen[g].status = "APPROVED" /\ gen[g].artifact = "UPDATING" /\ ~gen[g].stale

\* What is half done ends, one way or another, unless the process that had to finish it
\* died or failed while it was being cancelled, or the queue took the job of an
\* extension for the one that failed before.
EverythingEnds == \A g \in Generations : HalfDone(g) ~> ~HalfDone(g)

\* "preserve old artifacts while showing an updating state, then switch all hosted
\* assets atomically" (docs/wholesale-catalog-generator-plan.md:133): the updating
\* state of a catalog that is not stale does not last for ever.
UpdatingEnds == \A g \in Generations :
    gen[g].artifact = "UPDATING" ~> (gen[g].artifact # "UPDATING" \/ gen[g].stale)
=============================================================================
