---------------------- MODULE CatalogGenerations_proofs ----------------------
(***************************************************************************)
(* Proofs about CatalogGenerations, for any number of generations and      *)
(* requests and any failures: the types with their bounds, that at most    *)
(* one generation is active, that every catalog on offer has its file but  *)
(* for the two ways it is lost, and that no worker puts up for approval    *)
(* what was cancelled or failed.                                           *)
(*                                                                         *)
(* PublishedHasFile rests on who may still touch a directory: a generation *)
(* has a path from its publication on; the worker handles generations      *)
(* without one, unless it did not hear of its own commit, and a sweep      *)
(* those it read without one; and an extension removes the file of the     *)
(* revision it makes, never the one on offer.  The bound of the versions   *)
(* counts the generations with a path.                                     *)
(***************************************************************************)
EXTENDS CatalogGenerations, TLAPS, FiniteSetTheorems, WellFoundedInduction

Revisions == 0..MaxRevision
Statuses  == {None} \cup Active \cup Published \cup Over

Gen  == [status : Statuses, cancel : BOOLEAN, path : {Null} \cup Revisions,
         version : 0..Cardinality(Generations), stale : BOOLEAN, revision : Revisions,
         artifact : {"CURRENT", "UPDATING", "FAILED"}]
Req  == [pc : {"idle", "sweep", "swept", "enqueue", "failed", "cancel", "approve", "extend",
               "extendFailed"},
         g : Generations \cup {None}, seen : Statuses \cup {"active"}, revision : Revisions,
         expired : SUBSET Generations]
Work == [pc : {"idle", "render", "rename", "finalize", "discard", "fail"},
         g : Generations \cup {None}, cancelled : BOOLEAN]
Ext  == [pc : {"idle", "clean", "render", "switch", "fail"},
         g : Generations \cup {None}, revision : Revisions]
Jobs == {None, "waiting", "active", "done"}

\* A request at these has no row in its hands yet.
Rowless == {"idle", "sweep", "swept"}

Types ==
    /\ gen \in [Generations -> Gen] /\ disk \in [Generations -> SUBSET ({Tmp} \cup Revisions)]
    /\ req \in [Requesters -> Req] /\ worker \in Work /\ ext \in Ext
    /\ xjob \in [Generations \X (1..MaxRevision) -> Jobs]
    /\ late \subseteq Generations /\ abandoned \subseteq Generations /\ lost \subseteq Generations
    /\ \A r \in Requesters : req[r].pc \notin Rowless => req[r].g \in Generations
    /\ worker.pc # "idle" => worker.g \in Generations
    /\ ext.pc # "idle" => ext.g \in Generations /\ ext.revision < MaxRevision

\* At most one generation is active.
Single == \A g, h \in Generations : gen[g].status \in Active /\ gen[h].status \in Active => g = h

\* From its publication on a generation has a path, and its file unless that was lost.
Filed == \A g \in Generations :
    IF gen[g].path = Null
    THEN gen[g].revision = 0 /\ gen[g].version = 0 /\ gen[g].status \notin Published
    ELSE /\ gen[g].path = gen[g].revision /\ (gen[g].path \in disk[g] \/ g \in lost)
         /\ gen[g].status \notin Active \cup {None}

\* Versions number the generations with a path.
Filled   == {g \in Generations : gen[g].path # Null}
Numbered == \A g \in Generations : gen[g].version <= Cardinality(Filled)

\* What the actors rely on while they hold a generation.
Approving == \A r \in Requesters : req[r].pc = "approve" => gen[req[r].g].path # Null
Rendering == worker.pc # "idle" =>
    /\ gen[worker.g].path = Null \/ (worker.pc = "fail" /\ worker.g \in lost)
    /\ worker.pc = "finalize" /\ gen[worker.g].status = "RENDERING" =>
           0 \in disk[worker.g] \/ worker.g \in lost
Extending == ext.pc # "idle" =>
    /\ gen[ext.g].path # Null
    /\ gen[ext.g].revision = ext.revision \/ (ext.pc = "fail" /\ ext.g \in lost)
    /\ ext.pc = "switch" => ext.revision + 1 \in disk[ext.g] \/ ext.g \in lost

IInv == Types /\ Single /\ Filed /\ Numbered /\ Approving /\ Rendering /\ Extending


-----------------------------------------------------------------------------
\* A set of numbers up to N has a greatest one.
LEMMA Greatest ==
    ASSUME NEW N \in Nat, NEW T, T \subseteq 0..N, T # {}
    PROVE  \E n \in T : \A k \in T : k <= n
<1> DEFINE D == {N - t : t \in T}
<1>1. D \subseteq Nat /\ D # {}
  <2>1. ASSUME NEW t \in T PROVE N - t \in Nat
    OBVIOUS
  <2>2. PICK t \in T : TRUE
    OBVIOUS
  <2>3. N - t \in D
    OBVIOUS
  <2> QED
    BY <2>1, <2>3
<1>2. PICK x \in D : \A y \in D : ~(<<y, x>> \in OpToRel(<, Nat))
  BY <1>1, NatLessThanWellFounded, WFMin
<1>3. \A y \in D : ~(y < x)
  BY <1>1, <1>2 DEF OpToRel
<1>4. PICK n \in T : x = N - n
  BY <1>2
<1>5. \A k \in T : ~(N - k < N - n)
  BY <1>3, <1>4
<1> QED
  BY <1>5

LEMMA CardType ==
    /\ Cardinality(Generations) \in Nat /\ MaxRevision \in Nat
    /\ \A S \in SUBSET Generations :
           /\ IsFiniteSet(S) /\ Cardinality(S) \in Nat
           /\ Cardinality(S) <= Cardinality(Generations)
BY ConstantsAssumption, FS_CardinalityType, FS_Subset

\* A generation without a path takes the next version, and there is room for it.
LEMMA NextVersionType ==
    ASSUME IInv, NEW g \in Generations, gen[g].path = Null
    PROVE  /\ NextVersion \in 1..Cardinality(Generations)
           /\ NextVersion <= Cardinality(Filled \cup {g})
<1> DEFINE V == {gen[q].version : q \in Generations}
           C == Cardinality(Generations)
<1> USE DEF IInv, Types, Rowless
<1>1. V \subseteq 0..C /\ V # {} /\ C \in Nat
  BY CardType DEF Gen
<1>2. PICK m \in V : \A k \in V : k <= m
  BY <1>1, Greatest
<1>3. DEFINE n == CHOOSE n \in V : \A k \in V : k <= n
<1>4. n \in V /\ \A k \in V : k <= n
  BY <1>2
<1>5. n <= Cardinality(Filled)
  BY <1>4 DEF Numbered
<1>6. Filled \in SUBSET Generations /\ Filled \cup {g} \in SUBSET Generations /\ g \notin Filled
  BY DEF Filled
<1>7. Cardinality(Filled \cup {g}) = Cardinality(Filled) + 1 /\ Cardinality(Filled \cup {g}) <= C
  BY <1>6, CardType, FS_AddElement
<1>8. NextVersion = 1 + n
  BY DEF NextVersion
<1> HIDE DEF n, V, C
<1>9. n \in Nat /\ Cardinality(Filled) \in Nat
  BY <1>1, <1>4, <1>6, CardType
<1> QED
  BY <1>1, <1>5, <1>7, <1>8, <1>9 DEF C

-----------------------------------------------------------------------------
\* What most steps leave of a row.
RowsKept == \A g \in Generations :
    /\ gen'[g].path = gen[g].path /\ gen'[g].version = gen[g].version
    /\ gen'[g].revision = gen[g].revision

LEMMA FiledKept ==
    ASSUME IInv, RowsKept,
           \A g \in Generations : gen'[g].status # gen[g].status =>
               gen'[g].status \in Over \cup (IF gen[g].path = Null THEN Active ELSE Published),
           \A g \in Generations : gen[g].path # Null => gen[g].path \in disk'[g] \/ g \in lost'
    PROVE  Filed' /\ Numbered'
<1>1. Filled' = Filled
  BY DEF RowsKept, Filled
<1> QED
  BY <1>1 DEF IInv, RowsKept, Filed, Numbered, Active, Published, Over, None

\* A row whose status, or whose state of extension, is written.
LEMMA StatusRow ==
    ASSUME IInv, NEW g \in Generations, NEW s \in Statuses
    PROVE  \E row \in Gen :
               /\ [gen EXCEPT ![g].status = s] = [gen EXCEPT ![g] = row]
               /\ row.status = s /\ row.path = gen[g].path
               /\ row.version = gen[g].version /\ row.revision = gen[g].revision
<1> DEFINE row == [gen[g] EXCEPT !.status = s]
<1>1. gen[g] \in Gen
  BY DEF IInv, Types
<1>2. /\ row \in Gen /\ row.status = s /\ row.path = gen[g].path
      /\ row.version = gen[g].version /\ row.revision = gen[g].revision
  BY <1>1 DEF Gen
<1>3. [gen EXCEPT ![g].status = s] = [gen EXCEPT ![g] = row]
  OBVIOUS
<1> QED
  BY <1>2, <1>3

LEMMA ArtifactRow ==
    ASSUME IInv, NEW g \in Generations, NEW a \in {"CURRENT", "UPDATING", "FAILED"}
    PROVE  \E row \in Gen :
               /\ [gen EXCEPT ![g].artifact = a] = [gen EXCEPT ![g] = row]
               /\ row.status = gen[g].status /\ row.path = gen[g].path
               /\ row.version = gen[g].version /\ row.revision = gen[g].revision
<1> DEFINE row == [gen[g] EXCEPT !.artifact = a]
<1>1. gen[g] \in Gen
  BY DEF IInv, Types
<1>2. /\ row \in Gen /\ row.status = gen[g].status /\ row.path = gen[g].path
      /\ row.version = gen[g].version /\ row.revision = gen[g].revision
  BY <1>1 DEF Gen
<1>3. [gen EXCEPT ![g].artifact = a] = [gen EXCEPT ![g] = row]
  OBVIOUS
<1> QED
  BY <1>2, <1>3

\* A step that writes at most one row, of which it keeps path, version and revision,
\* that makes no row active, and that leaves the files on offer.
Writes(g, row) ==
    /\ gen' = [gen EXCEPT ![g] = row]
    /\ row.path = gen[g].path /\ row.version = gen[g].version /\ row.revision = gen[g].revision
    /\ row.status # gen[g].status =>
           \/ row.status \in Over
           \/ row.status \in Published /\ gen[g].path # Null
           \/ row.status = "RENDERING" /\ gen[g].status = "QUEUED" /\ worker.pc = "idle"
    /\ \A q \in Generations : gen[q].path # Null => gen[q].path \in disk'[q] \/ q \in lost'

LEMMA WritesKeep ==
    ASSUME IInv, NEW g \in Generations, NEW row \in Gen, Writes(g, row)
    PROVE  /\ gen' \in [Generations -> Gen] /\ Single' /\ Filed' /\ Numbered' /\ RowsKept
           /\ \A q \in Generations : gen'[q].status = "RENDERING" =>
                  gen[q].status = "RENDERING" \/ worker.pc = "idle"
<1> USE DEF IInv, Types, Rowless
<1>1. \A q \in Generations : gen'[q] = IF q = g THEN row ELSE gen[q]
  BY DEF Writes
<1>2. RowsKept
  BY <1>1 DEF RowsKept, Writes
<1>3. gen' \in [Generations -> Gen]
  BY DEF Writes
<1>4. gen[g].status = "QUEUED" => gen[g].path = Null
  BY DEF Filed, Active
<1>5. Filed' /\ Numbered'
  BY <1>1, <1>2, <1>4, FiledKept DEF Writes, Active
<1>6. \A q \in Generations : gen'[q].status \in Active => gen[q].status \in Active
  BY <1>1 DEF Writes, Active, Over, Published
<1>7. Single'
  BY <1>6 DEF Single
<1>8. \A q \in Generations : gen'[q].status = "RENDERING" =>
          gen[q].status = "RENDERING" \/ worker.pc = "idle"
  BY <1>1 DEF Writes, Over, Published
<1> QED
  BY <1>2, <1>3, <1>5, <1>7, <1>8

-----------------------------------------------------------------------------

LEMMA IdleReq == NoReq \in Req /\ NoReq.pc = "idle"
BY CardType DEF NoReq, Req, Revisions, Statuses

LEMMA SweepReadsKeeps ==
    ASSUME IInv, NEW r \in Requesters, SweepReads(r)
    PROVE  IInv'
<1> USE DEF IInv, Types, Rowless
<1> DEFINE expired == Status({"RENDERING"}) \cap late
           seen == IF Blocking(expired) = {} THEN None ELSE "active"
           v == [NoReq EXCEPT !.pc = "sweep", !.expired = expired, !.seen = seen]
<1>1. req' = [req EXCEPT ![r] = v]
  BY DEF SweepReads
<1>2. v \in Req /\ v.pc = "sweep"
  <2>1. expired \in SUBSET Generations /\ seen \in Statuses \cup {"active"} /\ 0 \in Revisions
    BY CardType DEF Status, Revisions, Statuses
  <2> HIDE DEF expired, seen
  <2> QED
    BY <2>1 DEF NoReq, Req
<1>3. UNCHANGED <<gen, disk, late, job, xjob, worker, ext, abandoned, lost, faults>>
  BY DEF SweepReads
<1> HIDE DEF v
<1>4. Types'
  BY <1>1, <1>2, <1>3
<1>5. Single' /\ Filed' /\ Numbered' /\ Rendering' /\ Extending'
  BY <1>3 DEF Single, Filed, Numbered, Filled, Rendering, Extending
<1>6. Approving'
  BY <1>1, <1>2, <1>3 DEF Approving
<1> QED
  BY <1>4, <1>5, <1>6

\* The directories that go are those of generations that count as lost from here on.
LEMMA SweepRemovesKeeps ==
    ASSUME IInv, NEW r \in Requesters, SweepRemoves(r)
    PROVE  IInv'
<1> USE DEF IInv, Types, Rowless
<1> DEFINE expired == req[r].expired
           v == [req[r] EXCEPT !.pc = "swept"]
<1>1. req' = [req EXCEPT ![r] = v] /\ lost' = lost \cup expired
  BY DEF SweepRemoves
<1>2. v \in Req /\ v.pc = "swept"
  BY DEF Req
<1>3. disk' = [g \in Generations |-> IF g \in expired THEN {} ELSE disk[g]]
  BY DEF SweepRemoves
<1>4. UNCHANGED <<gen, late, job, xjob, worker, ext, abandoned, faults>>
  BY DEF SweepRemoves
<1>5. expired \subseteq Generations
  BY DEF Req
<1> HIDE DEF v, expired
<1>6. \A g \in Generations : g \in lost' \/ disk'[g] = disk[g]
  BY <1>1, <1>3
<1>7. lost \subseteq lost'
  BY <1>1
<1>8. Types'
  BY <1>1, <1>2, <1>3, <1>4, <1>5
<1>9. Single' /\ Numbered'
  BY <1>4 DEF Single, Numbered, Filled
<1>10. Filed'
  BY <1>4, <1>6, <1>7 DEF Filed
<1>11. Approving'
  BY <1>1, <1>2, <1>4 DEF Approving
<1>12. Rendering' /\ Extending'
  BY <1>4, <1>6, <1>7 DEF Rendering, Extending
<1> QED
  BY <1>8, <1>9, <1>10, <1>11, <1>12

LEMMA RollsBackKeeps ==
    ASSUME IInv, NEW r \in Requesters, RollsBack(r)
    PROVE  IInv'
<1> USE DEF IInv, Types, Rowless
<1>1. req' = [req EXCEPT ![r] = NoReq]
      /\ UNCHANGED <<gen, disk, late, job, xjob, worker, ext, abandoned, lost, faults>>
  BY DEF RollsBack, RequestDone
<1>2. NoReq \in Req /\ NoReq.pc = "idle"
  BY IdleReq
<1>3. Types'
  BY <1>1, <1>2
<1>4. Single' /\ Filed' /\ Numbered' /\ Rendering' /\ Extending'
  BY <1>1 DEF Single, Filed, Numbered, Filled, Rendering, Extending
<1>5. Approving'
  BY <1>1, <1>2 DEF Approving
<1> QED
  BY <1>3, <1>4, <1>5

LEMMA CreatesKeeps ==
    ASSUME IInv, NEW r \in Requesters, Creates(r)
    PROVE  IInv'
<1> USE DEF IInv, Types, Rowless
<1> DEFINE expired == req[r].expired
           new == CHOOSE q \in Generations : gen[q].status = None
<1>a. new \in Generations /\ gen[new].status = None
  BY DEF Creates, Status
<1>b. \A q \in Generations :
          /\ gen'[q] = IF q = new THEN [NoGen EXCEPT !.status = "QUEUED"]
                       ELSE IF q \in expired THEN [gen[q] EXCEPT !.status = "FAILED", !.path = Null]
                       ELSE gen[q]
          /\ disk'[q] = disk[q]
  BY DEF Creates
<1>c. [NoGen EXCEPT !.status = "QUEUED"] \in Gen
  <2>1. 0 \in Revisions /\ 0 \in 0..Cardinality(Generations)
    BY CardType DEF Revisions
  <2> QED
    BY <2>1 DEF NoGen, Gen, Statuses, Active
<1>d. \A q \in Generations : [gen[q] EXCEPT !.status = "FAILED", !.path = Null] \in Gen
  <2>1. "FAILED" \in Statuses /\ Null \in {Null} \cup Revisions
    BY DEF Statuses, Over
  <2>2. ASSUME NEW row \in Gen PROVE [row EXCEPT !.status = "FAILED", !.path = Null] \in Gen
    BY <2>1 DEF Gen
  <2> QED
    BY <2>2
<1>e. /\ gen[new].path = Null
      /\ \A q \in expired : q \in Generations /\ gen[q].status = "RENDERING" /\ gen[q].path = Null
  <2>1. expired \subseteq Status({"RENDERING"})
    BY DEF Creates
  <2> HIDE DEF expired, new
  <2> QED
    BY <1>a, <2>1 DEF Filed, Status, Active
<1>f. \A q \in Generations :
          /\ gen'[q].status = IF q = new THEN "QUEUED" ELSE IF q \in expired THEN "FAILED" ELSE gen[q].status
          /\ gen'[q].path = gen[q].path /\ gen'[q].version = gen[q].version
          /\ gen'[q].revision = gen[q].revision
  <2>1. ASSUME NEW q \in Generations
        PROVE  /\ gen'[q].status = IF q = new THEN "QUEUED" ELSE IF q \in expired THEN "FAILED" ELSE gen[q].status
               /\ gen'[q].path = gen[q].path /\ gen'[q].version = gen[q].version
               /\ gen'[q].revision = gen[q].revision
    <3> DEFINE first == [NoGen EXCEPT !.status = "QUEUED"]
               swept == [gen[q] EXCEPT !.status = "FAILED", !.path = Null]
    <3>1. gen[q] \in Gen
      OBVIOUS
    <3>2. first.status = "QUEUED" /\ first.path = Null /\ first.version = 0 /\ first.revision = 0
      BY DEF NoGen
    <3>3. /\ swept.status = "FAILED" /\ swept.path = Null /\ swept.version = gen[q].version
          /\ swept.revision = gen[q].revision
      BY <3>1 DEF Gen
    <3>4. gen[q].path = Null => gen[q].revision = 0 /\ gen[q].version = 0
      BY DEF Filed
    <3>5. CASE q = new
      <4>1. gen'[q] = first
        BY <1>b, <3>5
      <4> QED
        BY <1>e, <3>2, <3>4, <3>5, <4>1
    <3>6. CASE q # new /\ q \in expired
      <4>1. gen'[q] = swept
        BY <1>b, <3>6
      <4> HIDE DEF swept, new, expired
      <4> QED
        BY <1>e, <3>3, <3>6, <4>1
    <3>7. CASE q # new /\ q \notin expired
      <4>1. gen'[q] = gen[q]
        BY <1>b, <3>7
      <4> HIDE DEF new, expired
      <4> QED
        BY <3>7, <4>1
    <3> QED
      BY <3>5, <3>6, <3>7
  <2> QED
    BY <2>1
<1>h. RowsKept /\ \A q \in Generations : gen[q].path # Null => disk'[q] = disk[q]
  BY <1>b, <1>e, <1>f DEF RowsKept
<1>t. UNCHANGED <<disk, late, job, xjob, worker, ext, abandoned, lost, faults>>
  BY DEF Creates
<1>k. Filed' /\ Numbered'
  BY <1>e, <1>f, <1>h, <1>t, FiledKept DEF Filed, Active, Over
<1>m. \A q \in Generations : gen'[q].status \in Active => q = new
  <2>1. Blocking(expired) = {}
    BY DEF Creates
  <2>2. \A q \in Generations : gen[q].status \in Active => q \in expired
    BY <2>1 DEF Blocking, Status
  <2>3. "FAILED" \notin Active
    BY DEF Active
  <2> HIDE DEF new, expired
  <2> QED
    BY <1>f, <2>2, <2>3
<1>n. [NoReq EXCEPT !.pc = "enqueue", !.g = new] \in Req
  <2>1. 0 \in Revisions /\ None \in Statuses
    BY CardType DEF Revisions, Statuses
  <2> HIDE DEF new
  <2> QED
    BY <1>a, <2>1 DEF NoReq, Req
<1>p. req' = [req EXCEPT ![r] = [NoReq EXCEPT !.pc = "enqueue", !.g = new]]
  BY DEF Creates
<1>q. [NoReq EXCEPT !.pc = "enqueue", !.g = new].g = new /\ [NoReq EXCEPT !.pc = "enqueue", !.g = new].pc = "enqueue"
  BY DEF NoReq
<1>1. Types'
  <2>1. gen' \in [Generations -> Gen]
    <3>1. gen' = [q \in Generations |-> gen'[q]]
      BY DEF Creates
    <3>2. \A q \in Generations : gen'[q] \in Gen
      BY <1>b, <1>c, <1>d
    <3> QED
      BY <3>1, <3>2
  <2>2. disk' \in [Generations -> SUBSET ({Tmp} \cup Revisions)]
    BY <1>t
  <2>3. req' \in [Requesters -> Req]
    BY <1>n, <1>p
  <2>4. \A x \in Requesters : req'[x].pc \notin Rowless => req'[x].g \in Generations
    BY <1>a, <1>p, <1>q
  <2>5. worker' \in Work /\ (worker'.pc # "idle" => worker'.g \in Generations)
    BY <1>t
  <2>6. ext' \in Ext /\ (ext'.pc # "idle" => ext'.g \in Generations /\ ext'.revision < MaxRevision)
    BY <1>t
  <2>7. xjob' \in [Generations \X (1..MaxRevision) -> Jobs]
    BY <1>t
  <2>8. late' \subseteq Generations /\ abandoned' \subseteq Generations /\ lost' \subseteq Generations
    BY <1>t
  <2> QED
    BY <2>1, <2>2, <2>3, <2>4, <2>5, <2>6, <2>7, <2>8
<1>2. Single'
  BY <1>m DEF Single
<1>3. Filed'
  BY <1>k
<1>4. Numbered'
  BY <1>k
<1>5. Approving'
  BY <1>h, <1>p, <1>q DEF Approving, RowsKept
<1>6. Rendering'
  BY <1>b, <1>f, <1>h, <1>t DEF Rendering, RowsKept
<1>7. Extending'
  BY <1>h, <1>t DEF Extending, RowsKept
<1> QED
  BY <1>1, <1>2, <1>3, <1>4, <1>5, <1>6, <1>7

LEMMA EnqueuesKeeps ==
    ASSUME IInv, NEW r \in Requesters, Enqueues(r)
    PROVE  IInv'
<1> USE DEF IInv, Types, Rowless
<1>1. Types'
  <2>1. gen' \in [Generations -> Gen]
    BY CardType
       DEF Enqueues, NoFault, Fault, RequestDone, NoReq, Gen, Statuses, Active, Over,
           Published, Revisions
  <2>2. disk' \in [Generations -> SUBSET ({Tmp} \cup Revisions)]
    BY DEF Enqueues, NoFault, Fault, RequestDone, NoReq, Ext, Revisions
  <2>3. req' \in [Requesters -> Req]
    <3>1. req' = [req EXCEPT ![r] = NoReq] \/ req' = [req EXCEPT ![r].pc = "failed"]
      BY DEF Enqueues, RequestDone
    <3>2. [req EXCEPT ![r].pc = "failed"] = [req EXCEPT ![r] = [req[r] EXCEPT !.pc = "failed"]]
      OBVIOUS
    <3>3. [req[r] EXCEPT !.pc = "failed"] \in Req
      BY DEF Req
    <3> QED
      BY <3>1, <3>2, <3>3, IdleReq
  <2>4. \A x \in Requesters : req'[x].pc \notin Rowless => req'[x].g \in Generations
    BY DEF Enqueues, NoFault, Fault, RequestDone, NoReq, Req
  <2>5. worker' \in Work /\ (worker'.pc # "idle" => worker'.g \in Generations)
    BY DEF Enqueues, NoFault, Fault, RequestDone, NoReq, Work
  <2>6. ext' \in Ext /\ (ext'.pc # "idle" => ext'.g \in Generations /\ ext'.revision < MaxRevision)
    BY CardType DEF Enqueues, NoFault, Fault, RequestDone, NoReq, Ext, Gen, Revisions
  <2>7. xjob' \in [Generations \X (1..MaxRevision) -> Jobs]
    BY DEF Enqueues, NoFault, Fault, RequestDone, NoReq, Jobs, Ext, Req
  <2>8. late' \subseteq Generations /\ abandoned' \subseteq Generations /\ lost' \subseteq Generations
    BY DEF Enqueues, NoFault, Fault, RequestDone, NoReq, Req, Work
  <2> QED
    BY <2>1, <2>2, <2>3, <2>4, <2>5, <2>6, <2>7, <2>8
<1>2. Single'
  BY
     DEF Enqueues, NoFault, Fault, RequestDone, NoReq, Single, Gen, Statuses, Active, Over,
         Published, Revisions
<1>3. Filed'
  BY
     DEF Enqueues, NoFault, Fault, RequestDone, NoReq, Filed, Gen, Statuses, Active, Over,
         Published, Revisions
<1>4. Numbered'
  BY DEF Enqueues, NoFault, Fault, RequestDone, NoReq, Numbered, Filled, Gen
<1>5. Approving'
  BY DEF Enqueues, NoFault, Fault, RequestDone, NoReq, Approving, Req
<1>6. Rendering'
  BY DEF Enqueues, NoFault, Fault, RequestDone, NoReq, Rendering, Work, Gen
<1>7. Extending'
  BY DEF Enqueues, NoFault, Fault, RequestDone, NoReq, Extending, Ext, Gen
<1> QED
  BY <1>1, <1>2, <1>3, <1>4, <1>5, <1>6, <1>7

LEMMA EnqueueFailedKeeps ==
    ASSUME IInv, NEW r \in Requesters, EnqueueFailed(r)
    PROVE  IInv'
<1> USE DEF IInv, Types, Rowless
<1>g. req[r].g \in Generations
  BY DEF EnqueueFailed
<1>a. PICK row \in Gen : Writes(req[r].g, row)
  <2>1. gen' = [gen EXCEPT ![req[r].g].status = "FAILED"]
    BY DEF EnqueueFailed
  <2>2. "FAILED" \in Statuses
    BY DEF Statuses, Active, Over, Published
  <2>3. PICK row \in Gen : /\ [gen EXCEPT ![req[r].g].status = "FAILED"] = [gen EXCEPT ![req[r].g] = row]
                           /\ row.status = "FAILED" /\ row.path = gen[req[r].g].path
                           /\ row.version = gen[req[r].g].version /\ row.revision = gen[req[r].g].revision
    BY <1>g, <2>2, StatusRow
  <2>4. \A q \in Generations : gen[q].path # Null => gen[q].path \in disk'[q] \/ q \in lost'
    BY DEF EnqueueFailed, Filed
  <2> QED
    BY <2>1, <2>3, <2>4 DEF Writes, Over
<1>b. /\ gen' \in [Generations -> Gen] /\ Single' /\ Filed' /\ Numbered' /\ RowsKept
      /\ \A q \in Generations : gen'[q].status = "RENDERING" =>
             gen[q].status = "RENDERING" \/ worker.pc = "idle"
  BY <1>a, <1>g, WritesKeep
<1>1. Types'
  <2>1. gen' \in [Generations -> Gen]
    BY <1>b
  <2>2. disk' \in [Generations -> SUBSET ({Tmp} \cup Revisions)]
    BY DEF EnqueueFailed, RequestDone, NoReq, Ext, Revisions
  <2>3. req' \in [Requesters -> Req]
    BY CardType
       DEF EnqueueFailed, RequestDone, NoReq, Req, Gen, Statuses, Active, Over, Published,
           Revisions
  <2>4. \A x \in Requesters : req'[x].pc \notin Rowless => req'[x].g \in Generations
    BY DEF EnqueueFailed, RequestDone, NoReq, Req
  <2>5. worker' \in Work /\ (worker'.pc # "idle" => worker'.g \in Generations)
    BY DEF EnqueueFailed, RequestDone, NoReq, Work
  <2>6. ext' \in Ext /\ (ext'.pc # "idle" => ext'.g \in Generations /\ ext'.revision < MaxRevision)
    BY CardType DEF EnqueueFailed, RequestDone, NoReq, Ext, Gen, Revisions
  <2>7. xjob' \in [Generations \X (1..MaxRevision) -> Jobs]
    BY DEF EnqueueFailed, RequestDone, NoReq, Jobs, Ext, Req
  <2>8. late' \subseteq Generations /\ abandoned' \subseteq Generations /\ lost' \subseteq Generations
    BY DEF EnqueueFailed, RequestDone, NoReq, Req, Work
  <2> QED
    BY <2>1, <2>2, <2>3, <2>4, <2>5, <2>6, <2>7, <2>8
<1>2. Single'
  BY <1>b
<1>3. Filed'
  BY <1>b
<1>4. Numbered'
  BY <1>b
<1>5. Approving'
  BY <1>b DEF EnqueueFailed, RequestDone, NoReq, Approving, RowsKept, Req
<1>6. Rendering'
  BY <1>b, <1>g DEF EnqueueFailed, RequestDone, NoReq, Rendering, RowsKept
<1>7. Extending'
  BY <1>b, <1>g DEF EnqueueFailed, RequestDone, NoReq, Extending, RowsKept
<1> QED
  BY <1>1, <1>2, <1>3, <1>4, <1>5, <1>6, <1>7

LEMMA RequestDiesKeeps ==
    ASSUME IInv, NEW r \in Requesters, RequestDies(r)
    PROVE  IInv'
<1> USE DEF IInv, Types, Rowless
<1>1. Types'
  <2>1. gen' \in [Generations -> Gen]
    BY CardType
       DEF RequestDies, NoFault, Fault, RequestDone, NoReq, Gen, Statuses, Active, Over,
           Published, Revisions
  <2>2. disk' \in [Generations -> SUBSET ({Tmp} \cup Revisions)]
    BY DEF RequestDies, NoFault, Fault, RequestDone, NoReq, Ext, Revisions
  <2>3. req' \in [Requesters -> Req]
    BY CardType
       DEF RequestDies, NoFault, Fault, RequestDone, NoReq, Req, Gen, Statuses, Active,
           Over, Published, Revisions
  <2>4. \A x \in Requesters : req'[x].pc \notin Rowless => req'[x].g \in Generations
    BY DEF RequestDies, NoFault, Fault, RequestDone, NoReq, Req
  <2>5. worker' \in Work /\ (worker'.pc # "idle" => worker'.g \in Generations)
    BY DEF RequestDies, NoFault, Fault, RequestDone, NoReq, Work
  <2>6. ext' \in Ext /\ (ext'.pc # "idle" => ext'.g \in Generations /\ ext'.revision < MaxRevision)
    BY CardType DEF RequestDies, NoFault, Fault, RequestDone, NoReq, Ext, Gen, Revisions
  <2>7. xjob' \in [Generations \X (1..MaxRevision) -> Jobs]
    BY DEF RequestDies, NoFault, Fault, RequestDone, NoReq, Jobs, Ext, Req
  <2>8. late' \subseteq Generations /\ abandoned' \subseteq Generations /\ lost' \subseteq Generations
    BY DEF RequestDies, NoFault, Fault, RequestDone, NoReq, Req, Work
  <2> QED
    BY <2>1, <2>2, <2>3, <2>4, <2>5, <2>6, <2>7, <2>8
<1>2. Single'
  BY
     DEF RequestDies, NoFault, Fault, RequestDone, NoReq, Single, Gen, Statuses, Active,
         Over, Published, Revisions
<1>3. Filed'
  BY
     DEF RequestDies, NoFault, Fault, RequestDone, NoReq, Filed, Gen, Statuses, Active,
         Over, Published, Revisions
<1>4. Numbered'
  BY DEF RequestDies, NoFault, Fault, RequestDone, NoReq, Numbered, Filled, Gen
<1>5. Approving'
  BY DEF RequestDies, NoFault, Fault, RequestDone, NoReq, Approving, Req, Gen
<1>6. Rendering'
  BY DEF RequestDies, NoFault, Fault, RequestDone, NoReq, Rendering, Work, Gen
<1>7. Extending'
  BY DEF RequestDies, NoFault, Fault, RequestDone, NoReq, Extending, Ext, Gen
<1> QED
  BY <1>1, <1>2, <1>3, <1>4, <1>5, <1>6, <1>7

LEMMA CancelReadsKeeps ==
    ASSUME IInv, NEW r \in Requesters, NEW g \in Generations, CancelReads(r, g)
    PROVE  IInv'
<1> USE DEF IInv, Types, Rowless
<1>1. Types'
  <2>1. gen' \in [Generations -> Gen]
    BY CardType DEF CancelReads, Reads, NoReq, Gen, Statuses, Active, Over, Published, Revisions
  <2>2. disk' \in [Generations -> SUBSET ({Tmp} \cup Revisions)]
    BY DEF CancelReads, Reads, NoReq, Ext, Revisions
  <2>3. req' \in [Requesters -> Req]
    BY CardType
       DEF CancelReads, Reads, NoReq, Req, Gen, Statuses, Active, Over, Published, Revisions
  <2>4. \A x \in Requesters : req'[x].pc \notin Rowless => req'[x].g \in Generations
    BY DEF CancelReads, Reads, NoReq, Req
  <2>5. worker' \in Work /\ (worker'.pc # "idle" => worker'.g \in Generations)
    BY DEF CancelReads, Reads, NoReq, Work
  <2>6. ext' \in Ext /\ (ext'.pc # "idle" => ext'.g \in Generations /\ ext'.revision < MaxRevision)
    BY CardType DEF CancelReads, Reads, NoReq, Ext, Gen, Revisions
  <2>7. xjob' \in [Generations \X (1..MaxRevision) -> Jobs]
    BY DEF CancelReads, Reads, NoReq, Jobs, Ext, Req
  <2>8. late' \subseteq Generations /\ abandoned' \subseteq Generations /\ lost' \subseteq Generations
    BY DEF CancelReads, Reads, NoReq, Req, Work
  <2> QED
    BY <2>1, <2>2, <2>3, <2>4, <2>5, <2>6, <2>7, <2>8
<1>2. Single'
  BY DEF CancelReads, Reads, NoReq, Single, Gen, Statuses, Active, Over, Published, Revisions
<1>3. Filed'
  BY DEF CancelReads, Reads, NoReq, Filed, Gen, Statuses, Active, Over, Published, Revisions
<1>4. Numbered'
  BY DEF CancelReads, Reads, NoReq, Numbered, Filled, Gen
<1>5. Approving'
  BY DEF CancelReads, Reads, NoReq, Approving, Req, Gen
<1>6. Rendering'
  BY DEF CancelReads, Reads, NoReq, Rendering, Work, Gen
<1>7. Extending'
  BY DEF CancelReads, Reads, NoReq, Extending, Ext, Gen
<1> QED
  BY <1>1, <1>2, <1>3, <1>4, <1>5, <1>6, <1>7

LEMMA CancelWritesKeeps ==
    ASSUME IInv, NEW r \in Requesters, CancelWrites(r)
    PROVE  IInv'
<1> USE DEF IInv, Types, Rowless
<1>g. req[r].g \in Generations
  BY DEF CancelWrites
<1>a. PICK row \in Gen : Writes(req[r].g, row)
  <2> DEFINE g == req[r].g
             over == [gen[g] EXCEPT !.status = "CANCELLED", !.cancel = TRUE]
             asked == [gen[g] EXCEPT !.cancel = TRUE]
  <2>0. gen[g] \in Gen
    BY <1>g
  <2>1. /\ over \in Gen /\ over.status = "CANCELLED" /\ over.path = gen[g].path
        /\ over.version = gen[g].version /\ over.revision = gen[g].revision
    <3>1. "CANCELLED" \in Statuses /\ TRUE \in BOOLEAN
      BY DEF Statuses, Over
    <3> HIDE DEF g
    <3> QED
      BY <2>0, <3>1 DEF Gen
  <2>2. /\ asked \in Gen /\ asked.status = gen[g].status /\ asked.path = gen[g].path
        /\ asked.version = gen[g].version /\ asked.revision = gen[g].revision
    <3> HIDE DEF g
    <3> QED
      BY <2>0 DEF Gen
  <2>3. gen' = [gen EXCEPT ![g] = over] \/ gen' = [gen EXCEPT ![g] = asked]
    BY DEF CancelWrites
  <2>4. \A q \in Generations : gen[q].path # Null => gen[q].path \in disk'[q] \/ q \in lost'
    BY DEF CancelWrites, Filed
  <2>5. CASE gen' = [gen EXCEPT ![g] = over]
    BY <2>1, <2>4, <2>5 DEF Writes, Over
  <2>6. CASE gen' = [gen EXCEPT ![g] = asked]
    BY <2>2, <2>4, <2>6 DEF Writes
  <2> QED
    BY <2>3, <2>5, <2>6
<1>b. /\ gen' \in [Generations -> Gen] /\ Single' /\ Filed' /\ Numbered' /\ RowsKept
      /\ \A q \in Generations : gen'[q].status = "RENDERING" =>
             gen[q].status = "RENDERING" \/ worker.pc = "idle"
  BY <1>a, <1>g, WritesKeep
<1>1. Types'
  <2>1. gen' \in [Generations -> Gen]
    BY <1>b
  <2>2. disk' \in [Generations -> SUBSET ({Tmp} \cup Revisions)]
    BY DEF CancelWrites, RequestDone, NoReq, Ext, Revisions
  <2>3. req' \in [Requesters -> Req]
    BY CardType
       DEF CancelWrites, RequestDone, NoReq, Req, Gen, Statuses, Active, Over, Published,
           Revisions
  <2>4. \A x \in Requesters : req'[x].pc \notin Rowless => req'[x].g \in Generations
    BY DEF CancelWrites, RequestDone, NoReq, Req
  <2>5. worker' \in Work /\ (worker'.pc # "idle" => worker'.g \in Generations)
    BY DEF CancelWrites, RequestDone, NoReq, Work
  <2>6. ext' \in Ext /\ (ext'.pc # "idle" => ext'.g \in Generations /\ ext'.revision < MaxRevision)
    BY CardType DEF CancelWrites, RequestDone, NoReq, Ext, Gen, Revisions
  <2>7. xjob' \in [Generations \X (1..MaxRevision) -> Jobs]
    BY DEF CancelWrites, RequestDone, NoReq, Jobs, Ext, Req
  <2>8. late' \subseteq Generations /\ abandoned' \subseteq Generations /\ lost' \subseteq Generations
    BY DEF CancelWrites, RequestDone, NoReq, Req, Work
  <2> QED
    BY <2>1, <2>2, <2>3, <2>4, <2>5, <2>6, <2>7, <2>8
<1>2. Single'
  BY <1>b
<1>3. Filed'
  BY <1>b
<1>4. Numbered'
  BY <1>b
<1>5. Approving'
  BY <1>b DEF CancelWrites, RequestDone, NoReq, Approving, RowsKept, Req
<1>6. Rendering'
  BY <1>b, <1>g DEF CancelWrites, RequestDone, NoReq, Rendering, RowsKept
<1>7. Extending'
  BY <1>b, <1>g DEF CancelWrites, RequestDone, NoReq, Extending, RowsKept
<1> QED
  BY <1>1, <1>2, <1>3, <1>4, <1>5, <1>6, <1>7

LEMMA ApproveReadsKeeps ==
    ASSUME IInv, NEW r \in Requesters, NEW g \in Generations, ApproveReads(r, g)
    PROVE  IInv'
<1> USE DEF IInv, Types, Rowless
<1>1. Types'
  <2>1. gen' \in [Generations -> Gen]
    BY CardType DEF ApproveReads, Reads, NoReq, Gen, Statuses, Active, Over, Published, Revisions
  <2>2. disk' \in [Generations -> SUBSET ({Tmp} \cup Revisions)]
    BY DEF ApproveReads, Reads, NoReq, Ext, Revisions
  <2>3. req' \in [Requesters -> Req]
    BY CardType
       DEF ApproveReads, Reads, NoReq, Req, Gen, Statuses, Active, Over, Published, Revisions
  <2>4. \A x \in Requesters : req'[x].pc \notin Rowless => req'[x].g \in Generations
    BY DEF ApproveReads, Reads, NoReq, Req
  <2>5. worker' \in Work /\ (worker'.pc # "idle" => worker'.g \in Generations)
    BY DEF ApproveReads, Reads, NoReq, Work
  <2>6. ext' \in Ext /\ (ext'.pc # "idle" => ext'.g \in Generations /\ ext'.revision < MaxRevision)
    BY CardType DEF ApproveReads, Reads, NoReq, Ext, Gen, Revisions
  <2>7. xjob' \in [Generations \X (1..MaxRevision) -> Jobs]
    BY DEF ApproveReads, Reads, NoReq, Jobs, Ext, Req
  <2>8. late' \subseteq Generations /\ abandoned' \subseteq Generations /\ lost' \subseteq Generations
    BY DEF ApproveReads, Reads, NoReq, Req, Work
  <2> QED
    BY <2>1, <2>2, <2>3, <2>4, <2>5, <2>6, <2>7, <2>8
<1>2. Single'
  BY DEF ApproveReads, Reads, NoReq, Single, Gen, Statuses, Active, Over, Published, Revisions
<1>3. Filed'
  BY DEF ApproveReads, Reads, NoReq, Filed, Gen, Statuses, Active, Over, Published, Revisions
<1>4. Numbered'
  BY DEF ApproveReads, Reads, NoReq, Numbered, Filled, Gen
<1>5. Approving'
  BY DEF ApproveReads, Reads, NoReq, Approving, Req, Filed, Published
<1>6. Rendering'
  BY DEF ApproveReads, Reads, NoReq, Rendering, Work, Gen
<1>7. Extending'
  BY DEF ApproveReads, Reads, NoReq, Extending, Ext, Gen
<1> QED
  BY <1>1, <1>2, <1>3, <1>4, <1>5, <1>6, <1>7

LEMMA ApproveWritesKeeps ==
    ASSUME IInv, NEW r \in Requesters, ApproveWrites(r)
    PROVE  IInv'
<1> USE DEF IInv, Types, Rowless
<1>g. req[r].g \in Generations
  BY DEF ApproveWrites
<1>a. PICK row \in Gen : Writes(req[r].g, row)
  <2>1. gen' = [gen EXCEPT ![req[r].g].status = "APPROVED"]
    BY DEF ApproveWrites
  <2>2. "APPROVED" \in Statuses
    BY DEF Statuses, Active, Over, Published
  <2>3. PICK row \in Gen : /\ [gen EXCEPT ![req[r].g].status = "APPROVED"] = [gen EXCEPT ![req[r].g] = row]
                           /\ row.status = "APPROVED" /\ row.path = gen[req[r].g].path
                           /\ row.version = gen[req[r].g].version /\ row.revision = gen[req[r].g].revision
    BY <1>g, <2>2, StatusRow
  <2>4. \A q \in Generations : gen[q].path # Null => gen[q].path \in disk'[q] \/ q \in lost'
    BY DEF ApproveWrites, Filed
  <2> QED
    BY <1>g, <2>1, <2>3, <2>4 DEF Writes, Published, Approving, ApproveWrites
<1>b. /\ gen' \in [Generations -> Gen] /\ Single' /\ Filed' /\ Numbered' /\ RowsKept
      /\ \A q \in Generations : gen'[q].status = "RENDERING" =>
             gen[q].status = "RENDERING" \/ worker.pc = "idle"
  BY <1>a, <1>g, WritesKeep
<1>1. Types'
  <2>1. gen' \in [Generations -> Gen]
    BY <1>b
  <2>2. disk' \in [Generations -> SUBSET ({Tmp} \cup Revisions)]
    BY DEF ApproveWrites, RequestDone, NoReq, Ext, Revisions
  <2>3. req' \in [Requesters -> Req]
    BY CardType
       DEF ApproveWrites, RequestDone, NoReq, Req, Gen, Statuses, Active, Over, Published,
           Revisions
  <2>4. \A x \in Requesters : req'[x].pc \notin Rowless => req'[x].g \in Generations
    BY DEF ApproveWrites, RequestDone, NoReq, Req
  <2>5. worker' \in Work /\ (worker'.pc # "idle" => worker'.g \in Generations)
    BY DEF ApproveWrites, RequestDone, NoReq, Work
  <2>6. ext' \in Ext /\ (ext'.pc # "idle" => ext'.g \in Generations /\ ext'.revision < MaxRevision)
    BY CardType DEF ApproveWrites, RequestDone, NoReq, Ext, Gen, Revisions
  <2>7. xjob' \in [Generations \X (1..MaxRevision) -> Jobs]
    BY DEF ApproveWrites, RequestDone, NoReq, Jobs, Ext, Req
  <2>8. late' \subseteq Generations /\ abandoned' \subseteq Generations /\ lost' \subseteq Generations
    BY DEF ApproveWrites, RequestDone, NoReq, Req, Work
  <2> QED
    BY <2>1, <2>2, <2>3, <2>4, <2>5, <2>6, <2>7, <2>8
<1>2. Single'
  BY <1>b
<1>3. Filed'
  BY <1>b
<1>4. Numbered'
  BY <1>b
<1>5. Approving'
  BY <1>b DEF ApproveWrites, RequestDone, NoReq, Approving, RowsKept, Req
<1>6. Rendering'
  BY <1>b, <1>g DEF ApproveWrites, RequestDone, NoReq, Rendering, RowsKept
<1>7. Extending'
  BY <1>b, <1>g DEF ApproveWrites, RequestDone, NoReq, Extending, RowsKept
<1> QED
  BY <1>1, <1>2, <1>3, <1>4, <1>5, <1>6, <1>7

LEMMA GoesStaleKeeps ==
    ASSUME IInv, NEW g \in Generations, GoesStale(g)
    PROVE  IInv'
<1> USE DEF IInv, Types, Rowless
<1>1. Types'
  <2>1. gen' \in [Generations -> Gen]
    BY ZenonT(40), CardType DEF GoesStale, Gen, Statuses, Active, Over, Published, Revisions
  <2>2. disk' \in [Generations -> SUBSET ({Tmp} \cup Revisions)]
    BY DEF GoesStale, Ext, Revisions
  <2>3. req' \in [Requesters -> Req]
    BY CardType DEF GoesStale, Req, Gen, Statuses, Active, Over, Published, Revisions
  <2>4. \A x \in Requesters : req'[x].pc \notin Rowless => req'[x].g \in Generations
    BY DEF GoesStale, Req
  <2>5. worker' \in Work /\ (worker'.pc # "idle" => worker'.g \in Generations)
    BY DEF GoesStale, Work
  <2>6. ext' \in Ext /\ (ext'.pc # "idle" => ext'.g \in Generations /\ ext'.revision < MaxRevision)
    BY CardType DEF GoesStale, Ext, Gen, Revisions
  <2>7. xjob' \in [Generations \X (1..MaxRevision) -> Jobs]
    BY DEF GoesStale, Jobs, Ext, Req
  <2>8. late' \subseteq Generations /\ abandoned' \subseteq Generations /\ lost' \subseteq Generations
    BY DEF GoesStale, Req, Work
  <2> QED
    BY <2>1, <2>2, <2>3, <2>4, <2>5, <2>6, <2>7, <2>8
<1>2. Single'
  BY DEF GoesStale, Single, Gen, Statuses, Active, Over, Published, Revisions
<1>3. Filed'
  BY DEF GoesStale, Filed, Gen, Statuses, Active, Over, Published, Revisions
<1>4. Numbered'
  BY DEF GoesStale, Numbered, Filled, Gen
<1>5. Approving'
  BY DEF GoesStale, Approving, Req, Gen
<1>6. Rendering'
  BY DEF GoesStale, Rendering, Work, Gen
<1>7. Extending'
  BY DEF GoesStale, Extending, Ext, Gen
<1> QED
  BY <1>1, <1>2, <1>3, <1>4, <1>5, <1>6, <1>7

LEMMA WorkerClaimsKeeps ==
    ASSUME IInv, NEW g \in Generations, WorkerClaims(g)
    PROVE  IInv'
<1> USE DEF IInv, Types, Rowless
<1>g. g \in Generations
  OBVIOUS
<1>w. \/ worker' = NoWork
      \/ /\ worker' = [pc |-> "render", g |-> g, cancelled |-> FALSE]
         /\ gen[g].status = "QUEUED"
  BY DEF WorkerClaims, WorkerFree
<1>a. PICK row \in Gen : Writes(g, row)
  <2>1. \A q \in Generations : gen[q].path # Null => gen[q].path \in disk'[q] \/ q \in lost'
    BY DEF WorkerClaims, Filed
  <2>2. CASE gen' = gen
    <3>1. gen' = [gen EXCEPT ![g] = gen[g]]
      BY <2>2
    <3> QED
      BY <2>1, <3>1 DEF Writes
  <2>3. CASE gen' # gen
    <3>1. gen[g].status = "QUEUED" /\ worker.pc = "idle" /\ gen' = [gen EXCEPT ![g].status = "RENDERING"]
      BY <2>3 DEF WorkerClaims
    <3>2. "RENDERING" \in Statuses
      BY DEF Statuses, Active
    <3>3. \E row \in Gen :
               /\ [gen EXCEPT ![g].status = "RENDERING"] = [gen EXCEPT ![g] = row]
               /\ row.status = "RENDERING" /\ row.path = gen[g].path
               /\ row.version = gen[g].version /\ row.revision = gen[g].revision
      BY <1>g, <3>2, StatusRow
    <3>4. PICK row \in Gen : /\ gen' = [gen EXCEPT ![g] = row] /\ row.status = "RENDERING"
                             /\ row.path = gen[g].path /\ row.version = gen[g].version
                             /\ row.revision = gen[g].revision
      BY <3>1, <3>3
    <3> QED
      BY <2>1, <3>1, <3>4 DEF Writes
  <2> QED
    BY <2>2, <2>3
<1>b. /\ gen' \in [Generations -> Gen] /\ Single' /\ Filed' /\ Numbered' /\ RowsKept
      /\ \A q \in Generations : gen'[q].status = "RENDERING" =>
             gen[q].status = "RENDERING" \/ worker.pc = "idle"
  BY <1>a, <1>g, WritesKeep
<1>1. Types'
  <2>1. gen' \in [Generations -> Gen]
    BY <1>b
  <2>2. disk' \in [Generations -> SUBSET ({Tmp} \cup Revisions)]
    BY DEF WorkerClaims, WorkerFree, NoWork, Ext, Revisions
  <2>3. req' \in [Requesters -> Req]
    BY CardType
       DEF WorkerClaims, WorkerFree, NoWork, Req, Gen, Statuses, Active, Over, Published,
           Revisions
  <2>4. \A x \in Requesters : req'[x].pc \notin Rowless => req'[x].g \in Generations
    BY DEF WorkerClaims, WorkerFree, NoWork, Req
  <2>5. worker' \in Work /\ (worker'.pc # "idle" => worker'.g \in Generations)
    <3>1. NoWork \in Work /\ NoWork.pc = "idle"
      BY DEF NoWork, Work
    <3>2. [pc |-> "render", g |-> g, cancelled |-> FALSE] \in Work
      BY <1>g DEF Work
    <3>3. [pc |-> "render", g |-> g, cancelled |-> FALSE].g = g
      OBVIOUS
    <3> QED
      BY <1>g, <1>w, <3>1, <3>2, <3>3
  <2>6. ext' \in Ext /\ (ext'.pc # "idle" => ext'.g \in Generations /\ ext'.revision < MaxRevision)
    BY CardType DEF WorkerClaims, WorkerFree, NoWork, Ext, Gen, Revisions
  <2>7. xjob' \in [Generations \X (1..MaxRevision) -> Jobs]
    BY DEF WorkerClaims, WorkerFree, NoWork, Jobs, Ext, Req
  <2>8. late' \subseteq Generations /\ abandoned' \subseteq Generations /\ lost' \subseteq Generations
    BY DEF WorkerClaims, WorkerFree, NoWork, Req, Work
  <2> QED
    BY <2>1, <2>2, <2>3, <2>4, <2>5, <2>6, <2>7, <2>8
<1>2. Single'
  BY <1>b
<1>3. Filed'
  BY <1>b
<1>4. Numbered'
  BY <1>b
<1>5. Approving'
  BY <1>b DEF WorkerClaims, Approving, RowsKept, Req
<1>6. Rendering'
  BY <1>b, <1>w DEF NoWork, Rendering, RowsKept, Filed, Active
<1>7. Extending'
  BY <1>b DEF WorkerClaims, Extending, RowsKept
<1> QED
  BY <1>1, <1>2, <1>3, <1>4, <1>5, <1>6, <1>7

LEMMA WorkerRendersKeeps ==
    ASSUME IInv, WorkerRenders
    PROVE  IInv'
<1> USE DEF IInv, Types, Rowless
<1>k. /\ UNCHANGED <<gen, ext, lost>> /\ \A q \in Generations : disk[q] \subseteq disk'[q]
  BY DEF WorkerRenders
<1>1. Types'
  <2>1. gen' \in [Generations -> Gen]
    BY CardType
       DEF WorkerRenders, NoFault, Fault, WorkerGoes, Gen, Statuses, Active, Over,
           Published, Revisions
  <2>2. disk' \in [Generations -> SUBSET ({Tmp} \cup Revisions)]
    BY DEF WorkerRenders, NoFault, Fault, WorkerGoes, Ext, Revisions
  <2>3. req' \in [Requesters -> Req]
    BY CardType
       DEF WorkerRenders, NoFault, Fault, WorkerGoes, Req, Gen, Statuses, Active, Over,
           Published, Revisions
  <2>4. \A x \in Requesters : req'[x].pc \notin Rowless => req'[x].g \in Generations
    BY DEF WorkerRenders, NoFault, Fault, WorkerGoes, Req
  <2>5. worker' \in Work /\ (worker'.pc # "idle" => worker'.g \in Generations)
    BY DEF WorkerRenders, NoFault, Fault, WorkerGoes, Work
  <2>6. ext' \in Ext /\ (ext'.pc # "idle" => ext'.g \in Generations /\ ext'.revision < MaxRevision)
    BY CardType DEF WorkerRenders, NoFault, Fault, WorkerGoes, Ext, Gen, Revisions
  <2>7. xjob' \in [Generations \X (1..MaxRevision) -> Jobs]
    BY DEF WorkerRenders, NoFault, Fault, WorkerGoes, Jobs, Ext, Req
  <2>8. late' \subseteq Generations /\ abandoned' \subseteq Generations /\ lost' \subseteq Generations
    BY DEF WorkerRenders, NoFault, Fault, WorkerGoes, Req, Work
  <2> QED
    BY <2>1, <2>2, <2>3, <2>4, <2>5, <2>6, <2>7, <2>8
<1>2. Single'
  BY
     DEF WorkerRenders, NoFault, Fault, WorkerGoes, Single, Gen, Statuses, Active, Over,
         Published, Revisions
<1>3. Filed'
  BY
     DEF WorkerRenders, NoFault, Fault, WorkerGoes, Filed, Gen, Statuses, Active, Over,
         Published, Revisions
<1>4. Numbered'
  BY DEF WorkerRenders, NoFault, Fault, WorkerGoes, Numbered, Filled, Gen
<1>5. Approving'
  BY DEF WorkerRenders, NoFault, Fault, WorkerGoes, Approving, Req, Gen
<1>6. Rendering'
  BY DEF WorkerRenders, NoFault, Fault, WorkerGoes, Rendering, Work, Gen
<1>7. Extending'
  BY <1>k DEF Extending
<1> QED
  BY <1>1, <1>2, <1>3, <1>4, <1>5, <1>6, <1>7

LEMMA WorkerRenamesKeeps ==
    ASSUME IInv, WorkerRenames
    PROVE  IInv'
<1> USE DEF IInv, Types, Rowless
<1>g. worker.g \in Generations /\ gen[worker.g].path = Null
  BY DEF WorkerRenames, Rendering
<1>h. ext.pc # "idle" => ext.g # worker.g /\ ext.g \in Generations
  BY <1>g DEF Extending
<1>k. lost' = lost /\ \A q \in Generations : q # worker.g => disk'[q] = disk[q]
  BY DEF WorkerRenames
<1>1. Types'
  <2>1. gen' \in [Generations -> Gen]
    BY CardType
       DEF WorkerRenames, WorkerGoes, Gen, Statuses, Active, Over, Published, Revisions
  <2>2. disk' \in [Generations -> SUBSET ({Tmp} \cup Revisions)]
    BY CardType DEF WorkerRenames, Revisions
  <2>3. req' \in [Requesters -> Req]
    BY CardType
       DEF WorkerRenames, WorkerGoes, Req, Gen, Statuses, Active, Over, Published, Revisions
  <2>4. \A x \in Requesters : req'[x].pc \notin Rowless => req'[x].g \in Generations
    BY DEF WorkerRenames, WorkerGoes, Req
  <2>5. worker' \in Work /\ (worker'.pc # "idle" => worker'.g \in Generations)
    BY DEF WorkerRenames, WorkerGoes, Work
  <2>6. ext' \in Ext /\ (ext'.pc # "idle" => ext'.g \in Generations /\ ext'.revision < MaxRevision)
    BY CardType DEF WorkerRenames, WorkerGoes, Ext, Gen, Revisions
  <2>7. xjob' \in [Generations \X (1..MaxRevision) -> Jobs]
    BY DEF WorkerRenames, WorkerGoes, Jobs, Ext, Req
  <2>8. late' \subseteq Generations /\ abandoned' \subseteq Generations /\ lost' \subseteq Generations
    BY DEF WorkerRenames, WorkerGoes, Req, Work
  <2> QED
    BY <2>1, <2>2, <2>3, <2>4, <2>5, <2>6, <2>7, <2>8
<1>2. Single'
  BY
     DEF WorkerRenames, WorkerGoes, Single, Gen, Statuses, Active, Over, Published,
         Revisions
<1>3. Filed'
  BY <1>g, <1>k DEF WorkerRenames, Filed
<1>4. Numbered'
  BY DEF WorkerRenames, WorkerGoes, Numbered, Filled, Gen
<1>5. Approving'
  BY DEF WorkerRenames, WorkerGoes, Approving, Req, Gen
<1>6. Rendering'
  BY DEF WorkerRenames, WorkerGoes, Rendering, Work, Gen
<1>7. Extending'
  BY <1>h, <1>k DEF WorkerRenames, Extending
<1> QED
  BY <1>1, <1>2, <1>3, <1>4, <1>5, <1>6, <1>7

LEMMA WorkerFinalizesKeeps ==
    ASSUME IInv, WorkerFinalizes
    PROVE  IInv'
<1> DEFINE g == worker.g
<1> USE DEF IInv, Types, Rowless
<1>1. /\ g \in Generations /\ gen[g].path = Null /\ gen[g].revision = 0 /\ worker \in Work
      /\ worker.pc = "finalize" /\ UNCHANGED <<disk, late, xjob, req, ext, abandoned>>
      /\ lost \subseteq lost' /\ lost' \subseteq Generations
  BY DEF WorkerFinalizes, Rendering, Filed
<1>2. CASE gen' = gen
  <2>1. /\ worker' \in Work /\ worker'.pc \in {"idle", "discard", "fail"}
        /\ worker'.pc # "idle" => worker'.g = g
    <3>1. \/ worker' = NoWork \/ worker' = [worker EXCEPT !.pc = "discard"]
          \/ worker' = [worker EXCEPT !.pc = "fail"]
      BY DEF WorkerFinalizes, WorkerGoes, WorkerFree
    <3>2. NoWork \in Work /\ NoWork.pc = "idle"
      BY DEF NoWork, Work
    <3>3. ASSUME NEW pc \in {"discard", "fail"}, worker' = [worker EXCEPT !.pc = pc]
          PROVE  worker' \in Work /\ worker'.pc = pc /\ worker'.g = worker.g
      BY <1>1, <3>3 DEF Work
    <3> QED
      BY <3>1, <3>2, <3>3
  <2>2. Types'
    BY <1>1, <1>2, <2>1
  <2>3. Single' /\ Filed' /\ Numbered' /\ Approving' /\ Extending'
    BY <1>1, <1>2 DEF Single, Filed, Numbered, Filled, Approving, Extending
  <2>4. Rendering'
    BY <1>1, <1>2, <2>1 DEF Rendering
  <2> QED
    BY <2>2, <2>3, <2>4
<1>3. CASE gen' # gen
  <2> DEFINE row == [gen[g] EXCEPT !.status = "AWAITING_APPROVAL", !.version = NextVersion, !.path = 0]
  <2>1. /\ gen' = [gen EXCEPT ![g] = row] /\ gen[g].status = "RENDERING"
        /\ worker' = NoWork \/ (worker' = [worker EXCEPT !.pc = "fail"] /\ g \in lost')
    BY <1>3 DEF WorkerFinalizes, WorkerGoes, WorkerFree, Finalizable
  <2>w. /\ worker' \in Work
        /\ worker'.pc = "idle" \/ (worker'.pc = "fail" /\ worker'.g = g /\ g \in lost')
    <3>1. NoWork \in Work /\ NoWork.pc = "idle"
      BY DEF NoWork, Work
    <3> QED
      BY <1>1, <2>1, <3>1 DEF Work
  <2>2. NextVersion \in 1..Cardinality(Generations) /\ NextVersion <= Cardinality(Filled \cup {g})
    BY <1>1, NextVersionType
  <2>3. /\ row \in Gen /\ row.status = "AWAITING_APPROVAL" /\ row.version = NextVersion /\ row.path = 0
        /\ row.revision = 0
    <3>1. gen[g] \in Gen /\ NextVersion \in 0..Cardinality(Generations) /\ 0 \in Revisions
      BY <1>1, <2>2, CardType DEF Revisions
    <3> QED
      BY <1>1, <3>1 DEF Gen, Statuses, Published
  <2>4. (0 \in disk[g] \/ g \in lost) /\ 0 # Null
    BY <1>1, <2>1 DEF Rendering, Null
  <2>5. \A q \in Generations : gen'[q] = IF q = g THEN row ELSE gen[q]
    BY <2>1
  <2>6. Types'
    BY <1>1, <2>1, <2>3, <2>w
  <2>7. Single'
    BY <2>3, <2>5 DEF Single, Active
  <2>8. Filed'
    <3>1. gen'[g] = row /\ (0 \in disk'[g] \/ g \in lost')
      BY <1>1, <2>4, <2>5
    <3>2. \A q \in Generations : q # g => gen'[q] = gen[q] /\ disk'[q] = disk[q]
      BY <1>1, <2>5
    <3>3. "AWAITING_APPROVAL" \notin Active \cup {None}
      BY DEF Active, None
    <3> HIDE DEF g, row
    <3> QED
      BY <1>1, <2>3, <2>4, <3>1, <3>2, <3>3 DEF Filed
  <2>9. Numbered'
    <3>1. Filled' = Filled \cup {g}
      BY <1>1, <2>3, <2>4, <2>5 DEF Filled
    <3>2. /\ Filled \in SUBSET Generations /\ Filled \cup {g} \in SUBSET Generations
      BY <1>1 DEF Filled
    <3>3. /\ Cardinality(Filled) \in Nat /\ Cardinality(Filled \cup {g}) \in Nat
          /\ Cardinality(Filled) <= Cardinality(Filled \cup {g})
      BY <3>2, CardType, FS_Subset
    <3>4. \A q \in Generations : gen[q].version \in Nat /\ gen[q].version <= Cardinality(Filled)
      BY CardType DEF Gen, Numbered
    <3>5. \A q \in Generations : gen'[q].version <= Cardinality(Filled \cup {g})
      <4>1. gen'[g].version = NextVersion
        BY <1>1, <2>3, <2>5
      <4>2. ASSUME NEW q \in Generations, q # g
            PROVE  gen'[q].version \in Nat /\ gen'[q].version <= Cardinality(Filled)
        BY <2>5, <3>4, <4>2
      <4>3. ASSUME NEW q \in Generations, q # g
            PROVE  gen'[q].version <= Cardinality(Filled \cup {g})
        BY <3>3, <4>2, <4>3
      <4> QED
        BY <2>2, <4>1, <4>3
    <3> QED
      BY <3>1, <3>5 DEF Numbered
  <2>10. Approving'
    BY <1>1, <2>3, <2>4, <2>5 DEF Approving
  <2>11. Rendering'
    BY <1>1, <2>w DEF Rendering
  <2>12. Extending'
    BY <1>1, <2>5 DEF Extending
  <2> QED
    BY <2>6, <2>7, <2>8, <2>9, <2>10, <2>11, <2>12
<1> QED
  BY <1>2, <1>3

LEMMA WorkerDiscardsKeeps ==
    ASSUME IInv, WorkerDiscards
    PROVE  IInv'
<1> USE DEF IInv, Types, Rowless
<1>g. worker.g \in Generations /\ gen[worker.g].path = Null
  BY DEF WorkerDiscards, Rendering
<1>h. ext.pc # "idle" => ext.g # worker.g /\ ext.g \in Generations
  BY <1>g DEF Extending
<1>a. PICK row \in Gen : Writes(worker.g, row)
  <2>1. \A q \in Generations : gen[q].path # Null => gen[q].path \in disk'[q] \/ q \in lost'
    BY <1>g DEF WorkerDiscards, Filed
  <2>2. CASE gen' = gen
    <3>1. gen' = [gen EXCEPT ![worker.g] = gen[worker.g]]
      BY <2>2
    <3> QED
      BY <1>g, <2>1, <3>1 DEF Writes
  <2>3. CASE gen' # gen
    <3>1. gen' = [gen EXCEPT ![worker.g].status = "CANCELLED"]
      BY <2>3 DEF WorkerDiscards
    <3>2. "CANCELLED" \in Statuses
      BY DEF Statuses, Over
    <3>3. PICK row \in Gen : /\ [gen EXCEPT ![worker.g].status = "CANCELLED"] = [gen EXCEPT ![worker.g] = row]
                             /\ row.status = "CANCELLED" /\ row.path = gen[worker.g].path
                             /\ row.version = gen[worker.g].version /\ row.revision = gen[worker.g].revision
      BY <1>g, <3>2, StatusRow
    <3> QED
      BY <2>1, <3>1, <3>3 DEF Writes, Over
  <2> QED
    BY <2>2, <2>3
<1>b. /\ gen' \in [Generations -> Gen] /\ Single' /\ Filed' /\ Numbered' /\ RowsKept
      /\ \A q \in Generations : gen'[q].status = "RENDERING" =>
             gen[q].status = "RENDERING" \/ worker.pc = "idle"
  BY <1>a, <1>g, WritesKeep
<1>1. Types'
  <2>1. gen' \in [Generations -> Gen]
    BY <1>b
  <2>2. disk' \in [Generations -> SUBSET ({Tmp} \cup Revisions)]
    BY DEF WorkerDiscards, WorkerFree, NoWork, Ext, Revisions
  <2>3. req' \in [Requesters -> Req]
    BY CardType
       DEF WorkerDiscards, WorkerFree, NoWork, Req, Gen, Statuses, Active, Over, Published,
           Revisions
  <2>4. \A x \in Requesters : req'[x].pc \notin Rowless => req'[x].g \in Generations
    BY DEF WorkerDiscards, WorkerFree, NoWork, Req
  <2>5. worker' \in Work /\ (worker'.pc # "idle" => worker'.g \in Generations)
    BY DEF WorkerDiscards, WorkerFree, NoWork, Work
  <2>6. ext' \in Ext /\ (ext'.pc # "idle" => ext'.g \in Generations /\ ext'.revision < MaxRevision)
    BY CardType DEF WorkerDiscards, WorkerFree, NoWork, Ext, Gen, Revisions
  <2>7. xjob' \in [Generations \X (1..MaxRevision) -> Jobs]
    BY DEF WorkerDiscards, WorkerFree, NoWork, Jobs, Ext, Req
  <2>8. late' \subseteq Generations /\ abandoned' \subseteq Generations /\ lost' \subseteq Generations
    BY DEF WorkerDiscards, WorkerFree, NoWork, Req, Work
  <2> QED
    BY <2>1, <2>2, <2>3, <2>4, <2>5, <2>6, <2>7, <2>8
<1>2. Single'
  BY <1>b
<1>3. Filed'
  BY <1>b
<1>4. Numbered'
  BY <1>b
<1>5. Approving'
  BY <1>b DEF WorkerDiscards, WorkerFree, NoWork, Approving, RowsKept, Req
<1>6. Rendering'
  BY DEF WorkerDiscards, WorkerFree, NoWork, Rendering
<1>7. Extending'
  BY <1>b, <1>h DEF WorkerDiscards, Extending, RowsKept
<1> QED
  BY <1>1, <1>2, <1>3, <1>4, <1>5, <1>6, <1>7

LEMMA WorkerFailsKeeps ==
    ASSUME IInv, WorkerFails
    PROVE  IInv'
<1> USE DEF IInv, Types, Rowless
<1>g. worker.g \in Generations /\ (gen[worker.g].path = Null \/ worker.g \in lost) /\ lost' = lost
  BY DEF WorkerFails, Rendering
<1>h. ext.pc # "idle" => (ext.g # worker.g \/ ext.g \in lost) /\ ext.g \in Generations
  BY <1>g DEF Extending
<1>a. PICK row \in Gen : Writes(worker.g, row)
  <2> DEFINE s == IF worker.cancelled THEN "CANCELLED" ELSE "FAILED"
             row == [gen[worker.g] EXCEPT !.path = Null, !.status = s]
  <2>1. \A q \in Generations : gen[q].path # Null => gen[q].path \in disk'[q] \/ q \in lost'
    BY <1>g DEF WorkerFails, Filed
  <2>2. CASE gen' = gen
    <3>1. gen' = [gen EXCEPT ![worker.g] = gen[worker.g]]
      BY <2>2
    <3> QED
      BY <1>g, <2>1, <3>1 DEF Writes
  <2>3. CASE gen' # gen
    <3>0. gen[worker.g].status = "RENDERING" /\ gen' = [gen EXCEPT ![worker.g] = row]
      BY <2>3 DEF WorkerFails
    <3>1. gen[worker.g].path = Null /\ gen' = [gen EXCEPT ![worker.g] = row]
      BY <1>g, <3>0 DEF Filed, Active
    <3>2. s \in Over /\ s \in Statuses
      BY Zenon DEF Over, Statuses
    <3>3. /\ row \in Gen /\ row.status = s /\ row.path = Null
          /\ row.version = gen[worker.g].version /\ row.revision = gen[worker.g].revision
      BY ZenonT(40), <1>g, <3>2 DEF Gen
    <3> QED
      BY <1>g, <2>1, <3>1, <3>2, <3>3 DEF Writes
  <2> QED
    BY <2>2, <2>3
<1>b. /\ gen' \in [Generations -> Gen] /\ Single' /\ Filed' /\ Numbered' /\ RowsKept
      /\ \A q \in Generations : gen'[q].status = "RENDERING" =>
             gen[q].status = "RENDERING" \/ worker.pc = "idle"
  BY <1>a, <1>g, WritesKeep
<1>1. Types'
  <2>1. gen' \in [Generations -> Gen]
    BY <1>b
  <2>2. disk' \in [Generations -> SUBSET ({Tmp} \cup Revisions)]
    BY DEF WorkerFails, WorkerFree, NoWork, Ext, Revisions
  <2>3. req' \in [Requesters -> Req]
    BY CardType
       DEF WorkerFails, WorkerFree, NoWork, Req, Gen, Statuses, Active, Over, Published,
           Revisions
  <2>4. \A x \in Requesters : req'[x].pc \notin Rowless => req'[x].g \in Generations
    BY DEF WorkerFails, WorkerFree, NoWork, Req
  <2>5. worker' \in Work /\ (worker'.pc # "idle" => worker'.g \in Generations)
    BY DEF WorkerFails, WorkerFree, NoWork, Work
  <2>6. ext' \in Ext /\ (ext'.pc # "idle" => ext'.g \in Generations /\ ext'.revision < MaxRevision)
    BY CardType DEF WorkerFails, WorkerFree, NoWork, Ext, Gen, Revisions
  <2>7. xjob' \in [Generations \X (1..MaxRevision) -> Jobs]
    BY DEF WorkerFails, WorkerFree, NoWork, Jobs, Ext, Req
  <2>8. late' \subseteq Generations /\ abandoned' \subseteq Generations /\ lost' \subseteq Generations
    BY DEF WorkerFails, WorkerFree, NoWork, Req, Work
  <2> QED
    BY <2>1, <2>2, <2>3, <2>4, <2>5, <2>6, <2>7, <2>8
<1>2. Single'
  BY <1>b
<1>3. Filed'
  BY <1>b
<1>4. Numbered'
  BY <1>b
<1>5. Approving'
  BY <1>b DEF WorkerFails, WorkerFree, NoWork, Approving, RowsKept, Req
<1>6. Rendering'
  BY DEF WorkerFails, WorkerFree, NoWork, Rendering
<1>7. Extending'
  BY <1>b, <1>g, <1>h DEF WorkerFails, Extending, RowsKept
<1> QED
  BY <1>1, <1>2, <1>3, <1>4, <1>5, <1>6, <1>7

LEMMA WorkerDiesKeeps ==
    ASSUME IInv, WorkerDies
    PROVE  IInv'
<1> USE DEF IInv, Types, Rowless
<1>1. Types'
  <2>1. gen' \in [Generations -> Gen]
    BY CardType
       DEF WorkerDies, NoFault, Fault, NoWork, Gen, Statuses, Active, Over, Published,
           Revisions
  <2>2. disk' \in [Generations -> SUBSET ({Tmp} \cup Revisions)]
    BY DEF WorkerDies, NoFault, Fault, NoWork, Ext, Revisions
  <2>3. req' \in [Requesters -> Req]
    BY CardType
       DEF WorkerDies, NoFault, Fault, NoWork, Req, Gen, Statuses, Active, Over, Published,
           Revisions
  <2>4. \A x \in Requesters : req'[x].pc \notin Rowless => req'[x].g \in Generations
    BY DEF WorkerDies, NoFault, Fault, NoWork, Req
  <2>5. worker' \in Work /\ (worker'.pc # "idle" => worker'.g \in Generations)
    BY DEF WorkerDies, NoFault, Fault, NoWork, Work
  <2>6. ext' \in Ext /\ (ext'.pc # "idle" => ext'.g \in Generations /\ ext'.revision < MaxRevision)
    BY CardType DEF WorkerDies, NoFault, Fault, NoWork, Ext, Gen, Revisions
  <2>7. xjob' \in [Generations \X (1..MaxRevision) -> Jobs]
    BY DEF WorkerDies, NoFault, Fault, NoWork, Jobs, Ext, Req
  <2>8. late' \subseteq Generations /\ abandoned' \subseteq Generations /\ lost' \subseteq Generations
    BY DEF WorkerDies, NoFault, Fault, NoWork, Req, Work
  <2> QED
    BY <2>1, <2>2, <2>3, <2>4, <2>5, <2>6, <2>7, <2>8
<1>2. Single'
  BY
     DEF WorkerDies, NoFault, Fault, NoWork, Single, Gen, Statuses, Active, Over, Published,
         Revisions
<1>3. Filed'
  BY
     DEF WorkerDies, NoFault, Fault, NoWork, Filed, Gen, Statuses, Active, Over, Published,
         Revisions
<1>4. Numbered'
  BY DEF WorkerDies, NoFault, Fault, NoWork, Numbered, Filled, Gen
<1>5. Approving'
  BY DEF WorkerDies, NoFault, Fault, NoWork, Approving, Req, Gen
<1>6. Rendering'
  BY DEF WorkerDies, NoFault, Fault, NoWork, Rendering, Work, Gen
<1>7. Extending'
  BY DEF WorkerDies, NoFault, Fault, NoWork, Extending, Ext, Gen
<1> QED
  BY <1>1, <1>2, <1>3, <1>4, <1>5, <1>6, <1>7

LEMMA LeaseEndsKeeps ==
    ASSUME IInv, NEW g \in Generations, LeaseEnds(g)
    PROVE  IInv'
<1> USE DEF IInv, Types, Rowless
<1>1. Types'
  <2>1. gen' \in [Generations -> Gen]
    BY CardType
       DEF LeaseEnds, NoFault, Fault, Gen, Statuses, Active, Over, Published, Revisions
  <2>2. disk' \in [Generations -> SUBSET ({Tmp} \cup Revisions)]
    BY DEF LeaseEnds, NoFault, Fault, Ext, Revisions
  <2>3. req' \in [Requesters -> Req]
    BY CardType
       DEF LeaseEnds, NoFault, Fault, Req, Gen, Statuses, Active, Over, Published, Revisions
  <2>4. \A x \in Requesters : req'[x].pc \notin Rowless => req'[x].g \in Generations
    BY DEF LeaseEnds, NoFault, Fault, Req
  <2>5. worker' \in Work /\ (worker'.pc # "idle" => worker'.g \in Generations)
    BY DEF LeaseEnds, NoFault, Fault, Work
  <2>6. ext' \in Ext /\ (ext'.pc # "idle" => ext'.g \in Generations /\ ext'.revision < MaxRevision)
    BY CardType DEF LeaseEnds, NoFault, Fault, Ext, Gen, Revisions
  <2>7. xjob' \in [Generations \X (1..MaxRevision) -> Jobs]
    BY DEF LeaseEnds, NoFault, Fault, Jobs, Ext, Req
  <2>8. late' \subseteq Generations /\ abandoned' \subseteq Generations /\ lost' \subseteq Generations
    BY DEF LeaseEnds, NoFault, Fault, Req, Work
  <2> QED
    BY <2>1, <2>2, <2>3, <2>4, <2>5, <2>6, <2>7, <2>8
<1>2. Single'
  BY
     DEF LeaseEnds, NoFault, Fault, Single, Gen, Statuses, Active, Over, Published,
         Revisions
<1>3. Filed'
  BY DEF LeaseEnds, NoFault, Fault, Filed, Gen, Statuses, Active, Over, Published, Revisions
<1>4. Numbered'
  BY DEF LeaseEnds, NoFault, Fault, Numbered, Filled, Gen
<1>5. Approving'
  BY DEF LeaseEnds, NoFault, Fault, Approving, Req, Gen
<1>6. Rendering'
  BY DEF LeaseEnds, NoFault, Fault, Rendering, Work, Gen
<1>7. Extending'
  BY DEF LeaseEnds, NoFault, Fault, Extending, Ext, Gen
<1> QED
  BY <1>1, <1>2, <1>3, <1>4, <1>5, <1>6, <1>7

LEMMA ExtendsKeeps ==
    ASSUME IInv, NEW r \in Requesters, NEW g \in Generations, Extends(r, g)
    PROVE  IInv'
<1> USE DEF IInv, Types, Rowless
<1>1. Types'
  <2>1. gen' \in [Generations -> Gen]
    BY CardType DEF Extends, Reads, NoReq, Gen, Statuses, Active, Over, Published, Revisions
  <2>2. disk' \in [Generations -> SUBSET ({Tmp} \cup Revisions)]
    BY DEF Extends, Reads, NoReq, Ext, Revisions
  <2>3. req' \in [Requesters -> Req]
    BY CardType DEF Extends, Reads, NoReq, Req, Gen, Statuses, Active, Over, Published, Revisions
  <2>4. \A x \in Requesters : req'[x].pc \notin Rowless => req'[x].g \in Generations
    BY DEF Extends, Reads, NoReq, Req
  <2>5. worker' \in Work /\ (worker'.pc # "idle" => worker'.g \in Generations)
    BY DEF Extends, Reads, NoReq, Work
  <2>6. ext' \in Ext /\ (ext'.pc # "idle" => ext'.g \in Generations /\ ext'.revision < MaxRevision)
    BY CardType DEF Extends, Reads, NoReq, Ext, Gen, Revisions
  <2>7. xjob' \in [Generations \X (1..MaxRevision) -> Jobs]
    BY DEF Extends, Reads, NoReq, Jobs, Ext, Req
  <2>8. late' \subseteq Generations /\ abandoned' \subseteq Generations /\ lost' \subseteq Generations
    BY DEF Extends, Reads, NoReq, Req, Work
  <2> QED
    BY <2>1, <2>2, <2>3, <2>4, <2>5, <2>6, <2>7, <2>8
<1>2. Single'
  BY DEF Extends, Reads, NoReq, Single, Gen, Statuses, Active, Over, Published, Revisions
<1>3. Filed'
  BY DEF Extends, Reads, NoReq, Filed, Gen, Statuses, Active, Over, Published, Revisions
<1>4. Numbered'
  BY DEF Extends, Reads, NoReq, Numbered, Filled, Gen
<1>5. Approving'
  BY DEF Extends, Reads, NoReq, Approving, Req, Gen
<1>6. Rendering'
  BY DEF Extends, Reads, NoReq, Rendering, Work, Gen
<1>7. Extending'
  BY DEF Extends, Reads, NoReq, Extending, Ext, Gen
<1> QED
  BY <1>1, <1>2, <1>3, <1>4, <1>5, <1>6, <1>7

LEMMA ExtendEnqueuesKeeps ==
    ASSUME IInv, NEW r \in Requesters, ExtendEnqueues(r)
    PROVE  IInv'
<1> USE DEF IInv, Types, Rowless
<1>1. Types'
  <2>1. gen' \in [Generations -> Gen]
    BY CardType
       DEF ExtendEnqueues, NoFault, Fault, RequestDone, NoReq, Added, Gen, Statuses, Active,
           Over, Published, Revisions
  <2>2. disk' \in [Generations -> SUBSET ({Tmp} \cup Revisions)]
    BY DEF ExtendEnqueues, NoFault, Fault, RequestDone, NoReq, Added, Ext, Revisions
  <2>3. req' \in [Requesters -> Req]
    <3>1. req' = [req EXCEPT ![r] = NoReq] \/ req' = [req EXCEPT ![r].pc = "extendFailed"]
      BY DEF ExtendEnqueues, RequestDone
    <3>2. [req EXCEPT ![r].pc = "extendFailed"] = [req EXCEPT ![r] = [req[r] EXCEPT !.pc = "extendFailed"]]
      OBVIOUS
    <3>3. [req[r] EXCEPT !.pc = "extendFailed"] \in Req
      BY DEF Req
    <3> QED
      BY <3>1, <3>2, <3>3, IdleReq
  <2>4. \A x \in Requesters : req'[x].pc \notin Rowless => req'[x].g \in Generations
    BY DEF ExtendEnqueues, NoFault, Fault, RequestDone, NoReq, Added, Req
  <2>5. worker' \in Work /\ (worker'.pc # "idle" => worker'.g \in Generations)
    BY DEF ExtendEnqueues, NoFault, Fault, RequestDone, NoReq, Added, Work
  <2>6. ext' \in Ext /\ (ext'.pc # "idle" => ext'.g \in Generations /\ ext'.revision < MaxRevision)
    BY CardType
       DEF ExtendEnqueues, NoFault, Fault, RequestDone, NoReq, Added, Ext, Gen, Revisions
  <2>7. xjob' \in [Generations \X (1..MaxRevision) -> Jobs]
    BY DEF ExtendEnqueues, NoFault, Fault, RequestDone, NoReq, Added, Jobs, Ext, Req
  <2>8. late' \subseteq Generations /\ abandoned' \subseteq Generations /\ lost' \subseteq Generations
    BY DEF ExtendEnqueues, NoFault, Fault, RequestDone, NoReq, Added, Req, Work
  <2> QED
    BY <2>1, <2>2, <2>3, <2>4, <2>5, <2>6, <2>7, <2>8
<1>2. Single'
  BY
     DEF ExtendEnqueues, NoFault, Fault, RequestDone, NoReq, Added, Single, Gen, Statuses,
         Active, Over, Published, Revisions
<1>3. Filed'
  BY
     DEF ExtendEnqueues, NoFault, Fault, RequestDone, NoReq, Added, Filed, Gen, Statuses,
         Active, Over, Published, Revisions
<1>4. Numbered'
  BY DEF ExtendEnqueues, NoFault, Fault, RequestDone, NoReq, Added, Numbered, Filled, Gen
<1>5. Approving'
  BY DEF ExtendEnqueues, NoFault, Fault, RequestDone, NoReq, Added, Approving, Req, Gen
<1>6. Rendering'
  BY DEF ExtendEnqueues, NoFault, Fault, RequestDone, NoReq, Added, Rendering, Work, Gen
<1>7. Extending'
  BY DEF ExtendEnqueues, NoFault, Fault, RequestDone, NoReq, Added, Extending, Ext, Gen
<1> QED
  BY <1>1, <1>2, <1>3, <1>4, <1>5, <1>6, <1>7

LEMMA ExtendFailedKeeps ==
    ASSUME IInv, NEW r \in Requesters, ExtendFailed(r)
    PROVE  IInv'
<1> USE DEF IInv, Types, Rowless
<1>1. Types'
  <2>1. gen' \in [Generations -> Gen]
    <3>1. req[r].g \in Generations
      BY DEF ExtendFailed
    <3>2. gen' = gen \/ gen' = [gen EXCEPT ![req[r].g].artifact = "FAILED"]
      BY DEF ExtendFailed
    <3>3. \E row \in Gen : [gen EXCEPT ![req[r].g].artifact = "FAILED"] = [gen EXCEPT ![req[r].g] = row]
      BY <3>1, ArtifactRow
    <3> QED
      BY <3>2, <3>3
  <2>2. disk' \in [Generations -> SUBSET ({Tmp} \cup Revisions)]
    BY DEF ExtendFailed, RequestDone, NoReq, Ext, Revisions
  <2>3. req' \in [Requesters -> Req]
    BY CardType
       DEF ExtendFailed, RequestDone, NoReq, Req, Gen, Statuses, Active, Over, Published,
           Revisions
  <2>4. \A x \in Requesters : req'[x].pc \notin Rowless => req'[x].g \in Generations
    BY DEF ExtendFailed, RequestDone, NoReq, Req
  <2>5. worker' \in Work /\ (worker'.pc # "idle" => worker'.g \in Generations)
    BY DEF ExtendFailed, RequestDone, NoReq, Work
  <2>6. ext' \in Ext /\ (ext'.pc # "idle" => ext'.g \in Generations /\ ext'.revision < MaxRevision)
    BY CardType DEF ExtendFailed, RequestDone, NoReq, Ext, Gen, Revisions
  <2>7. xjob' \in [Generations \X (1..MaxRevision) -> Jobs]
    BY DEF ExtendFailed, RequestDone, NoReq, Jobs, Ext, Req
  <2>8. late' \subseteq Generations /\ abandoned' \subseteq Generations /\ lost' \subseteq Generations
    BY DEF ExtendFailed, RequestDone, NoReq, Req, Work
  <2> QED
    BY <2>1, <2>2, <2>3, <2>4, <2>5, <2>6, <2>7, <2>8
<1>2. Single'
  BY
     DEF ExtendFailed, RequestDone, NoReq, Single, Gen, Statuses, Active, Over, Published,
         Revisions
<1>3. Filed'
  BY
     DEF ExtendFailed, RequestDone, NoReq, Filed, Gen, Statuses, Active, Over, Published,
         Revisions
<1>4. Numbered'
  BY DEF ExtendFailed, RequestDone, NoReq, Numbered, Filled, Gen
<1>5. Approving'
  BY DEF ExtendFailed, RequestDone, NoReq, Approving, Req, Gen
<1>6. Rendering'
  BY DEF ExtendFailed, RequestDone, NoReq, Rendering, Work, Gen
<1>7. Extending'
  BY DEF ExtendFailed, RequestDone, NoReq, Extending, Ext, Gen
<1> QED
  BY <1>1, <1>2, <1>3, <1>4, <1>5, <1>6, <1>7

LEMMA QueueForgetsKeeps ==
    ASSUME IInv, NEW j \in DOMAIN xjob, QueueForgets(j)
    PROVE  IInv'
<1> USE DEF IInv, Types, Rowless
<1>1. Types'
  <2>1. gen' \in [Generations -> Gen]
    BY CardType DEF QueueForgets, Gen, Statuses, Active, Over, Published, Revisions
  <2>2. disk' \in [Generations -> SUBSET ({Tmp} \cup Revisions)]
    BY DEF QueueForgets, Ext, Revisions
  <2>3. req' \in [Requesters -> Req]
    BY CardType DEF QueueForgets, Req, Gen, Statuses, Active, Over, Published, Revisions
  <2>4. \A x \in Requesters : req'[x].pc \notin Rowless => req'[x].g \in Generations
    BY DEF QueueForgets, Req
  <2>5. worker' \in Work /\ (worker'.pc # "idle" => worker'.g \in Generations)
    BY DEF QueueForgets, Work
  <2>6. ext' \in Ext /\ (ext'.pc # "idle" => ext'.g \in Generations /\ ext'.revision < MaxRevision)
    BY CardType DEF QueueForgets, Ext, Gen, Revisions
  <2>7. xjob' \in [Generations \X (1..MaxRevision) -> Jobs]
    BY DEF QueueForgets, Jobs, Ext, Req
  <2>8. late' \subseteq Generations /\ abandoned' \subseteq Generations /\ lost' \subseteq Generations
    BY DEF QueueForgets, Req, Work
  <2> QED
    BY <2>1, <2>2, <2>3, <2>4, <2>5, <2>6, <2>7, <2>8
<1>2. Single'
  BY DEF QueueForgets, Single, Gen, Statuses, Active, Over, Published, Revisions
<1>3. Filed'
  BY DEF QueueForgets, Filed, Gen, Statuses, Active, Over, Published, Revisions
<1>4. Numbered'
  BY DEF QueueForgets, Numbered, Filled, Gen
<1>5. Approving'
  BY DEF QueueForgets, Approving, Req, Gen
<1>6. Rendering'
  BY DEF QueueForgets, Rendering, Work, Gen
<1>7. Extending'
  BY DEF QueueForgets, Extending, Ext, Gen
<1> QED
  BY <1>1, <1>2, <1>3, <1>4, <1>5, <1>6, <1>7

LEMMA ExtTakesKeeps ==
    ASSUME IInv, NEW j \in DOMAIN xjob, ExtTakes(j)
    PROVE  IInv'
<1> USE DEF IInv, Types, Rowless
<1>1. Types'
  <2>1. gen' \in [Generations -> Gen]
    BY CardType
       DEF ExtTakes, ExtDone, NoExt, Gen, Statuses, Active, Over, Published, Revisions
  <2>2. disk' \in [Generations -> SUBSET ({Tmp} \cup Revisions)]
    BY DEF ExtTakes, ExtDone, NoExt, Ext, Revisions
  <2>3. req' \in [Requesters -> Req]
    BY CardType
       DEF ExtTakes, ExtDone, NoExt, Req, Gen, Statuses, Active, Over, Published, Revisions
  <2>4. \A x \in Requesters : req'[x].pc \notin Rowless => req'[x].g \in Generations
    BY DEF ExtTakes, ExtDone, NoExt, Req
  <2>5. worker' \in Work /\ (worker'.pc # "idle" => worker'.g \in Generations)
    BY DEF ExtTakes, ExtDone, NoExt, Work
  <2>6. ext' \in Ext /\ (ext'.pc # "idle" => ext'.g \in Generations /\ ext'.revision < MaxRevision)
    BY CardType DEF ExtTakes, ExtDone, NoExt, Ext, Gen, Revisions
  <2>7. xjob' \in [Generations \X (1..MaxRevision) -> Jobs]
    BY DEF ExtTakes, ExtDone, NoExt, Jobs, Ext, Req
  <2>8. late' \subseteq Generations /\ abandoned' \subseteq Generations /\ lost' \subseteq Generations
    BY DEF ExtTakes, ExtDone, NoExt, Req, Work
  <2> QED
    BY <2>1, <2>2, <2>3, <2>4, <2>5, <2>6, <2>7, <2>8
<1>2. Single'
  BY DEF ExtTakes, ExtDone, NoExt, Single, Gen, Statuses, Active, Over, Published, Revisions
<1>3. Filed'
  BY DEF ExtTakes, ExtDone, NoExt, Filed, Gen, Statuses, Active, Over, Published, Revisions
<1>4. Numbered'
  BY DEF ExtTakes, ExtDone, NoExt, Numbered, Filled, Gen
<1>5. Approving'
  BY DEF ExtTakes, ExtDone, NoExt, Approving, Req, Gen
<1>6. Rendering'
  BY DEF ExtTakes, ExtDone, NoExt, Rendering, Work, Gen
<1>7. Extending'
  <2>1. \/ ext' = NoExt
        \/ /\ ext' = [pc |-> "clean", g |-> j[1], revision |-> gen[j[1]].revision]
           /\ gen[j[1]].status = "APPROVED"
    BY DEF ExtTakes, ExtDone
  <2> QED
    BY <2>1 DEF ExtTakes, NoExt, Extending, Filed, Published
<1> QED
  BY <1>1, <1>2, <1>3, <1>4, <1>5, <1>6, <1>7

LEMMA ExtCleansKeeps ==
    ASSUME IInv, ExtCleans
    PROVE  IInv'
<1> USE DEF IInv, Types, Rowless
<1>g. /\ ext.g \in Generations /\ gen[ext.g].path = ext.revision /\ ext.revision \in Revisions
      /\ ext.revision + 1 \in Revisions /\ ext.revision + 1 # ext.revision /\ ext.revision + 1 # 0
  BY CardType DEF ExtCleans, Extending, Filed, Ext, Revisions
<1>h. worker.pc # "idle" => ext.g # worker.g \/ worker.pc = "fail"
  BY <1>g DEF Extending, Rendering, ExtCleans
<1>k. disk' = [disk EXCEPT ![ext.g] = disk[ext.g] \ {ext.revision + 1}] /\ gen' = gen /\ lost' = lost
  BY DEF ExtCleans, Made
<1>1. Types'
  <2>1. gen' \in [Generations -> Gen]
    BY CardType
       DEF ExtCleans, ExtGoes, Made, Gen, Statuses, Active, Over, Published, Revisions
  <2>2. disk' \in [Generations -> SUBSET ({Tmp} \cup Revisions)]
    BY <1>k
  <2>3. req' \in [Requesters -> Req]
    BY CardType
       DEF ExtCleans, ExtGoes, Made, Req, Gen, Statuses, Active, Over, Published, Revisions
  <2>4. \A x \in Requesters : req'[x].pc \notin Rowless => req'[x].g \in Generations
    BY DEF ExtCleans, ExtGoes, Made, Req
  <2>5. worker' \in Work /\ (worker'.pc # "idle" => worker'.g \in Generations)
    BY DEF ExtCleans, ExtGoes, Made, Work
  <2>6. ext' \in Ext /\ (ext'.pc # "idle" => ext'.g \in Generations /\ ext'.revision < MaxRevision)
    BY CardType DEF ExtCleans, ExtGoes, Made, Ext, Gen, Revisions
  <2>7. xjob' \in [Generations \X (1..MaxRevision) -> Jobs]
    BY DEF ExtCleans, ExtGoes, Made, Jobs, Ext, Req
  <2>8. late' \subseteq Generations /\ abandoned' \subseteq Generations /\ lost' \subseteq Generations
    BY DEF ExtCleans, ExtGoes, Made, Req, Work
  <2> QED
    BY <2>1, <2>2, <2>3, <2>4, <2>5, <2>6, <2>7, <2>8
<1>2. Single'
  BY DEF ExtCleans, ExtGoes, Made, Single, Gen, Statuses, Active, Over, Published, Revisions
<1>3. Filed'
  BY <1>g, <1>k DEF Filed
<1>4. Numbered'
  BY DEF ExtCleans, ExtGoes, Made, Numbered, Filled, Gen
<1>5. Approving'
  BY DEF ExtCleans, ExtGoes, Made, Approving, Req, Gen
<1>6. Rendering'
  BY <1>g, <1>h, <1>k DEF ExtCleans, Rendering
<1>7. Extending'
  BY DEF ExtCleans, ExtGoes, Made, Extending, Ext, Gen
<1> QED
  BY <1>1, <1>2, <1>3, <1>4, <1>5, <1>6, <1>7

LEMMA ExtRendersKeeps ==
    ASSUME IInv, ExtRenders
    PROVE  IInv'
<1> USE DEF IInv, Types, Rowless
<1>g. /\ ext.g \in Generations /\ gen[ext.g].path = ext.revision /\ ext.revision \in Revisions
      /\ ext.revision + 1 \in Revisions /\ ext.revision + 1 # ext.revision /\ ext.revision + 1 # 0
  BY CardType DEF ExtRenders, Extending, Filed, Ext, Revisions
<1>h. worker.pc # "idle" => ext.g # worker.g \/ worker.pc = "fail"
  BY <1>g DEF Extending, Rendering, ExtRenders
<1>k. /\ gen' = gen /\ worker' = worker /\ lost' = lost /\ ext' \in Ext /\ ext'.g = ext.g /\ ext'.revision = ext.revision
      /\ \/ ext'.pc = "switch" /\ disk' = [disk EXCEPT ![ext.g] = disk[ext.g] \cup {ext.revision + 1}]
         \/ ext'.pc = "fail" /\ disk' = disk
  BY DEF ExtRenders, NoFault, Fault, ExtGoes, Made, Ext
<1>1. Types'
  <2>1. gen' \in [Generations -> Gen]
    BY CardType
       DEF ExtRenders, NoFault, Fault, ExtGoes, Made, Gen, Statuses, Active, Over,
           Published, Revisions
  <2>2. disk' \in [Generations -> SUBSET ({Tmp} \cup Revisions)]
    BY <1>g, <1>k
  <2>3. req' \in [Requesters -> Req]
    BY CardType
       DEF ExtRenders, NoFault, Fault, ExtGoes, Made, Req, Gen, Statuses, Active, Over,
           Published, Revisions
  <2>4. \A x \in Requesters : req'[x].pc \notin Rowless => req'[x].g \in Generations
    BY DEF ExtRenders, NoFault, Fault, ExtGoes, Made, Req
  <2>5. worker' \in Work /\ (worker'.pc # "idle" => worker'.g \in Generations)
    BY DEF ExtRenders, NoFault, Fault, ExtGoes, Made, Work
  <2>6. ext' \in Ext /\ (ext'.pc # "idle" => ext'.g \in Generations /\ ext'.revision < MaxRevision)
    BY CardType DEF ExtRenders, NoFault, Fault, ExtGoes, Made, Ext, Gen, Revisions
  <2>7. xjob' \in [Generations \X (1..MaxRevision) -> Jobs]
    BY DEF ExtRenders, NoFault, Fault, ExtGoes, Made, Jobs, Ext, Req
  <2>8. late' \subseteq Generations /\ abandoned' \subseteq Generations /\ lost' \subseteq Generations
    BY DEF ExtRenders, NoFault, Fault, ExtGoes, Made, Req, Work
  <2> QED
    BY <2>1, <2>2, <2>3, <2>4, <2>5, <2>6, <2>7, <2>8
<1>2. Single'
  BY
     DEF ExtRenders, NoFault, Fault, ExtGoes, Made, Single, Gen, Statuses, Active, Over,
         Published, Revisions
<1>3. Filed'
  BY <1>g, <1>k DEF Filed
<1>4. Numbered'
  BY DEF ExtRenders, NoFault, Fault, ExtGoes, Made, Numbered, Filled, Gen
<1>5. Approving'
  BY DEF ExtRenders, NoFault, Fault, ExtGoes, Made, Approving, Req, Gen
<1>6. Rendering'
  BY <1>g, <1>h, <1>k DEF Rendering
<1>7. Extending'
  BY <1>g, <1>k DEF ExtRenders, Extending
<1> QED
  BY <1>1, <1>2, <1>3, <1>4, <1>5, <1>6, <1>7

LEMMA ExtSwitchesKeeps ==
    ASSUME IInv, ExtSwitches
    PROVE  IInv'
<1> DEFINE g == ext.g
           n == ext.revision + 1
<1> USE DEF IInv, Types, Rowless
<1>1. /\ g \in Generations /\ ext \in Ext /\ ext.pc = "switch" /\ (n \in disk[g] \/ g \in lost)
      /\ gen[g] \in Gen /\ gen[g].path # Null /\ gen[g].revision = ext.revision
      /\ UNCHANGED <<disk, late, job, req, worker, abandoned>>
      /\ lost \subseteq lost' /\ lost' \subseteq Generations
  BY DEF ExtSwitches, Extending
<1>2. n \in Revisions /\ n # Null /\ <<g, n>> \in Generations \X (1..MaxRevision)
  BY <1>1, CardType DEF Ext, Revisions, Null
<1>3. CASE gen' = gen
  <2>1. /\ ext' \in Ext /\ ext'.pc \in {"idle", "fail"}
        /\ ext'.pc # "idle" => ext'.g = g /\ ext'.revision = ext.revision
    <3>1. NoExt \in Ext /\ NoExt.pc = "idle"
      BY CardType DEF NoExt, Ext, Revisions
    <3>2. ext' = NoExt \/ ext' = [ext EXCEPT !.pc = "fail"]
      BY DEF ExtSwitches, ExtGoes, ExtDone
    <3> QED
      BY <1>1, <3>1, <3>2 DEF Ext
  <2>2. xjob' \in [Generations \X (1..MaxRevision) -> Jobs]
    BY <1>1, <1>2 DEF ExtSwitches, ExtDone, Made, Jobs
  <2>3. Types'
    BY <1>1, <1>3, <2>1, <2>2
  <2>4. Single' /\ Filed' /\ Numbered' /\ Approving' /\ Rendering'
    BY <1>1, <1>3 DEF Single, Filed, Numbered, Filled, Approving, Rendering
  <2>5. Extending'
    BY <1>1, <1>3, <2>1 DEF Extending
  <2> QED
    BY <2>3, <2>4, <2>5
<1>4. CASE gen' # gen
  <2> DEFINE row == [gen[g] EXCEPT !.revision = n, !.artifact = "CURRENT", !.path = n]
  <2>1. /\ gen' = [gen EXCEPT ![g] = row]
        /\ ext' = NoExt \/ (ext' = [ext EXCEPT !.pc = "fail"] /\ g \in lost')
        /\ xjob' = xjob \/ xjob' = [xjob EXCEPT ![<<g, n>>] = "done"]
    BY <1>4 DEF ExtSwitches, ExtGoes, ExtDone, Made
  <2>2. /\ row \in Gen /\ row.status = gen[g].status /\ row.path = n /\ row.revision = n
        /\ row.version = gen[g].version
    BY <1>1, <1>2 DEF Gen
  <2>3. \A q \in Generations : gen'[q] = IF q = g THEN row ELSE gen[q]
    BY <2>1
  <2>4. /\ ext' \in Ext
        /\ \/ ext'.pc = "idle"
           \/ (ext'.pc = "fail" /\ ext'.g = g /\ ext'.revision = ext.revision /\ g \in lost')
    <3>1. NoExt \in Ext /\ NoExt.pc = "idle"
      BY CardType DEF NoExt, Ext, Revisions
    <3> QED
      BY <1>1, <2>1, <3>1 DEF Ext
  <2>5. Types'
    BY <1>1, <2>1, <2>2, <2>4 DEF Jobs
  <2>6. Single'
    BY <2>2, <2>3 DEF Single
  <2>7. Filed'
    <3> DEFINE FileOf(q) == IF gen'[q].path = Null
               THEN gen'[q].revision = 0 /\ gen'[q].version = 0 /\ gen'[q].status \notin Published
               ELSE /\ gen'[q].path = gen'[q].revision /\ (gen'[q].path \in disk'[q] \/ q \in lost')
                    /\ gen'[q].status \notin Active \cup {None}
    <3>1. FileOf(g)
      <4>1. gen'[g] = row /\ disk'[g] = disk[g]
        BY <1>1, <2>3
      <4>2. gen[g].status \notin Active \cup {None}
        BY <1>1 DEF Filed
      <4> HIDE DEF g, n, row
      <4> QED
        BY <1>1, <1>2, <2>2, <4>1, <4>2
    <3>2. ASSUME NEW q \in Generations, q # g PROVE FileOf(q)
      <4>1. gen'[q] = gen[q] /\ disk'[q] = disk[q]
        BY <1>1, <2>3, <3>2
      <4> QED
        BY <1>1, <4>1 DEF Filed
    <3> QED
      BY <3>1, <3>2 DEF Filed
  <2>8. Numbered'
    <3>1. Filled' = Filled
      BY <1>1, <1>2, <2>2, <2>3 DEF Filled
    <3> QED
      BY <2>2, <2>3, <3>1 DEF Numbered
  <2>9. Approving'
    BY <1>1, <1>2, <2>2, <2>3 DEF Approving
  <2>10. Rendering'
    BY <1>1, <2>2, <2>3 DEF Rendering
  <2>11. Extending'
    BY <1>1, <1>2, <2>2, <2>3, <2>4 DEF Extending
  <2> QED
    BY <2>5, <2>6, <2>7, <2>8, <2>9, <2>10, <2>11
<1> QED
  BY <1>3, <1>4

LEMMA ExtFailsKeeps ==
    ASSUME IInv, ExtFails
    PROVE  IInv'
<1> USE DEF IInv, Types, Rowless
<1>g. /\ ext.g \in Generations /\ gen[ext.g].path # Null /\ lost' = lost
      /\ gen[ext.g].path = ext.revision \/ ext.g \in lost
      /\ ext.revision \in Revisions
      /\ ext.revision + 1 \in Revisions /\ ext.revision + 1 # ext.revision /\ ext.revision + 1 # 0
  BY CardType DEF ExtFails, Extending, Filed, Ext, Revisions
<1>h. worker.pc # "idle" => ext.g # worker.g \/ worker.pc = "fail"
  BY <1>g DEF Extending, Rendering, ExtFails
<1>a. PICK row \in Gen : Writes(ext.g, row)
  <2>1. \A q \in Generations : gen[q].path # Null => gen[q].path \in disk'[q] \/ q \in lost'
    BY <1>g DEF ExtFails, Made, Filed
  <2>2. CASE gen' = gen
    <3>1. gen' = [gen EXCEPT ![ext.g] = gen[ext.g]]
      BY <2>2
    <3> QED
      BY <1>g, <2>1, <3>1 DEF Writes
  <2>3. CASE gen' # gen
    <3>1. gen' = [gen EXCEPT ![ext.g].artifact = "FAILED"]
      BY <2>3 DEF ExtFails
    <3> QED
      BY <1>g, <2>1, <3>1, ArtifactRow DEF Writes
  <2> QED
    BY <2>2, <2>3
<1>b. /\ gen' \in [Generations -> Gen] /\ Single' /\ Filed' /\ Numbered' /\ RowsKept
      /\ \A q \in Generations : gen'[q].status = "RENDERING" =>
             gen[q].status = "RENDERING" \/ worker.pc = "idle"
  BY <1>a, <1>g, WritesKeep
<1>1. Types'
  <2>1. gen' \in [Generations -> Gen]
    BY <1>b
  <2>2. disk' \in [Generations -> SUBSET ({Tmp} \cup Revisions)]
    BY DEF ExtFails, ExtDone, NoExt, Made, Ext, Revisions
  <2>3. req' \in [Requesters -> Req]
    BY CardType
       DEF ExtFails, ExtDone, NoExt, Made, Req, Gen, Statuses, Active, Over, Published,
           Revisions
  <2>4. \A x \in Requesters : req'[x].pc \notin Rowless => req'[x].g \in Generations
    BY DEF ExtFails, ExtDone, NoExt, Made, Req
  <2>5. worker' \in Work /\ (worker'.pc # "idle" => worker'.g \in Generations)
    BY DEF ExtFails, ExtDone, NoExt, Made, Work
  <2>6. ext' \in Ext /\ (ext'.pc # "idle" => ext'.g \in Generations /\ ext'.revision < MaxRevision)
    BY CardType DEF ExtFails, ExtDone, NoExt, Made, Ext, Gen, Revisions
  <2>7. xjob' \in [Generations \X (1..MaxRevision) -> Jobs]
    BY DEF ExtFails, ExtDone, NoExt, Made, Jobs, Ext, Req
  <2>8. late' \subseteq Generations /\ abandoned' \subseteq Generations /\ lost' \subseteq Generations
    BY DEF ExtFails, ExtDone, NoExt, Made, Req, Work
  <2> QED
    BY <2>1, <2>2, <2>3, <2>4, <2>5, <2>6, <2>7, <2>8
<1>2. Single'
  BY <1>b
<1>3. Filed'
  BY <1>b
<1>4. Numbered'
  BY <1>b
<1>5. Approving'
  BY <1>b DEF ExtFails, ExtDone, NoExt, Made, Approving, RowsKept, Req
<1>6. Rendering'
  BY <1>b, <1>g, <1>h DEF ExtFails, Made, Rendering, RowsKept
<1>7. Extending'
  BY DEF ExtFails, ExtDone, NoExt, Extending
<1> QED
  BY <1>1, <1>2, <1>3, <1>4, <1>5, <1>6, <1>7

LEMMA ExtDiesKeeps ==
    ASSUME IInv, ExtDies
    PROVE  IInv'
<1> USE DEF IInv, Types, Rowless
<1>1. Types'
  <2>1. gen' \in [Generations -> Gen]
    BY CardType
       DEF ExtDies, NoFault, Fault, NoExt, Made, Gen, Statuses, Active, Over, Published,
           Revisions
  <2>2. disk' \in [Generations -> SUBSET ({Tmp} \cup Revisions)]
    BY DEF ExtDies, NoFault, Fault, NoExt, Made, Ext, Revisions
  <2>3. req' \in [Requesters -> Req]
    BY CardType
       DEF ExtDies, NoFault, Fault, NoExt, Made, Req, Gen, Statuses, Active, Over,
           Published, Revisions
  <2>4. \A x \in Requesters : req'[x].pc \notin Rowless => req'[x].g \in Generations
    BY DEF ExtDies, NoFault, Fault, NoExt, Made, Req
  <2>5. worker' \in Work /\ (worker'.pc # "idle" => worker'.g \in Generations)
    BY DEF ExtDies, NoFault, Fault, NoExt, Made, Work
  <2>6. ext' \in Ext /\ (ext'.pc # "idle" => ext'.g \in Generations /\ ext'.revision < MaxRevision)
    BY CardType DEF ExtDies, NoFault, Fault, NoExt, Made, Ext, Gen, Revisions
  <2>7. xjob' \in [Generations \X (1..MaxRevision) -> Jobs]
    BY DEF ExtDies, NoFault, Fault, NoExt, Made, Jobs, Ext, Req
  <2>8. late' \subseteq Generations /\ abandoned' \subseteq Generations /\ lost' \subseteq Generations
    BY DEF ExtDies, NoFault, Fault, NoExt, Made, Req, Work
  <2> QED
    BY <2>1, <2>2, <2>3, <2>4, <2>5, <2>6, <2>7, <2>8
<1>2. Single'
  BY
     DEF ExtDies, NoFault, Fault, NoExt, Made, Single, Gen, Statuses, Active, Over,
         Published, Revisions
<1>3. Filed'
  BY
     DEF ExtDies, NoFault, Fault, NoExt, Made, Filed, Gen, Statuses, Active, Over,
         Published, Revisions
<1>4. Numbered'
  BY DEF ExtDies, NoFault, Fault, NoExt, Made, Numbered, Filled, Gen
<1>5. Approving'
  BY DEF ExtDies, NoFault, Fault, NoExt, Made, Approving, Req, Gen
<1>6. Rendering'
  BY DEF ExtDies, NoFault, Fault, NoExt, Made, Rendering, Work, Gen
<1>7. Extending'
  BY DEF ExtDies, NoFault, Fault, NoExt, Made, Extending, Ext, Gen
<1> QED
  BY <1>1, <1>2, <1>3, <1>4, <1>5, <1>6, <1>7

-----------------------------------------------------------------------------
LEMMA Initially == Init => IInv
<1> SUFFICES ASSUME Init PROVE IInv
  OBVIOUS
<1>1. 0 \in Revisions /\ 0 \in 0..Cardinality(Generations)
  BY CardType DEF Revisions
<1>2. NoGen \in Gen /\ NoReq \in Req /\ NoWork \in Work /\ NoExt \in Ext
  BY <1>1 DEF NoGen, NoReq, NoWork, NoExt, Gen, Req, Work, Ext, Statuses
<1>3. Types
  BY <1>2 DEF Init, Types, Rowless, Jobs, NoReq, NoWork, NoExt
<1>4. Filled = {}
  BY DEF Init, Filled, NoGen
<1>5. Single /\ Filed /\ Numbered
  BY <1>4, FS_EmptySet DEF Init, Single, Filed, Numbered, NoGen, Active, Published, None
<1>6. Approving /\ Rendering /\ Extending
  BY DEF Init, Approving, Rendering, Extending, NoReq, NoWork, NoExt
<1> QED
  BY <1>3, <1>5, <1>6 DEF IInv

\* Every step keeps the invariant.
LEMMA NextKeeps == ASSUME IInv, [Next]_vars PROVE IInv'
<1>1. CASE \E r \in Requesters, g \in Generations : CancelReads(r, g) \/ ApproveReads(r, g) \/ Extends(r, g)
  BY <1>1, CancelReadsKeeps, ApproveReadsKeeps, ExtendsKeeps
<1>2. CASE \E r \in Requesters : SweepReads(r) \/ RequestSteps(r) \/ RequestDies(r)
  BY <1>2, SweepReadsKeeps, SweepRemovesKeeps, CreatesKeeps, RollsBackKeeps, EnqueuesKeeps, EnqueueFailedKeeps, CancelWritesKeeps,
     ApproveWritesKeeps,
     ExtendEnqueuesKeeps, ExtendFailedKeeps, RequestDiesKeeps DEF RequestSteps
<1>3. CASE \E g \in Generations : GoesStale(g) \/ LeaseEnds(g)
  BY <1>3, GoesStaleKeeps, LeaseEndsKeeps
<1>4. CASE WorkerSteps \/ WorkerDies
  BY <1>4, WorkerClaimsKeeps, WorkerRendersKeeps, WorkerRenamesKeeps, WorkerFinalizesKeeps,
     WorkerDiscardsKeeps, WorkerFailsKeeps, WorkerDiesKeeps DEF WorkerSteps
<1>5. CASE ExtSteps \/ ExtDies
  BY <1>5, ExtTakesKeeps, ExtCleansKeeps, ExtRendersKeeps, ExtSwitchesKeeps, ExtFailsKeeps,
     ExtDiesKeeps
     DEF ExtSteps
<1>6. CASE \E j \in DOMAIN xjob : QueueForgets(j)
  BY <1>6, QueueForgetsKeeps
<1>7. CASE UNCHANGED vars
  BY <1>7
     DEF vars, IInv, Types, Single, Filed, Numbered, Filled, Approving, Rendering, Extending
<1> QED
  BY <1>1, <1>2, <1>3, <1>4, <1>5, <1>6, <1>7 DEF Next

LEMMA Invariance == Spec => []IInv
BY Initially, NextKeeps, PTL DEF Spec

\* Every variable keeps its type; validity revisions stay within their bound, and
\* versions number the generations that were published (finalize, extendValidity).
THEOREM TypeCorrect == Spec => []TypeOK
<1>1. IInv => TypeOK
  BY DEF IInv, Types, TypeOK, Gen, Statuses, Revisions
<1> QED
  BY Invariance, <1>1, PTL

\* At most one generation of the account is active, whoever asks for it and however
\* earlier ones ended (ensureNoActive, process).
THEOREM AtMostOneActive == Spec => []OneActive
<1>1. ASSUME IInv PROVE OneActive
  <2>1. Status(Active) \subseteq Generations /\ \A g, h \in Status(Active) : g = h
    BY <1>1 DEF IInv, Single, Status
  <2>2. CASE Status(Active) = {}
    BY <2>2, FS_EmptySet DEF OneActive
  <2>3. CASE Status(Active) # {}
    <3>1. PICK g : Status(Active) = {g}
      BY <2>1, <2>3
    <3> QED
      <4>1. Cardinality({g}) = 1
        BY FS_Singleton
      <4>2. Cardinality(Status(Active)) = 1
        BY <3>1, <4>1
      <4> QED
        BY <4>2 DEF OneActive
  <2> QED
    BY <2>2, <2>3
<1> QED
  BY Invariance, <1>1, PTL

\* A catalog on offer has its PDF on the disk, the one of its validity revision,
\* although workers and failed extensions remove files beside it (process, finalize,
\* cleanup), unless a request swept the directory after the lease was over
\* (ensureNoActive), or a worker did not hear of its commit and cleaned up.
THEOREM OfferedHasFile == Spec => []PublishedHasFile
<1>1. IInv => PublishedHasFile
  BY DEF IInv, Filed, PublishedHasFile, Status
<1> QED
  BY Invariance, <1>1, PTL

\* Only the worker that finalizes puts a generation up for approval.
LEMMA OnlyFinalizing ==
    ASSUME IInv, NEW g \in Generations, [Next]_vars,
           gen'[g].status = "AWAITING_APPROVAL", gen[g].status # "AWAITING_APPROVAL"
    PROVE  Finalizable(g)
<1>1. gen \in [Generations -> Gen]
  BY DEF IInv, Types
<1>2. gen' # gen
  OBVIOUS
<1>3. ASSUME NEW q, NEW s, gen' = [gen EXCEPT ![q].status = s] PROVE s = "AWAITING_APPROVAL"
  BY <1>1, <1>3 DEF Gen
<1>4. ASSUME NEW q, NEW row, gen' = [gen EXCEPT ![q] = row] PROVE row.status = "AWAITING_APPROVAL"
  BY <1>1, <1>4
<1>5. \A q : gen' # [gen EXCEPT ![q].artifact = "UPDATING"] /\ gen' # [gen EXCEPT ![q].artifact = "FAILED"]
  BY <1>1 DEF Gen
<1>6. ASSUME NEW r \in Requesters, NEW q \in Generations, CancelReads(r, q) \/ ApproveReads(r, q) \/ Extends(r, q)
      PROVE  Finalizable(g)
  BY <1>2, <1>5, <1>6 DEF CancelReads, ApproveReads, Extends
<1>7. ASSUME NEW r \in Requesters, RequestSteps(r) \/ RequestDies(r), ~Creates(r)
      PROVE  Finalizable(g)
  <2>1. CASE EnqueueFailed(r)
    BY <1>3, <2>1 DEF EnqueueFailed
  <2>2. CASE ApproveWrites(r)
    BY <1>3, <2>2 DEF ApproveWrites
  <2>3. CASE CancelWrites(r)
    <3> DEFINE q == req[r].g
               over == [gen[q] EXCEPT !.status = "CANCELLED", !.cancel = TRUE]
               asked == [gen[q] EXCEPT !.cancel = TRUE]
    <3>1. q \in Generations /\ gen[q] \in Gen
      BY <2>3 DEF CancelWrites, IInv, Types
    <3>2. over.status = "CANCELLED" /\ asked.status = gen[q].status
      <4> HIDE DEF q
      <4> QED
        BY <3>1 DEF Gen
    <3>3. gen' = [gen EXCEPT ![q] = over] \/ gen' = [gen EXCEPT ![q] = asked]
      BY <2>3 DEF CancelWrites
    <3>4. CASE gen' = [gen EXCEPT ![q] = over]
      BY <1>4, <3>2, <3>4
    <3>5. CASE gen' = [gen EXCEPT ![q] = asked]
      <4>1. gen'[q].status = gen[q].status /\ (g # q => gen'[g] = gen[g])
        BY <1>1, <3>1, <3>2, <3>5
      <4> QED
        BY <4>1
    <3> QED
      BY <3>3, <3>4, <3>5
  <2>4. CASE Enqueues(r) \/ ExtendEnqueues(r) \/ RequestDies(r)
    BY <1>2, <2>4 DEF Enqueues, ExtendEnqueues, RequestDies
  <2>6. CASE SweepRemoves(r) \/ RollsBack(r)
    BY <1>2, <2>6 DEF SweepRemoves, RollsBack
  <2>5. CASE ExtendFailed(r)
    BY <1>2, <1>5, <2>5 DEF ExtendFailed
  <2> QED
    BY <1>7, <2>1, <2>2, <2>3, <2>4, <2>5, <2>6 DEF RequestSteps
<1>8. ASSUME NEW r \in Requesters, SweepReads(r) \/ Creates(r) PROVE Finalizable(g)
  <2>1. CASE SweepReads(r)
    BY <1>2, <2>1 DEF SweepReads
  <2>2. CASE Creates(r)
    BY <1>1, <2>2 DEF Creates, NoGen, Gen
  <2> QED
    BY <1>8, <2>1, <2>2
<1>9. ASSUME NEW q \in Generations, GoesStale(q) \/ LeaseEnds(q) PROVE Finalizable(g)
  BY <1>1, <1>9 DEF GoesStale, LeaseEnds, Gen
<1>10. CASE WorkerFinalizes
  BY <1>1, <1>10 DEF WorkerFinalizes
<1>11. CASE WorkerDiscards
  BY <1>2, <1>3, <1>11 DEF WorkerDiscards
<1>12. CASE WorkerFails
  <2> DEFINE s == IF worker.cancelled THEN "CANCELLED" ELSE "FAILED"
             row == [gen[worker.g] EXCEPT !.path = Null, !.status = s]
  <2>1. gen' = [gen EXCEPT ![worker.g] = row]
    BY <1>2, <1>12 DEF WorkerFails
  <2>2. gen[worker.g] \in Gen
    BY <1>12 DEF WorkerFails, IInv, Types
  <2>3. row.status = s
    <3> HIDE DEF s
    <3> QED
      BY <2>2 DEF Gen
  <2> QED
    BY <1>4, <2>1, <2>3
<1>13. ASSUME NEW q \in Generations, WorkerClaims(q) PROVE Finalizable(g)
  <2>1. gen' = [gen EXCEPT ![q].status = "RENDERING"]
    BY <1>2, <1>13 DEF WorkerClaims
  <2> QED
    BY <1>3, <2>1
<1>14. CASE WorkerRenders \/ WorkerRenames \/ WorkerDies
  BY <1>2, <1>14 DEF WorkerRenders, WorkerRenames, WorkerDies
<1>15. CASE ExtSwitches
  <2> DEFINE row == [gen[ext.g] EXCEPT !.revision = Made[2], !.artifact = "CURRENT", !.path = Made[2]]
  <2>1. gen' = [gen EXCEPT ![ext.g] = row] /\ gen[ext.g].status = "APPROVED"
    BY <1>2, <1>15 DEF ExtSwitches, Switchable
  <2>2. gen[ext.g] \in Gen
    BY <1>15 DEF ExtSwitches, IInv, Types
  <2>3. row.status = "APPROVED"
    <3> DEFINE m == Made[2]
    <3> HIDE DEF m
    <3>1. [gen[ext.g] EXCEPT !.revision = m, !.artifact = "CURRENT", !.path = m].status = "APPROVED"
      BY <2>1, <2>2 DEF Gen
    <3> QED
      BY <3>1 DEF m
  <2> QED
    BY <1>4, <2>1, <2>3
<1>16. CASE ExtFails
  BY <1>2, <1>5, <1>16 DEF ExtFails
<1>17. CASE ExtCleans \/ ExtRenders \/ ExtDies
  BY <1>2, <1>17 DEF ExtCleans, ExtRenders, ExtDies
<1>18. ASSUME NEW j \in DOMAIN xjob, ExtTakes(j) \/ QueueForgets(j) PROVE Finalizable(g)
  BY <1>2, <1>18 DEF ExtTakes, QueueForgets
<1>19. CASE UNCHANGED vars
  BY <1>2, <1>19 DEF vars
<1>20. CASE Next
  <2>1. CASE \E r \in Requesters, q \in Generations : CancelReads(r, q) \/ ApproveReads(r, q) \/ Extends(r, q)
    BY <1>6, <2>1
  <2>2. CASE \E r \in Requesters : SweepReads(r) \/ RequestSteps(r) \/ RequestDies(r)
    BY <1>7, <1>8, <2>2
  <2>3. CASE \E q \in Generations : GoesStale(q) \/ LeaseEnds(q)
    BY <1>9, <2>3
  <2>4. CASE WorkerSteps \/ WorkerDies
    BY <1>10, <1>11, <1>12, <1>13, <1>14, <2>4 DEF WorkerSteps
  <2>5. CASE ExtSteps \/ ExtDies
    BY <1>15, <1>16, <1>17, <1>18, <2>5 DEF ExtSteps
  <2>6. CASE \E j \in DOMAIN xjob : QueueForgets(j)
    BY <1>18, <2>6
  <2> QED
    BY <1>20, <2>1, <2>2, <2>3, <2>4, <2>5, <2>6 DEF Next
<1> QED
  BY <1>19, <1>20

\* No worker puts up for approval a generation that is cancelled or failed, or has a
\* cancellation pending (finalize, cancel, ensureNoActive).
THEOREM NotOfferedOnceClosed == Spec => ClosedStaysClosed
<1>1. ASSUME IInv, [Next]_vars, NEW g \in Generations,
             gen[g].status \in Over \/ (gen[g].status \in Active /\ gen[g].cancel)
      PROVE  gen'[g].status # "AWAITING_APPROVAL"
  BY <1>1, OnlyFinalizing DEF Finalizable, Over, Active
<1>2. IInv /\ [Next]_vars => [\A g \in Generations :
          (gen[g].status \in Over \/ (gen[g].status \in Active /\ gen[g].cancel))
              => gen'[g].status # "AWAITING_APPROVAL"]_vars
  BY <1>1
<1> QED
  BY Invariance, <1>2, PTL DEF Spec, ClosedStaysClosed
=============================================================================
