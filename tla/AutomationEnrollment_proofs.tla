--------------------- MODULE AutomationEnrollment_proofs ---------------------
(***************************************************************************)
(* Proofs about AutomationEnrollment, for every flow, any number of        *)
(* workers and any failures: the types, that a delay is waited for, that   *)
(* an enrollment that is over stays over, that nothing is passed over, and *)
(* that in a flow without cycles a node is repeated for failures only.     *)
(*                                                                         *)
(* As long as no lock expired under its holder, at most one call is past   *)
(* its lock (Exclusive) and the row is where that call is (Waits).  A time *)
(* is drawn for a node; whoever is about to execute a delay knows that a   *)
(* time of that delay has come.                                            *)
(***************************************************************************)
EXTENDS AutomationEnrollment, TLAPS

Pcs  == {"idle", "lock", "read", "disable", "visit", "advance", "check", "guard", "mark",
         "enqueue", "release"}
Call == [pc : Pcs, k : Nat, mine : BOOLEAN, n : Nodes \cup {NoNode}, steps : 0..MaxSteps, stamp : Nat]

Types ==
    /\ status \in {"none", "ACTIVE", "CANCELLED", "COMPLETED"}
    /\ node \in Nodes \cup {NoNode} /\ runAt \in 0..last
    /\ flowOn \in BOOLEAN /\ expired \in BOOLEAN
    /\ last \in 0..MaxStamps /\ due \subseteq 1..last
    /\ nodeOf \in [Stamps -> Nodes \cup {NoNode}]
    /\ job \in [Stamps -> Known \cup {"none"}]
    /\ \A k \in Stamps : job[k] # "none" => k <= last
    /\ tries \in [Stamps -> 0..MaxTries] /\ stalled \subseteq Stamps
    /\ lock \in Workers \cup {Free, Ghost}
    /\ call \in [Workers -> Call]
    /\ \A w \in Workers : call[w].k <= last /\ call[w].stamp <= last
    /\ enroller \in {"start", "enqueue", "done"} /\ ticker \in 0..last
    /\ canceller \in {"idle", "write", "done"}
    /\ sent \in [Nodes -> Nat] /\ faults \in 0..MaxFaults

\* A job that may run has tries left, and runs in one call.
Queue ==
    /\ \A k \in Stamps : job[k] \notin Kept => tries[k] < MaxTries
    /\ \A w \in Workers : call[w].mine =>
           call[w].pc # "idle" /\ call[w].k \in Stamps /\ job[call[w].k] = "active"
    /\ \A w, v \in Workers : call[w].mine /\ call[v].mine /\ call[w].k = call[v].k => w = v

\* What a call knows at each point.
Local == \A w \in Workers :
    /\ call[w].pc \in {"visit", "advance", "check", "guard"} => call[w].n \in Nodes
    /\ call[w].pc \in {"lock", "read", "visit", "advance", "check"} => call[w].steps < MaxSteps
    /\ call[w].pc \in {"check", "mark", "enqueue"} => call[w].stamp \in 1..last

\* Before the enrollment there is nothing.
Enrolled ==
    /\ enroller = "start" => /\ last = 0 /\ status = "none" /\ canceller = "idle"
                             /\ \A w \in Workers : call[w].pc = "idle"
                             /\ \A n \in Nodes : sent[n] = 0
    /\ enroller # "start" => last >= 1 /\ status # "none"

\* Nobody but the holder of the lock is past it.
Exclusive == ~expired => \A w \in Workers : call[w].pc \notin {"idle", "lock"} => lock = w

Passed(n)   == \E k \in due : nodeOf[k] = n
Timed(n, k) == n \in Delays => Passed(n) \/ (k \in 1..last /\ nodeOf[k] = n)

\* The row is where the holder is.
Waits == ~expired =>
    /\ status = "ACTIVE" => Timed(node, runAt)
    /\ \A w \in Workers :
           /\ call[w].pc \in {"visit", "advance", "check", "guard", "mark"} => node = call[w].n
           /\ call[w].pc \in {"visit", "guard"} /\ call[w].n \in Delays => Passed(call[w].n)
           /\ call[w].pc \in {"check", "mark"} => Timed(call[w].n, call[w].stamp)

IInv == Types /\ Queue /\ Local /\ Enrolled /\ Exclusive /\ Waits

\* A flow without cycles has ranks.
Ranks(rank) == /\ rank \in [Nodes -> Nat]
               /\ \A n \in Nodes : \A m \in Successors[n] \ {End} : rank[n] < rank[m]

\* Nodes that may have been executed without a failure.
Through(rank, n) == \/ node = NoNode \/ rank[n] < rank[node]
                    \/ \E w \in Workers : call[w].pc = "advance" /\ call[w].n = n
Counted(rank) == ~expired =>
    \A n \in Nodes : sent[n] <= faults \/ (sent[n] <= faults + 1 /\ Through(rank, n))

\* What is executed was reached from an executed node.
Reached(n) == n = Trigger \/ \E m \in Nodes : n \in Successors[m] /\ sent[m] > 0
Reaching ==
    /\ node # NoNode => Reached(node)
    /\ \A w \in Workers :
           /\ call[w].pc \in {"visit", "advance", "check", "guard", "mark"} => Reached(call[w].n)
           /\ call[w].pc = "advance" => sent[call[w].n] > 0
    /\ \A n \in Nodes : sent[n] > 0 => Reached(n)
    /\ status = "COMPLETED" => \E m \in Nodes : End \in Successors[m] /\ sent[m] > 0

-----------------------------------------------------------------------------
\* The bounds, and how the membership of a record field is read off.
LEMMA Bounds ==
    /\ MaxSteps \in Nat /\ MaxSteps >= 1 /\ MaxTries \in Nat /\ MaxTries >= 1
    /\ MaxStamps \in Nat /\ MaxFaults \in Nat /\ Trigger \in Nodes
    /\ \A n \in Nodes : Successors[n] \subseteq Nodes \cup {End}
    /\ NoNode \notin Nodes /\ Emails \subseteq Nodes /\ Delays \subseteq Nodes
    /\ Free \notin Workers /\ Ghost \notin Workers
BY ConstantsAssumption

LEMMA CallsType == IInv => call \in [Workers -> Call]
BY DEF IInv, Types

LEMMA CallType ==
    ASSUME IInv, NEW w \in Workers
    PROVE  /\ call[w] \in Call /\ call[w].pc \in Pcs /\ call[w].k \in Nat /\ call[w].mine \in BOOLEAN
           /\ call[w].n \in Nodes \cup {NoNode} /\ call[w].steps \in 0..MaxSteps
           /\ call[w].stamp \in Nat /\ call[w].k <= last /\ call[w].stamp <= last
<1>1. call[w] \in Call /\ call[w].k <= last /\ call[w].stamp <= last
  BY DEF IInv, Types
<1> QED
  BY <1>1 DEF Call

LEMMA NoCallType == /\ NoCall \in Call /\ NoCall.pc = "idle" /\ NoCall.k = 0 /\ ~NoCall.mine
                    /\ NoCall.stamp = 0 /\ NoCall.n = NoNode /\ NoCall.steps = 0
<1>1. 0 \in 0..MaxSteps
  BY Bounds
<1> QED
  BY <1>1 DEF NoCall, Call, Pcs

LEMMA Reset ==
    ASSUME IInv, NEW w \in Workers, call' = [call EXCEPT ![w] = NoCall]
    PROVE  /\ call' \in [Workers -> Call] /\ \A v \in Workers : v # w => call'[v] = call[v]
           /\ call'[w].pc = "idle" /\ call'[w].k = 0 /\ ~call'[w].mine /\ call'[w].stamp = 0
BY CallsType, NoCallType

LEMMA Returned ==
    ASSUME IInv, NEW w \in Workers, Return(w)
    PROVE  /\ job' \in [Stamps -> Known \cup {"none"}]
           /\ \A k \in Stamps : \/ job'[k] = job[k]
                                \/ call[w].mine /\ k = call[w].k /\ job[k] = "active" /\ job'[k] = "done"
<1>1. job \in [Stamps -> Known \cup {"none"}]
  BY DEF IInv, Types
<1>2. CASE call[w].mine
  <2>1. call[w].k \in Stamps /\ job[call[w].k] = "active"
    BY <1>2 DEF IInv, Queue
  <2>2. job' = [job EXCEPT ![call[w].k] = "done"]
    BY <1>2 DEF Return
  <2> QED
    BY <1>1, <1>2, <2>1, <2>2 DEF Known, Kept
<1>3. CASE ~call[w].mine
  BY <1>1, <1>3 DEF Return
<1> QED
  BY <1>2, <1>3

\* What a step has to observe about the job of its call.
LEMMA CallsQueue ==
    ASSUME IInv, NEW w \in Workers,
           \A v \in Workers : v # w => call'[v] = call[v],
           call'[w].mine => call[w].mine /\ call'[w].k = call[w].k /\ call'[w].pc # "idle",
           \A k \in Stamps :
               \/ job'[k] = job[k] /\ tries'[k] = tries[k]
               \/ /\ call[w].mine /\ ~call'[w].mine /\ k = call[w].k
                  /\ job'[k] \notin Kept => tries'[k] < MaxTries
    PROVE  Queue'
<1>1. \A k \in Stamps : job'[k] \notin Kept => tries'[k] < MaxTries
  BY DEF IInv, Queue
<1>2. ASSUME NEW v \in Workers, call'[v].mine
      PROVE  call[v].mine /\ call'[v].k = call[v].k /\ call'[v].pc # "idle"
  <2>1. CASE v = w
    BY <1>2, <2>1
  <2>2. CASE v # w
    BY <1>2, <2>2 DEF IInv, Queue
  <2> QED
    BY <2>1, <2>2
<1>3. \A v \in Workers : call'[v].mine =>
          call'[v].pc # "idle" /\ call'[v].k \in Stamps /\ job'[call'[v].k] = "active"
  BY <1>2 DEF IInv, Queue
<1>4. \A v, u \in Workers : call'[v].mine /\ call'[u].mine /\ call'[v].k = call'[u].k => v = u
  BY <1>2 DEF IInv, Queue
<1> QED
  BY <1>1, <1>3, <1>4 DEF Queue

\* Stamps keep their node, and those whose time has come stay due.
TimeGoesOn ==
    /\ last \in Nat /\ last' \in Nat /\ last <= last' /\ due \subseteq due'
    /\ due \subseteq 1..last
    /\ \A k \in 1..last : nodeOf'[k] = nodeOf[k]

LEMMA Drawn ==
    ASSUME IInv, NEW n \in Nodes \cup {NoNode}, NEW past, Draw(n, past)
    PROVE  /\ last' = last + 1 /\ last' \in 0..MaxStamps /\ last + 1 \in Stamps
           /\ due' \subseteq 1..last' /\ (past => last + 1 \in due') /\ due' \subseteq due \cup {last + 1}
           /\ nodeOf' \in [Stamps -> Nodes \cup {NoNode}] /\ nodeOf'[last + 1] = n
           /\ TimeGoesOn
<1>1. last \in Nat /\ MaxStamps \in Nat /\ due \subseteq 1..last /\ nodeOf \in [Stamps -> Nodes \cup {NoNode}]
  BY Bounds DEF IInv, Types
<1>2. last' = last + 1 /\ last + 1 \in Stamps
  BY <1>1 DEF Draw, Stamps
<1>3. due' = due \/ due' = due \cup {last + 1}
  BY DEF Draw
<1>4. past => last + 1 \in due'
  BY DEF Draw
<1>5. nodeOf' = [nodeOf EXCEPT ![last + 1] = n]
  BY DEF Draw
<1>6. due \subseteq due' /\ due' \subseteq due \cup {last + 1}
  BY <1>3
<1>8. ASSUME NEW k \in due' PROVE k \in 1..last'
  <2>1. k \in 1..last \/ k = last + 1
    BY <1>1, <1>6
  <2> QED
    BY <1>1, <1>2, <2>1
<1>7. /\ nodeOf' \in [Stamps -> Nodes \cup {NoNode}] /\ nodeOf'[last + 1] = n
      /\ \A k \in 1..last : nodeOf'[k] = nodeOf[k]
  BY <1>1, <1>2, <1>5 DEF Stamps
<1>9. last' \in 0..MaxStamps /\ last' \in Nat /\ last <= last'
  BY <1>1, <1>2 DEF Stamps
<1> QED
  BY <1>1, <1>2, <1>4, <1>6, <1>7, <1>8, <1>9 DEF TimeGoesOn

-----------------------------------------------------------------------------
(* What each step of a call does to the calls *)

LEMMA TakeMoves ==
    ASSUME IInv, NEW w \in Workers, Take(w)
    PROVE  /\ call' \in [Workers -> Call] /\ \A v \in Workers : v # w => call'[v] = call[v]
           /\ call'[w].pc = "lock" /\ call'[w].stamp = 0 /\ call'[w].mine /\ call'[w].steps = 0
           /\ call'[w].k \in Stamps /\ call'[w].k \in 1..last
<1>p. PICK k \in Stamps : call' = [call EXCEPT ![w] = [NoCall EXCEPT !.pc = "lock", !.k = k, !.mine = TRUE]]
                       /\ k \in due
  BY DEF Take
<1>k. k \in 1..last /\ k \in Nat
  BY <1>p DEF IInv, Types, Stamps
<1> DEFINE local == [NoCall EXCEPT !.pc = "lock", !.k = k, !.mine = TRUE]
<1>1. call' = [call EXCEPT ![w] = local]
  BY <1>p
<1>2. local \in Call
  BY CallType, NoCallType, Bounds, <1>k, <1>p DEF Call, Pcs
<1>3. /\ local.pc = "lock" /\ local.stamp = 0 /\ local.mine /\ local.steps = 0
      /\ local.k \in Stamps /\ local.k \in 1..last
  BY CallType, NoCallType, Bounds, <1>k, <1>p DEF Call
<1> HIDE DEF local
<1> QED
  BY <1>1, <1>2, <1>3, CallsType

LEMMA AcquireLockMoves ==
    ASSUME IInv, NEW w \in Workers, AcquireLock(w)
    PROVE  /\ call' \in [Workers -> Call] /\ \A v \in Workers : v # w => call'[v] = call[v]
           /\ call'[w].pc = "read" /\ call'[w].k = call[w].k /\ call'[w].mine = call[w].mine
           /\ call'[w].n = call[w].n /\ call'[w].steps = call[w].steps /\ call'[w].stamp = call[w].stamp
<1> DEFINE local == [call[w] EXCEPT !.pc = "read"]
<1>1. call' = [call EXCEPT ![w] = local]
  BY DEF AcquireLock, At, Goto
<1>2. local \in Call
  BY CallType, NoCallType, Bounds DEF Call, Pcs
<1>3. /\ local.pc = "read" /\ local.k = call[w].k /\ local.mine = call[w].mine
      /\ local.n = call[w].n /\ local.steps = call[w].steps /\ local.stamp = call[w].stamp
  BY CallType, NoCallType, Bounds DEF Call
<1> HIDE DEF local
<1> QED
  BY <1>1, <1>2, <1>3, CallsType

LEMMA LockHeldMoves ==
    ASSUME IInv, NEW w \in Workers, LockHeld(w)
    PROVE  /\ call' \in [Workers -> Call] /\ \A v \in Workers : v # w => call'[v] = call[v]
           /\ call'[w].pc = "idle" /\ call'[w].k = 0 /\ ~call'[w].mine /\ call'[w].stamp = 0
<1>1. call' = [call EXCEPT ![w] = NoCall]
  BY DEF LockHeld, Return
<1> QED
  BY <1>1, Reset

LEMMA ReadMoves ==
    ASSUME IInv, NEW w \in Workers, Read(w)
    PROVE  /\ call' \in [Workers -> Call] /\ \A v \in Workers : v # w => call'[v] = call[v]
           /\ call'[w].pc \in {"disable", "visit", "release"} /\ call'[w].n = node /\ call'[w].k = call[w].k
           /\ call'[w].mine = call[w].mine /\ call'[w].stamp = call[w].stamp /\ call'[w].steps = call[w].steps
           /\ call'[w].pc \in {"disable", "visit"} => status = "ACTIVE"
           /\ call'[w].pc = "visit" => IsDue(runAt) /\ node # NoNode
<1>r. node \in Nodes \cup {NoNode}
  BY DEF IInv, Types
<1> DEFINE local == [call[w] EXCEPT !.n = node, !.pc = IF Active /\ ~flowOn THEN "disable"
                ELSE IF Active /\ IsDue(runAt) /\ node # NoNode THEN "visit" ELSE "release"]
<1>1. call' = [call EXCEPT ![w] = local]
  BY DEF Read
<1>2. local \in Call
  BY CallType, NoCallType, Bounds, <1>r DEF Call, Pcs
<1>3. /\ local.pc \in {"disable", "visit", "release"} /\ local.n = node /\ local.k = call[w].k
      /\ local.mine = call[w].mine /\ local.stamp = call[w].stamp /\ local.steps = call[w].steps
      /\ local.pc \in {"disable", "visit"} => status = "ACTIVE"
      /\ local.pc = "visit" => IsDue(runAt) /\ node # NoNode
  BY CallType, NoCallType, Bounds, <1>r DEF Call, Active
<1> HIDE DEF local
<1> QED
  BY <1>1, <1>2, <1>3, CallsType

LEMMA DisableMoves ==
    ASSUME IInv, NEW w \in Workers, Disable(w)
    PROVE  /\ call' \in [Workers -> Call] /\ \A v \in Workers : v # w => call'[v] = call[v]
           /\ call'[w].pc = "release" /\ call'[w].k = call[w].k /\ call'[w].mine = call[w].mine
           /\ call'[w].n = call[w].n /\ call'[w].steps = call[w].steps /\ call'[w].stamp = call[w].stamp
<1> DEFINE local == [call[w] EXCEPT !.pc = "release"]
<1>1. call' = [call EXCEPT ![w] = local]
  BY DEF Disable, At, Goto
<1>2. local \in Call
  BY CallType, NoCallType, Bounds DEF Call, Pcs
<1>3. /\ local.pc = "release" /\ local.k = call[w].k /\ local.mine = call[w].mine
      /\ local.n = call[w].n /\ local.steps = call[w].steps /\ local.stamp = call[w].stamp
  BY CallType, NoCallType, Bounds DEF Call
<1> HIDE DEF local
<1> QED
  BY <1>1, <1>2, <1>3, CallsType

LEMMA ExecuteMoves ==
    ASSUME IInv, NEW w \in Workers, Execute(w)
    PROVE  /\ call' \in [Workers -> Call] /\ \A v \in Workers : v # w => call'[v] = call[v]
           /\ call'[w].pc = "advance" /\ call'[w].k = call[w].k /\ call'[w].mine = call[w].mine
           /\ call'[w].n = call[w].n /\ call'[w].steps = call[w].steps /\ call'[w].stamp = call[w].stamp
<1> DEFINE local == [call[w] EXCEPT !.pc = "advance"]
<1>1. call' = [call EXCEPT ![w] = local]
  BY DEF Execute, At, Goto
<1>2. local \in Call
  BY CallType, NoCallType, Bounds DEF Call, Pcs
<1>3. /\ local.pc = "advance" /\ local.k = call[w].k /\ local.mine = call[w].mine
      /\ local.n = call[w].n /\ local.steps = call[w].steps /\ local.stamp = call[w].stamp
  BY CallType, NoCallType, Bounds DEF Call
<1> HIDE DEF local
<1> QED
  BY <1>1, <1>2, <1>3, CallsType

LEMMA CompleteMoves ==
    ASSUME IInv, NEW w \in Workers, Complete(w)
    PROVE  /\ call' \in [Workers -> Call] /\ \A v \in Workers : v # w => call'[v] = call[v]
           /\ call'[w].pc = "release" /\ call'[w].k = call[w].k /\ call'[w].mine = call[w].mine
           /\ call'[w].n = call[w].n /\ call'[w].steps = call[w].steps /\ call'[w].stamp = call[w].stamp
<1> DEFINE local == [call[w] EXCEPT !.pc = "release"]
<1>1. call' = [call EXCEPT ![w] = local]
  BY DEF Complete, At, Goto
<1>2. local \in Call
  BY CallType, NoCallType, Bounds DEF Call, Pcs
<1>3. /\ local.pc = "release" /\ local.k = call[w].k /\ local.mine = call[w].mine
      /\ local.n = call[w].n /\ local.steps = call[w].steps /\ local.stamp = call[w].stamp
  BY CallType, NoCallType, Bounds DEF Call
<1> HIDE DEF local
<1> QED
  BY <1>1, <1>2, <1>3, CallsType

LEMMA CheckMoves ==
    ASSUME IInv, NEW w \in Workers, Check(w)
    PROVE  /\ call' \in [Workers -> Call] /\ \A v \in Workers : v # w => call'[v] = call[v]
           /\ call'[w].pc \in {"mark", "visit", "guard"} /\ call'[w].n = call[w].n /\ call'[w].k = call[w].k
           /\ call'[w].mine = call[w].mine /\ call'[w].stamp = call[w].stamp
           /\ call'[w].pc = "visit" => call'[w].steps < MaxSteps
           /\ call'[w].pc # "mark" => call[w].stamp \in due
<1>r. call[w].steps < MaxSteps
  BY DEF Check, At, IInv, Local
<1> DEFINE local == IF call[w].stamp \notin due THEN [call[w] EXCEPT !.pc = "mark"]
                ELSE [call[w] EXCEPT !.steps = call[w].steps + 1,
                                     !.pc = IF call[w].steps + 1 < MaxSteps THEN "visit" ELSE "guard"]
<1>1. call' = [call EXCEPT ![w] = local]
  BY DEF Check, At, Goto
<1>2. local \in Call
  <2>1. call[w].steps + 1 \in 0..MaxSteps
    BY <1>r, CallType, Bounds
  <2>2. CASE call[w].stamp \notin due
    BY <2>2, CallType DEF Call, Pcs
  <2>3. CASE call[w].stamp \in due
    <3> DEFINE to == IF call[w].steps + 1 < MaxSteps THEN "visit" ELSE "guard"
    <3>1. to \in Pcs
      BY DEF Pcs
    <3> HIDE DEF to
    <3>2. [call[w] EXCEPT !.steps = call[w].steps + 1, !.pc = to] \in Call
      BY <2>1, <3>1, CallType DEF Call
    <3> QED
      BY <2>3, <3>2 DEF to
  <2> QED
    BY <2>2, <2>3
<1>3. /\ local.pc \in {"mark", "visit", "guard"} /\ local.n = call[w].n /\ local.k = call[w].k
      /\ local.mine = call[w].mine /\ local.stamp = call[w].stamp
      /\ local.pc = "visit" => local.steps < MaxSteps
      /\ local.pc # "mark" => call[w].stamp \in due
  BY CallType, NoCallType, Bounds, <1>r DEF Call
<1> HIDE DEF local
<1> QED
  BY <1>1, <1>2, <1>3, CallsType

LEMMA PostponeMoves ==
    ASSUME IInv, NEW w \in Workers, Postpone(w)
    PROVE  /\ call' \in [Workers -> Call] /\ \A v \in Workers : v # w => call'[v] = call[v]
           /\ call'[w].pc = "mark" /\ call'[w].k = call[w].k /\ call'[w].mine = call[w].mine
           /\ call'[w].n = call[w].n /\ call'[w].steps = call[w].steps /\ call'[w].stamp = last + 1
<1>r. last + 1 \in Nat
  BY Bounds DEF IInv, Types
<1> DEFINE local == [call[w] EXCEPT !.pc = "mark", !.stamp = last + 1]
<1>1. call' = [call EXCEPT ![w] = local]
  BY DEF Postpone
<1>2. local \in Call
  BY CallType, NoCallType, Bounds, <1>r DEF Call, Pcs
<1>3. /\ local.pc = "mark" /\ local.k = call[w].k /\ local.mine = call[w].mine
      /\ local.n = call[w].n /\ local.steps = call[w].steps /\ local.stamp = last + 1
  BY CallType, NoCallType, Bounds, <1>r DEF Call
<1> HIDE DEF local
<1> QED
  BY <1>1, <1>2, <1>3, CallsType

LEMMA AdvanceMoves ==
    ASSUME IInv, NEW w \in Workers, Advance(w)
    PROVE  /\ call' \in [Workers -> Call] /\ \A v \in Workers : v # w => call'[v] = call[v]
           /\ call'[w].pc = "check" /\ call'[w].stamp = last + 1 /\ call'[w].k = call[w].k
           /\ call'[w].mine = call[w].mine /\ call'[w].steps = call[w].steps
           /\ call'[w].n \in Successors[call[w].n] \ {End} /\ call'[w].n \in Nodes
<1>p. PICK n \in Successors[call[w].n] \ {End} :
        /\ call' = [call EXCEPT ![w] = [@ EXCEPT !.pc = "check", !.n = n, !.stamp = last + 1]]
        /\ At(w, "advance")
  BY DEF Advance
<1>r. n \in Nodes /\ last + 1 \in Nat
  BY <1>p, Bounds, CallType DEF IInv, Local, Types, At
<1> DEFINE local == [call[w] EXCEPT !.pc = "check", !.n = n, !.stamp = last + 1]
<1>1. call' = [call EXCEPT ![w] = local]
  BY <1>p
<1>2. local \in Call
  BY CallType, NoCallType, Bounds, <1>r, <1>p DEF Call, Pcs
<1>3. /\ local.pc = "check" /\ local.stamp = last + 1 /\ local.k = call[w].k
      /\ local.mine = call[w].mine /\ local.steps = call[w].steps
      /\ local.n \in Successors[call[w].n] \ {End} /\ local.n \in Nodes
  BY CallType, NoCallType, Bounds, <1>r, <1>p DEF Call
<1> HIDE DEF local
<1> QED
  BY <1>1, <1>2, <1>3, CallsType

LEMMA GuardMoves ==
    ASSUME IInv, NEW w \in Workers, Guard(w)
    PROVE  /\ call' \in [Workers -> Call] /\ \A v \in Workers : v # w => call'[v] = call[v]
           /\ call'[w].pc = "mark" /\ call'[w].k = call[w].k /\ call'[w].mine = call[w].mine
           /\ call'[w].n = call[w].n /\ call'[w].steps = call[w].steps /\ call'[w].stamp = last + 1
<1>r. last + 1 \in Nat
  BY Bounds DEF IInv, Types
<1> DEFINE local == [call[w] EXCEPT !.pc = "mark", !.stamp = last + 1]
<1>1. call' = [call EXCEPT ![w] = local]
  BY DEF Guard
<1>2. local \in Call
  BY CallType, NoCallType, Bounds, <1>r DEF Call, Pcs
<1>3. /\ local.pc = "mark" /\ local.k = call[w].k /\ local.mine = call[w].mine
      /\ local.n = call[w].n /\ local.steps = call[w].steps /\ local.stamp = last + 1
  BY CallType, NoCallType, Bounds, <1>r DEF Call
<1> HIDE DEF local
<1> QED
  BY <1>1, <1>2, <1>3, CallsType

LEMMA MarkWaitingMoves ==
    ASSUME IInv, NEW w \in Workers, MarkWaiting(w)
    PROVE  /\ call' \in [Workers -> Call] /\ \A v \in Workers : v # w => call'[v] = call[v]
           /\ call'[w].pc = "enqueue" /\ call'[w].k = call[w].k /\ call'[w].mine = call[w].mine
           /\ call'[w].n = call[w].n /\ call'[w].steps = call[w].steps /\ call'[w].stamp = call[w].stamp
<1> DEFINE local == [call[w] EXCEPT !.pc = "enqueue"]
<1>1. call' = [call EXCEPT ![w] = local]
  BY DEF MarkWaiting, At, Goto
<1>2. local \in Call
  BY CallType, NoCallType, Bounds DEF Call, Pcs
<1>3. /\ local.pc = "enqueue" /\ local.k = call[w].k /\ local.mine = call[w].mine
      /\ local.n = call[w].n /\ local.steps = call[w].steps /\ local.stamp = call[w].stamp
  BY CallType, NoCallType, Bounds DEF Call
<1> HIDE DEF local
<1> QED
  BY <1>1, <1>2, <1>3, CallsType

LEMMA EnqueueEnrollmentMoves ==
    ASSUME IInv, NEW w \in Workers, EnqueueEnrollment(w)
    PROVE  /\ call' \in [Workers -> Call] /\ \A v \in Workers : v # w => call'[v] = call[v]
           /\ call'[w].pc = "release" /\ call'[w].k = call[w].k /\ call'[w].mine = call[w].mine
           /\ call'[w].n = call[w].n /\ call'[w].steps = call[w].steps /\ call'[w].stamp = call[w].stamp
<1> DEFINE local == [call[w] EXCEPT !.pc = "release"]
<1>1. call' = [call EXCEPT ![w] = local]
  BY DEF EnqueueEnrollment, At, Goto
<1>2. local \in Call
  BY CallType, NoCallType, Bounds DEF Call, Pcs
<1>3. /\ local.pc = "release" /\ local.k = call[w].k /\ local.mine = call[w].mine
      /\ local.n = call[w].n /\ local.steps = call[w].steps /\ local.stamp = call[w].stamp
  BY CallType, NoCallType, Bounds DEF Call
<1> HIDE DEF local
<1> QED
  BY <1>1, <1>2, <1>3, CallsType

LEMMA ReleaseMoves ==
    ASSUME IInv, NEW w \in Workers, Release(w)
    PROVE  /\ call' \in [Workers -> Call] /\ \A v \in Workers : v # w => call'[v] = call[v]
           /\ call'[w].pc = "idle" /\ call'[w].k = 0 /\ ~call'[w].mine /\ call'[w].stamp = 0
<1>1. call' = [call EXCEPT ![w] = NoCall]
  BY DEF Release, Return
<1> QED
  BY <1>1, Reset

LEMMA ReleaseFailsMoves ==
    ASSUME IInv, NEW w \in Workers, ReleaseFails(w)
    PROVE  /\ call' \in [Workers -> Call] /\ \A v \in Workers : v # w => call'[v] = call[v]
           /\ call'[w].pc = "idle" /\ call'[w].k = 0 /\ ~call'[w].mine /\ call'[w].stamp = 0
<1>1. call' = [call EXCEPT ![w] = NoCall]
  BY DEF ReleaseFails, Return
<1> QED
  BY <1>1, Reset

LEMMA ThrowMoves ==
    ASSUME IInv, NEW w \in Workers, Throw(w)
    PROVE  /\ call' \in [Workers -> Call] /\ \A v \in Workers : v # w => call'[v] = call[v]
           /\ call'[w].pc = "idle" /\ call'[w].k = 0 /\ ~call'[w].mine /\ call'[w].stamp = 0
<1>1. call' = [call EXCEPT ![w] = NoCall]
  BY DEF Throw
<1> QED
  BY <1>1, Reset

LEMMA CrashMoves ==
    ASSUME IInv, NEW w \in Workers, Crash(w)
    PROVE  /\ call' \in [Workers -> Call] /\ \A v \in Workers : v # w => call'[v] = call[v]
           /\ call'[w].pc = "idle" /\ call'[w].k = 0 /\ ~call'[w].mine /\ call'[w].stamp = 0
<1>1. call' = [call EXCEPT ![w] = NoCall]
  BY DEF Crash
<1> QED
  BY <1>1, Reset

LEMMA StallMoves ==
    ASSUME IInv, NEW w \in Workers, Stall(w)
    PROVE  /\ call' \in [Workers -> Call] /\ \A v \in Workers : v # w => call'[v] = call[v]
           /\ call'[w].pc = call[w].pc /\ call'[w].k = call[w].k /\ ~call'[w].mine
           /\ call'[w].n = call[w].n /\ call'[w].steps = call[w].steps /\ call'[w].stamp = call[w].stamp
<1> DEFINE local == [call[w] EXCEPT !.mine = FALSE]
<1>1. call' = [call EXCEPT ![w] = local]
  BY DEF Stall
<1>2. local \in Call
  BY CallType, NoCallType, Bounds DEF Call, Pcs
<1>3. /\ local.pc = call[w].pc /\ local.k = call[w].k /\ ~local.mine
      /\ local.n = call[w].n /\ local.steps = call[w].steps /\ local.stamp = call[w].stamp
  BY CallType, NoCallType, Bounds DEF Call
<1> HIDE DEF local
<1> QED
  BY <1>1, <1>2, <1>3, CallsType

-----------------------------------------------------------------------------
(* Every step keeps the invariant *)

LEMMA CreateEnrollmentKeeps ==
    ASSUME IInv, CreateEnrollment
    PROVE  IInv'
<1>n. Trigger \in Nodes \cup {NoNode}
  BY CallType, Bounds DEF IInv, Local
<1>e. Draw(Trigger, TRUE)
  BY DEF CreateEnrollment
<1>d. /\ last' = last + 1 /\ last' \in 0..MaxStamps /\ last + 1 \in Stamps
      /\ due' \subseteq 1..last' /\ ((TRUE) => last + 1 \in due') /\ due' \subseteq due \cup {last + 1}
      /\ nodeOf' \in [Stamps -> Nodes \cup {NoNode}] /\ nodeOf'[last + 1] = Trigger
      /\ TimeGoesOn
  BY <1>n, <1>e, Drawn
<1>a. call' = call
  BY DEF CreateEnrollment, row, time, queue, others, failures
<1>b. \A v \in Workers : /\ call[v].k \in Nat /\ call[v].stamp \in Nat
                        /\ call[v].k <= last /\ call[v].stamp <= last
  BY CallType
<1>1. Types'
  <2>1. /\ status' \in {"none", "ACTIVE", "CANCELLED", "COMPLETED"} /\ node' \in Nodes \cup {NoNode}
       /\ runAt' \in 0..last'
    BY <1>a, <1>d, Bounds
       DEF CreateEnrollment, row, time, queue, others, failures, IInv, Types, Local
  <2>2. flowOn' \in BOOLEAN /\ expired' \in BOOLEAN
    BY <1>d DEF CreateEnrollment, row, time, queue, others, failures, IInv, Types
  <2>3. /\ last' \in 0..MaxStamps /\ due' \subseteq 1..last' /\ nodeOf' \in [Stamps -> Nodes \cup {NoNode}]
       /\ ticker' \in 0..last'
    BY <1>a, <1>d, Bounds
       DEF CreateEnrollment, row, time, queue, others, failures, IInv, Types, TimeGoesOn
  <2>4. job' \in [Stamps -> Known \cup {"none"}] /\ \A k \in Stamps : job'[k] # "none" => k <= last'
    BY <1>a, <1>d, Bounds
       DEF CreateEnrollment, row, time, queue, others, failures, IInv, Types, Queue, Local,
           Enrolled, Known, Kept, Stamps
  <2>5. tries' \in [Stamps -> 0..MaxTries] /\ stalled' \subseteq Stamps
    BY <1>a, <1>d, Bounds
       DEF CreateEnrollment, row, time, queue, others, failures, IInv, Types, Queue, Kept,
           Stamps
  <2>6. lock' \in Workers \cup {Free, Ghost}
    BY <1>a, <1>d, Bounds DEF CreateEnrollment, row, time, queue, others, failures, IInv, Types
  <2>7. call' \in [Workers -> Call] /\ \A v \in Workers : call'[v].k <= last' /\ call'[v].stamp <= last'
    BY <1>a, CallsType, <1>b, <1>d DEF TimeGoesOn
  <2>8. enroller' \in {"start", "enqueue", "done"} /\ canceller' \in {"idle", "write", "done"}
    BY <1>a, <1>d, Bounds DEF CreateEnrollment, row, time, queue, others, failures, IInv, Types
  <2>9. sent' \in [Nodes -> Nat] /\ faults' \in 0..MaxFaults
    BY <1>a, <1>d, Bounds
       DEF CreateEnrollment, row, time, queue, others, failures, IInv, Types, Local
  <2> QED
    BY <2>1, <2>2, <2>3, <2>4, <2>5, <2>6, <2>7, <2>8, <2>9 DEF Types
<1>2. Queue'
  BY <1>a, <1>d, Bounds
     DEF CreateEnrollment, row, time, queue, others, failures, IInv, Types, Queue, Stamps,
         Kept
<1>3. Local'
  BY <1>a, <1>d, Bounds
     DEF CreateEnrollment, row, time, queue, others, failures, IInv, Types, Local, TimeGoesOn
<1>4. Enrolled'
  BY <1>a, <1>d, Bounds
     DEF CreateEnrollment, row, time, queue, others, failures, IInv, Types, Enrolled
<1>5. Exclusive'
  BY <1>a, <1>d, Bounds
     DEF CreateEnrollment, row, time, queue, others, failures, IInv, Types, Exclusive
<1>6. Waits'
  BY <1>a, <1>d, Bounds, CallType
     DEF CreateEnrollment, row, IInv, Types, Enrolled, Waits, Timed, Passed
<1> QED
  BY <1>1, <1>2, <1>3, <1>4, <1>5, <1>6 DEF IInv

LEMMA EnqueueFirstKeeps ==
    ASSUME IInv, EnqueueFirst
    PROVE  IInv'
<1>d. TimeGoesOn
  BY Bounds DEF EnqueueFirst, row, time, queue, others, failures, Add, IInv, Types, TimeGoesOn
<1>a. call' = call
  BY DEF EnqueueFirst, row, time, queue, others, failures, Add
<1>b. \A v \in Workers : /\ call[v].k \in Nat /\ call[v].stamp \in Nat
                        /\ call[v].k <= last /\ call[v].stamp <= last
  BY CallType
<1>1. Types'
  <2>1. /\ status' \in {"none", "ACTIVE", "CANCELLED", "COMPLETED"} /\ node' \in Nodes \cup {NoNode}
       /\ runAt' \in 0..last'
    BY <1>a, <1>d, Bounds
       DEF EnqueueFirst, row, time, queue, others, failures, Add, IInv, Types, Local
  <2>2. flowOn' \in BOOLEAN /\ expired' \in BOOLEAN
    BY <1>d DEF EnqueueFirst, row, time, queue, others, failures, Add, IInv, Types
  <2>3. /\ last' \in 0..MaxStamps /\ due' \subseteq 1..last' /\ nodeOf' \in [Stamps -> Nodes \cup {NoNode}]
       /\ ticker' \in 0..last'
    BY <1>a, <1>d, Bounds
       DEF EnqueueFirst, row, time, queue, others, failures, Add, IInv, Types, TimeGoesOn
  <2>4. job' \in [Stamps -> Known \cup {"none"}] /\ \A k \in Stamps : job'[k] # "none" => k <= last'
    BY <1>a, <1>d, Bounds
       DEF EnqueueFirst, row, time, queue, others, failures, Add, IInv, Types, Queue, Local,
           Enrolled, Known, Kept, Stamps
  <2>5. tries' \in [Stamps -> 0..MaxTries] /\ stalled' \subseteq Stamps
    BY <1>a, <1>d, Bounds
       DEF EnqueueFirst, row, time, queue, others, failures, Add, IInv, Types, Queue, Kept,
           Stamps
  <2>6. lock' \in Workers \cup {Free, Ghost}
    BY <1>a, <1>d, Bounds DEF EnqueueFirst, row, time, queue, others, failures, Add, IInv, Types
  <2>7. call' \in [Workers -> Call] /\ \A v \in Workers : call'[v].k <= last' /\ call'[v].stamp <= last'
    BY <1>a, CallsType, <1>b, <1>d DEF TimeGoesOn
  <2>8. enroller' \in {"start", "enqueue", "done"} /\ canceller' \in {"idle", "write", "done"}
    BY <1>a, <1>d, Bounds DEF EnqueueFirst, row, time, queue, others, failures, Add, IInv, Types
  <2>9. sent' \in [Nodes -> Nat] /\ faults' \in 0..MaxFaults
    BY <1>a, <1>d, Bounds
       DEF EnqueueFirst, row, time, queue, others, failures, Add, IInv, Types, Local
  <2> QED
    BY <2>1, <2>2, <2>3, <2>4, <2>5, <2>6, <2>7, <2>8, <2>9 DEF Types
<1>2. Queue'
  BY <1>a, <1>d, Bounds
     DEF EnqueueFirst, row, time, queue, others, failures, Add, IInv, Types, Queue, Stamps,
         Kept
<1>3. Local'
  BY <1>a, <1>d, Bounds
     DEF EnqueueFirst, row, time, queue, others, failures, Add, IInv, Types, Local,
         TimeGoesOn
<1>4. Enrolled'
  BY <1>a, <1>d, Bounds
     DEF EnqueueFirst, row, time, queue, others, failures, Add, IInv, Types, Enrolled
<1>5. Exclusive'
  BY <1>a, <1>d, Bounds
     DEF EnqueueFirst, row, time, queue, others, failures, Add, IInv, Types, Exclusive
<1>6. Waits'
  BY <1>a, <1>d, Bounds
     DEF EnqueueFirst, row, time, queue, others, failures, Add, IInv, Types, Exclusive,
         Waits, Local, Timed, Passed, TimeGoesOn
<1> QED
  BY <1>1, <1>2, <1>3, <1>4, <1>5, <1>6 DEF IInv

LEMMA EnqueueLostKeeps ==
    ASSUME IInv, EnqueueLost
    PROVE  IInv'
<1>d. TimeGoesOn
  BY Bounds DEF EnqueueLost, row, time, queue, others, failures, IInv, Types, TimeGoesOn
<1>a. call' = call
  BY DEF EnqueueLost, row, time, queue, others, failures
<1>b. \A v \in Workers : /\ call[v].k \in Nat /\ call[v].stamp \in Nat
                        /\ call[v].k <= last /\ call[v].stamp <= last
  BY CallType
<1>1. Types'
  <2>1. /\ status' \in {"none", "ACTIVE", "CANCELLED", "COMPLETED"} /\ node' \in Nodes \cup {NoNode}
       /\ runAt' \in 0..last'
    BY <1>a, <1>d, Bounds
       DEF EnqueueLost, row, time, queue, others, failures, IInv, Types, Local
  <2>2. flowOn' \in BOOLEAN /\ expired' \in BOOLEAN
    BY <1>d DEF EnqueueLost, row, time, queue, others, failures, IInv, Types
  <2>3. /\ last' \in 0..MaxStamps /\ due' \subseteq 1..last' /\ nodeOf' \in [Stamps -> Nodes \cup {NoNode}]
       /\ ticker' \in 0..last'
    BY <1>a, <1>d, Bounds
       DEF EnqueueLost, row, time, queue, others, failures, IInv, Types, TimeGoesOn
  <2>4. job' \in [Stamps -> Known \cup {"none"}] /\ \A k \in Stamps : job'[k] # "none" => k <= last'
    BY <1>a, <1>d, Bounds
       DEF EnqueueLost, row, time, queue, others, failures, IInv, Types, Queue, Local,
           Enrolled, Known, Kept, Stamps
  <2>5. tries' \in [Stamps -> 0..MaxTries] /\ stalled' \subseteq Stamps
    BY <1>a, <1>d, Bounds
       DEF EnqueueLost, row, time, queue, others, failures, IInv, Types, Queue, Kept, Stamps
  <2>6. lock' \in Workers \cup {Free, Ghost}
    BY <1>a, <1>d, Bounds DEF EnqueueLost, row, time, queue, others, failures, IInv, Types
  <2>7. call' \in [Workers -> Call] /\ \A v \in Workers : call'[v].k <= last' /\ call'[v].stamp <= last'
    BY <1>a, CallsType, <1>b, <1>d DEF TimeGoesOn
  <2>8. enroller' \in {"start", "enqueue", "done"} /\ canceller' \in {"idle", "write", "done"}
    BY <1>a, <1>d, Bounds DEF EnqueueLost, row, time, queue, others, failures, IInv, Types
  <2>9. sent' \in [Nodes -> Nat] /\ faults' \in 0..MaxFaults
    BY <1>a, <1>d, Bounds
       DEF EnqueueLost, row, time, queue, others, failures, IInv, Types, Local
  <2> QED
    BY <2>1, <2>2, <2>3, <2>4, <2>5, <2>6, <2>7, <2>8, <2>9 DEF Types
<1>2. Queue'
  BY <1>a, <1>d, Bounds
     DEF EnqueueLost, row, time, queue, others, failures, IInv, Types, Queue, Stamps, Kept
<1>3. Local'
  BY <1>a, <1>d, Bounds
     DEF EnqueueLost, row, time, queue, others, failures, IInv, Types, Local, TimeGoesOn
<1>4. Enrolled'
  BY <1>a, <1>d, Bounds
     DEF EnqueueLost, row, time, queue, others, failures, IInv, Types, Enrolled
<1>5. Exclusive'
  BY <1>a, <1>d, Bounds
     DEF EnqueueLost, row, time, queue, others, failures, IInv, Types, Exclusive
<1>6. Waits'
  BY <1>a, <1>d, Bounds
     DEF EnqueueLost, row, time, queue, others, failures, IInv, Types, Exclusive, Waits,
         Local, Timed, Passed, TimeGoesOn
<1> QED
  BY <1>1, <1>2, <1>3, <1>4, <1>5, <1>6 DEF IInv

LEMMA LockExpiresKeeps ==
    ASSUME IInv, LockExpires
    PROVE  IInv'
<1>d. TimeGoesOn
  BY Bounds DEF LockExpires, row, time, queue, others, failures, Fault, IInv, Types, TimeGoesOn
<1>a. call' = call
  BY DEF LockExpires, row, time, queue, others, failures, Fault
<1>b. \A v \in Workers : /\ call[v].k \in Nat /\ call[v].stamp \in Nat
                        /\ call[v].k <= last /\ call[v].stamp <= last
  BY CallType
<1>1. Types'
  <2>1. /\ status' \in {"none", "ACTIVE", "CANCELLED", "COMPLETED"} /\ node' \in Nodes \cup {NoNode}
       /\ runAt' \in 0..last'
    BY <1>a, <1>d, Bounds
       DEF LockExpires, row, time, queue, others, failures, Fault, IInv, Types, Local
  <2>2. flowOn' \in BOOLEAN /\ expired' \in BOOLEAN
    BY <1>d DEF LockExpires, row, time, queue, others, failures, Fault, IInv, Types
  <2>3. /\ last' \in 0..MaxStamps /\ due' \subseteq 1..last' /\ nodeOf' \in [Stamps -> Nodes \cup {NoNode}]
       /\ ticker' \in 0..last'
    BY <1>a, <1>d, Bounds
       DEF LockExpires, row, time, queue, others, failures, Fault, IInv, Types, TimeGoesOn
  <2>4. job' \in [Stamps -> Known \cup {"none"}] /\ \A k \in Stamps : job'[k] # "none" => k <= last'
    BY <1>a, <1>d, Bounds
       DEF LockExpires, row, time, queue, others, failures, Fault, IInv, Types, Queue, Local,
           Enrolled, Known, Kept, Stamps
  <2>5. tries' \in [Stamps -> 0..MaxTries] /\ stalled' \subseteq Stamps
    BY <1>a, <1>d, Bounds
       DEF LockExpires, row, time, queue, others, failures, Fault, IInv, Types, Queue, Kept,
           Stamps
  <2>6. lock' \in Workers \cup {Free, Ghost}
    BY <1>a, <1>d, Bounds
       DEF LockExpires, row, time, queue, others, failures, Fault, IInv, Types
  <2>7. call' \in [Workers -> Call] /\ \A v \in Workers : call'[v].k <= last' /\ call'[v].stamp <= last'
    BY <1>a, CallsType, <1>b, <1>d DEF TimeGoesOn
  <2>8. enroller' \in {"start", "enqueue", "done"} /\ canceller' \in {"idle", "write", "done"}
    BY <1>a, <1>d, Bounds
       DEF LockExpires, row, time, queue, others, failures, Fault, IInv, Types
  <2>9. sent' \in [Nodes -> Nat] /\ faults' \in 0..MaxFaults
    BY <1>a, <1>d, Bounds
       DEF LockExpires, row, time, queue, others, failures, Fault, IInv, Types, Local
  <2> QED
    BY <2>1, <2>2, <2>3, <2>4, <2>5, <2>6, <2>7, <2>8, <2>9 DEF Types
<1>2. Queue'
  BY <1>a, <1>d, Bounds
     DEF LockExpires, row, time, queue, others, failures, Fault, IInv, Types, Queue, Stamps,
         Kept
<1>3. Local'
  BY <1>a, <1>d, Bounds
     DEF LockExpires, row, time, queue, others, failures, Fault, IInv, Types, Local,
         TimeGoesOn
<1>4. Enrolled'
  BY <1>a, <1>d, Bounds
     DEF LockExpires, row, time, queue, others, failures, Fault, IInv, Types, Enrolled
<1>5. Exclusive'
  BY <1>a, <1>d, Bounds
     DEF LockExpires, row, time, queue, others, failures, Fault, IInv, Types, Exclusive
<1>6. Waits'
  BY <1>a, <1>d, Bounds
     DEF LockExpires, row, time, queue, others, failures, Fault, IInv, Types, Exclusive,
         Waits, Local, Timed, Passed, TimeGoesOn
<1> QED
  BY <1>1, <1>2, <1>3, <1>4, <1>5, <1>6 DEF IInv

LEMMA EvictKeeps ==
    ASSUME IInv, Evict
    PROVE  IInv'
<1>d. TimeGoesOn
  BY Bounds DEF Evict, row, time, queue, others, failures, IInv, Types, TimeGoesOn
<1>a. call' = call
  BY DEF Evict, row, time, queue, others, failures
<1>b. \A v \in Workers : /\ call[v].k \in Nat /\ call[v].stamp \in Nat
                        /\ call[v].k <= last /\ call[v].stamp <= last
  BY CallType
<1>1. Types'
  <2>1. /\ status' \in {"none", "ACTIVE", "CANCELLED", "COMPLETED"} /\ node' \in Nodes \cup {NoNode}
       /\ runAt' \in 0..last'
    BY <1>a, <1>d, Bounds DEF Evict, row, time, queue, others, failures, IInv, Types, Local
  <2>2. flowOn' \in BOOLEAN /\ expired' \in BOOLEAN
    BY <1>d DEF Evict, row, time, queue, others, failures, IInv, Types
  <2>3. /\ last' \in 0..MaxStamps /\ due' \subseteq 1..last' /\ nodeOf' \in [Stamps -> Nodes \cup {NoNode}]
       /\ ticker' \in 0..last'
    BY <1>a, <1>d, Bounds DEF Evict, row, time, queue, others, failures, IInv, Types, TimeGoesOn
  <2>4. job' \in [Stamps -> Known \cup {"none"}] /\ \A k \in Stamps : job'[k] # "none" => k <= last'
    BY <1>a, <1>d, Bounds
       DEF Evict, row, time, queue, others, failures, IInv, Types, Queue, Local, Enrolled,
           Known, Kept, Stamps
  <2>5. tries' \in [Stamps -> 0..MaxTries] /\ stalled' \subseteq Stamps
    BY <1>a, <1>d, Bounds
       DEF Evict, row, time, queue, others, failures, IInv, Types, Queue, Kept, Stamps
  <2>6. lock' \in Workers \cup {Free, Ghost}
    BY <1>a, <1>d, Bounds DEF Evict, row, time, queue, others, failures, IInv, Types
  <2>7. call' \in [Workers -> Call] /\ \A v \in Workers : call'[v].k <= last' /\ call'[v].stamp <= last'
    BY <1>a, CallsType, <1>b, <1>d DEF TimeGoesOn
  <2>8. enroller' \in {"start", "enqueue", "done"} /\ canceller' \in {"idle", "write", "done"}
    BY <1>a, <1>d, Bounds DEF Evict, row, time, queue, others, failures, IInv, Types
  <2>9. sent' \in [Nodes -> Nat] /\ faults' \in 0..MaxFaults
    BY <1>a, <1>d, Bounds DEF Evict, row, time, queue, others, failures, IInv, Types, Local
  <2> QED
    BY <2>1, <2>2, <2>3, <2>4, <2>5, <2>6, <2>7, <2>8, <2>9 DEF Types
<1>2. Queue'
  BY <1>a, <1>d, Bounds
     DEF Evict, row, time, queue, others, failures, IInv, Types, Queue, Stamps, Kept
<1>3. Local'
  BY <1>a, <1>d, Bounds
     DEF Evict, row, time, queue, others, failures, IInv, Types, Local, TimeGoesOn
<1>4. Enrolled'
  BY <1>a, <1>d, Bounds DEF Evict, row, time, queue, others, failures, IInv, Types, Enrolled
<1>5. Exclusive'
  BY <1>a, <1>d, Bounds DEF Evict, row, time, queue, others, failures, IInv, Types, Exclusive
<1>6. Waits'
  BY <1>a, <1>d, Bounds
     DEF Evict, row, time, queue, others, failures, IInv, Types, Exclusive, Waits, Local,
         Timed, Passed, TimeGoesOn
<1> QED
  BY <1>1, <1>2, <1>3, <1>4, <1>5, <1>6 DEF IInv

LEMMA ElapseKeeps ==
    ASSUME IInv, Elapse
    PROVE  IInv'
<1>d. TimeGoesOn
  BY Bounds DEF Elapse, row, time, queue, others, failures, IInv, Types, TimeGoesOn
<1>a. call' = call
  BY DEF Elapse, row, time, queue, others, failures
<1>b. \A v \in Workers : /\ call[v].k \in Nat /\ call[v].stamp \in Nat
                        /\ call[v].k <= last /\ call[v].stamp <= last
  BY CallType
<1>1. Types'
  <2>1. /\ status' \in {"none", "ACTIVE", "CANCELLED", "COMPLETED"} /\ node' \in Nodes \cup {NoNode}
       /\ runAt' \in 0..last'
    BY <1>a, <1>d, Bounds DEF Elapse, row, time, queue, others, failures, IInv, Types, Local
  <2>2. flowOn' \in BOOLEAN /\ expired' \in BOOLEAN
    BY <1>d DEF Elapse, row, time, queue, others, failures, IInv, Types
  <2>3. /\ last' \in 0..MaxStamps /\ due' \subseteq 1..last' /\ nodeOf' \in [Stamps -> Nodes \cup {NoNode}]
       /\ ticker' \in 0..last'
    BY <1>a, <1>d, Bounds
       DEF Elapse, row, time, queue, others, failures, IInv, Types, TimeGoesOn
  <2>4. job' \in [Stamps -> Known \cup {"none"}] /\ \A k \in Stamps : job'[k] # "none" => k <= last'
    BY <1>a, <1>d, Bounds
       DEF Elapse, row, time, queue, others, failures, IInv, Types, Queue, Local, Enrolled,
           Known, Kept, Stamps
  <2>5. tries' \in [Stamps -> 0..MaxTries] /\ stalled' \subseteq Stamps
    BY <1>a, <1>d, Bounds
       DEF Elapse, row, time, queue, others, failures, IInv, Types, Queue, Kept, Stamps
  <2>6. lock' \in Workers \cup {Free, Ghost}
    BY <1>a, <1>d, Bounds DEF Elapse, row, time, queue, others, failures, IInv, Types
  <2>7. call' \in [Workers -> Call] /\ \A v \in Workers : call'[v].k <= last' /\ call'[v].stamp <= last'
    BY <1>a, CallsType, <1>b, <1>d DEF TimeGoesOn
  <2>8. enroller' \in {"start", "enqueue", "done"} /\ canceller' \in {"idle", "write", "done"}
    BY <1>a, <1>d, Bounds DEF Elapse, row, time, queue, others, failures, IInv, Types
  <2>9. sent' \in [Nodes -> Nat] /\ faults' \in 0..MaxFaults
    BY <1>a, <1>d, Bounds DEF Elapse, row, time, queue, others, failures, IInv, Types, Local
  <2> QED
    BY <2>1, <2>2, <2>3, <2>4, <2>5, <2>6, <2>7, <2>8, <2>9 DEF Types
<1>2. Queue'
  BY <1>a, <1>d, Bounds
     DEF Elapse, row, time, queue, others, failures, IInv, Types, Queue, Stamps, Kept
<1>3. Local'
  BY <1>a, <1>d, Bounds
     DEF Elapse, row, time, queue, others, failures, IInv, Types, Local, TimeGoesOn
<1>4. Enrolled'
  BY <1>a, <1>d, Bounds DEF Elapse, row, time, queue, others, failures, IInv, Types, Enrolled
<1>5. Exclusive'
  BY <1>a, <1>d, Bounds DEF Elapse, row, time, queue, others, failures, IInv, Types, Exclusive
<1>6. Waits'
  BY <1>a, <1>d, Bounds
     DEF Elapse, row, time, queue, others, failures, IInv, Types, Exclusive, Waits, Local,
         Timed, Passed, TimeGoesOn
<1> QED
  BY <1>1, <1>2, <1>3, <1>4, <1>5, <1>6 DEF IInv

LEMMA TickReadKeeps ==
    ASSUME IInv, TickRead
    PROVE  IInv'
<1>d. TimeGoesOn
  BY Bounds DEF TickRead, row, time, queue, others, failures, IInv, Types, TimeGoesOn
<1>a. call' = call
  BY DEF TickRead, row, time, queue, others, failures
<1>b. \A v \in Workers : /\ call[v].k \in Nat /\ call[v].stamp \in Nat
                        /\ call[v].k <= last /\ call[v].stamp <= last
  BY CallType
<1>1. Types'
  <2>1. /\ status' \in {"none", "ACTIVE", "CANCELLED", "COMPLETED"} /\ node' \in Nodes \cup {NoNode}
       /\ runAt' \in 0..last'
    BY <1>a, <1>d, Bounds DEF TickRead, row, time, queue, others, failures, IInv, Types, Local
  <2>2. flowOn' \in BOOLEAN /\ expired' \in BOOLEAN
    BY <1>d DEF TickRead, row, time, queue, others, failures, IInv, Types
  <2>3. /\ last' \in 0..MaxStamps /\ due' \subseteq 1..last' /\ nodeOf' \in [Stamps -> Nodes \cup {NoNode}]
       /\ ticker' \in 0..last'
    BY <1>a, <1>d, Bounds
       DEF TickRead, row, time, queue, others, failures, IInv, Types, TimeGoesOn
  <2>4. job' \in [Stamps -> Known \cup {"none"}] /\ \A k \in Stamps : job'[k] # "none" => k <= last'
    BY <1>a, <1>d, Bounds
       DEF TickRead, row, time, queue, others, failures, IInv, Types, Queue, Local, Enrolled,
           Known, Kept, Stamps
  <2>5. tries' \in [Stamps -> 0..MaxTries] /\ stalled' \subseteq Stamps
    BY <1>a, <1>d, Bounds
       DEF TickRead, row, time, queue, others, failures, IInv, Types, Queue, Kept, Stamps
  <2>6. lock' \in Workers \cup {Free, Ghost}
    BY <1>a, <1>d, Bounds DEF TickRead, row, time, queue, others, failures, IInv, Types
  <2>7. call' \in [Workers -> Call] /\ \A v \in Workers : call'[v].k <= last' /\ call'[v].stamp <= last'
    BY <1>a, CallsType, <1>b, <1>d DEF TimeGoesOn
  <2>8. enroller' \in {"start", "enqueue", "done"} /\ canceller' \in {"idle", "write", "done"}
    BY <1>a, <1>d, Bounds DEF TickRead, row, time, queue, others, failures, IInv, Types
  <2>9. sent' \in [Nodes -> Nat] /\ faults' \in 0..MaxFaults
    BY <1>a, <1>d, Bounds DEF TickRead, row, time, queue, others, failures, IInv, Types, Local
  <2> QED
    BY <2>1, <2>2, <2>3, <2>4, <2>5, <2>6, <2>7, <2>8, <2>9 DEF Types
<1>2. Queue'
  BY <1>a, <1>d, Bounds
     DEF TickRead, row, time, queue, others, failures, IInv, Types, Queue, Stamps, Kept
<1>3. Local'
  BY <1>a, <1>d, Bounds
     DEF TickRead, row, time, queue, others, failures, IInv, Types, Local, TimeGoesOn
<1>4. Enrolled'
  BY <1>a, <1>d, Bounds DEF TickRead, row, time, queue, others, failures, IInv, Types, Enrolled
<1>5. Exclusive'
  BY <1>a, <1>d, Bounds DEF TickRead, row, time, queue, others, failures, IInv, Types, Exclusive
<1>6. Waits'
  BY <1>a, <1>d, Bounds
     DEF TickRead, row, time, queue, others, failures, IInv, Types, Exclusive, Waits, Local,
         Timed, Passed, TimeGoesOn
<1> QED
  BY <1>1, <1>2, <1>3, <1>4, <1>5, <1>6 DEF IInv

LEMMA TickEnqueueKeeps ==
    ASSUME IInv, TickEnqueue
    PROVE  IInv'
<1>d. TimeGoesOn
  BY Bounds DEF TickEnqueue, row, time, queue, others, failures, Add, IInv, Types, TimeGoesOn
<1>a. call' = call
  BY DEF TickEnqueue, row, time, queue, others, failures, Add
<1>b. \A v \in Workers : /\ call[v].k \in Nat /\ call[v].stamp \in Nat
                        /\ call[v].k <= last /\ call[v].stamp <= last
  BY CallType
<1>1. Types'
  <2>1. /\ status' \in {"none", "ACTIVE", "CANCELLED", "COMPLETED"} /\ node' \in Nodes \cup {NoNode}
       /\ runAt' \in 0..last'
    BY <1>a, <1>d, Bounds
       DEF TickEnqueue, row, time, queue, others, failures, Add, IInv, Types, Local
  <2>2. flowOn' \in BOOLEAN /\ expired' \in BOOLEAN
    BY <1>d DEF TickEnqueue, row, time, queue, others, failures, Add, IInv, Types
  <2>3. /\ last' \in 0..MaxStamps /\ due' \subseteq 1..last' /\ nodeOf' \in [Stamps -> Nodes \cup {NoNode}]
       /\ ticker' \in 0..last'
    BY <1>a, <1>d, Bounds
       DEF TickEnqueue, row, time, queue, others, failures, Add, IInv, Types, TimeGoesOn
  <2>4. job' \in [Stamps -> Known \cup {"none"}] /\ \A k \in Stamps : job'[k] # "none" => k <= last'
    BY <1>a, <1>d, Bounds
       DEF TickEnqueue, row, time, queue, others, failures, Add, IInv, Types, Queue, Local,
           Enrolled, Known, Kept, Stamps
  <2>5. tries' \in [Stamps -> 0..MaxTries] /\ stalled' \subseteq Stamps
    BY <1>a, <1>d, Bounds
       DEF TickEnqueue, row, time, queue, others, failures, Add, IInv, Types, Queue, Kept,
           Stamps
  <2>6. lock' \in Workers \cup {Free, Ghost}
    BY <1>a, <1>d, Bounds DEF TickEnqueue, row, time, queue, others, failures, Add, IInv, Types
  <2>7. call' \in [Workers -> Call] /\ \A v \in Workers : call'[v].k <= last' /\ call'[v].stamp <= last'
    BY <1>a, CallsType, <1>b, <1>d DEF TimeGoesOn
  <2>8. enroller' \in {"start", "enqueue", "done"} /\ canceller' \in {"idle", "write", "done"}
    BY <1>a, <1>d, Bounds DEF TickEnqueue, row, time, queue, others, failures, Add, IInv, Types
  <2>9. sent' \in [Nodes -> Nat] /\ faults' \in 0..MaxFaults
    BY <1>a, <1>d, Bounds
       DEF TickEnqueue, row, time, queue, others, failures, Add, IInv, Types, Local
  <2> QED
    BY <2>1, <2>2, <2>3, <2>4, <2>5, <2>6, <2>7, <2>8, <2>9 DEF Types
<1>2. Queue'
  BY <1>a, <1>d, Bounds
     DEF TickEnqueue, row, time, queue, others, failures, Add, IInv, Types, Queue, Stamps,
         Kept
<1>3. Local'
  BY <1>a, <1>d, Bounds
     DEF TickEnqueue, row, time, queue, others, failures, Add, IInv, Types, Local, TimeGoesOn
<1>4. Enrolled'
  BY <1>a, <1>d, Bounds
     DEF TickEnqueue, row, time, queue, others, failures, Add, IInv, Types, Enrolled
<1>5. Exclusive'
  BY <1>a, <1>d, Bounds
     DEF TickEnqueue, row, time, queue, others, failures, Add, IInv, Types, Exclusive
<1>6. Waits'
  BY <1>a, <1>d, Bounds
     DEF TickEnqueue, row, time, queue, others, failures, Add, IInv, Types, Exclusive, Waits,
         Local, Timed, Passed, TimeGoesOn
<1> QED
  BY <1>1, <1>2, <1>3, <1>4, <1>5, <1>6 DEF IInv

LEMMA CancelReadKeeps ==
    ASSUME IInv, CancelRead
    PROVE  IInv'
<1>d. TimeGoesOn
  BY Bounds DEF CancelRead, row, time, queue, others, failures, IInv, Types, TimeGoesOn
<1>a. call' = call
  BY DEF CancelRead, row, time, queue, others, failures
<1>b. \A v \in Workers : /\ call[v].k \in Nat /\ call[v].stamp \in Nat
                        /\ call[v].k <= last /\ call[v].stamp <= last
  BY CallType
<1>1. Types'
  <2>1. /\ status' \in {"none", "ACTIVE", "CANCELLED", "COMPLETED"} /\ node' \in Nodes \cup {NoNode}
       /\ runAt' \in 0..last'
    BY <1>a, <1>d, Bounds DEF CancelRead, row, time, queue, others, failures, IInv, Types, Local
  <2>2. flowOn' \in BOOLEAN /\ expired' \in BOOLEAN
    BY <1>d DEF CancelRead, row, time, queue, others, failures, IInv, Types
  <2>3. /\ last' \in 0..MaxStamps /\ due' \subseteq 1..last' /\ nodeOf' \in [Stamps -> Nodes \cup {NoNode}]
       /\ ticker' \in 0..last'
    BY <1>a, <1>d, Bounds
       DEF CancelRead, row, time, queue, others, failures, IInv, Types, TimeGoesOn
  <2>4. job' \in [Stamps -> Known \cup {"none"}] /\ \A k \in Stamps : job'[k] # "none" => k <= last'
    BY <1>a, <1>d, Bounds
       DEF CancelRead, row, time, queue, others, failures, IInv, Types, Queue, Local,
           Enrolled, Known, Kept, Stamps
  <2>5. tries' \in [Stamps -> 0..MaxTries] /\ stalled' \subseteq Stamps
    BY <1>a, <1>d, Bounds
       DEF CancelRead, row, time, queue, others, failures, IInv, Types, Queue, Kept, Stamps
  <2>6. lock' \in Workers \cup {Free, Ghost}
    BY <1>a, <1>d, Bounds DEF CancelRead, row, time, queue, others, failures, IInv, Types
  <2>7. call' \in [Workers -> Call] /\ \A v \in Workers : call'[v].k <= last' /\ call'[v].stamp <= last'
    BY <1>a, CallsType, <1>b, <1>d DEF TimeGoesOn
  <2>8. enroller' \in {"start", "enqueue", "done"} /\ canceller' \in {"idle", "write", "done"}
    BY <1>a, <1>d, Bounds DEF CancelRead, row, time, queue, others, failures, IInv, Types
  <2>9. sent' \in [Nodes -> Nat] /\ faults' \in 0..MaxFaults
    BY <1>a, <1>d, Bounds DEF CancelRead, row, time, queue, others, failures, IInv, Types, Local
  <2> QED
    BY <2>1, <2>2, <2>3, <2>4, <2>5, <2>6, <2>7, <2>8, <2>9 DEF Types
<1>2. Queue'
  BY <1>a, <1>d, Bounds
     DEF CancelRead, row, time, queue, others, failures, IInv, Types, Queue, Stamps, Kept
<1>3. Local'
  BY <1>a, <1>d, Bounds
     DEF CancelRead, row, time, queue, others, failures, IInv, Types, Local, TimeGoesOn
<1>4. Enrolled'
  BY <1>a, <1>d, Bounds
     DEF CancelRead, row, time, queue, others, failures, IInv, Types, Enrolled
<1>5. Exclusive'
  BY <1>a, <1>d, Bounds
     DEF CancelRead, row, time, queue, others, failures, IInv, Types, Exclusive
<1>6. Waits'
  BY <1>a, <1>d, Bounds
     DEF CancelRead, row, time, queue, others, failures, IInv, Types, Exclusive, Waits,
         Local, Timed, Passed, TimeGoesOn
<1> QED
  BY <1>1, <1>2, <1>3, <1>4, <1>5, <1>6 DEF IInv

LEMMA CancelWriteKeeps ==
    ASSUME IInv, CancelWrite
    PROVE  IInv'
<1>d. TimeGoesOn
  BY Bounds DEF CancelWrite, row, time, queue, others, failures, IInv, Types, TimeGoesOn
<1>a. call' = call
  BY DEF CancelWrite, row, time, queue, others, failures
<1>b. \A v \in Workers : /\ call[v].k \in Nat /\ call[v].stamp \in Nat
                        /\ call[v].k <= last /\ call[v].stamp <= last
  BY CallType
<1>1. Types'
  <2>1. /\ status' \in {"none", "ACTIVE", "CANCELLED", "COMPLETED"} /\ node' \in Nodes \cup {NoNode}
       /\ runAt' \in 0..last'
    BY <1>a, <1>d, Bounds
       DEF CancelWrite, row, time, queue, others, failures, IInv, Types, Local
  <2>2. flowOn' \in BOOLEAN /\ expired' \in BOOLEAN
    BY <1>d DEF CancelWrite, row, time, queue, others, failures, IInv, Types
  <2>3. /\ last' \in 0..MaxStamps /\ due' \subseteq 1..last' /\ nodeOf' \in [Stamps -> Nodes \cup {NoNode}]
       /\ ticker' \in 0..last'
    BY <1>a, <1>d, Bounds
       DEF CancelWrite, row, time, queue, others, failures, IInv, Types, TimeGoesOn
  <2>4. job' \in [Stamps -> Known \cup {"none"}] /\ \A k \in Stamps : job'[k] # "none" => k <= last'
    BY <1>a, <1>d, Bounds
       DEF CancelWrite, row, time, queue, others, failures, IInv, Types, Queue, Local,
           Enrolled, Known, Kept, Stamps
  <2>5. tries' \in [Stamps -> 0..MaxTries] /\ stalled' \subseteq Stamps
    BY <1>a, <1>d, Bounds
       DEF CancelWrite, row, time, queue, others, failures, IInv, Types, Queue, Kept, Stamps
  <2>6. lock' \in Workers \cup {Free, Ghost}
    BY <1>a, <1>d, Bounds DEF CancelWrite, row, time, queue, others, failures, IInv, Types
  <2>7. call' \in [Workers -> Call] /\ \A v \in Workers : call'[v].k <= last' /\ call'[v].stamp <= last'
    BY <1>a, CallsType, <1>b, <1>d DEF TimeGoesOn
  <2>8. enroller' \in {"start", "enqueue", "done"} /\ canceller' \in {"idle", "write", "done"}
    BY <1>a, <1>d, Bounds DEF CancelWrite, row, time, queue, others, failures, IInv, Types
  <2>9. sent' \in [Nodes -> Nat] /\ faults' \in 0..MaxFaults
    BY <1>a, <1>d, Bounds
       DEF CancelWrite, row, time, queue, others, failures, IInv, Types, Local
  <2> QED
    BY <2>1, <2>2, <2>3, <2>4, <2>5, <2>6, <2>7, <2>8, <2>9 DEF Types
<1>2. Queue'
  BY <1>a, <1>d, Bounds
     DEF CancelWrite, row, time, queue, others, failures, IInv, Types, Queue, Stamps, Kept
<1>3. Local'
  BY <1>a, <1>d, Bounds
     DEF CancelWrite, row, time, queue, others, failures, IInv, Types, Local, TimeGoesOn
<1>4. Enrolled'
  BY <1>a, <1>d, Bounds
     DEF CancelWrite, row, time, queue, others, failures, IInv, Types, Enrolled
<1>5. Exclusive'
  BY <1>a, <1>d, Bounds
     DEF CancelWrite, row, time, queue, others, failures, IInv, Types, Exclusive
<1>6. Waits'
  BY <1>a, <1>d, Bounds
     DEF CancelWrite, row, time, queue, others, failures, IInv, Types, Exclusive, Waits,
         Local, Timed, Passed, TimeGoesOn
<1> QED
  BY <1>1, <1>2, <1>3, <1>4, <1>5, <1>6 DEF IInv

LEMMA SwitchFlowKeeps ==
    ASSUME IInv, SwitchFlow
    PROVE  IInv'
<1>d. TimeGoesOn
  BY Bounds DEF SwitchFlow, row, time, queue, others, failures, IInv, Types, TimeGoesOn
<1>a. call' = call
  BY DEF SwitchFlow, row, time, queue, others, failures
<1>b. \A v \in Workers : /\ call[v].k \in Nat /\ call[v].stamp \in Nat
                        /\ call[v].k <= last /\ call[v].stamp <= last
  BY CallType
<1>1. Types'
  <2>1. /\ status' \in {"none", "ACTIVE", "CANCELLED", "COMPLETED"} /\ node' \in Nodes \cup {NoNode}
       /\ runAt' \in 0..last'
    BY <1>a, <1>d, Bounds DEF SwitchFlow, row, time, queue, others, failures, IInv, Types, Local
  <2>2. flowOn' \in BOOLEAN /\ expired' \in BOOLEAN
    BY <1>d DEF SwitchFlow, row, time, queue, others, failures, IInv, Types
  <2>3. /\ last' \in 0..MaxStamps /\ due' \subseteq 1..last' /\ nodeOf' \in [Stamps -> Nodes \cup {NoNode}]
       /\ ticker' \in 0..last'
    BY <1>a, <1>d, Bounds
       DEF SwitchFlow, row, time, queue, others, failures, IInv, Types, TimeGoesOn
  <2>4. job' \in [Stamps -> Known \cup {"none"}] /\ \A k \in Stamps : job'[k] # "none" => k <= last'
    BY <1>a, <1>d, Bounds
       DEF SwitchFlow, row, time, queue, others, failures, IInv, Types, Queue, Local,
           Enrolled, Known, Kept, Stamps
  <2>5. tries' \in [Stamps -> 0..MaxTries] /\ stalled' \subseteq Stamps
    BY <1>a, <1>d, Bounds
       DEF SwitchFlow, row, time, queue, others, failures, IInv, Types, Queue, Kept, Stamps
  <2>6. lock' \in Workers \cup {Free, Ghost}
    BY <1>a, <1>d, Bounds DEF SwitchFlow, row, time, queue, others, failures, IInv, Types
  <2>7. call' \in [Workers -> Call] /\ \A v \in Workers : call'[v].k <= last' /\ call'[v].stamp <= last'
    BY <1>a, CallsType, <1>b, <1>d DEF TimeGoesOn
  <2>8. enroller' \in {"start", "enqueue", "done"} /\ canceller' \in {"idle", "write", "done"}
    BY <1>a, <1>d, Bounds DEF SwitchFlow, row, time, queue, others, failures, IInv, Types
  <2>9. sent' \in [Nodes -> Nat] /\ faults' \in 0..MaxFaults
    BY <1>a, <1>d, Bounds DEF SwitchFlow, row, time, queue, others, failures, IInv, Types, Local
  <2> QED
    BY <2>1, <2>2, <2>3, <2>4, <2>5, <2>6, <2>7, <2>8, <2>9 DEF Types
<1>2. Queue'
  BY <1>a, <1>d, Bounds
     DEF SwitchFlow, row, time, queue, others, failures, IInv, Types, Queue, Stamps, Kept
<1>3. Local'
  BY <1>a, <1>d, Bounds
     DEF SwitchFlow, row, time, queue, others, failures, IInv, Types, Local, TimeGoesOn
<1>4. Enrolled'
  BY <1>a, <1>d, Bounds
     DEF SwitchFlow, row, time, queue, others, failures, IInv, Types, Enrolled
<1>5. Exclusive'
  BY <1>a, <1>d, Bounds
     DEF SwitchFlow, row, time, queue, others, failures, IInv, Types, Exclusive
<1>6. Waits'
  BY <1>a, <1>d, Bounds
     DEF SwitchFlow, row, time, queue, others, failures, IInv, Types, Exclusive, Waits,
         Local, Timed, Passed, TimeGoesOn
<1> QED
  BY <1>1, <1>2, <1>3, <1>4, <1>5, <1>6 DEF IInv

LEMMA TakeKeeps ==
    ASSUME IInv, NEW w \in Workers, Take(w)
    PROVE  IInv'
<1>p. PICK j \in Stamps :
        /\ At(w, "idle") /\ job[j] = "waiting" /\ j \in due
        /\ job' = [job EXCEPT ![j] = "active"]
        /\ call' = [call EXCEPT ![w] = [NoCall EXCEPT !.pc = "lock", !.k = j, !.mine = TRUE]]
        /\ UNCHANGED <<row, time, tries, stalled, lock, others, sent, failures>>
  BY DEF Take
<1>q. call'[w].k = j
  BY <1>p, CallsType, NoCallType DEF Call
<1>d. TimeGoesOn
  BY Bounds, <1>p DEF row, time, queue, others, failures, At, IInv, Types, TimeGoesOn
<1>b. \A v \in Workers : /\ call[v].k \in Nat /\ call[v].stamp \in Nat
                        /\ call[v].k <= last /\ call[v].stamp <= last
  BY CallType
<1>1. Types'
  <2>1. /\ status' \in {"none", "ACTIVE", "CANCELLED", "COMPLETED"} /\ node' \in Nodes \cup {NoNode}
       /\ runAt' \in 0..last'
    BY TakeMoves, <1>d, Bounds, CallType, <1>p, <1>q
       DEF row, time, queue, others, failures, At, IInv, Types, Local
  <2>2. flowOn' \in BOOLEAN /\ expired' \in BOOLEAN
    BY <1>p DEF row, time, queue, others, failures, At, IInv, Types
  <2>3. /\ last' \in 0..MaxStamps /\ due' \subseteq 1..last' /\ nodeOf' \in [Stamps -> Nodes \cup {NoNode}]
       /\ ticker' \in 0..last'
    BY TakeMoves, <1>d, Bounds, CallType, <1>p, <1>q
       DEF row, time, queue, others, failures, At, IInv, Types, TimeGoesOn
  <2>4. job' \in [Stamps -> Known \cup {"none"}] /\ \A k \in Stamps : job'[k] # "none" => k <= last'
    BY TakeMoves, <1>d, Bounds, CallType, <1>p, <1>q
       DEF row, time, queue, others, failures, At, IInv, Types, Queue, Local, Enrolled,
           Known, Kept, Stamps
  <2>5. tries' \in [Stamps -> 0..MaxTries] /\ stalled' \subseteq Stamps
    BY TakeMoves, <1>d, Bounds, CallType, <1>p, <1>q
       DEF row, time, queue, others, failures, At, IInv, Types, Queue, Kept, Stamps
  <2>6. lock' \in Workers \cup {Free, Ghost}
    BY TakeMoves, <1>d, Bounds, CallType, <1>p, <1>q
       DEF row, time, queue, others, failures, At, IInv, Types
  <2>7. call' \in [Workers -> Call] /\ \A v \in Workers : call'[v].k <= last' /\ call'[v].stamp <= last'
    BY TakeMoves, <1>b, <1>d, <1>p, <1>q DEF TimeGoesOn
  <2>8. enroller' \in {"start", "enqueue", "done"} /\ canceller' \in {"idle", "write", "done"}
    BY TakeMoves, <1>d, Bounds, CallType, <1>p, <1>q
       DEF row, time, queue, others, failures, At, IInv, Types
  <2>9. sent' \in [Nodes -> Nat] /\ faults' \in 0..MaxFaults
    BY TakeMoves, <1>d, Bounds, CallType, <1>p, <1>q
       DEF row, time, queue, others, failures, At, IInv, Types, Local
  <2> QED
    BY <2>1, <2>2, <2>3, <2>4, <2>5, <2>6, <2>7, <2>8, <2>9 DEF Types
<1>2. Queue'
  <2>1. /\ job' = [job EXCEPT ![j] = "active"] /\ job[j] = "waiting" /\ tries' = tries
        /\ job \in [Stamps -> Known \cup {"none"}]
    BY <1>p DEF IInv, Types
  <2>2. \A k \in Stamps : job'[k] \notin Kept => tries'[k] < MaxTries
    BY <2>1 DEF IInv, Queue, Kept
  <2>3. ASSUME NEW v \in Workers, v # w, call'[v].mine
        PROVE  /\ call'[v].pc # "idle" /\ call'[v].k = call[v].k /\ call[v].mine
               /\ call[v].k \in Stamps /\ call[v].k # j /\ job'[call[v].k] = "active"
    <3>1. call'[v] = call[v]
      BY <2>3, TakeMoves
    <3>2. call[v].pc # "idle" /\ call[v].k \in Stamps /\ job[call[v].k] = "active"
      BY <2>3, <3>1 DEF IInv, Queue
    <3> QED
      BY <2>1, <2>3, <3>1, <3>2
  <2>4. call'[w].pc # "idle" /\ call'[w].k = j /\ job'[j] = "active"
    BY <1>q, <2>1, TakeMoves
  <2>5. \A v \in Workers : call'[v].mine =>
            call'[v].pc # "idle" /\ call'[v].k \in Stamps /\ job'[call'[v].k] = "active"
    BY <2>3, <2>4
  <2>6. \A v, u \in Workers : call'[v].mine /\ call'[u].mine /\ call'[v].k = call'[u].k => v = u
    BY <2>3, <2>4 DEF IInv, Queue
  <2> QED
    BY <2>2, <2>5, <2>6 DEF Queue
<1>3. Local'
  BY TakeMoves, <1>d, Bounds, CallType, <1>p, <1>q
     DEF row, time, queue, others, failures, At, IInv, Types, Local, TimeGoesOn
<1>4. Enrolled'
  BY TakeMoves, <1>d, Bounds, CallType, <1>p, <1>q
     DEF row, time, queue, others, failures, At, IInv, Types, Enrolled
<1>5. Exclusive'
  BY TakeMoves, <1>d, Bounds, CallType, <1>p, <1>q
     DEF row, time, queue, others, failures, At, IInv, Types, Exclusive
<1>6. Waits'
  BY TakeMoves, <1>d, Bounds, CallType, <1>p, <1>q
     DEF row, time, queue, others, failures, At, IInv, Types, Exclusive, Waits, Local, Timed,
         Passed, TimeGoesOn
<1> QED
  BY <1>1, <1>2, <1>3, <1>4, <1>5, <1>6 DEF IInv

LEMMA AcquireLockKeeps ==
    ASSUME IInv, NEW w \in Workers, AcquireLock(w)
    PROVE  IInv'
<1>d. TimeGoesOn
  BY Bounds
     DEF AcquireLock, row, time, queue, others, failures, At, Goto, IInv, Types, TimeGoesOn
<1>b. \A v \in Workers : /\ call[v].k \in Nat /\ call[v].stamp \in Nat
                        /\ call[v].k <= last /\ call[v].stamp <= last
  BY CallType
<1>1. Types'
  <2>1. /\ status' \in {"none", "ACTIVE", "CANCELLED", "COMPLETED"} /\ node' \in Nodes \cup {NoNode}
       /\ runAt' \in 0..last'
    BY AcquireLockMoves, <1>d, Bounds, CallType
       DEF AcquireLock, row, time, queue, others, failures, At, Goto, IInv, Types, Local
  <2>2. flowOn' \in BOOLEAN /\ expired' \in BOOLEAN
    BY <1>d DEF AcquireLock, row, time, queue, others, failures, At, Goto, IInv, Types
  <2>3. /\ last' \in 0..MaxStamps /\ due' \subseteq 1..last' /\ nodeOf' \in [Stamps -> Nodes \cup {NoNode}]
       /\ ticker' \in 0..last'
    BY AcquireLockMoves, <1>d, Bounds, CallType
       DEF AcquireLock, row, time, queue, others, failures, At, Goto, IInv, Types, TimeGoesOn
  <2>4. job' \in [Stamps -> Known \cup {"none"}] /\ \A k \in Stamps : job'[k] # "none" => k <= last'
    BY AcquireLockMoves, <1>d, Bounds, CallType
       DEF AcquireLock, row, time, queue, others, failures, At, Goto, IInv, Types, Queue,
           Local, Enrolled, Known, Kept, Stamps
  <2>5. tries' \in [Stamps -> 0..MaxTries] /\ stalled' \subseteq Stamps
    BY AcquireLockMoves, <1>d, Bounds, CallType
       DEF AcquireLock, row, time, queue, others, failures, At, Goto, IInv, Types, Queue,
           Kept, Stamps
  <2>6. lock' \in Workers \cup {Free, Ghost}
    BY AcquireLockMoves, <1>d, Bounds, CallType
       DEF AcquireLock, row, time, queue, others, failures, At, Goto, IInv, Types
  <2>7. call' \in [Workers -> Call] /\ \A v \in Workers : call'[v].k <= last' /\ call'[v].stamp <= last'
    BY AcquireLockMoves, <1>b, <1>d DEF TimeGoesOn
  <2>8. enroller' \in {"start", "enqueue", "done"} /\ canceller' \in {"idle", "write", "done"}
    BY AcquireLockMoves, <1>d, Bounds, CallType
       DEF AcquireLock, row, time, queue, others, failures, At, Goto, IInv, Types
  <2>9. sent' \in [Nodes -> Nat] /\ faults' \in 0..MaxFaults
    BY AcquireLockMoves, <1>d, Bounds, CallType
       DEF AcquireLock, row, time, queue, others, failures, At, Goto, IInv, Types, Local
  <2> QED
    BY <2>1, <2>2, <2>3, <2>4, <2>5, <2>6, <2>7, <2>8, <2>9 DEF Types
<1>2. Queue'
  BY AcquireLockMoves, <1>d, Bounds, CallType
     DEF AcquireLock, row, time, queue, others, failures, At, Goto, IInv, Types, Queue,
         Stamps, Kept
<1>3. Local'
  BY AcquireLockMoves, <1>d, Bounds, CallType
     DEF AcquireLock, row, time, queue, others, failures, At, Goto, IInv, Types, Local,
         TimeGoesOn
<1>4. Enrolled'
  BY AcquireLockMoves, <1>d, Bounds, CallType
     DEF AcquireLock, row, time, queue, others, failures, At, Goto, IInv, Types, Enrolled
<1>5. Exclusive'
  BY AcquireLockMoves, <1>d, Bounds, CallType
     DEF AcquireLock, row, time, queue, others, failures, At, Goto, IInv, Types, Exclusive
<1>6. Waits'
  BY AcquireLockMoves, <1>d, Bounds, CallType
     DEF AcquireLock, row, time, queue, others, failures, At, Goto, IInv, Types, Exclusive,
         Waits, Local, Timed, Passed, TimeGoesOn
<1> QED
  BY <1>1, <1>2, <1>3, <1>4, <1>5, <1>6 DEF IInv

LEMMA LockHeldKeeps ==
    ASSUME IInv, NEW w \in Workers, LockHeld(w)
    PROVE  IInv'
<1>u. /\ status' = status /\ node' = node /\ runAt' = runAt
      /\ last' = last /\ due' = due /\ nodeOf' = nodeOf
      /\ enroller' = enroller /\ ticker' = ticker /\ canceller' = canceller /\ flowOn' = flowOn
      /\ sent' = sent
      /\ faults' = faults /\ expired' = expired
      /\ tries' = tries /\ stalled' = stalled
      /\ lock' = lock
  BY DEF LockHeld, row, time, queue, others, failures, At, Return
<1>j. /\ job' \in [Stamps -> Known \cup {"none"}]
      /\ \A k \in Stamps : \/ job'[k] = job[k]
                           \/ call[w].mine /\ k = call[w].k /\ job[k] = "active" /\ job'[k] = "done"
  BY Returned DEF LockHeld
<1>d. TimeGoesOn
  BY Bounds, <1>u, <1>j DEF IInv, Types, TimeGoesOn
<1>b. \A v \in Workers : /\ call[v].k \in Nat /\ call[v].stamp \in Nat
                        /\ call[v].k <= last /\ call[v].stamp <= last
  BY CallType
<1>1. Types'
  <2>1. /\ status' \in {"none", "ACTIVE", "CANCELLED", "COMPLETED"} /\ node' \in Nodes \cup {NoNode}
       /\ runAt' \in 0..last'
    BY LockHeldMoves, <1>d, Bounds, CallType, <1>u, <1>j DEF IInv, Types, Local
  <2>2. flowOn' \in BOOLEAN /\ expired' \in BOOLEAN
    BY <1>u, <1>j DEF IInv, Types
  <2>3. /\ last' \in 0..MaxStamps /\ due' \subseteq 1..last' /\ nodeOf' \in [Stamps -> Nodes \cup {NoNode}]
       /\ ticker' \in 0..last'
    BY LockHeldMoves, <1>d, Bounds, CallType, <1>u, <1>j DEF IInv, Types, TimeGoesOn
  <2>4. job' \in [Stamps -> Known \cup {"none"}] /\ \A k \in Stamps : job'[k] # "none" => k <= last'
    BY LockHeldMoves, <1>d, Bounds, CallType, <1>u, <1>j
       DEF IInv, Types, Queue, Local, Enrolled, Known, Kept, Stamps
  <2>5. tries' \in [Stamps -> 0..MaxTries] /\ stalled' \subseteq Stamps
    BY LockHeldMoves, <1>d, Bounds, CallType, <1>u, <1>j DEF IInv, Types, Queue, Kept, Stamps
  <2>6. lock' \in Workers \cup {Free, Ghost}
    BY LockHeldMoves, <1>d, Bounds, CallType, <1>u, <1>j DEF IInv, Types
  <2>7. call' \in [Workers -> Call] /\ \A v \in Workers : call'[v].k <= last' /\ call'[v].stamp <= last'
    BY LockHeldMoves, <1>b, <1>d DEF TimeGoesOn
  <2>8. enroller' \in {"start", "enqueue", "done"} /\ canceller' \in {"idle", "write", "done"}
    BY LockHeldMoves, <1>d, Bounds, CallType, <1>u, <1>j DEF IInv, Types
  <2>9. sent' \in [Nodes -> Nat] /\ faults' \in 0..MaxFaults
    BY LockHeldMoves, <1>d, Bounds, CallType, <1>u, <1>j DEF IInv, Types, Local
  <2> QED
    BY <2>1, <2>2, <2>3, <2>4, <2>5, <2>6, <2>7, <2>8, <2>9 DEF Types
<1>2. Queue'
  BY LockHeldMoves, CallsQueue, <1>u, <1>j DEF Kept
<1>3. Local'
  BY LockHeldMoves, <1>d, Bounds, CallType, <1>u, <1>j DEF IInv, Types, Local, TimeGoesOn
<1>4. Enrolled'
  BY LockHeldMoves, <1>d, Bounds, CallType, <1>u, <1>j DEF IInv, Types, Enrolled
<1>5. Exclusive'
  BY LockHeldMoves, <1>d, Bounds, CallType, <1>u, <1>j DEF IInv, Types, Exclusive
<1>6. Waits'
  BY LockHeldMoves, <1>u DEF IInv, Waits, Timed, Passed
<1> QED
  BY <1>1, <1>2, <1>3, <1>4, <1>5, <1>6 DEF IInv

LEMMA ReadKeeps ==
    ASSUME IInv, NEW w \in Workers, Read(w)
    PROVE  IInv'
<1>u. /\ status' = status /\ node' = node /\ runAt' = runAt
      /\ last' = last /\ due' = due /\ nodeOf' = nodeOf
      /\ enroller' = enroller /\ ticker' = ticker /\ canceller' = canceller /\ flowOn' = flowOn
      /\ sent' = sent
      /\ faults' = faults /\ expired' = expired
      /\ tries' = tries /\ stalled' = stalled
      /\ job' = job
      /\ lock' = lock
      /\ call[w].pc = "read"
  BY DEF Read, row, time, queue, others, failures, At
<1>d. TimeGoesOn
  BY Bounds, <1>u DEF IInv, Types, TimeGoesOn
<1>b. \A v \in Workers : /\ call[v].k \in Nat /\ call[v].stamp \in Nat
                        /\ call[v].k <= last /\ call[v].stamp <= last
  BY CallType
<1>1. Types'
  <2>1. /\ status' \in {"none", "ACTIVE", "CANCELLED", "COMPLETED"} /\ node' \in Nodes \cup {NoNode}
       /\ runAt' \in 0..last'
    BY ReadMoves, <1>d, Bounds, CallType, <1>u DEF IInv, Types, Local
  <2>2. flowOn' \in BOOLEAN /\ expired' \in BOOLEAN
    BY <1>u DEF IInv, Types
  <2>3. /\ last' \in 0..MaxStamps /\ due' \subseteq 1..last' /\ nodeOf' \in [Stamps -> Nodes \cup {NoNode}]
       /\ ticker' \in 0..last'
    BY ReadMoves, <1>d, Bounds, CallType, <1>u DEF IInv, Types, TimeGoesOn
  <2>4. job' \in [Stamps -> Known \cup {"none"}] /\ \A k \in Stamps : job'[k] # "none" => k <= last'
    BY ReadMoves, <1>d, Bounds, CallType, <1>u
       DEF IInv, Types, Queue, Local, Enrolled, Known, Kept, Stamps
  <2>5. tries' \in [Stamps -> 0..MaxTries] /\ stalled' \subseteq Stamps
    BY ReadMoves, <1>d, Bounds, CallType, <1>u DEF IInv, Types, Queue, Kept, Stamps
  <2>6. lock' \in Workers \cup {Free, Ghost}
    BY ReadMoves, <1>d, Bounds, CallType, <1>u DEF IInv, Types
  <2>7. call' \in [Workers -> Call] /\ \A v \in Workers : call'[v].k <= last' /\ call'[v].stamp <= last'
    BY ReadMoves, <1>b, <1>d DEF TimeGoesOn
  <2>8. enroller' \in {"start", "enqueue", "done"} /\ canceller' \in {"idle", "write", "done"}
    BY ReadMoves, <1>d, Bounds, CallType, <1>u DEF IInv, Types
  <2>9. sent' \in [Nodes -> Nat] /\ faults' \in 0..MaxFaults
    BY ReadMoves, <1>d, Bounds, CallType, <1>u DEF IInv, Types, Local
  <2> QED
    BY <2>1, <2>2, <2>3, <2>4, <2>5, <2>6, <2>7, <2>8, <2>9 DEF Types
<1>2. Queue'
  BY ReadMoves, CallsQueue, <1>u
<1>3. Local'
  BY ReadMoves, <1>d, Bounds, CallType, <1>u DEF IInv, Types, Local, TimeGoesOn
<1>4. Enrolled'
  BY ReadMoves, <1>d, Bounds, CallType, <1>u DEF IInv, Types, Enrolled
<1>5. Exclusive'
  BY ReadMoves, <1>d, Bounds, CallType, <1>u DEF IInv, Types, Exclusive
<1>6. Waits'
  BY ReadMoves, <1>u DEF IInv, Types, Waits, Timed, Passed, IsDue
<1> QED
  BY <1>1, <1>2, <1>3, <1>4, <1>5, <1>6 DEF IInv

LEMMA DisableKeeps ==
    ASSUME IInv, NEW w \in Workers, Disable(w)
    PROVE  IInv'
<1>d. TimeGoesOn
  BY Bounds DEF Disable, row, time, queue, others, failures, At, Goto, IInv, Types, TimeGoesOn
<1>b. \A v \in Workers : /\ call[v].k \in Nat /\ call[v].stamp \in Nat
                        /\ call[v].k <= last /\ call[v].stamp <= last
  BY CallType
<1>1. Types'
  <2>1. /\ status' \in {"none", "ACTIVE", "CANCELLED", "COMPLETED"} /\ node' \in Nodes \cup {NoNode}
       /\ runAt' \in 0..last'
    BY DisableMoves, <1>d, Bounds, CallType
       DEF Disable, row, time, queue, others, failures, At, Goto, IInv, Types, Local
  <2>2. flowOn' \in BOOLEAN /\ expired' \in BOOLEAN
    BY <1>d DEF Disable, row, time, queue, others, failures, At, Goto, IInv, Types
  <2>3. /\ last' \in 0..MaxStamps /\ due' \subseteq 1..last' /\ nodeOf' \in [Stamps -> Nodes \cup {NoNode}]
       /\ ticker' \in 0..last'
    BY DisableMoves, <1>d, Bounds, CallType
       DEF Disable, row, time, queue, others, failures, At, Goto, IInv, Types, TimeGoesOn
  <2>4. job' \in [Stamps -> Known \cup {"none"}] /\ \A k \in Stamps : job'[k] # "none" => k <= last'
    BY DisableMoves, <1>d, Bounds, CallType
       DEF Disable, row, time, queue, others, failures, At, Goto, IInv, Types, Queue, Local,
           Enrolled, Known, Kept, Stamps
  <2>5. tries' \in [Stamps -> 0..MaxTries] /\ stalled' \subseteq Stamps
    BY DisableMoves, <1>d, Bounds, CallType
       DEF Disable, row, time, queue, others, failures, At, Goto, IInv, Types, Queue, Kept,
           Stamps
  <2>6. lock' \in Workers \cup {Free, Ghost}
    BY DisableMoves, <1>d, Bounds, CallType
       DEF Disable, row, time, queue, others, failures, At, Goto, IInv, Types
  <2>7. call' \in [Workers -> Call] /\ \A v \in Workers : call'[v].k <= last' /\ call'[v].stamp <= last'
    BY DisableMoves, <1>b, <1>d DEF TimeGoesOn
  <2>8. enroller' \in {"start", "enqueue", "done"} /\ canceller' \in {"idle", "write", "done"}
    BY DisableMoves, <1>d, Bounds, CallType
       DEF Disable, row, time, queue, others, failures, At, Goto, IInv, Types
  <2>9. sent' \in [Nodes -> Nat] /\ faults' \in 0..MaxFaults
    BY DisableMoves, <1>d, Bounds, CallType
       DEF Disable, row, time, queue, others, failures, At, Goto, IInv, Types, Local
  <2> QED
    BY <2>1, <2>2, <2>3, <2>4, <2>5, <2>6, <2>7, <2>8, <2>9 DEF Types
<1>2. Queue'
  BY DisableMoves, <1>d, Bounds, CallType
     DEF Disable, row, time, queue, others, failures, At, Goto, IInv, Types, Queue, Stamps,
         Kept
<1>3. Local'
  BY DisableMoves, <1>d, Bounds, CallType
     DEF Disable, row, time, queue, others, failures, At, Goto, IInv, Types, Local,
         TimeGoesOn
<1>4. Enrolled'
  BY DisableMoves, <1>d, Bounds, CallType
     DEF Disable, row, time, queue, others, failures, At, Goto, IInv, Types, Enrolled
<1>5. Exclusive'
  BY DisableMoves, <1>d, Bounds, CallType
     DEF Disable, row, time, queue, others, failures, At, Goto, IInv, Types, Exclusive
<1>6. Waits'
  BY DisableMoves, <1>d, Bounds, CallType
     DEF Disable, row, time, queue, others, failures, At, Goto, IInv, Types, Exclusive,
         Waits, Local, Timed, Passed, TimeGoesOn
<1> QED
  BY <1>1, <1>2, <1>3, <1>4, <1>5, <1>6 DEF IInv

LEMMA PostponeKeeps ==
    ASSUME IInv, NEW w \in Workers, Postpone(w)
    PROVE  IInv'
<1>u. /\ status' = status
      /\ enroller' = enroller /\ ticker' = ticker /\ canceller' = canceller /\ flowOn' = flowOn
      /\ sent' = sent
      /\ faults' = faults /\ expired' = expired
      /\ tries' = tries /\ stalled' = stalled
      /\ job' = job
      /\ lock' = lock
      /\ runAt' = last + 1
      /\ node' = call[w].n
      /\ call[w].pc = "visit"
      /\ call[w].n \in Emails
  BY DEF Postpone, row, time, queue, others, failures, At
<1>n. call[w].n \in Nodes \cup {NoNode}
  BY CallType, Bounds, <1>u DEF IInv, Local
<1>e. Draw(call[w].n, FALSE)
  BY DEF Postpone
<1>d. /\ last' = last + 1 /\ last' \in 0..MaxStamps /\ last + 1 \in Stamps
      /\ due' \subseteq 1..last' /\ due' \subseteq due \cup {last + 1}
      /\ nodeOf' \in [Stamps -> Nodes \cup {NoNode}] /\ nodeOf'[last + 1] = call[w].n
      /\ TimeGoesOn
  BY <1>n, <1>e, Drawn
<1>b. \A v \in Workers : /\ call[v].k \in Nat /\ call[v].stamp \in Nat
                        /\ call[v].k <= last /\ call[v].stamp <= last
  BY CallType
<1>1. Types'
  <2>1. /\ status' \in {"none", "ACTIVE", "CANCELLED", "COMPLETED"} /\ node' \in Nodes \cup {NoNode}
       /\ runAt' \in 0..last'
    BY PostponeMoves, <1>d, Bounds, CallType, <1>u DEF IInv, Types, Local
  <2>2. flowOn' \in BOOLEAN /\ expired' \in BOOLEAN
    BY <1>u DEF IInv, Types
  <2>3. /\ last' \in 0..MaxStamps /\ due' \subseteq 1..last' /\ nodeOf' \in [Stamps -> Nodes \cup {NoNode}]
       /\ ticker' \in 0..last'
    BY PostponeMoves, <1>d, Bounds, CallType, <1>u DEF IInv, Types, TimeGoesOn
  <2>4. job' \in [Stamps -> Known \cup {"none"}] /\ \A k \in Stamps : job'[k] # "none" => k <= last'
    BY PostponeMoves, <1>d, Bounds, CallType, <1>u
       DEF IInv, Types, Queue, Local, Enrolled, Known, Kept, Stamps
  <2>5. tries' \in [Stamps -> 0..MaxTries] /\ stalled' \subseteq Stamps
    BY PostponeMoves, <1>d, Bounds, CallType, <1>u DEF IInv, Types, Queue, Kept, Stamps
  <2>6. lock' \in Workers \cup {Free, Ghost}
    BY PostponeMoves, <1>d, Bounds, CallType, <1>u DEF IInv, Types
  <2>7. call' \in [Workers -> Call] /\ \A v \in Workers : call'[v].k <= last' /\ call'[v].stamp <= last'
    BY PostponeMoves, <1>b, <1>d DEF TimeGoesOn
  <2>8. enroller' \in {"start", "enqueue", "done"} /\ canceller' \in {"idle", "write", "done"}
    BY PostponeMoves, <1>d, Bounds, CallType, <1>u DEF IInv, Types
  <2>9. sent' \in [Nodes -> Nat] /\ faults' \in 0..MaxFaults
    BY PostponeMoves, <1>d, Bounds, CallType, <1>u DEF IInv, Types, Local
  <2> QED
    BY <2>1, <2>2, <2>3, <2>4, <2>5, <2>6, <2>7, <2>8, <2>9 DEF Types
<1>2. Queue'
  BY PostponeMoves, CallsQueue, <1>u
<1>3. Local'
  BY PostponeMoves, <1>d, Bounds, CallType, <1>u DEF IInv, Types, Local, TimeGoesOn
<1>4. Enrolled'
  BY PostponeMoves, <1>d, Bounds, CallType, <1>u DEF IInv, Types, Enrolled
<1>5. Exclusive'
  BY PostponeMoves, <1>d, Bounds, CallType, <1>u DEF IInv, Types, Exclusive
<1>6. Waits'
  BY PostponeMoves, <1>d, Bounds, CallType, <1>u
     DEF IInv, Types, Exclusive, Waits, Local, Timed, Passed, TimeGoesOn
<1> QED
  BY <1>1, <1>2, <1>3, <1>4, <1>5, <1>6 DEF IInv

LEMMA ExecuteKeeps ==
    ASSUME IInv, NEW w \in Workers, Execute(w)
    PROVE  IInv'
<1>d. TimeGoesOn
  BY Bounds DEF Execute, row, time, queue, others, failures, At, Goto, IInv, Types, TimeGoesOn
<1>b. \A v \in Workers : /\ call[v].k \in Nat /\ call[v].stamp \in Nat
                        /\ call[v].k <= last /\ call[v].stamp <= last
  BY CallType
<1>1. Types'
  <2>1. /\ status' \in {"none", "ACTIVE", "CANCELLED", "COMPLETED"} /\ node' \in Nodes \cup {NoNode}
       /\ runAt' \in 0..last'
    BY ExecuteMoves, <1>d, Bounds, CallType
       DEF Execute, row, time, queue, others, failures, At, Goto, IInv, Types, Local
  <2>2. flowOn' \in BOOLEAN /\ expired' \in BOOLEAN
    BY <1>d DEF Execute, row, time, queue, others, failures, At, Goto, IInv, Types
  <2>3. /\ last' \in 0..MaxStamps /\ due' \subseteq 1..last' /\ nodeOf' \in [Stamps -> Nodes \cup {NoNode}]
       /\ ticker' \in 0..last'
    BY ExecuteMoves, <1>d, Bounds, CallType
       DEF Execute, row, time, queue, others, failures, At, Goto, IInv, Types, TimeGoesOn
  <2>4. job' \in [Stamps -> Known \cup {"none"}] /\ \A k \in Stamps : job'[k] # "none" => k <= last'
    BY ExecuteMoves, <1>d, Bounds, CallType
       DEF Execute, row, time, queue, others, failures, At, Goto, IInv, Types, Queue, Local,
           Enrolled, Known, Kept, Stamps
  <2>5. tries' \in [Stamps -> 0..MaxTries] /\ stalled' \subseteq Stamps
    BY ExecuteMoves, <1>d, Bounds, CallType
       DEF Execute, row, time, queue, others, failures, At, Goto, IInv, Types, Queue, Kept,
           Stamps
  <2>6. lock' \in Workers \cup {Free, Ghost}
    BY ExecuteMoves, <1>d, Bounds, CallType
       DEF Execute, row, time, queue, others, failures, At, Goto, IInv, Types
  <2>7. call' \in [Workers -> Call] /\ \A v \in Workers : call'[v].k <= last' /\ call'[v].stamp <= last'
    BY ExecuteMoves, <1>b, <1>d DEF TimeGoesOn
  <2>8. enroller' \in {"start", "enqueue", "done"} /\ canceller' \in {"idle", "write", "done"}
    BY ExecuteMoves, <1>d, Bounds, CallType
       DEF Execute, row, time, queue, others, failures, At, Goto, IInv, Types
  <2>9. sent' \in [Nodes -> Nat] /\ faults' \in 0..MaxFaults
    BY ExecuteMoves, <1>d, Bounds, CallType
       DEF Execute, row, time, queue, others, failures, At, Goto, IInv, Types, Local
  <2> QED
    BY <2>1, <2>2, <2>3, <2>4, <2>5, <2>6, <2>7, <2>8, <2>9 DEF Types
<1>2. Queue'
  BY ExecuteMoves, <1>d, Bounds, CallType
     DEF Execute, row, time, queue, others, failures, At, Goto, IInv, Types, Queue, Stamps,
         Kept
<1>3. Local'
  BY ExecuteMoves, <1>d, Bounds, CallType
     DEF Execute, row, time, queue, others, failures, At, Goto, IInv, Types, Local,
         TimeGoesOn
<1>4. Enrolled'
  BY ExecuteMoves, <1>d, Bounds, CallType
     DEF Execute, row, time, queue, others, failures, At, Goto, IInv, Types, Enrolled
<1>5. Exclusive'
  BY ExecuteMoves, <1>d, Bounds, CallType
     DEF Execute, row, time, queue, others, failures, At, Goto, IInv, Types, Exclusive
<1>6. Waits'
  BY ExecuteMoves, <1>d, Bounds, CallType
     DEF Execute, row, time, queue, others, failures, At, Goto, IInv, Types, Exclusive,
         Waits, Local, Timed, Passed, TimeGoesOn
<1> QED
  BY <1>1, <1>2, <1>3, <1>4, <1>5, <1>6 DEF IInv

LEMMA CompleteKeeps ==
    ASSUME IInv, NEW w \in Workers, Complete(w)
    PROVE  IInv'
<1>d. TimeGoesOn
  BY Bounds DEF Complete, row, time, queue, others, failures, At, Goto, IInv, Types, TimeGoesOn
<1>b. \A v \in Workers : /\ call[v].k \in Nat /\ call[v].stamp \in Nat
                        /\ call[v].k <= last /\ call[v].stamp <= last
  BY CallType
<1>1. Types'
  <2>1. /\ status' \in {"none", "ACTIVE", "CANCELLED", "COMPLETED"} /\ node' \in Nodes \cup {NoNode}
       /\ runAt' \in 0..last'
    BY CompleteMoves, <1>d, Bounds, CallType
       DEF Complete, row, time, queue, others, failures, At, Goto, IInv, Types, Local
  <2>2. flowOn' \in BOOLEAN /\ expired' \in BOOLEAN
    BY <1>d DEF Complete, row, time, queue, others, failures, At, Goto, IInv, Types
  <2>3. /\ last' \in 0..MaxStamps /\ due' \subseteq 1..last' /\ nodeOf' \in [Stamps -> Nodes \cup {NoNode}]
       /\ ticker' \in 0..last'
    BY CompleteMoves, <1>d, Bounds, CallType
       DEF Complete, row, time, queue, others, failures, At, Goto, IInv, Types, TimeGoesOn
  <2>4. job' \in [Stamps -> Known \cup {"none"}] /\ \A k \in Stamps : job'[k] # "none" => k <= last'
    BY CompleteMoves, <1>d, Bounds, CallType
       DEF Complete, row, time, queue, others, failures, At, Goto, IInv, Types, Queue, Local,
           Enrolled, Known, Kept, Stamps
  <2>5. tries' \in [Stamps -> 0..MaxTries] /\ stalled' \subseteq Stamps
    BY CompleteMoves, <1>d, Bounds, CallType
       DEF Complete, row, time, queue, others, failures, At, Goto, IInv, Types, Queue, Kept,
           Stamps
  <2>6. lock' \in Workers \cup {Free, Ghost}
    BY CompleteMoves, <1>d, Bounds, CallType
       DEF Complete, row, time, queue, others, failures, At, Goto, IInv, Types
  <2>7. call' \in [Workers -> Call] /\ \A v \in Workers : call'[v].k <= last' /\ call'[v].stamp <= last'
    BY CompleteMoves, <1>b, <1>d DEF TimeGoesOn
  <2>8. enroller' \in {"start", "enqueue", "done"} /\ canceller' \in {"idle", "write", "done"}
    BY CompleteMoves, <1>d, Bounds, CallType
       DEF Complete, row, time, queue, others, failures, At, Goto, IInv, Types
  <2>9. sent' \in [Nodes -> Nat] /\ faults' \in 0..MaxFaults
    BY CompleteMoves, <1>d, Bounds, CallType
       DEF Complete, row, time, queue, others, failures, At, Goto, IInv, Types, Local
  <2> QED
    BY <2>1, <2>2, <2>3, <2>4, <2>5, <2>6, <2>7, <2>8, <2>9 DEF Types
<1>2. Queue'
  BY CompleteMoves, <1>d, Bounds, CallType
     DEF Complete, row, time, queue, others, failures, At, Goto, IInv, Types, Queue, Stamps,
         Kept
<1>3. Local'
  BY CompleteMoves, <1>d, Bounds, CallType
     DEF Complete, row, time, queue, others, failures, At, Goto, IInv, Types, Local,
         TimeGoesOn
<1>4. Enrolled'
  BY CompleteMoves, <1>d, Bounds, CallType
     DEF Complete, row, time, queue, others, failures, At, Goto, IInv, Types, Enrolled
<1>5. Exclusive'
  BY CompleteMoves, <1>d, Bounds, CallType
     DEF Complete, row, time, queue, others, failures, At, Goto, IInv, Types, Exclusive
<1>6. Waits'
  BY CompleteMoves, <1>d, Bounds, CallType
     DEF Complete, row, time, queue, others, failures, At, Goto, IInv, Types, Exclusive,
         Waits, Local, Timed, Passed, TimeGoesOn
<1> QED
  BY <1>1, <1>2, <1>3, <1>4, <1>5, <1>6 DEF IInv

LEMMA AdvanceKeeps ==
    ASSUME IInv, NEW w \in Workers, Advance(w)
    PROVE  IInv'
<1>p. PICK n \in Successors[call[w].n] \ {End} :
        /\ At(w, "advance") /\ Draw(n, n \notin Delays)
        /\ node' = n /\ runAt' = last + 1
        /\ call' = [call EXCEPT ![w] = [@ EXCEPT !.pc = "check", !.n = n, !.stamp = last + 1]]
        /\ UNCHANGED <<status, queue, lock, others, sent, failures>>
  BY DEF Advance
<1>q. call'[w].n = n /\ n \in Nodes
  BY <1>p, CallsType, CallType, Bounds DEF Call, At, IInv, Local
<1>n. n \in Nodes \cup {NoNode}
  BY <1>q
<1>e. Draw(n, n \notin Delays)
  BY <1>p
<1>d. /\ last' = last + 1 /\ last' \in 0..MaxStamps /\ last + 1 \in Stamps
      /\ due' \subseteq 1..last' /\ ((n \notin Delays) => last + 1 \in due') /\ due' \subseteq due \cup {last + 1}
      /\ nodeOf' \in [Stamps -> Nodes \cup {NoNode}] /\ nodeOf'[last + 1] = n
      /\ TimeGoesOn
  BY <1>n, <1>e, Drawn
<1>b. \A v \in Workers : /\ call[v].k \in Nat /\ call[v].stamp \in Nat
                        /\ call[v].k <= last /\ call[v].stamp <= last
  BY CallType
<1>1. Types'
  <2>1. /\ status' \in {"none", "ACTIVE", "CANCELLED", "COMPLETED"} /\ node' \in Nodes \cup {NoNode}
       /\ runAt' \in 0..last'
    BY AdvanceMoves, <1>d, Bounds, CallType, <1>p, <1>q
       DEF row, time, queue, others, failures, At, IInv, Types, Local
  <2>2. flowOn' \in BOOLEAN /\ expired' \in BOOLEAN
    BY <1>p DEF row, time, queue, others, failures, At, IInv, Types
  <2>3. /\ last' \in 0..MaxStamps /\ due' \subseteq 1..last' /\ nodeOf' \in [Stamps -> Nodes \cup {NoNode}]
       /\ ticker' \in 0..last'
    BY AdvanceMoves, <1>d, Bounds, CallType, <1>p, <1>q
       DEF row, time, queue, others, failures, At, IInv, Types, TimeGoesOn
  <2>4. job' \in [Stamps -> Known \cup {"none"}] /\ \A k \in Stamps : job'[k] # "none" => k <= last'
    BY AdvanceMoves, <1>d, Bounds, CallType, <1>p, <1>q
       DEF row, time, queue, others, failures, At, IInv, Types, Queue, Local, Enrolled,
           Known, Kept, Stamps
  <2>5. tries' \in [Stamps -> 0..MaxTries] /\ stalled' \subseteq Stamps
    BY AdvanceMoves, <1>d, Bounds, CallType, <1>p, <1>q
       DEF row, time, queue, others, failures, At, IInv, Types, Queue, Kept, Stamps
  <2>6. lock' \in Workers \cup {Free, Ghost}
    BY AdvanceMoves, <1>d, Bounds, CallType, <1>p, <1>q
       DEF row, time, queue, others, failures, At, IInv, Types
  <2>7. call' \in [Workers -> Call] /\ \A v \in Workers : call'[v].k <= last' /\ call'[v].stamp <= last'
    BY AdvanceMoves, <1>b, <1>d, <1>p, <1>q DEF TimeGoesOn
  <2>8. enroller' \in {"start", "enqueue", "done"} /\ canceller' \in {"idle", "write", "done"}
    BY AdvanceMoves, <1>d, Bounds, CallType, <1>p, <1>q
       DEF row, time, queue, others, failures, At, IInv, Types
  <2>9. sent' \in [Nodes -> Nat] /\ faults' \in 0..MaxFaults
    BY AdvanceMoves, <1>d, Bounds, CallType, <1>p, <1>q
       DEF row, time, queue, others, failures, At, IInv, Types, Local
  <2> QED
    BY <2>1, <2>2, <2>3, <2>4, <2>5, <2>6, <2>7, <2>8, <2>9 DEF Types
<1>2. Queue'
  BY SMTT(20), AdvanceMoves, <1>d, Bounds, CallType, <1>p, <1>q
     DEF row, time, queue, others, failures, At, IInv, Types, Queue, Stamps, Kept
<1>3. Local'
  BY AdvanceMoves, <1>d, Bounds, CallType, <1>p, <1>q
     DEF row, time, queue, others, failures, At, IInv, Types, Local, TimeGoesOn
<1>4. Enrolled'
  BY AdvanceMoves, <1>d, Bounds, CallType, <1>p, <1>q
     DEF row, time, queue, others, failures, At, IInv, Types, Enrolled
<1>5. Exclusive'
  BY AdvanceMoves, <1>d, Bounds, CallType, <1>p, <1>q
     DEF row, time, queue, others, failures, At, IInv, Types, Exclusive
<1>6. Waits'
  BY AdvanceMoves, <1>d, Bounds, CallType, <1>p, <1>q
     DEF row, time, queue, others, failures, At, IInv, Types, Exclusive, Waits, Local, Timed,
         Passed, TimeGoesOn
<1> QED
  BY <1>1, <1>2, <1>3, <1>4, <1>5, <1>6 DEF IInv

LEMMA CheckKeeps ==
    ASSUME IInv, NEW w \in Workers, Check(w)
    PROVE  IInv'
<1>u. /\ status' = status /\ node' = node /\ runAt' = runAt
      /\ last' = last /\ due' = due /\ nodeOf' = nodeOf
      /\ enroller' = enroller /\ ticker' = ticker /\ canceller' = canceller /\ flowOn' = flowOn
      /\ sent' = sent
      /\ faults' = faults /\ expired' = expired
      /\ tries' = tries /\ stalled' = stalled
      /\ job' = job
      /\ lock' = lock
      /\ call[w].pc = "check"
  BY DEF Check, row, time, queue, others, failures, At, Goto
<1>d. TimeGoesOn
  BY Bounds, <1>u DEF IInv, Types, TimeGoesOn
<1>b. \A v \in Workers : /\ call[v].k \in Nat /\ call[v].stamp \in Nat
                        /\ call[v].k <= last /\ call[v].stamp <= last
  BY CallType
<1>1. Types'
  <2>1. /\ status' \in {"none", "ACTIVE", "CANCELLED", "COMPLETED"} /\ node' \in Nodes \cup {NoNode}
       /\ runAt' \in 0..last'
    BY CheckMoves, <1>d, Bounds, CallType, <1>u DEF IInv, Types, Local
  <2>2. flowOn' \in BOOLEAN /\ expired' \in BOOLEAN
    BY <1>u DEF IInv, Types
  <2>3. /\ last' \in 0..MaxStamps /\ due' \subseteq 1..last' /\ nodeOf' \in [Stamps -> Nodes \cup {NoNode}]
       /\ ticker' \in 0..last'
    BY CheckMoves, <1>d, Bounds, CallType, <1>u DEF IInv, Types, TimeGoesOn
  <2>4. job' \in [Stamps -> Known \cup {"none"}] /\ \A k \in Stamps : job'[k] # "none" => k <= last'
    BY CheckMoves, <1>d, Bounds, CallType, <1>u
       DEF IInv, Types, Queue, Local, Enrolled, Known, Kept, Stamps
  <2>5. tries' \in [Stamps -> 0..MaxTries] /\ stalled' \subseteq Stamps
    BY CheckMoves, <1>d, Bounds, CallType, <1>u DEF IInv, Types, Queue, Kept, Stamps
  <2>6. lock' \in Workers \cup {Free, Ghost}
    BY CheckMoves, <1>d, Bounds, CallType, <1>u DEF IInv, Types
  <2>7. call' \in [Workers -> Call] /\ \A v \in Workers : call'[v].k <= last' /\ call'[v].stamp <= last'
    BY CheckMoves, <1>b, <1>d DEF TimeGoesOn
  <2>8. enroller' \in {"start", "enqueue", "done"} /\ canceller' \in {"idle", "write", "done"}
    BY CheckMoves, <1>d, Bounds, CallType, <1>u DEF IInv, Types
  <2>9. sent' \in [Nodes -> Nat] /\ faults' \in 0..MaxFaults
    BY CheckMoves, <1>d, Bounds, CallType, <1>u DEF IInv, Types, Local
  <2> QED
    BY <2>1, <2>2, <2>3, <2>4, <2>5, <2>6, <2>7, <2>8, <2>9 DEF Types
<1>2. Queue'
  BY CheckMoves, CallsQueue, <1>u
<1>3. Local'
  BY CheckMoves, <1>d, Bounds, CallType, <1>u DEF IInv, Types, Local, TimeGoesOn
<1>4. Enrolled'
  BY CheckMoves, <1>d, Bounds, CallType, <1>u DEF IInv, Types, Enrolled
<1>5. Exclusive'
  BY CheckMoves, <1>d, Bounds, CallType, <1>u DEF IInv, Types, Exclusive
<1>6. Waits'
  BY CheckMoves, <1>d, Bounds, CallType, <1>u
     DEF IInv, Types, Exclusive, Waits, Local, Timed, Passed, TimeGoesOn
<1> QED
  BY <1>1, <1>2, <1>3, <1>4, <1>5, <1>6 DEF IInv

LEMMA GuardKeeps ==
    ASSUME IInv, NEW w \in Workers, Guard(w)
    PROVE  IInv'
<1>u. /\ status' = status
      /\ enroller' = enroller /\ ticker' = ticker /\ canceller' = canceller /\ flowOn' = flowOn
      /\ sent' = sent
      /\ faults' = faults /\ expired' = expired
      /\ tries' = tries /\ stalled' = stalled
      /\ job' = job
      /\ lock' = lock
      /\ runAt' = last + 1
      /\ node' = node
      /\ call[w].pc = "guard"
  BY DEF Guard, row, time, queue, others, failures, At
<1>n. NoNode \in Nodes \cup {NoNode}
  BY CallType, Bounds, <1>u DEF IInv, Local
<1>e. Draw(NoNode, FALSE)
  BY DEF Guard
<1>d. /\ last' = last + 1 /\ last' \in 0..MaxStamps /\ last + 1 \in Stamps
      /\ due' \subseteq 1..last' /\ due' \subseteq due \cup {last + 1}
      /\ nodeOf' \in [Stamps -> Nodes \cup {NoNode}] /\ nodeOf'[last + 1] = NoNode
      /\ TimeGoesOn
  BY <1>n, <1>e, Drawn
<1>b. \A v \in Workers : /\ call[v].k \in Nat /\ call[v].stamp \in Nat
                        /\ call[v].k <= last /\ call[v].stamp <= last
  BY CallType
<1>1. Types'
  <2>1. /\ status' \in {"none", "ACTIVE", "CANCELLED", "COMPLETED"} /\ node' \in Nodes \cup {NoNode}
       /\ runAt' \in 0..last'
    BY GuardMoves, <1>d, Bounds, CallType, <1>u DEF IInv, Types, Local
  <2>2. flowOn' \in BOOLEAN /\ expired' \in BOOLEAN
    BY <1>u DEF IInv, Types
  <2>3. /\ last' \in 0..MaxStamps /\ due' \subseteq 1..last' /\ nodeOf' \in [Stamps -> Nodes \cup {NoNode}]
       /\ ticker' \in 0..last'
    BY GuardMoves, <1>d, Bounds, CallType, <1>u DEF IInv, Types, TimeGoesOn
  <2>4. job' \in [Stamps -> Known \cup {"none"}] /\ \A k \in Stamps : job'[k] # "none" => k <= last'
    BY <1>u, <1>d DEF IInv, Types, TimeGoesOn, Stamps
  <2>5. tries' \in [Stamps -> 0..MaxTries] /\ stalled' \subseteq Stamps
    BY GuardMoves, <1>d, Bounds, CallType, <1>u DEF IInv, Types, Queue, Kept, Stamps
  <2>6. lock' \in Workers \cup {Free, Ghost}
    BY GuardMoves, <1>d, Bounds, CallType, <1>u DEF IInv, Types
  <2>7. call' \in [Workers -> Call] /\ \A v \in Workers : call'[v].k <= last' /\ call'[v].stamp <= last'
    BY GuardMoves, <1>b, <1>d DEF TimeGoesOn
  <2>8. enroller' \in {"start", "enqueue", "done"} /\ canceller' \in {"idle", "write", "done"}
    BY GuardMoves, <1>d, Bounds, CallType, <1>u DEF IInv, Types
  <2>9. sent' \in [Nodes -> Nat] /\ faults' \in 0..MaxFaults
    BY GuardMoves, <1>d, Bounds, CallType, <1>u DEF IInv, Types, Local
  <2> QED
    BY <2>1, <2>2, <2>3, <2>4, <2>5, <2>6, <2>7, <2>8, <2>9 DEF Types
<1>2. Queue'
  BY GuardMoves, CallsQueue, <1>u
<1>3. Local'
  BY GuardMoves, <1>d, Bounds, CallType, <1>u DEF IInv, Types, Local, TimeGoesOn
<1>4. Enrolled'
  BY GuardMoves, <1>d, Bounds, CallType, <1>u DEF IInv, Types, Enrolled
<1>5. Exclusive'
  BY GuardMoves, <1>d, Bounds, CallType, <1>u DEF IInv, Types, Exclusive
<1>6. Waits'
  BY GuardMoves, <1>d, Bounds, CallType, <1>u
     DEF IInv, Types, Exclusive, Waits, Local, Timed, Passed, TimeGoesOn
<1> QED
  BY <1>1, <1>2, <1>3, <1>4, <1>5, <1>6 DEF IInv

LEMMA MarkWaitingKeeps ==
    ASSUME IInv, NEW w \in Workers, MarkWaiting(w)
    PROVE  IInv'
<1>d. TimeGoesOn
  BY Bounds
     DEF MarkWaiting, row, time, queue, others, failures, At, Goto, IInv, Types, TimeGoesOn
<1>b. \A v \in Workers : /\ call[v].k \in Nat /\ call[v].stamp \in Nat
                        /\ call[v].k <= last /\ call[v].stamp <= last
  BY CallType
<1>1. Types'
  <2>1. /\ status' \in {"none", "ACTIVE", "CANCELLED", "COMPLETED"} /\ node' \in Nodes \cup {NoNode}
       /\ runAt' \in 0..last'
    BY MarkWaitingMoves, <1>d, Bounds, CallType
       DEF MarkWaiting, row, time, queue, others, failures, At, Goto, IInv, Types, Local
  <2>2. flowOn' \in BOOLEAN /\ expired' \in BOOLEAN
    BY <1>d DEF MarkWaiting, row, time, queue, others, failures, At, Goto, IInv, Types
  <2>3. /\ last' \in 0..MaxStamps /\ due' \subseteq 1..last' /\ nodeOf' \in [Stamps -> Nodes \cup {NoNode}]
       /\ ticker' \in 0..last'
    BY MarkWaitingMoves, <1>d, Bounds, CallType
       DEF MarkWaiting, row, time, queue, others, failures, At, Goto, IInv, Types, TimeGoesOn
  <2>4. job' \in [Stamps -> Known \cup {"none"}] /\ \A k \in Stamps : job'[k] # "none" => k <= last'
    BY MarkWaitingMoves, <1>d, Bounds, CallType
       DEF MarkWaiting, row, time, queue, others, failures, At, Goto, IInv, Types, Queue,
           Local, Enrolled, Known, Kept, Stamps
  <2>5. tries' \in [Stamps -> 0..MaxTries] /\ stalled' \subseteq Stamps
    BY MarkWaitingMoves, <1>d, Bounds, CallType
       DEF MarkWaiting, row, time, queue, others, failures, At, Goto, IInv, Types, Queue,
           Kept, Stamps
  <2>6. lock' \in Workers \cup {Free, Ghost}
    BY MarkWaitingMoves, <1>d, Bounds, CallType
       DEF MarkWaiting, row, time, queue, others, failures, At, Goto, IInv, Types
  <2>7. call' \in [Workers -> Call] /\ \A v \in Workers : call'[v].k <= last' /\ call'[v].stamp <= last'
    BY MarkWaitingMoves, <1>b, <1>d DEF TimeGoesOn
  <2>8. enroller' \in {"start", "enqueue", "done"} /\ canceller' \in {"idle", "write", "done"}
    BY MarkWaitingMoves, <1>d, Bounds, CallType
       DEF MarkWaiting, row, time, queue, others, failures, At, Goto, IInv, Types
  <2>9. sent' \in [Nodes -> Nat] /\ faults' \in 0..MaxFaults
    BY MarkWaitingMoves, <1>d, Bounds, CallType
       DEF MarkWaiting, row, time, queue, others, failures, At, Goto, IInv, Types, Local
  <2> QED
    BY <2>1, <2>2, <2>3, <2>4, <2>5, <2>6, <2>7, <2>8, <2>9 DEF Types
<1>2. Queue'
  BY MarkWaitingMoves, <1>d, Bounds, CallType
     DEF MarkWaiting, row, time, queue, others, failures, At, Goto, IInv, Types, Queue,
         Stamps, Kept
<1>3. Local'
  BY MarkWaitingMoves, <1>d, Bounds, CallType
     DEF MarkWaiting, row, time, queue, others, failures, At, Goto, IInv, Types, Local,
         TimeGoesOn
<1>4. Enrolled'
  BY MarkWaitingMoves, <1>d, Bounds, CallType
     DEF MarkWaiting, row, time, queue, others, failures, At, Goto, IInv, Types, Enrolled
<1>5. Exclusive'
  BY MarkWaitingMoves, <1>d, Bounds, CallType
     DEF MarkWaiting, row, time, queue, others, failures, At, Goto, IInv, Types, Exclusive
<1>6. Waits'
  BY MarkWaitingMoves, <1>d, Bounds, CallType
     DEF MarkWaiting, row, time, queue, others, failures, At, Goto, IInv, Types, Exclusive,
         Waits, Local, Timed, Passed, TimeGoesOn
<1> QED
  BY <1>1, <1>2, <1>3, <1>4, <1>5, <1>6 DEF IInv

LEMMA EnqueueEnrollmentKeeps ==
    ASSUME IInv, NEW w \in Workers, EnqueueEnrollment(w)
    PROVE  IInv'
<1>d. TimeGoesOn
  BY Bounds
     DEF EnqueueEnrollment, row, time, queue, others, failures, At, Goto, Add, IInv, Types,
         TimeGoesOn
<1>b. \A v \in Workers : /\ call[v].k \in Nat /\ call[v].stamp \in Nat
                        /\ call[v].k <= last /\ call[v].stamp <= last
  BY CallType
<1>1. Types'
  <2>1. /\ status' \in {"none", "ACTIVE", "CANCELLED", "COMPLETED"} /\ node' \in Nodes \cup {NoNode}
       /\ runAt' \in 0..last'
    BY EnqueueEnrollmentMoves, <1>d, Bounds, CallType
       DEF EnqueueEnrollment, row, time, queue, others, failures, At, Goto, Add, IInv, Types,
           Local
  <2>2. flowOn' \in BOOLEAN /\ expired' \in BOOLEAN
    BY <1>d
       DEF EnqueueEnrollment, row, time, queue, others, failures, At, Goto, Add, IInv, Types
  <2>3. /\ last' \in 0..MaxStamps /\ due' \subseteq 1..last' /\ nodeOf' \in [Stamps -> Nodes \cup {NoNode}]
       /\ ticker' \in 0..last'
    BY EnqueueEnrollmentMoves, <1>d, Bounds, CallType
       DEF EnqueueEnrollment, row, time, queue, others, failures, At, Goto, Add, IInv, Types,
           TimeGoesOn
  <2>4. job' \in [Stamps -> Known \cup {"none"}] /\ \A k \in Stamps : job'[k] # "none" => k <= last'
    BY SMTT(20), EnqueueEnrollmentMoves, <1>d, Bounds, CallType
       DEF EnqueueEnrollment, row, time, queue, others, failures, At, Goto, Add, IInv, Types,
           Queue, Local, Enrolled, Known, Kept, Stamps
  <2>5. tries' \in [Stamps -> 0..MaxTries] /\ stalled' \subseteq Stamps
    BY EnqueueEnrollmentMoves, <1>d, Bounds, CallType
       DEF EnqueueEnrollment, row, time, queue, others, failures, At, Goto, Add, IInv, Types,
           Queue, Kept, Stamps
  <2>6. lock' \in Workers \cup {Free, Ghost}
    BY EnqueueEnrollmentMoves, <1>d, Bounds, CallType
       DEF EnqueueEnrollment, row, time, queue, others, failures, At, Goto, Add, IInv, Types
  <2>7. call' \in [Workers -> Call] /\ \A v \in Workers : call'[v].k <= last' /\ call'[v].stamp <= last'
    BY EnqueueEnrollmentMoves, <1>b, <1>d DEF TimeGoesOn
  <2>8. enroller' \in {"start", "enqueue", "done"} /\ canceller' \in {"idle", "write", "done"}
    BY EnqueueEnrollmentMoves, <1>d, Bounds, CallType
       DEF EnqueueEnrollment, row, time, queue, others, failures, At, Goto, Add, IInv, Types
  <2>9. sent' \in [Nodes -> Nat] /\ faults' \in 0..MaxFaults
    BY EnqueueEnrollmentMoves, <1>d, Bounds, CallType
       DEF EnqueueEnrollment, row, time, queue, others, failures, At, Goto, Add, IInv, Types,
           Local
  <2> QED
    BY <2>1, <2>2, <2>3, <2>4, <2>5, <2>6, <2>7, <2>8, <2>9 DEF Types
<1>2. Queue'
  BY EnqueueEnrollmentMoves, <1>d, Bounds, CallType
     DEF EnqueueEnrollment, row, time, queue, others, failures, At, Goto, Add, IInv, Types,
         Queue, Stamps, Kept
<1>3. Local'
  BY EnqueueEnrollmentMoves, <1>d, Bounds, CallType
     DEF EnqueueEnrollment, row, time, queue, others, failures, At, Goto, Add, IInv, Types,
         Local, TimeGoesOn
<1>4. Enrolled'
  BY EnqueueEnrollmentMoves, <1>d, Bounds, CallType
     DEF EnqueueEnrollment, row, time, queue, others, failures, At, Goto, Add, IInv, Types,
         Enrolled
<1>5. Exclusive'
  BY EnqueueEnrollmentMoves, <1>d, Bounds, CallType
     DEF EnqueueEnrollment, row, time, queue, others, failures, At, Goto, Add, IInv, Types,
         Exclusive
<1>6. Waits'
  BY EnqueueEnrollmentMoves, <1>d, Bounds, CallType
     DEF EnqueueEnrollment, row, time, queue, others, failures, At, Goto, Add, IInv, Types,
         Exclusive, Waits, Local, Timed, Passed, TimeGoesOn
<1> QED
  BY <1>1, <1>2, <1>3, <1>4, <1>5, <1>6 DEF IInv

LEMMA ReleaseKeeps ==
    ASSUME IInv, NEW w \in Workers, Release(w)
    PROVE  IInv'
<1>u. /\ status' = status /\ node' = node /\ runAt' = runAt
      /\ last' = last /\ due' = due /\ nodeOf' = nodeOf
      /\ enroller' = enroller /\ ticker' = ticker /\ canceller' = canceller /\ flowOn' = flowOn
      /\ sent' = sent
      /\ faults' = faults /\ expired' = expired
      /\ tries' = tries /\ stalled' = stalled
      /\ lock' = IF lock = w THEN Free ELSE lock
  BY DEF Release, row, time, queue, others, failures, At, Return, Unlock
<1>j. /\ job' \in [Stamps -> Known \cup {"none"}]
      /\ \A k \in Stamps : \/ job'[k] = job[k]
                           \/ call[w].mine /\ k = call[w].k /\ job[k] = "active" /\ job'[k] = "done"
  BY Returned DEF Release
<1>d. TimeGoesOn
  BY Bounds, <1>u, <1>j DEF IInv, Types, TimeGoesOn
<1>b. \A v \in Workers : /\ call[v].k \in Nat /\ call[v].stamp \in Nat
                        /\ call[v].k <= last /\ call[v].stamp <= last
  BY CallType
<1>1. Types'
  <2>1. /\ status' \in {"none", "ACTIVE", "CANCELLED", "COMPLETED"} /\ node' \in Nodes \cup {NoNode}
       /\ runAt' \in 0..last'
    BY ReleaseMoves, <1>d, Bounds, CallType, <1>u, <1>j DEF IInv, Types, Local
  <2>2. flowOn' \in BOOLEAN /\ expired' \in BOOLEAN
    BY <1>u, <1>j DEF IInv, Types
  <2>3. /\ last' \in 0..MaxStamps /\ due' \subseteq 1..last' /\ nodeOf' \in [Stamps -> Nodes \cup {NoNode}]
       /\ ticker' \in 0..last'
    BY ReleaseMoves, <1>d, Bounds, CallType, <1>u, <1>j DEF IInv, Types, TimeGoesOn
  <2>4. job' \in [Stamps -> Known \cup {"none"}] /\ \A k \in Stamps : job'[k] # "none" => k <= last'
    BY ReleaseMoves, <1>d, Bounds, CallType, <1>u, <1>j
       DEF IInv, Types, Queue, Local, Enrolled, Known, Kept, Stamps
  <2>5. tries' \in [Stamps -> 0..MaxTries] /\ stalled' \subseteq Stamps
    BY ReleaseMoves, <1>d, Bounds, CallType, <1>u, <1>j DEF IInv, Types, Queue, Kept, Stamps
  <2>6. lock' \in Workers \cup {Free, Ghost}
    BY ReleaseMoves, <1>d, Bounds, CallType, <1>u, <1>j DEF IInv, Types
  <2>7. call' \in [Workers -> Call] /\ \A v \in Workers : call'[v].k <= last' /\ call'[v].stamp <= last'
    BY ReleaseMoves, <1>b, <1>d DEF TimeGoesOn
  <2>8. enroller' \in {"start", "enqueue", "done"} /\ canceller' \in {"idle", "write", "done"}
    BY ReleaseMoves, <1>d, Bounds, CallType, <1>u, <1>j DEF IInv, Types
  <2>9. sent' \in [Nodes -> Nat] /\ faults' \in 0..MaxFaults
    BY ReleaseMoves, <1>d, Bounds, CallType, <1>u, <1>j DEF IInv, Types, Local
  <2> QED
    BY <2>1, <2>2, <2>3, <2>4, <2>5, <2>6, <2>7, <2>8, <2>9 DEF Types
<1>2. Queue'
  BY ReleaseMoves, CallsQueue, <1>u, <1>j DEF Kept
<1>3. Local'
  BY ReleaseMoves, <1>d, Bounds, CallType, <1>u, <1>j DEF IInv, Types, Local, TimeGoesOn
<1>4. Enrolled'
  BY ReleaseMoves, <1>d, Bounds, CallType, <1>u, <1>j DEF IInv, Types, Enrolled
<1>5. Exclusive'
  BY ReleaseMoves, <1>d, Bounds, CallType, <1>u, <1>j DEF IInv, Types, Exclusive
<1>6. Waits'
  BY ReleaseMoves, <1>u DEF IInv, Waits, Timed, Passed
<1> QED
  BY <1>1, <1>2, <1>3, <1>4, <1>5, <1>6 DEF IInv

LEMMA ReleaseFailsKeeps ==
    ASSUME IInv, NEW w \in Workers, ReleaseFails(w)
    PROVE  IInv'
<1>u. /\ status' = status /\ node' = node /\ runAt' = runAt
      /\ last' = last /\ due' = due /\ nodeOf' = nodeOf
      /\ enroller' = enroller /\ ticker' = ticker /\ canceller' = canceller /\ flowOn' = flowOn
      /\ sent' = sent
      /\ faults' = faults + 1 /\ faults < MaxFaults /\ expired' = expired
      /\ tries' = tries /\ stalled' = stalled
      /\ lock' = IF lock = w THEN Ghost ELSE lock
  BY DEF ReleaseFails, row, time, queue, others, failures, At, Return, Fault
<1>j. /\ job' \in [Stamps -> Known \cup {"none"}]
      /\ \A k \in Stamps : \/ job'[k] = job[k]
                           \/ call[w].mine /\ k = call[w].k /\ job[k] = "active" /\ job'[k] = "done"
  BY Returned DEF ReleaseFails
<1>d. TimeGoesOn
  BY Bounds, <1>u, <1>j DEF IInv, Types, TimeGoesOn
<1>b. \A v \in Workers : /\ call[v].k \in Nat /\ call[v].stamp \in Nat
                        /\ call[v].k <= last /\ call[v].stamp <= last
  BY CallType
<1>1. Types'
  <2>1. /\ status' \in {"none", "ACTIVE", "CANCELLED", "COMPLETED"} /\ node' \in Nodes \cup {NoNode}
       /\ runAt' \in 0..last'
    BY ReleaseFailsMoves, <1>d, Bounds, CallType, <1>u, <1>j DEF IInv, Types, Local
  <2>2. flowOn' \in BOOLEAN /\ expired' \in BOOLEAN
    BY <1>u, <1>j DEF IInv, Types
  <2>3. /\ last' \in 0..MaxStamps /\ due' \subseteq 1..last' /\ nodeOf' \in [Stamps -> Nodes \cup {NoNode}]
       /\ ticker' \in 0..last'
    BY ReleaseFailsMoves, <1>d, Bounds, CallType, <1>u, <1>j DEF IInv, Types, TimeGoesOn
  <2>4. job' \in [Stamps -> Known \cup {"none"}] /\ \A k \in Stamps : job'[k] # "none" => k <= last'
    BY ReleaseFailsMoves, <1>d, Bounds, CallType, <1>u, <1>j
       DEF IInv, Types, Queue, Local, Enrolled, Known, Kept, Stamps
  <2>5. tries' \in [Stamps -> 0..MaxTries] /\ stalled' \subseteq Stamps
    BY ReleaseFailsMoves, <1>d, Bounds, CallType, <1>u, <1>j
       DEF IInv, Types, Queue, Kept, Stamps
  <2>6. lock' \in Workers \cup {Free, Ghost}
    BY ReleaseFailsMoves, <1>d, Bounds, CallType, <1>u, <1>j DEF IInv, Types
  <2>7. call' \in [Workers -> Call] /\ \A v \in Workers : call'[v].k <= last' /\ call'[v].stamp <= last'
    BY ReleaseFailsMoves, <1>b, <1>d DEF TimeGoesOn
  <2>8. enroller' \in {"start", "enqueue", "done"} /\ canceller' \in {"idle", "write", "done"}
    BY ReleaseFailsMoves, <1>d, Bounds, CallType, <1>u, <1>j DEF IInv, Types
  <2>9. sent' \in [Nodes -> Nat] /\ faults' \in 0..MaxFaults
    BY ReleaseFailsMoves, <1>d, Bounds, CallType, <1>u, <1>j DEF IInv, Types, Local
  <2> QED
    BY <2>1, <2>2, <2>3, <2>4, <2>5, <2>6, <2>7, <2>8, <2>9 DEF Types
<1>2. Queue'
  BY ReleaseFailsMoves, CallsQueue, <1>u, <1>j DEF Kept
<1>3. Local'
  BY ReleaseFailsMoves, <1>d, Bounds, CallType, <1>u, <1>j DEF IInv, Types, Local, TimeGoesOn
<1>4. Enrolled'
  BY ReleaseFailsMoves, <1>d, Bounds, CallType, <1>u, <1>j DEF IInv, Types, Enrolled
<1>5. Exclusive'
  BY ReleaseFailsMoves, <1>d, Bounds, CallType, <1>u, <1>j DEF IInv, Types, Exclusive
<1>6. Waits'
  BY ReleaseFailsMoves, <1>u DEF IInv, Waits, Timed, Passed
<1> QED
  BY <1>1, <1>2, <1>3, <1>4, <1>5, <1>6 DEF IInv

LEMMA ThrowKeeps ==
    ASSUME IInv, NEW w \in Workers, Throw(w)
    PROVE  IInv'
<1>u. /\ status' = status /\ node' = node /\ runAt' = runAt
      /\ last' = last /\ due' = due /\ nodeOf' = nodeOf
      /\ enroller' = enroller /\ ticker' = ticker /\ canceller' = canceller /\ flowOn' = flowOn
      /\ sent' = sent
      /\ faults' = faults + 1 /\ faults < MaxFaults /\ expired' = expired
      /\ stalled' = stalled
      /\ lock' = IF lock = w THEN Free ELSE lock
  BY DEF Throw, row, time, queue, others, failures, Unlock, Fault
<1>j. /\ job' \in [Stamps -> Known \cup {"none"}] /\ tries' \in [Stamps -> 0..MaxTries]
      /\ \A k \in Stamps :
             \/ job'[k] = job[k] /\ tries'[k] = tries[k]
             \/ /\ call[w].mine /\ k = call[w].k /\ job[k] = "active" /\ job'[k] \in {"waiting", "failed"}
                /\ job'[k] = "waiting" => tries'[k] < MaxTries
  <2>1. job \in [Stamps -> Known \cup {"none"}] /\ tries \in [Stamps -> 0..MaxTries]
    BY DEF IInv, Types
  <2>2. CASE call[w].mine
    <3>1. call[w].k \in Stamps /\ job[call[w].k] = "active" /\ tries[call[w].k] < MaxTries
      BY <2>2 DEF IInv, Queue, Kept
    <3>2. /\ tries' = [tries EXCEPT ![call[w].k] = @ + 1]
          /\ job' = [job EXCEPT ![call[w].k] = IF tries[call[w].k] + 1 < MaxTries THEN "waiting" ELSE "failed"]
      BY <2>2 DEF Throw
    <3> QED
      BY <2>1, <2>2, <3>1, <3>2, Bounds DEF Known, Kept
  <2>3. CASE ~call[w].mine
    BY <2>1, <2>3 DEF Throw
  <2> QED
    BY <2>2, <2>3
<1>d. TimeGoesOn
  BY Bounds, <1>u, <1>j DEF IInv, Types, TimeGoesOn
<1>b. \A v \in Workers : /\ call[v].k \in Nat /\ call[v].stamp \in Nat
                        /\ call[v].k <= last /\ call[v].stamp <= last
  BY CallType
<1>1. Types'
  <2>1. /\ status' \in {"none", "ACTIVE", "CANCELLED", "COMPLETED"} /\ node' \in Nodes \cup {NoNode}
       /\ runAt' \in 0..last'
    BY ThrowMoves, <1>d, Bounds, CallType, <1>u, <1>j DEF IInv, Types, Local
  <2>2. flowOn' \in BOOLEAN /\ expired' \in BOOLEAN
    BY <1>u, <1>j DEF IInv, Types
  <2>3. /\ last' \in 0..MaxStamps /\ due' \subseteq 1..last' /\ nodeOf' \in [Stamps -> Nodes \cup {NoNode}]
       /\ ticker' \in 0..last'
    BY ThrowMoves, <1>d, Bounds, CallType, <1>u, <1>j DEF IInv, Types, TimeGoesOn
  <2>4. job' \in [Stamps -> Known \cup {"none"}] /\ \A k \in Stamps : job'[k] # "none" => k <= last'
    BY ThrowMoves, <1>d, Bounds, CallType, <1>u, <1>j
       DEF IInv, Types, Queue, Local, Enrolled, Known, Kept, Stamps
  <2>5. tries' \in [Stamps -> 0..MaxTries] /\ stalled' \subseteq Stamps
    BY ThrowMoves, <1>d, Bounds, CallType, <1>u, <1>j DEF IInv, Types, Queue, Kept, Stamps
  <2>6. lock' \in Workers \cup {Free, Ghost}
    BY ThrowMoves, <1>d, Bounds, CallType, <1>u, <1>j DEF IInv, Types
  <2>7. call' \in [Workers -> Call] /\ \A v \in Workers : call'[v].k <= last' /\ call'[v].stamp <= last'
    BY ThrowMoves, <1>b, <1>d DEF TimeGoesOn
  <2>8. enroller' \in {"start", "enqueue", "done"} /\ canceller' \in {"idle", "write", "done"}
    BY ThrowMoves, <1>d, Bounds, CallType, <1>u, <1>j DEF IInv, Types
  <2>9. sent' \in [Nodes -> Nat] /\ faults' \in 0..MaxFaults
    BY ThrowMoves, <1>d, Bounds, CallType, <1>u, <1>j DEF IInv, Types, Local
  <2> QED
    BY <2>1, <2>2, <2>3, <2>4, <2>5, <2>6, <2>7, <2>8, <2>9 DEF Types
<1>2. Queue'
  BY ThrowMoves, CallsQueue, <1>u, <1>j DEF Kept
<1>3. Local'
  BY ThrowMoves, <1>d, Bounds, CallType, <1>u, <1>j DEF IInv, Types, Local, TimeGoesOn
<1>4. Enrolled'
  BY ThrowMoves, <1>d, Bounds, CallType, <1>u, <1>j DEF IInv, Types, Enrolled
<1>5. Exclusive'
  BY ThrowMoves, <1>d, Bounds, CallType, <1>u, <1>j DEF IInv, Types, Exclusive
<1>6. Waits'
  BY ThrowMoves, <1>u DEF IInv, Waits, Timed, Passed
<1> QED
  BY <1>1, <1>2, <1>3, <1>4, <1>5, <1>6 DEF IInv

LEMMA CrashKeeps ==
    ASSUME IInv, NEW w \in Workers, Crash(w)
    PROVE  IInv'
<1>u. /\ status' = status /\ node' = node /\ runAt' = runAt
      /\ last' = last /\ due' = due /\ nodeOf' = nodeOf
      /\ enroller' = enroller /\ ticker' = ticker /\ canceller' = canceller /\ flowOn' = flowOn
      /\ sent' = sent
      /\ faults' = faults + 1 /\ faults < MaxFaults /\ expired' = expired
      /\ tries' = tries
      /\ lock' = IF lock = w THEN Ghost ELSE lock
  BY DEF Crash, row, time, queue, others, failures, At, Requeue, Fault
<1>j. /\ job' \in [Stamps -> Known \cup {"none"}] /\ stalled' \subseteq Stamps
      /\ \A k \in Stamps : \/ job'[k] = job[k]
                           \/ /\ call[w].mine /\ k = call[w].k
                              /\ job[k] = "active" /\ job'[k] \in {"waiting", "failed"}
  <2>1. job \in [Stamps -> Known \cup {"none"}] /\ stalled \subseteq Stamps
    BY DEF IInv, Types
  <2>2. CASE call[w].mine
    <3>1. call[w].k \in Stamps /\ job[call[w].k] = "active"
      BY <2>2 DEF IInv, Queue
    <3>2. /\ stalled' = stalled \cup {call[w].k}
          /\ job' = [job EXCEPT ![call[w].k] = IF call[w].k \in stalled THEN "failed" ELSE "waiting"]
      BY <2>2 DEF Crash, Requeue
    <3> QED
      BY <2>1, <2>2, <3>1, <3>2 DEF Known, Kept
  <2>3. CASE ~call[w].mine
    BY <2>1, <2>3 DEF Crash
  <2> QED
    BY <2>2, <2>3
<1>d. TimeGoesOn
  BY Bounds, <1>u, <1>j DEF IInv, Types, TimeGoesOn
<1>b. \A v \in Workers : /\ call[v].k \in Nat /\ call[v].stamp \in Nat
                        /\ call[v].k <= last /\ call[v].stamp <= last
  BY CallType
<1>1. Types'
  <2>1. /\ status' \in {"none", "ACTIVE", "CANCELLED", "COMPLETED"} /\ node' \in Nodes \cup {NoNode}
       /\ runAt' \in 0..last'
    BY CrashMoves, <1>d, Bounds, CallType, <1>u, <1>j DEF IInv, Types, Local
  <2>2. flowOn' \in BOOLEAN /\ expired' \in BOOLEAN
    BY <1>u, <1>j DEF IInv, Types
  <2>3. /\ last' \in 0..MaxStamps /\ due' \subseteq 1..last' /\ nodeOf' \in [Stamps -> Nodes \cup {NoNode}]
       /\ ticker' \in 0..last'
    BY CrashMoves, <1>d, Bounds, CallType, <1>u, <1>j DEF IInv, Types, TimeGoesOn
  <2>4. job' \in [Stamps -> Known \cup {"none"}] /\ \A k \in Stamps : job'[k] # "none" => k <= last'
    BY CrashMoves, <1>d, Bounds, CallType, <1>u, <1>j
       DEF IInv, Types, Queue, Local, Enrolled, Known, Kept, Stamps
  <2>5. tries' \in [Stamps -> 0..MaxTries] /\ stalled' \subseteq Stamps
    BY CrashMoves, <1>d, Bounds, CallType, <1>u, <1>j DEF IInv, Types, Queue, Kept, Stamps
  <2>6. lock' \in Workers \cup {Free, Ghost}
    BY CrashMoves, <1>d, Bounds, CallType, <1>u, <1>j DEF IInv, Types
  <2>7. call' \in [Workers -> Call] /\ \A v \in Workers : call'[v].k <= last' /\ call'[v].stamp <= last'
    BY CrashMoves, <1>b, <1>d DEF TimeGoesOn
  <2>8. enroller' \in {"start", "enqueue", "done"} /\ canceller' \in {"idle", "write", "done"}
    BY CrashMoves, <1>d, Bounds, CallType, <1>u, <1>j DEF IInv, Types
  <2>9. sent' \in [Nodes -> Nat] /\ faults' \in 0..MaxFaults
    BY CrashMoves, <1>d, Bounds, CallType, <1>u, <1>j DEF IInv, Types, Local
  <2> QED
    BY <2>1, <2>2, <2>3, <2>4, <2>5, <2>6, <2>7, <2>8, <2>9 DEF Types
<1>2. Queue'
  <2>1. call[w].mine => tries[call[w].k] < MaxTries
    BY DEF IInv, Queue, Kept
  <2> QED
    BY CrashMoves, CallsQueue, <1>u, <1>j, <2>1
<1>3. Local'
  BY CrashMoves, <1>d, Bounds, CallType, <1>u, <1>j DEF IInv, Types, Local, TimeGoesOn
<1>4. Enrolled'
  BY CrashMoves, <1>d, Bounds, CallType, <1>u, <1>j DEF IInv, Types, Enrolled
<1>5. Exclusive'
  BY CrashMoves, <1>d, Bounds, CallType, <1>u, <1>j DEF IInv, Types, Exclusive
<1>6. Waits'
  BY CrashMoves, <1>u DEF IInv, Waits, Timed, Passed
<1> QED
  BY <1>1, <1>2, <1>3, <1>4, <1>5, <1>6 DEF IInv

LEMMA StallKeeps ==
    ASSUME IInv, NEW w \in Workers, Stall(w)
    PROVE  IInv'
<1>d. TimeGoesOn
  BY Bounds DEF Stall, row, time, queue, others, failures, Requeue, IInv, Types, TimeGoesOn
<1>b. \A v \in Workers : /\ call[v].k \in Nat /\ call[v].stamp \in Nat
                        /\ call[v].k <= last /\ call[v].stamp <= last
  BY CallType
<1>1. Types'
  <2>1. /\ status' \in {"none", "ACTIVE", "CANCELLED", "COMPLETED"} /\ node' \in Nodes \cup {NoNode}
       /\ runAt' \in 0..last'
    BY StallMoves, <1>d, Bounds, CallType
       DEF Stall, row, time, queue, others, failures, Requeue, IInv, Types, Local
  <2>2. flowOn' \in BOOLEAN /\ expired' \in BOOLEAN
    BY <1>d DEF Stall, row, time, queue, others, failures, Requeue, IInv, Types
  <2>3. /\ last' \in 0..MaxStamps /\ due' \subseteq 1..last' /\ nodeOf' \in [Stamps -> Nodes \cup {NoNode}]
       /\ ticker' \in 0..last'
    BY StallMoves, <1>d, Bounds, CallType
       DEF Stall, row, time, queue, others, failures, Requeue, IInv, Types, TimeGoesOn
  <2>4. job' \in [Stamps -> Known \cup {"none"}] /\ \A k \in Stamps : job'[k] # "none" => k <= last'
    BY StallMoves, <1>d, Bounds, CallType
       DEF Stall, row, time, queue, others, failures, Requeue, IInv, Types, Queue, Local,
           Enrolled, Known, Kept, Stamps
  <2>5. tries' \in [Stamps -> 0..MaxTries] /\ stalled' \subseteq Stamps
    BY StallMoves, <1>d, Bounds, CallType
       DEF Stall, row, time, queue, others, failures, Requeue, IInv, Types, Queue, Kept,
           Stamps
  <2>6. lock' \in Workers \cup {Free, Ghost}
    BY StallMoves, <1>d, Bounds, CallType
       DEF Stall, row, time, queue, others, failures, Requeue, IInv, Types
  <2>7. call' \in [Workers -> Call] /\ \A v \in Workers : call'[v].k <= last' /\ call'[v].stamp <= last'
    BY StallMoves, <1>b, <1>d DEF TimeGoesOn
  <2>8. enroller' \in {"start", "enqueue", "done"} /\ canceller' \in {"idle", "write", "done"}
    BY StallMoves, <1>d, Bounds, CallType
       DEF Stall, row, time, queue, others, failures, Requeue, IInv, Types
  <2>9. sent' \in [Nodes -> Nat] /\ faults' \in 0..MaxFaults
    BY StallMoves, <1>d, Bounds, CallType
       DEF Stall, row, time, queue, others, failures, Requeue, IInv, Types, Local
  <2> QED
    BY <2>1, <2>2, <2>3, <2>4, <2>5, <2>6, <2>7, <2>8, <2>9 DEF Types
<1>2. Queue'
  BY StallMoves, <1>d, Bounds, CallType
     DEF Stall, row, time, queue, others, failures, Requeue, IInv, Types, Queue, Stamps, Kept
<1>3. Local'
  BY StallMoves, <1>d, Bounds, CallType
     DEF Stall, row, time, queue, others, failures, Requeue, IInv, Types, Local, TimeGoesOn
<1>4. Enrolled'
  BY StallMoves, <1>d, Bounds, CallType
     DEF Stall, row, time, queue, others, failures, Requeue, IInv, Types, Enrolled
<1>5. Exclusive'
  BY StallMoves, <1>d, Bounds, CallType
     DEF Stall, row, time, queue, others, failures, Requeue, IInv, Types, Exclusive
<1>6. Waits'
  BY StallMoves, <1>d, Bounds, CallType
     DEF Stall, row, time, queue, others, failures, Requeue, IInv, Types, Exclusive, Waits,
         Local, Timed, Passed, TimeGoesOn
<1> QED
  BY <1>1, <1>2, <1>3, <1>4, <1>5, <1>6 DEF IInv


LEMMA Stutters ==
    ASSUME IInv, UNCHANGED vars
    PROVE  IInv'
<1>1. Types'
  <2>1. expired' \in BOOLEAN /\ flowOn' \in BOOLEAN
    BY DEF vars, failures, others, IInv, Types
  <2> QED
    BY <2>1 DEF vars, row, time, queue, others, failures, IInv, Types
<1>2. Queue' /\ Local' /\ Enrolled'
  BY DEF vars, row, time, queue, others, failures, IInv, Queue, Local, Enrolled
<1>3. Exclusive' /\ Waits'
  BY DEF vars, row, time, queue, others, failures, IInv, Exclusive, Waits, Timed, Passed
<1> QED
  BY <1>1, <1>2, <1>3 DEF IInv

LEMMA NextKeeps ==
    ASSUME IInv, [Next]_vars
    PROVE  IInv'
<1>1. ASSUME NEW w \in Workers, Take(w) \/ Fail(w)
      PROVE  IInv'
  BY <1>1, TakeKeeps, ReleaseFailsKeeps, ThrowKeeps, StallKeeps, CrashKeeps DEF Fail
<1>2. ASSUME NEW w \in Workers, Serve(w)
      PROVE  IInv'
  BY <1>2, AcquireLockKeeps, LockHeldKeeps, ReadKeeps, DisableKeeps, PostponeKeeps, ExecuteKeeps,
     CompleteKeeps, AdvanceKeeps, CheckKeeps, GuardKeeps, MarkWaitingKeeps,
     EnqueueEnrollmentKeeps, ReleaseKeeps
     DEF Serve
<1>3. CASE CreateEnrollment \/ EnqueueFirst \/ EnqueueLost
  BY <1>3, CreateEnrollmentKeeps, EnqueueFirstKeeps, EnqueueLostKeeps
<1>4. CASE LockExpires \/ Evict \/ Elapse \/ TickRead \/ TickEnqueue
  BY <1>4, LockExpiresKeeps, EvictKeeps, ElapseKeeps, TickReadKeeps, TickEnqueueKeeps
<1>5. CASE CancelRead \/ CancelWrite \/ SwitchFlow
  BY <1>5, CancelReadKeeps, CancelWriteKeeps, SwitchFlowKeeps
<1>6. CASE Rest \/ UNCHANGED vars
  BY <1>6, Stutters DEF Rest
<1> QED
  BY <1>1, <1>2, <1>3, <1>4, <1>5, <1>6 DEF Next

LEMMA InitHolds == Init => IInv
<1> SUFFICES ASSUME Init PROVE IInv
  OBVIOUS
<1>1. call \in [Workers -> Call] /\ \A w \in Workers : call[w] = NoCall
  BY NoCallType DEF Init
<1>2. Types
  <2>1. flowOn \in BOOLEAN /\ expired \in BOOLEAN
    BY DEF Init
  <2>2. /\ job \in [Stamps -> Known \cup {"none"}] /\ tries \in [Stamps -> 0..MaxTries]
        /\ \A k \in Stamps : job[k] = "none"
    BY Bounds DEF Init
  <2>3. last \in 0..MaxStamps /\ faults \in 0..MaxFaults /\ due \subseteq 1..last /\ runAt \in 0..last
        /\ ticker \in 0..last /\ last = 0
    BY Bounds DEF Init
  <2>4. \A w \in Workers : call[w].k <= last /\ call[w].stamp <= last
    BY <1>1, <2>3, NoCallType
  <2> QED
    BY <1>1, <2>1, <2>2, <2>3, <2>4 DEF Init, Types
<1>3. Queue
  BY <1>1, NoCallType, Bounds DEF Init, Queue
<1>4. Local /\ Enrolled
  BY <1>1, NoCallType, Bounds DEF Init, Local, Enrolled
<1>5. Exclusive /\ Waits
  BY <1>1, NoCallType DEF Init, Exclusive, Waits
<1> QED
  BY <1>2, <1>3, <1>4, <1>5 DEF IInv

LEMMA Invariance == Spec => []IInv
BY InitHolds, NextKeeps, PTL DEF Spec

\* Every variable keeps its type: no stamp is used before it was drawn, and no job is
\* tried more often than the queue is configured to.
THEOREM TypeCorrect == Spec => []TypeOK
<1>1. IInv => TypeOK
  <2> SUFFICES ASSUME IInv PROVE TypeOK
    OBVIOUS
  <2>1. flowOn \in BOOLEAN /\ expired \in BOOLEAN
    BY DEF IInv, Types
  <2>2. ASSUME NEW w \in Workers PROVE call[w] \in Locals
    <3>1. last \in Nat
      BY Bounds DEF IInv, Types
    <3>2. call[w] = [pc |-> call[w].pc, k |-> call[w].k, mine |-> call[w].mine, n |-> call[w].n,
                     steps |-> call[w].steps, stamp |-> call[w].stamp]
      BY CallType DEF Call
    <3>3. call[w].k \in 0..last /\ call[w].stamp \in 0..last
      BY <3>1, CallType
    <3> QED
      BY <3>2, <3>3, CallType DEF Locals, Pcs
  <2>3. call \in [Workers -> Locals]
    BY <2>2, CallsType
  <2> QED
    BY <2>1, <2>3 DEF IInv, Types, TypeOK
<1> QED
  BY Invariance, <1>1, PTL
-----------------------------------------------------------------------------
(* Waits, and what is over *)

LEMMA OnlyExecution ==
    ASSUME [Next]_vars, \A w \in Workers : ~Execute(w)
    PROVE  sent' = sent
<1>1. ASSUME NEW w \in Workers, Take(w) \/ Fail(w)
      PROVE  sent' = sent
  BY <1>1 DEF Take, Fail, ReleaseFails, Throw, Stall, Crash
<1>2. ASSUME NEW w \in Workers, Serve(w)
      PROVE  sent' = sent
  BY <1>2
     DEF Serve, AcquireLock, LockHeld, Read, Disable, Postpone, Complete, Advance, Check,
         Guard,
              MarkWaiting, EnqueueEnrollment, Release
<1>3. CASE CreateEnrollment \/ EnqueueFirst \/ EnqueueLost
  BY <1>3 DEF CreateEnrollment, EnqueueFirst, EnqueueLost
<1>4. CASE LockExpires \/ Evict \/ Elapse \/ TickRead \/ TickEnqueue
  BY <1>4 DEF LockExpires, Evict, Elapse, TickRead, TickEnqueue
<1>5. CASE CancelRead \/ CancelWrite \/ SwitchFlow \/ Rest \/ UNCHANGED vars
  BY <1>5 DEF CancelRead, CancelWrite, SwitchFlow, Rest, vars
<1> QED
  BY <1>1, <1>2, <1>3, <1>4, <1>5 DEF Next

\* A delay is executed only when a time drawn for it has come, whatever jobs there are,
\* as long as no lock expired under its holder (processEnrollment).
THEOREM DelaysWaitedFor == Spec => DelayHonoured
<1>1. ASSUME IInv, [Next]_vars, NEW d \in Delays, sent'[d] # sent[d], ~expired
      PROVE  \E k \in due : nodeOf[k] = d
  <2>1. PICK w \in Workers : Execute(w)
    BY <1>1, OnlyExecution
  <2>2. call[w].pc = "visit" /\ sent' = [sent EXCEPT ![call[w].n] = @ + 1]
    BY <2>1 DEF Execute, At
  <2>3. sent \in [Nodes -> Nat] /\ d \in Nodes
    BY <1>1, Bounds DEF IInv, Types
  <2>4. call[w].n = d
    BY <1>1, <2>2, <2>3
  <2> QED
    BY <1>1, <2>2, <2>4 DEF IInv, Waits, Passed
<1>2. IInv /\ [Next]_vars => [\A d \in Delays : sent'[d] # sent[d] /\ ~expired =>
                                 \E k \in due : nodeOf[k] = d]_vars
  BY <1>1
<1> QED
  BY Invariance, <1>2, PTL DEF Spec, DelayHonoured

LEMMA QuietStays ==
    ASSUME IInv, [Next]_vars, Quiet
    PROVE  Quiet'
<1>1. ASSUME NEW w \in Workers, \A v \in Workers : v # w => call'[v] = call[v],
             call'[w].pc \in {"idle", "lock", "read", "release"}, status' = status
      PROVE  Quiet'
  BY <1>1 DEF Quiet, Inside
<1>2. ASSUME NEW w \in Workers, Take(w) \/ AcquireLock(w) \/ LockHeld(w) \/ Release(w) \/ Throw(w)
                                \/ ReleaseFails(w) \/ Crash(w)
      PROVE  Quiet'
  <2>1. status' = status
    BY <1>2 DEF Take, AcquireLock, LockHeld, Release, Throw, ReleaseFails, Crash, row
  <2> QED
    BY <1>1, <1>2, <2>1, TakeMoves, AcquireLockMoves, LockHeldMoves, ReleaseMoves, ThrowMoves,
       ReleaseFailsMoves, CrashMoves
<1>3. ASSUME NEW w \in Workers, Read(w)
      PROVE  Quiet'
  <2>1. status' = status
    BY <1>3 DEF Read, row
  <2>2. call'[w].pc = "release"
    BY <1>3, ReadMoves DEF Quiet
  <2> QED
    BY <1>1, <1>3, <2>1, <2>2, ReadMoves
<1>4. ASSUME NEW w \in Workers, Stall(w)
      PROVE  Quiet'
  <2>1. status' = status
    BY <1>4 DEF Stall, row
  <2>2. call[w].pc \in {"idle", "lock", "read", "release"}
    BY CallType DEF Quiet, Inside
  <2> QED
    BY <1>1, <1>4, <2>1, <2>2, StallMoves
<1>5. ASSUME NEW w \in Workers, Serve(w)
      PROVE  Quiet'
  <2>1. ~Inside(w)
    BY DEF Quiet
  <2>2. AcquireLock(w) \/ LockHeld(w) \/ Read(w) \/ Release(w)
    BY <1>5, <2>1
       DEF Serve, Disable, Postpone, Execute, Complete, Advance, Check, Guard, MarkWaiting,
                      EnqueueEnrollment, At, Inside
  <2> QED
    BY <1>2, <1>3, <2>2
<1>6. ASSUME call' = call, status' \in {"CANCELLED", "COMPLETED"}
      PROVE  Quiet'
  BY <1>6 DEF Quiet, Inside
<1>7. CASE EnqueueFirst \/ EnqueueLost \/ LockExpires \/ Evict \/ Elapse
  BY <1>6, <1>7 DEF EnqueueFirst, EnqueueLost, LockExpires, Evict, Elapse, row, Quiet
<1>8. CASE TickRead \/ TickEnqueue \/ CancelRead \/ CancelWrite \/ SwitchFlow
  BY <1>6, <1>8 DEF TickRead, TickEnqueue, CancelRead, CancelWrite, SwitchFlow, row, Quiet
<1>9. CASE Rest \/ UNCHANGED vars
  BY <1>6, <1>9 DEF Rest, vars, row, Quiet
<1>10. ~CreateEnrollment
  BY DEF CreateEnrollment, IInv, Enrolled, Quiet
<1> QED
  BY <1>2, <1>3, <1>4, <1>5, <1>7, <1>8, <1>9, <1>10 DEF Next, Fail

\* Once the enrollment is over and no call is past its read of the row, nothing is
\* executed any more (processEnrollment looks at the status).
THEOREM OverStaysOver == Spec => OverIsOver
<1>1. ASSUME IInv, [Next]_vars, Quiet
      PROVE  Quiet' /\ sent' = sent
  <2>1. \A w \in Workers : ~Execute(w)
    BY <1>1 DEF Quiet, Inside, Execute, At
  <2> QED
    BY <1>1, <2>1, OnlyExecution, QuietStays
<1> QED
  BY Invariance, <1>1, PTL DEF Spec, OverIsOver
-----------------------------------------------------------------------------
(* Nothing is passed over *)

AtNode == {"visit", "advance", "check", "guard", "mark"}

LEMMA ReachingNext ==
    ASSUME IInv, Reaching, [Next]_vars, "edit" \notin Env
    PROVE  Reaching'
<1>1. ASSUME NEW w \in Workers, \A v \in Workers : v # w => call'[v] = call[v],
             call'[w].pc \in AtNode => call[w].pc \in AtNode /\ call'[w].n = call[w].n,
             call'[w].pc = "advance" => call[w].pc = "advance",
             node' \in {node, NoNode}, sent' = sent, status' \in {status, "CANCELLED"}
      PROVE  Reaching'
  BY <1>1 DEF Reaching, Reached, AtNode
<1>2. ASSUME NEW w \in Workers, Take(w) \/ AcquireLock(w) \/ LockHeld(w) \/ Release(w)
                                \/ ReleaseFails(w) \/ Throw(w) \/ Crash(w)
      PROVE  Reaching'
  <2>1. status' = status /\ node' = node /\ sent' = sent
    BY <1>2 DEF Take, AcquireLock, LockHeld, Release, Throw, ReleaseFails, Crash, row
  <2>2. call'[w].pc \notin AtNode
    BY <1>2, TakeMoves, AcquireLockMoves, LockHeldMoves, ReleaseMoves, ThrowMoves, ReleaseFailsMoves,
       CrashMoves DEF AtNode
  <2>3. \A v \in Workers : v # w => call'[v] = call[v]
    BY <1>2, TakeMoves, AcquireLockMoves, LockHeldMoves, ReleaseMoves, ThrowMoves, ReleaseFailsMoves,
       CrashMoves
  <2> QED
    BY <1>1, <2>1, <2>2, <2>3 DEF AtNode
<1>3. ASSUME NEW w \in Workers, Stall(w) \/ Check(w) \/ Guard(w) \/ MarkWaiting(w) \/ EnqueueEnrollment(w)
                                \/ Disable(w)
      PROVE  Reaching'
  <2>1. status' \in {status, "CANCELLED"} /\ node' \in {node, NoNode} /\ sent' = sent
    BY <1>3 DEF Stall, Check, Guard, MarkWaiting, EnqueueEnrollment, Disable, row
  <2>2. /\ call'[w].pc \in AtNode => call[w].pc \in AtNode /\ call'[w].n = call[w].n
        /\ call'[w].pc = "advance" => call[w].pc = "advance"
        /\ \A v \in Workers : v # w => call'[v] = call[v]
    <3>1. CASE Stall(w)
      BY <3>1, StallMoves
    <3>2. CASE Check(w)
      BY <3>2, CheckMoves DEF Check, At, AtNode
    <3>3. CASE Guard(w)
      BY <3>3, GuardMoves DEF Guard, At, AtNode
    <3>4. CASE MarkWaiting(w) \/ EnqueueEnrollment(w) \/ Disable(w)
      BY <3>4, MarkWaitingMoves, EnqueueEnrollmentMoves, DisableMoves DEF AtNode
    <3> QED
      BY <1>3, <3>1, <3>2, <3>3, <3>4
  <2> QED
    BY <1>1, <2>1, <2>2
<1>4. ASSUME NEW w \in Workers, Read(w)
      PROVE  Reaching'
  <2>1. status' = status /\ node' = node /\ sent' = sent
    BY <1>4 DEF Read, row
  <2> QED
    BY <1>4, <2>1, ReadMoves DEF Reaching, Reached
<1>5. ASSUME NEW w \in Workers, Postpone(w)
      PROVE  Reaching'
  <2>1. status' = status /\ node' = call[w].n /\ sent' = sent /\ call[w].pc = "visit"
    BY <1>5 DEF Postpone, At
  <2> QED
    BY <1>5, <2>1, PostponeMoves DEF Reaching, Reached
<1>6. ASSUME NEW w \in Workers, Execute(w)
      PROVE  Reaching'
  <2>1. /\ status' = status /\ node' = node /\ call[w].pc = "visit"
        /\ sent' = [sent EXCEPT ![call[w].n] = @ + 1]
    BY <1>6 DEF Execute, row, At
  <2>2. sent \in [Nodes -> Nat] /\ call[w].n \in Nodes
    BY <2>1 DEF IInv, Types, Local
  <2>3. /\ \A n \in Nodes : sent[n] > 0 => sent'[n] > 0
        /\ \A n \in Nodes : sent'[n] > 0 => sent[n] > 0 \/ n = call[w].n
        /\ sent'[call[w].n] > 0
    BY <2>1, <2>2
  <2>4. \A n : Reached(n) => Reached(n)'
    BY <2>3 DEF Reached
  <2>5. Reached(call[w].n)
    BY <2>1 DEF Reaching
  <2>6. \A v \in Workers : v # w /\ call[v].pc = "advance" => sent'[call[v].n] > 0
    BY <2>3 DEF Reaching, IInv, Local
  <2> QED
    BY <1>6, <2>1, <2>3, <2>4, <2>5, <2>6, ExecuteMoves DEF Reaching
<1>7. ASSUME NEW w \in Workers, Complete(w)
      PROVE  Reaching'
  <2>1. /\ node' = NoNode /\ sent' = sent
        /\ call[w].pc = "advance" /\ End \in Successors[call[w].n]
    BY <1>7 DEF Complete, At
  <2>2. call[w].n \in Nodes /\ sent[call[w].n] > 0
    BY <2>1 DEF IInv, Local, Reaching
  <2> QED
    BY <1>7, <2>1, <2>2, CompleteMoves DEF Reaching, Reached
<1>8. ASSUME NEW w \in Workers, Advance(w)
      PROVE  Reaching'
  <2>1. PICK n \in Successors[call[w].n] \ {End} :
          /\ At(w, "advance") /\ node' = n
          /\ call' = [call EXCEPT ![w] = [@ EXCEPT !.pc = "check", !.n = n, !.stamp = last + 1]]
          /\ status' = status /\ sent' = sent
    BY <1>8 DEF Advance
  <2>2. call'[w].n = n
    BY <2>1, CallsType, CallType DEF Call
  <2>3. call[w].n \in Nodes /\ sent[call[w].n] > 0
    BY <2>1 DEF IInv, Local, Reaching, At
  <2>4. Reached(n)
    BY <2>1, <2>3 DEF Reached
  <2> QED
    BY <1>8, <2>1, <2>2, <2>4, AdvanceMoves DEF Reaching, Reached
<1>9. ASSUME call' = call, sent' = sent, status' \in {status, "CANCELLED"}, node' = node
      PROVE  Reaching'
  BY <1>9 DEF Reaching, Reached
<1>10. CASE EnqueueFirst \/ EnqueueLost \/ LockExpires \/ Evict \/ Elapse
  BY <1>9, <1>10 DEF EnqueueFirst, EnqueueLost, LockExpires, Evict, Elapse, row
<1>11. CASE TickRead \/ TickEnqueue \/ CancelRead \/ CancelWrite \/ SwitchFlow
  BY <1>9, <1>11 DEF TickRead, TickEnqueue, CancelRead, CancelWrite, SwitchFlow, row
<1>12. CASE Rest \/ UNCHANGED vars
  BY <1>9, <1>12 DEF Rest, vars, row
<1>13. CASE CreateEnrollment
  <2>1. node' = Trigger /\ status' = "ACTIVE" /\ call' = call /\ sent' = sent
    BY <1>13 DEF CreateEnrollment
  <2> QED
    BY <2>1 DEF Reaching, Reached
<1> QED
  BY <1>2, <1>3, <1>4, <1>5, <1>6, <1>7, <1>8, <1>10, <1>11, <1>12, <1>13 DEF Next, Serve, Fail

\* Whatever fails, an executed node was reached from an executed one, and an enrollment
\* is completed only behind an executed node without successor, unless nodes are removed
\* from the flow (processEnrollment, updateProgress).
THEOREM NothingPassedOver == ASSUME "edit" \notin Env PROVE Spec => []NothingSkipped
<1>1. Init => Reaching
  <2> SUFFICES ASSUME Init PROVE Reaching
    OBVIOUS
  <2>1. \A w \in Workers : call[w] = NoCall
    BY DEF Init
  <2> QED
    BY <2>1, NoCallType DEF Init, Reaching
<1>2. IInv /\ Reaching /\ [Next]_vars => Reaching'
  BY ReachingNext
<1>3. Reaching => NothingSkipped
  BY DEF Reaching, Reached, NothingSkipped
<1> QED
  BY Invariance, <1>1, <1>2, <1>3, PTL DEF Spec
-----------------------------------------------------------------------------
(* Repetitions *)

LEMMA CountedNext ==
    ASSUME NEW rank, Ranks(rank), IInv, Counted(rank), [Next]_vars
    PROVE  Counted(rank)'
<1>a. sent \in [Nodes -> Nat] /\ faults \in Nat /\ rank \in [Nodes -> Nat]
  BY Bounds DEF IInv, Types, Ranks
\* A step that executes nothing and leaves the row where it is.
<1>1. ASSUME NEW w \in Workers, \A v \in Workers : v # w => call'[v] = call[v],
             ~expired => node' \in {node, NoNode}, ~expired' => ~expired, sent' = sent,
             faults' \in Nat, faults' >= faults,
             call[w].pc = "advance" => \/ call'[w].pc = "advance" /\ call'[w].n = call[w].n
                                       \/ node' = NoNode \/ faults' = faults + 1
      PROVE  Counted(rank)'
  <2>1. ASSUME ~expired', NEW n \in Nodes
        PROVE  sent'[n] <= faults' \/ (sent'[n] <= faults' + 1 /\ Through(rank, n)')
    <3>1. sent[n] \in Nat /\ sent'[n] = sent[n]
      BY <1>a, <1>1
    <3>2. sent[n] <= faults \/ (sent[n] <= faults + 1 /\ Through(rank, n))
      BY <1>1, <2>1 DEF Counted
    <3>3. CASE sent[n] <= faults \/ faults' = faults + 1
      BY <1>a, <1>1, <3>1, <3>2, <3>3
    <3>4. CASE sent[n] <= faults + 1 /\ Through(rank, n) /\ faults' # faults + 1
      <4>1. node' = node \/ node' = NoNode
        BY <1>1, <2>1
      <4>2. Through(rank, n)'
        BY <1>1, <3>4, <4>1 DEF Through
      <4> QED
        BY <1>a, <1>1, <3>1, <3>4, <4>2
    <3> QED
      BY <3>2, <3>3, <3>4
  <2> QED
    BY <2>1 DEF Counted
<1>2. ASSUME NEW w \in Workers, Take(w) \/ AcquireLock(w) \/ LockHeld(w) \/ Release(w) \/ Read(w) \/ Check(w)
                                \/ MarkWaiting(w) \/ EnqueueEnrollment(w) \/ Guard(w) \/ Stall(w)
      PROVE  Counted(rank)'
  <2>1. node' = node /\ sent' = sent /\ faults' = faults
    BY <1>2
       DEF Take, AcquireLock, LockHeld, Release, Read, Check, MarkWaiting, EnqueueEnrollment,
           Guard,
                Stall, row, failures
  <2>2. expired' = expired
    BY <1>2
       DEF Take, AcquireLock, LockHeld, Release, Read, Check, MarkWaiting, EnqueueEnrollment,
           Guard,
                Stall, failures
  <2>3. ~Stall(w) => call[w].pc # "advance"
    BY <1>2
       DEF Take, AcquireLock, LockHeld, Release, Read, Check, MarkWaiting, EnqueueEnrollment,
           Guard, At
  <2>4. Stall(w) => call'[w].pc = call[w].pc /\ call'[w].n = call[w].n
    BY StallMoves
  <2>5. \A v \in Workers : v # w => call'[v] = call[v]
    BY <1>2, TakeMoves, AcquireLockMoves, LockHeldMoves, ReleaseMoves, ReadMoves, CheckMoves,
       MarkWaitingMoves, EnqueueEnrollmentMoves, GuardMoves, StallMoves
  <2> QED
    BY <1>1, <1>a, <2>1, <2>2, <2>3, <2>4, <2>5
<1>3. ASSUME NEW w \in Workers, Throw(w) \/ Crash(w) \/ ReleaseFails(w)
      PROVE  Counted(rank)'
  <2>1. node' = node /\ sent' = sent /\ faults' = faults + 1
    BY <1>3 DEF Throw, Crash, ReleaseFails, Fault, row
  <2>2. expired' = expired
    BY <1>3 DEF Throw, Crash, ReleaseFails
  <2>3. \A v \in Workers : v # w => call'[v] = call[v]
    BY <1>3, ThrowMoves, CrashMoves, ReleaseFailsMoves
  <2> QED
    BY <1>1, <1>a, <2>1, <2>2, <2>3
<1>4. ASSUME NEW w \in Workers, Complete(w) \/ Disable(w)
      PROVE  Counted(rank)'
  <2>1. node' = NoNode /\ sent' = sent /\ faults' = faults
    BY <1>4 DEF Complete, Disable, failures
  <2>2. expired' = expired
    BY <1>4 DEF Complete, Disable, failures
  <2>3. \A v \in Workers : v # w => call'[v] = call[v]
    BY <1>4, CompleteMoves, DisableMoves
  <2> QED
    BY <1>1, <1>a, <2>1, <2>2, <2>3
<1>5. ASSUME NEW w \in Workers, Postpone(w)
      PROVE  Counted(rank)'
  <2>1. node' = call[w].n /\ sent' = sent /\ faults' = faults /\ call[w].pc = "visit"
    BY <1>5 DEF Postpone, At, failures
  <2>2. expired' = expired
    BY <1>5 DEF Postpone, failures
  <2>3. ~expired => node' = node
    BY <2>1 DEF IInv, Waits
  <2>4. \A v \in Workers : v # w => call'[v] = call[v]
    BY <1>5, PostponeMoves
  <2> QED
    BY <1>1, <1>a, <2>1, <2>2, <2>3, <2>4
<1>6. ASSUME NEW w \in Workers, Execute(w)
      PROVE  Counted(rank)'
  <2>1. /\ node' = node /\ call[w].pc = "visit" /\ faults' = faults
        /\ sent' = [sent EXCEPT ![call[w].n] = @ + 1]
    BY <1>6 DEF Execute, row, At, failures
  <2>2. expired' = expired
    BY <1>6 DEF Execute, failures
  <2>3. call[w].n \in Nodes
    BY <2>1 DEF IInv, Local
  <2>4. ASSUME ~expired', NEW n \in Nodes
        PROVE  sent'[n] <= faults' \/ (sent'[n] <= faults' + 1 /\ Through(rank, n)')
    <3>1. sent[n] \in Nat /\ (sent[n] <= faults \/ (sent[n] <= faults + 1 /\ Through(rank, n)))
      BY <1>a, <2>2, <2>4 DEF Counted
    <3>2. CASE n = call[w].n
      <4>1. node = n /\ \A v \in Workers : call[v].pc = "advance" => v = w
        BY <2>1, <2>2, <2>4, <3>2 DEF IInv, Waits, Exclusive
      <4>2. ~Through(rank, n)
        BY <1>a, <2>1, <4>1, Bounds DEF Through
      <4>3. Through(rank, n)'
        BY <1>6, <3>2, ExecuteMoves DEF Through
      <4> QED
        BY <1>a, <2>1, <2>3, <3>1, <3>2, <4>2, <4>3
    <3>3. CASE n # call[w].n
      <4>1. sent'[n] = sent[n]
        BY <1>a, <2>1, <3>3
      <4>2. Through(rank, n) => Through(rank, n)'
        BY <1>6, <2>1, ExecuteMoves DEF Through
      <4> QED
        BY <2>1, <3>1, <4>1, <4>2
    <3> QED
      BY <3>2, <3>3
  <2> QED
    BY <2>4 DEF Counted
<1>7. ASSUME NEW w \in Workers, Advance(w)
      PROVE  Counted(rank)'
  <2>1. PICK m \in Successors[call[w].n] \ {End} :
          /\ At(w, "advance") /\ node' = m /\ sent' = sent /\ faults' = faults
    BY <1>7 DEF Advance, failures
  <2>2. expired' = expired
    BY <1>7 DEF Advance, failures
  <2>3. call[w].n \in Nodes /\ m \in Nodes /\ rank[call[w].n] < rank[m]
    BY <2>1, Bounds DEF IInv, Local, Ranks, At
  <2>4. ASSUME ~expired', NEW n \in Nodes, Through(rank, n)
        PROVE  Through(rank, n)'
    <3>1. node = call[w].n /\ \A v \in Workers : call[v].pc = "advance" => v = w
      BY <2>1, <2>2, <2>4 DEF IInv, Waits, Exclusive, At
    <3>2. rank[n] < rank[node] \/ n = call[w].n
      BY <2>3, <2>4, <3>1, Bounds DEF Through
    <3>3. rank[n] \in Nat /\ rank[node] \in Nat /\ rank[m] \in Nat
      BY <1>a, <2>3, <3>1
    <3>4. rank[n] < rank[m]
      BY <2>3, <3>1, <3>2, <3>3
    <3> QED
      BY <2>1, <3>4 DEF Through
  <2> QED
    BY <2>1, <2>2, <2>4 DEF Counted
<1>8. ASSUME call' = call, sent' = sent, node' = node, faults' = faults, ~expired' => ~expired
      PROVE  Counted(rank)'
  BY <1>8 DEF Counted, Through
<1>9. CASE EnqueueFirst \/ EnqueueLost \/ Evict \/ Elapse
  <2>1. expired' = expired
    BY <1>9 DEF EnqueueFirst, EnqueueLost, Evict, Elapse, failures
  <2> QED
    BY <1>8, <1>9, <2>1 DEF EnqueueFirst, EnqueueLost, Evict, Elapse, row, failures
<1>10. CASE TickRead \/ TickEnqueue \/ CancelRead \/ CancelWrite \/ SwitchFlow
  <2>1. expired' = expired
    BY <1>10 DEF TickRead, TickEnqueue, CancelRead, CancelWrite, SwitchFlow, failures
  <2> QED
    BY <1>8, <1>10, <2>1
       DEF TickRead, TickEnqueue, CancelRead, CancelWrite, SwitchFlow, row, failures
<1>11. CASE Rest \/ UNCHANGED vars
  <2>1. expired' = expired
    BY <1>11 DEF Rest, vars, failures
  <2> QED
    BY <1>8, <1>11, <2>1 DEF Rest, vars, row, failures
<1>12. CASE LockExpires
  <2>1. CASE UNCHANGED failures
    <3>1. expired' = expired
      BY <2>1 DEF failures
    <3> QED
      BY <1>8, <1>12, <2>1, <3>1 DEF LockExpires, row, failures
  <2>2. CASE expired'
    BY <2>2 DEF Counted
  <2> QED
    BY <1>12, <2>1, <2>2 DEF LockExpires
<1>13. CASE CreateEnrollment
  <2>1. sent' = sent /\ faults' = faults /\ enroller = "start"
    BY <1>13 DEF CreateEnrollment, failures
  <2>2. \A n \in Nodes : sent[n] = 0
    BY <2>1 DEF IInv, Enrolled
  <2> QED
    BY <1>a, <2>1, <2>2 DEF Counted
<1> QED
  BY <1>2, <1>3, <1>4, <1>5, <1>6, <1>7, <1>9, <1>10, <1>11, <1>12, <1>13 DEF Next, Serve, Fail

\* In a flow whose nodes can be ranked, that is, one without cycles, a node is executed
\* once, and once more only for a failure each time, as long as no lock expired under its
\* holder (the stable job ids and the lock of processEnrollment).
THEOREM RepeatsOnlyForFaults == ASSUME NEW rank, Ranks(rank) PROVE Spec => []RepeatsAreFaults
<1>1. Init => Counted(rank)
  BY DEF Init, Counted
<1>2. IInv /\ Counted(rank) /\ [Next]_vars => Counted(rank)'
  BY CountedNext
<1>3. IInv /\ Counted(rank) => RepeatsAreFaults
  <2> SUFFICES ASSUME IInv, Counted(rank), ~expired, NEW n \in Nodes PROVE sent[n] <= 1 + faults
    BY DEF RepeatsAreFaults
  <2>1. sent[n] \in Nat /\ faults \in Nat
    BY Bounds DEF IInv, Types
  <2> QED
    BY <2>1 DEF Counted
<1> QED
  BY Invariance, <1>1, <1>2, <1>3, PTL DEF Spec
=============================================================================
