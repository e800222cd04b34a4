---------------------- MODULE ConversionDelivery_proofs ----------------------
(***************************************************************************)
(* Proofs about ConversionDelivery, for any number of requests, passes and *)
(* staff, any limits and any faults: the types, that a conversion recorded *)
(* as sent stays so, that a failed ingestion can be repeated, and that the *)
(* platform takes a conversion twice only when an outcome was lost.        *)
(*                                                                         *)
(* All outcomes are written by id, so SentStays rests on who may work on a *)
(* row: while a row was never written without regard to a claim, at most   *)
(* one request or pass works on it (Exclusive), it is pending and fresh    *)
(* meanwhile, and no pass holds a reading of it under which it could be    *)
(* claimed once more.                                                      *)
(***************************************************************************)
EXTENDS ConversionDelivery, TLAPS

Workers == Requests \cup Passes

\* Where each kind of actor can be, and whose row it works on there.
RequestShape == \A q \in Requests :
    /\ at[q].pc \in {"idle", "over", "declined", "ingest", "undo", "log", "send", "mark"}
    /\ at[q].id \in {"none", q}
    /\ at[q].pc \notin {"send", "mark"} => at[q].id = "none"
    /\ at[q].pc \in {"idle", "declined", "ingest", "undo", "log"} => row[q].status = "none"

PassShape == \A p \in Passes :
    /\ at[p].pc \in {"idle", "next", "send", "finish"}
    /\ at[p].pc \in {"send", "finish"} => at[p].id \in Requests
    /\ at[p].pc \in {"idle", "next"} => at[p].id = "none"
    /\ \A d \in todo[p] : d.status = "FAILED" => d.attempts < MaxAttempts

StaffShape == \A s \in Staff :
    /\ at[s].pc \in {"idle", "set", "send", "mark"}
    /\ at[s].pc # "idle" => at[s].id \in Requests
    /\ at[s].pc = "set" => at[s].attempts + 1 <= Limit + switches
    /\ at[s].pc \in {"send", "mark"} => row[at[s].id].loose

CallShape == \A a \in Actors :
    /\ at[a].pc \in {"mark", "finish"} => at[a].verdict # "none"
    /\ at[a].pc \in {"send", "mark"} => at[a].tries <= MaxTries

\* Nobody knows of a row that was not created yet.
Unknown == \A q \in Requests : row[q].status = "none" =>
    /\ \A a \in Actors : at[a].id # q
    /\ \A p \in Passes : \A d \in todo[p] : d.id # q

\* A row is claimed by one worker at a time.
Alone(q)   == \A a, b \in Workers : at[a].id = q /\ at[b].id = q => a = b
Fresh(q)   == \A a \in Workers : at[a].id = q => row[q].status = "PENDING" /\ ~row[q].stale
Past(q)    == \A p \in Passes : \A d \in todo[p] : d.id = q =>
                 /\ d.attempts <= row[q].attempts
                 /\ Busy(q) => d.status = "FAILED" \/ d.attempts < row[q].attempts
Unread(q)  == at[q].id = q => \A p \in Passes : \A d \in todo[p] : d.id # q
Exclusive  == \A q \in Requests : ~row[q].loose => Alone(q) /\ Fresh(q) /\ Past(q) /\ Unread(q)

Shape == RequestShape /\ PassShape /\ StaffShape /\ CallShape
IInv  == TypeOK /\ Shape /\ Unknown /\ Exclusive

LEMMA LimitType ==
    MaxTries \in Nat /\ 1 <= MaxTries /\ Limit \in Nat /\ MaxTries <= Limit /\ MaxAttempts <= Limit
BY ConstantsAssumption DEF Limit

\* What an actor may become without changing the row it works on.
Proper(a, c) ==
    /\ c.id = at[a].id
    /\ a \in Requests => /\ c.pc \in {"declined", "log", "undo", "send", "mark"}
                         /\ c.pc \in {"declined", "log", "undo"} => c.id = "none" /\ row[a].status = "none"
    /\ a \in Passes   => c.pc \in {"send", "finish"} /\ c.id \in Requests
    /\ a \in Staff    => c.pc \in {"send", "mark"} /\ c.id \in Requests /\ row[c.id].loose
    /\ c.pc \in {"mark", "finish"} => c.verdict # "none"
    /\ c.pc \in {"send", "mark"} => c.tries <= MaxTries

LEMMA MoveKeeps ==
    ASSUME IInv, NEW a \in Actors, NEW c \in Call, Proper(a, c), at' = [at EXCEPT ![a] = c],
           UNCHANGED <<platform, enabled, receipt, lost, row, todo, switches>>,
           accepted' \in Nat, excused' \in Nat, faults' \in Nat
    PROVE  IInv'
<1> USE ConstantsAssumption DEF IInv, Shape, TypeOK, Actors, Workers, Proper
<1>1. TypeOK'
  OBVIOUS
<1>2. RequestShape'
  BY DEF RequestShape, Call
<1>3. PassShape'
  BY DEF PassShape, Call
<1>4. StaffShape'
  BY DEF StaffShape, Call
<1>5. CallShape'
  BY DEF CallShape, Call
<1>6. Unknown'
  BY DEF Unknown, Call
<1>7. Exclusive'
  BY DEF Exclusive, Alone, Fresh, Past, Unread, Busy, Call
<1> QED
  BY <1>1, <1>2, <1>3, <1>4, <1>5, <1>6, <1>7

LEMMA IngestedKeeps ==
    ASSUME IInv, NEW q \in Requests, Ingested(q)
    PROVE  IInv'
<1> DEFINE c == [at[q] EXCEPT !.pc = at'[q].pc]
<1>1. c \in Call /\ at' = [at EXCEPT ![q] = c] /\ c.pc \in {"log", "undo"}
  BY DEF IInv, TypeOK, Ingested, NoFault, Fault, Goes, Actors, Call, Stages
<1>2. Proper(q, c)
  BY <1>1, ConstantsAssumption DEF Proper, IInv, TypeOK, Shape, RequestShape, Ingested, Actors, Call
<1>3. /\ UNCHANGED <<platform, enabled, receipt, lost, row, todo, switches>>
      /\ accepted' \in Nat /\ excused' \in Nat /\ faults' \in Nat
  BY DEF IInv, TypeOK, Ingested, NoFault, Fault
<1> QED
  BY <1>1, <1>2, <1>3, MoveKeeps DEF Actors

LEMMA DeclinesKeeps ==
    ASSUME IInv, NEW q \in Requests, Declines(q)
    PROVE  IInv'
<1> DEFINE c == [at[q] EXCEPT !.pc = "declined"]
<1>1. c \in Call /\ at' = [at EXCEPT ![q] = c] /\ c.pc = "declined"
  BY DEF IInv, TypeOK, Declines, Goes, Actors, Call, Stages
<1>2. Proper(q, c)
  BY <1>1, ConstantsAssumption DEF Proper, IInv, TypeOK, Shape, RequestShape, Declines, Actors, Call
<1>3. /\ UNCHANGED <<platform, enabled, receipt, lost, row, todo, switches>>
      /\ accepted' \in Nat /\ excused' \in Nat /\ faults' \in Nat
  BY DEF IInv, TypeOK, Declines, NoFault
<1> QED
  BY <1>1, <1>2, <1>3, MoveKeeps DEF Actors

\* A request to the platform: the verdict is known, or there is another try.
LEMMA AnsweredMoves ==
    ASSUME IInv, NEW a \in Actors, NEW pc \in {"mark", "finish"}, Answered(a, pc)
    PROVE  /\ at[a].pc = "send" /\ accepted' \in Nat /\ excused' \in Nat /\ faults' \in Nat
           /\ \E c \in Call : /\ at' = [at EXCEPT ![a] = c]
                              /\ c.pc = pc /\ c.id = at[a].id /\ c.tries = at[a].tries
                              /\ c.verdict # "none"
<1>1. PICK v \in Verdicts : /\ at' = [at EXCEPT ![a] = [at[a] EXCEPT !.pc = pc, !.verdict = v]]
                            /\ accepted' = accepted + Count(v = "SENT")
  BY DEF Answered, Verdicts, Refusals
<1> DEFINE c == [at[a] EXCEPT !.pc = pc, !.verdict = v]
<1>2. at[a] \in Call
  BY DEF IInv, TypeOK
<1>3. /\ c \in Call /\ c.pc = pc /\ c.id = at[a].id /\ c.tries = at[a].tries /\ c.verdict # "none"
  BY <1>2 DEF Call, Stages, Verdicts
<1>4. at[a].pc = "send" /\ accepted' \in Nat /\ excused' \in Nat /\ faults' \in Nat
  BY <1>1 DEF Answered, NoFault, Count, IInv, TypeOK
<1> QED
  BY <1>1, <1>3, <1>4

LEMMA SendsKeeps ==
    ASSUME IInv, NEW a \in Requests \cup Staff, Sends(a)
    PROVE  IInv'
<1>1. at[a] \in Call /\ a \in Actors /\ UNCHANGED <<platform, enabled, receipt, lost, row, todo, switches>>
  BY DEF IInv, TypeOK, Actors, Sends
<1>2. \A c \in Call : /\ at[a].pc = "send" /\ c.id = at[a].id /\ c.pc \in {"send", "mark"}
                      /\ c.tries <= MaxTries /\ (c.pc = "mark" => c.verdict # "none")
                      => Proper(a, c)
  BY ConstantsAssumption DEF Proper, IInv, TypeOK, Shape, StaffShape, Actors
<1>3. CASE Answered(a, "mark")
  <2>1. at[a].tries <= MaxTries
    BY <1>1, <1>3, AnsweredMoves DEF IInv, Shape, CallShape
  <2>2. PICK c \in Call : /\ at' = [at EXCEPT ![a] = c] /\ c.pc = "mark" /\ c.id = at[a].id
                          /\ c.tries = at[a].tries /\ c.verdict # "none"
    BY <1>1, <1>3, AnsweredMoves
  <2>3. Proper(a, c)
    BY <1>1, <1>2, <1>3, <2>1, <2>2, AnsweredMoves
  <2> QED
    BY <1>1, <1>3, <2>2, <2>3, AnsweredMoves, MoveKeeps
<1>4. CASE Unanswered(a) /\ at[a].tries < MaxTries /\ at' = [at EXCEPT ![a].tries = @ + 1]
  <2> DEFINE c == [at[a] EXCEPT !.tries = at[a].tries + 1]
  <2>1. c \in Call /\ c.id = at[a].id /\ c.pc = at[a].pc /\ c.tries <= MaxTries
    BY <1>1, <1>4, ConstantsAssumption DEF Call
  <2>2. at[a].pc = "send" /\ accepted' \in Nat /\ excused' \in Nat /\ faults' \in Nat
    BY <1>4 DEF Unanswered, NoFault, Fault, IInv, TypeOK
  <2>3. at' = [at EXCEPT ![a] = c]
    BY <1>1, <1>4 DEF IInv, TypeOK, Call
  <2> QED
    BY <1>1, <1>2, <2>1, <2>2, <2>3, MoveKeeps
<1>5. CASE /\ Unanswered(a)
           /\ at' = [at EXCEPT ![a] = [at[a] EXCEPT !.pc = "mark", !.verdict = "FAILED"]]
  <2> DEFINE c == [at[a] EXCEPT !.pc = "mark", !.verdict = "FAILED"]
  <2>2. at[a].pc = "send" /\ accepted' \in Nat /\ excused' \in Nat /\ faults' \in Nat
    BY <1>5 DEF Unanswered, NoFault, Fault, IInv, TypeOK
  <2>1. c \in Call /\ c.id = at[a].id /\ c.pc = "mark" /\ c.tries <= MaxTries /\ c.verdict # "none"
    BY <1>1, <2>2 DEF Call, Stages, Verdicts, IInv, Shape, CallShape
  <2> QED
    BY <1>1, <1>2, <1>5, <2>1, <2>2, MoveKeeps
<1> QED
  BY <1>3, <1>4, <1>5 DEF Sends

LEMMA PassSendsKeeps ==
    ASSUME IInv, NEW p \in Passes, PassSends(p)
    PROVE  IInv'
<1>1. at[p] \in Call /\ p \in Actors /\ UNCHANGED <<platform, enabled, receipt, lost, row, todo, switches>>
  BY DEF IInv, TypeOK, Actors, PassSends
<1>2. \A c \in Call : /\ at[p].pc = "send" /\ c.id = at[p].id /\ c.pc = "finish" /\ c.verdict # "none"
                      => Proper(p, c)
  BY ConstantsAssumption DEF Proper, IInv, TypeOK, Shape, PassShape, Actors
<1>3. CASE Answered(p, "finish")
  <2>1. PICK c \in Call : /\ at' = [at EXCEPT ![p] = c] /\ c.pc = "finish" /\ c.id = at[p].id
                          /\ c.verdict # "none"
    BY <1>1, <1>3, AnsweredMoves
  <2> QED
    BY <1>1, <1>2, <1>3, <2>1, AnsweredMoves, MoveKeeps
<1>4. CASE /\ Unanswered(p)
           /\ at' = [at EXCEPT ![p] = [at[p] EXCEPT !.pc = "finish", !.tries = 2, !.verdict = "FAILED"]]
  <2> DEFINE c == [at[p] EXCEPT !.pc = "finish", !.tries = 2, !.verdict = "FAILED"]
  <2>1. c \in Call /\ c.id = at[p].id /\ c.pc = "finish" /\ c.verdict # "none"
    <3>1. 2 \in 0..MaxTries + 1
      BY LimitType
    <3> QED
      BY <1>1, <3>1 DEF Call, Stages, Verdicts
  <2>2. at[p].pc = "send" /\ accepted' \in Nat /\ excused' \in Nat /\ faults' \in Nat
    BY <1>4 DEF Unanswered, NoFault, Fault, IInv, TypeOK
  <2> QED
    BY <1>1, <1>2, <1>4, <2>1, <2>2, MoveKeeps
<1> QED
  BY <1>3, <1>4 DEF PassSends

LEMMA IngestsKeeps ==
    ASSUME IInv, NEW q \in Requests, Ingests(q)
    PROVE  IInv'
<1> USE ConstantsAssumption, LimitType DEF IInv, Shape, TypeOK, Actors, Workers, Ingests, Goes
<1>1. TypeOK'
  <2>1. platform' \in {"GOOGLE", "META"} /\ enabled' \in BOOLEAN /\ receipt' \in BOOLEAN /\ lost' \in BOOLEAN
    BY Zenon
  <2>2. row' \in [Requests -> Row]
    BY DEF Row
  <2>3. at' \in [Actors -> Call]
    BY DEF Call, Stages
  <2>4. todo' \in [Passes -> SUBSET Reading]
    BY DEF Reading, Row
  <2>5. accepted' \in Nat /\ excused' \in Nat /\ faults' \in Nat /\ switches' \in Nat
    OBVIOUS
  <2>6. \A x \in Requests : row'[x].attempts <= Limit + switches'
    BY DEF Row
  <2> QED
    BY <2>1, <2>2, <2>3, <2>4, <2>5, <2>6
<1>2. RequestShape'
  BY DEF RequestShape, Call, Row
<1>3. PassShape'
  BY DEF RequestShape, PassShape, Call, Row, Reading
<1>4. StaffShape'
  BY DEF RequestShape, PassShape, StaffShape, Call, Row
<1>5. CallShape'
  BY DEF CallShape, Call, Row
<1>6. Unknown'
  BY DEF Unknown, RequestShape, PassShape, StaffShape, Call, Row, Reading
<1>7. Exclusive'
  BY DEF Exclusive, Alone, Fresh, Past, Unread, Busy, RequestShape, PassShape, StaffShape, Unknown, Call, Row, Reading
<1> QED
  BY <1>1, <1>2, <1>3, <1>4, <1>5, <1>6, <1>7

LEMMA UndoesKeeps ==
    ASSUME IInv, NEW q \in Requests, Undoes(q)
    PROVE  IInv'
<1> USE ConstantsAssumption, LimitType DEF IInv, Shape, TypeOK, Actors, Workers, Undoes, Goes, NoFault, Fault
<1>1. TypeOK'
  <2>1. platform' \in {"GOOGLE", "META"} /\ enabled' \in BOOLEAN /\ receipt' \in BOOLEAN /\ lost' \in BOOLEAN
    BY Zenon
  <2>2. row' \in [Requests -> Row]
    BY DEF Row
  <2>3. at' \in [Actors -> Call]
    BY DEF Call, Stages
  <2>4. todo' \in [Passes -> SUBSET Reading]
    BY DEF Reading, Row
  <2>5. accepted' \in Nat /\ excused' \in Nat /\ faults' \in Nat /\ switches' \in Nat
    OBVIOUS
  <2>6. \A x \in Requests : row'[x].attempts <= Limit + switches'
    BY DEF Row
  <2> QED
    BY <2>1, <2>2, <2>3, <2>4, <2>5, <2>6
<1>2. RequestShape'
  BY DEF RequestShape, Call, Row
<1>3. PassShape'
  BY DEF RequestShape, PassShape, Call, Row, Reading
<1>4. StaffShape'
  BY DEF RequestShape, PassShape, StaffShape, Call, Row
<1>5. CallShape'
  BY DEF CallShape, Call, Row
<1>6. Unknown'
  BY DEF Unknown, RequestShape, PassShape, StaffShape, Call, Row, Reading
<1>7. Exclusive'
  BY DEF Exclusive, Alone, Fresh, Past, Unread, Busy, RequestShape, PassShape, StaffShape, Unknown, Call, Row, Reading
<1> QED
  BY <1>1, <1>2, <1>3, <1>4, <1>5, <1>6, <1>7

LEMMA TokenThrowsKeeps ==
    ASSUME IInv, NEW a \in Requests \cup Staff, TokenThrows(a)
    PROVE  IInv'
<1> USE ConstantsAssumption, LimitType DEF IInv, Shape, TypeOK, Actors, Workers, TokenThrows, Over, Idle
<1>1. TypeOK'
  <2>1. platform' \in {"GOOGLE", "META"} /\ enabled' \in BOOLEAN /\ receipt' \in BOOLEAN /\ lost' \in BOOLEAN
    BY Zenon
  <2>2. row' \in [Requests -> Row]
    BY DEF Row
  <2>3. at' \in [Actors -> Call]
    BY DEF Call, Stages
  <2>4. todo' \in [Passes -> SUBSET Reading]
    BY DEF Reading, Row
  <2>5. accepted' \in Nat /\ excused' \in Nat /\ faults' \in Nat /\ switches' \in Nat
    OBVIOUS
  <2>6. \A x \in Requests : row'[x].attempts <= Limit + switches'
    BY DEF Row
  <2> QED
    BY <2>1, <2>2, <2>3, <2>4, <2>5, <2>6
<1>2. RequestShape'
  BY DEF RequestShape, Call, Row
<1>3. PassShape'
  BY DEF RequestShape, PassShape, Call, Row, Reading
<1>4. StaffShape'
  BY DEF RequestShape, PassShape, StaffShape, Call, Row
<1>5. CallShape'
  BY DEF CallShape, Call, Row
<1>6. Unknown'
  BY DEF Unknown, RequestShape, PassShape, StaffShape, Call, Row, Reading
<1>7. Exclusive'
  BY DEF Exclusive, Alone, Fresh, Past, Unread, Busy, RequestShape, PassShape, StaffShape, Unknown, Call, Row, Reading
<1> QED
  BY <1>1, <1>2, <1>3, <1>4, <1>5, <1>6, <1>7

LEMMA SendingType ==
    ASSUME NEW id \in Requests \cup {"none"}
    PROVE  /\ Sending(id) \in Call /\ Sending(id).pc = "send" /\ Sending(id).tries = 1
           /\ Sending(id).id = id
<1>1. 1 \in 0..MaxTries + 1
  BY LimitType
<1> QED
  BY <1>1 DEF Sending, Call, Stages

LEMMA LogsKeeps ==
    ASSUME IInv, NEW q \in Requests, Logs(q)
    PROVE  IInv'
<1> USE ConstantsAssumption, LimitType DEF IInv, Shape, TypeOK, Actors, Workers
<1>1. PICK c \in Call, r \in Row :
          /\ at' = [at EXCEPT ![q] = c] /\ c.pc = "send" /\ c.tries = 1
          /\ \/ /\ c.id = q /\ row' = [row EXCEPT ![q] = r] /\ r.status = "PENDING"
                /\ r.attempts = 0 /\ r.stale = FALSE /\ r.loose = FALSE
             \/ c.id = "none" /\ row' = row
  <2> DEFINE r == [NoRow EXCEPT !.status = "PENDING"]
  <2>1. \A id \in {"none", q} : /\ Sending(id) \in Call /\ Sending(id).id = id
                                /\ Sending(id).pc = "send" /\ Sending(id).tries = 1
    BY SendingType
  <2>2. r \in Row /\ r.status = "PENDING" /\ r.attempts = 0 /\ r.stale = FALSE /\ r.loose = FALSE
    BY DEF Row, NoRow
  <2>3. \/ row' = [row EXCEPT ![q] = r] /\ at' = [at EXCEPT ![q] = Sending(q)]
        \/ row' = row /\ at' = [at EXCEPT ![q] = Sending("none")]
    BY DEF Logs
  <2>4. CASE row' = [row EXCEPT ![q] = r] /\ at' = [at EXCEPT ![q] = Sending(q)]
    BY <2>1, <2>2, <2>4
  <2>5. CASE row' = row /\ at' = [at EXCEPT ![q] = Sending("none")]
    BY <2>1, <2>2, <2>5
  <2> QED
    BY <2>3, <2>4, <2>5
<1>2. /\ at[q].pc = "log" /\ lost' \in BOOLEAN /\ faults' \in Nat
      /\ UNCHANGED <<platform, enabled, receipt, todo, accepted, excused, switches>>
  <2>1. lost' \in BOOLEAN
    BY Zenon DEF Logs
  <2> QED
    BY <2>1 DEF Logs, NoFault, Fault
<1>3. row[q].status = "none" /\ \A p \in Passes : \A d \in todo[p] : d.id # q
  BY <1>2 DEF RequestShape, Unknown
<1>4. TypeOK'
  <2>1. row' \in [Requests -> Row] /\ at' \in [Actors -> Call]
    BY <1>1
  <2>2. \A x \in Requests : row'[x].attempts <= Limit + switches'
    BY <1>1, <1>2
  <2> QED
    BY <1>2, <2>1, <2>2
<1>5. RequestShape'
  BY <1>1 DEF RequestShape
<1>6. PassShape'
  BY <1>1, <1>2 DEF PassShape
<1>7. StaffShape'
  BY <1>1, <1>2, <1>3 DEF StaffShape, Unknown
<1>8. CallShape'
  BY <1>1 DEF CallShape
<1>9. Unknown'
  BY <1>1, <1>2, <1>3 DEF Unknown
<1>10. Exclusive'
  BY <1>1, <1>2, <1>3 DEF Exclusive, Alone, Fresh, Past, Unread, Busy, Unknown
<1> QED
  BY <1>4, <1>5, <1>6, <1>7, <1>8, <1>9, <1>10

LEMMA MarksKeeps ==
    ASSUME IInv, NEW a \in Requests \cup Staff, Marks(a)
    PROVE  IInv'
<1> USE ConstantsAssumption, LimitType DEF IInv, Shape, TypeOK, Actors, Workers
<1>1. PICK c \in Call : /\ at' = [at EXCEPT ![a] = c] /\ c.id = "none"
                        /\ c.pc = IF a \in Requests THEN "over" ELSE "idle"
  <2>1. at' = [at EXCEPT ![a] = Over(a)]
    BY DEF Marks
  <2>2. /\ Over(a) \in Call /\ Over(a).id = "none"
        /\ Over(a).pc = IF a \in Requests THEN "over" ELSE "idle"
    BY DEF Over, Idle, Call, Stages
  <2> QED
    BY <2>1, <2>2
<1>2. /\ at[a].pc = "mark" /\ excused' \in Nat /\ faults' \in Nat
      /\ UNCHANGED <<platform, enabled, receipt, todo, accepted, lost, switches>>
  BY DEF Marks, NoFault, Fault, Count
<1>3. /\ at[a].verdict \in Verdicts /\ at[a].tries \in Nat /\ at[a].tries <= Limit
      /\ at[a].id \in Requests \cup {"none"}
  BY <1>2 DEF CallShape, Call
<1>4. \/ row' = row
      \/ \E x \in Requests : \E r \in Row :
            /\ x = at[a].id /\ row' = [row EXCEPT ![x] = r]
            /\ r.status \in Verdicts /\ r.attempts = at[a].tries /\ r.loose = row[x].loose
  <2>1. \/ row' = row
        \/ /\ at[a].id # "none"
           /\ row' = [row EXCEPT ![at[a].id] = [row[at[a].id] EXCEPT
                         !.status = at[a].verdict, !.attempts = at[a].tries]]
    BY DEF Marks
  <2>2. ASSUME NEW x \in Requests
        PROVE  LET r == [row[x] EXCEPT !.status = at[a].verdict, !.attempts = at[a].tries]
               IN  /\ r \in Row /\ r.status \in Verdicts
                   /\ r.attempts = at[a].tries /\ r.loose = row[x].loose
    BY <1>3 DEF Row
  <2> QED
    BY <1>3, <2>1, <2>2
<1>5. TypeOK'
  <2>1. row' \in [Requests -> Row] /\ at' \in [Actors -> Call]
    BY <1>1, <1>4
  <2>2. \A x \in Requests : row'[x].attempts <= Limit + switches'
    BY <1>2, <1>3, <1>4 DEF Row
  <2> QED
    BY <1>2, <2>1, <2>2
<1>6. RequestShape'
  BY <1>1, <1>2, <1>3, <1>4 DEF RequestShape, Unknown, Verdicts
<1>7. PassShape'
  BY <1>1, <1>2 DEF PassShape
<1>8. StaffShape'
  BY <1>1, <1>2, <1>4 DEF StaffShape
<1>9. CallShape'
  BY <1>1 DEF CallShape
<1>10. Unknown'
  BY <1>1, <1>2, <1>4 DEF Unknown, Verdicts
<1>11. Exclusive'
  <2> SUFFICES ASSUME NEW q \in Requests, ~row'[q].loose
               PROVE  (Alone(q) /\ Fresh(q) /\ Past(q) /\ Unread(q))'
    BY DEF Exclusive
  <2>1. ~row[q].loose /\ Alone(q) /\ Fresh(q) /\ Past(q) /\ Unread(q)
    BY <1>4 DEF Exclusive
  <2>2. CASE at[a].id = q
    <3>1. a \in Requests /\ a = q
      BY <1>2, <1>3, <2>1, <2>2 DEF StaffShape, RequestShape
    <3>2. /\ \A b \in Workers : at'[b].id # q
          /\ \A p \in Passes : \A d \in todo[p] : d.id # q
      BY <1>1, <2>1, <2>2, <3>1 DEF Alone, Unread
    <3> QED
      BY <1>2, <3>1, <3>2 DEF Alone, Fresh, Past, Unread
  <2>3. CASE at[a].id # q
    <3>1. row'[q] = row[q] /\ \A b \in Workers : at'[b].id = q => at[b].id = q
      BY <1>1, <1>4, <2>3
    <3> QED
      BY <1>2, <2>1, <3>1 DEF Alone, Fresh, Past, Unread, Busy
  <2> QED
    BY <2>2, <2>3
<1> QED
  BY <1>5, <1>6, <1>7, <1>8, <1>9, <1>10, <1>11

LEMMA PassGivesUpKeeps ==
    ASSUME IInv, NEW p \in Passes, NEW d \in todo[p], PassGivesUp(p, d)
    PROVE  IInv'
<1> USE ConstantsAssumption, LimitType DEF IInv, Shape, TypeOK, Actors, Workers
<1>1. d.id \in Requests /\ todo' = [todo EXCEPT ![p] = todo[p] \ {d}]
  BY DEF PassGivesUp, Reading
<1>2. UNCHANGED <<platform, enabled, receipt, at, accepted, excused, lost, faults, switches>>
  BY DEF PassGivesUp
<1>3. PICK r \in Row : /\ row' = [row EXCEPT ![d.id] = r] /\ r.attempts = row[d.id].attempts
                       /\ (r = row[d.id] \/ (row[d.id].status = "PENDING" /\ r.status = "FAILED"))
                       /\ (r = row[d.id] \/ r.loose = (row[d.id].loose \/ Busy(d.id)))
  <2> DEFINE r == [row[d.id] EXCEPT !.status = "FAILED", !.loose = row[d.id].loose \/ Busy(d.id)]
  <2>1. row' = row \/ (row[d.id].status = "PENDING" /\ row' = [row EXCEPT ![d.id] = r])
    BY DEF PassGivesUp
  <2>2. (row[d.id].loose \/ Busy(d.id)) \in BOOLEAN
    BY Zenon
  <2>3. /\ r \in Row /\ r.status = "FAILED" /\ r.attempts = row[d.id].attempts
        /\ r.loose = (row[d.id].loose \/ Busy(d.id))
    BY ZenonT(40), <1>1, <2>2 DEF Row, Verdicts
  <2>4. CASE row' = row
    BY <1>1, <2>4
  <2> QED
    BY <2>1, <2>3, <2>4
<1>4. row[d.id] \in Row
  BY <1>1
<1>5. TypeOK'
  <2>1. row' \in [Requests -> Row] /\ todo' \in [Passes -> SUBSET Reading]
    BY <1>1, <1>3
  <2>2. \A x \in Requests : row'[x].attempts <= Limit + switches'
    BY <1>1, <1>2, <1>3
  <2> QED
    BY <1>2, <2>1, <2>2
<1>6. RequestShape'
  BY <1>1, <1>2, <1>3 DEF RequestShape, Unknown
<1>7. PassShape'
  BY <1>1, <1>2 DEF PassShape
<1>8. StaffShape'
  <2>1. \A x \in Requests : row[x].loose => row'[x].loose
    BY <1>1, <1>3, <1>4 DEF Row
  <2> QED
    BY <1>2, <2>1 DEF StaffShape
<1>9. CallShape'
  BY <1>2 DEF CallShape
<1>10. Unknown'
  BY <1>1, <1>2, <1>3 DEF Unknown
<1>11. Exclusive'
  <2> SUFFICES ASSUME NEW q \in Requests, ~row'[q].loose
               PROVE  (Alone(q) /\ Fresh(q) /\ Past(q) /\ Unread(q))'
    BY DEF Exclusive
  <2>1. ~row[q].loose
    BY <1>1, <1>3, <1>4 DEF Row
  <2>2. Alone(q) /\ Fresh(q) /\ Past(q) /\ Unread(q)
    BY <2>1 DEF Exclusive
  <2>3. row'[q].attempts = row[q].attempts /\ (row'[q] = row[q] \/ ~Busy(q))
    BY <1>1, <1>3, <1>4 DEF Row
  <2>4. Alone(q)' /\ Unread(q)'
    BY <1>1, <1>2, <2>2 DEF Alone, Unread
  <2>5. Fresh(q)'
    BY <1>2, <2>2, <2>3 DEF Fresh, Busy
  <2>6. Past(q)'
    BY <1>1, <1>2, <2>2, <2>3 DEF Past, Busy
  <2> QED
    BY <2>4, <2>5, <2>6
<1> QED
  BY <1>5, <1>6, <1>7, <1>8, <1>9, <1>10, <1>11

LEMMA PassClaimsKeeps ==
    ASSUME IInv, NEW p \in Passes, NEW d \in todo[p], PassClaims(p, d)
    PROVE  IInv'
<1> USE ConstantsAssumption, LimitType DEF IInv, Shape, TypeOK, Actors, Workers
<1>1. /\ d \in Reading /\ d.id \in Requests /\ at[p].pc = "next" /\ at[p].id = "none"
      /\ todo' = [todo EXCEPT ![p] = todo[p] \ {d}]
  BY DEF PassClaims, Reading, PassShape
<1>2. UNCHANGED <<platform, enabled, receipt, accepted, excused, lost, faults, switches>>
  BY DEF PassClaims
<1>3. CASE ~Claimable(d)
  <2>1. row' = row /\ at' = at
    BY <1>3 DEF PassClaims
  <2>2. TypeOK' /\ RequestShape' /\ PassShape' /\ StaffShape' /\ CallShape' /\ Unknown'
    BY <1>1, <1>2, <2>1 DEF RequestShape, PassShape, StaffShape, CallShape, Unknown
  <2>3. Exclusive'
    BY <1>1, <1>2, <2>1 DEF Exclusive, Alone, Fresh, Past, Unread, Busy
  <2> QED
    BY <2>2, <2>3
<1>4. CASE Claimable(d)
  <2>1. PICK c \in Call, r \in Row :
            /\ at' = [at EXCEPT ![p] = c] /\ c.pc = "send" /\ c.tries = 1 /\ c.id = d.id
            /\ row' = [row EXCEPT ![d.id] = r] /\ r.status = "PENDING" /\ r.stale = FALSE
            /\ r.attempts = row[d.id].attempts + 1 /\ r.loose = row[d.id].loose
    <3> DEFINE c == Sending(d.id)
               r == [row[d.id] EXCEPT !.status = "PENDING", !.attempts = row[d.id].attempts + 1,
                                      !.stale = FALSE]
    <3>2. c \in Call /\ c.pc = "send" /\ c.tries = 1 /\ c.id = d.id
      BY <1>1, SendingType
    <3>3. /\ r \in Row /\ r.status = "PENDING" /\ r.stale = FALSE
          /\ r.attempts = row[d.id].attempts + 1 /\ r.loose = row[d.id].loose
      <4>1. row[d.id] \in Row /\ row[d.id].attempts + 1 \in Nat
        BY <1>1 DEF Row
      <4> QED
        BY <4>1 DEF Row
    <3>4. at' = [at EXCEPT ![p] = c] /\ row' = [row EXCEPT ![d.id] = r]
      BY <1>4, <3>2 DEF PassClaims
    <3> QED
      BY <3>2, <3>3, <3>4
  <2>2. /\ row[d.id].status = d.status /\ row[d.id].attempts = d.attempts
        /\ d.status \in {"PENDING", "FAILED"} /\ d.attempts < MaxAttempts
    BY <1>1, <1>4 DEF Claimable, PassClaims, Exhausted, Reading, PassShape
  <2>3. TypeOK'
    <3>1. row' \in [Requests -> Row] /\ at' \in [Actors -> Call] /\ todo' \in [Passes -> SUBSET Reading]
      BY <1>1, <2>1
    <3>2. \A x \in Requests : row'[x].attempts <= Limit + switches'
      BY <1>1, <1>2, <2>1, <2>2 DEF Reading
    <3> QED
      BY <1>2, <3>1, <3>2
  <2>4. RequestShape'
    BY <1>1, <2>1, <2>2 DEF RequestShape
  <2>5. PassShape'
    BY <1>1, <2>1 DEF PassShape
  <2>6. StaffShape'
    BY <1>1, <1>2, <2>1 DEF StaffShape
  <2>7. CallShape'
    BY <2>1 DEF CallShape
  <2>8. Unknown'
    BY <1>1, <2>1 DEF Unknown
  <2>9. Exclusive'
    <3> SUFFICES ASSUME NEW q \in Requests, ~row'[q].loose
                 PROVE  (Alone(q) /\ Fresh(q) /\ Past(q) /\ Unread(q))'
      BY DEF Exclusive
    <3>1. ~row[q].loose /\ Alone(q) /\ Fresh(q) /\ Past(q) /\ Unread(q)
      BY <1>1, <2>1 DEF Exclusive
    <3>2. CASE q = d.id
      <4>1. ~Busy(q)
        BY <1>1, <2>2, <3>1, <3>2 DEF Fresh, Past, Busy, Reading
      <4>2. \A a \in Workers : at'[a].id = q => a = p
        BY <2>1, <4>1 DEF Busy
      <4>3. Alone(q)' /\ Fresh(q)'
        BY <2>1, <3>2, <4>2 DEF Alone, Fresh
      <4>4. Past(q)'
        BY <1>1, <2>1, <3>1, <3>2 DEF Past, Reading, Row
      <4>5. Unread(q)'
        BY <2>1, <4>2 DEF Unread
      <4> QED
        BY <4>3, <4>4, <4>5
    <3>3. CASE q # d.id
      <4>1. row'[q] = row[q] /\ \A a \in Workers : at'[a].id = q => at[a].id = q
        BY <1>1, <2>1, <3>3
      <4> QED
        BY <1>1, <3>1, <4>1 DEF Alone, Fresh, Past, Unread, Busy
    <3> QED
      BY <3>2, <3>3
  <2> QED
    BY <2>3, <2>4, <2>5, <2>6, <2>7, <2>8, <2>9
<1> QED
  BY <1>3, <1>4

LEMMA PassFinishesKeeps ==
    ASSUME IInv, NEW p \in Passes, PassFinishes(p)
    PROVE  IInv'
<1> USE ConstantsAssumption, LimitType DEF IInv, Shape, TypeOK, Actors, Workers
<1>1. /\ at[p].pc = "finish" /\ at[p].id \in Requests /\ at[p].verdict \in Verdicts
      /\ at[p] \in Call /\ row[at[p].id] \in Row
  BY DEF PassFinishes, PassShape, CallShape, Call
<1>2. /\ UNCHANGED <<platform, enabled, receipt, accepted, lost, switches>>
      /\ excused' \in Nat /\ faults' \in Nat
  BY DEF PassFinishes, NoFault, Fault, Count
<1>3. PICK c \in Call :
          /\ at' = [at EXCEPT ![p] = c]
          /\ \/ /\ c.id = "none" /\ c.pc \in {"idle", "next"}
                /\ row' = [row EXCEPT ![at[p].id] = [row[at[p].id] EXCEPT !.status = at[p].verdict]]
                /\ todo' = todo
             \/ /\ row' = row /\ c.id \in {"none", at[p].id}
                /\ c.pc = IF c.id = "none" THEN "idle" ELSE "finish"
                /\ c.verdict = IF c.id = "none" THEN "none" ELSE "FAILED"
                /\ todo' = todo \/ todo' = [todo EXCEPT ![p] = {}]
  <2> DEFINE next  == [Idle EXCEPT !.pc = "next"]
             again == [at[p] EXCEPT !.tries = 2, !.verdict = "FAILED"]
  <2>1. /\ next \in Call /\ next.id = "none" /\ next.pc = "next"
        /\ Idle \in Call /\ Idle.id = "none" /\ Idle.pc = "idle" /\ Idle.verdict = "none"
    BY DEF Idle, Call, Stages
  <2>2. 2 \in 0..MaxTries + 1
    BY LimitType
  <2>3. /\ again \in Call /\ again.id = at[p].id /\ again.pc = "finish" /\ again.verdict = "FAILED"
    BY <1>1, <2>2 DEF Call, Stages, Verdicts
  <2>4. \/ /\ at' = [at EXCEPT ![p] = next] /\ todo' = todo
           /\ row' = [row EXCEPT ![at[p].id].status = at[p].verdict]
        \/ row' = row /\ at' = [at EXCEPT ![p] = again] /\ todo' = todo
        \/ row' = row /\ at' = [at EXCEPT ![p] = Idle] /\ todo' = [todo EXCEPT ![p] = {}]
    BY DEF PassFinishes
  <2>5. [row EXCEPT ![at[p].id].status = at[p].verdict]
            = [row EXCEPT ![at[p].id] = [row[at[p].id] EXCEPT !.status = at[p].verdict]]
    BY <1>1
  <2>6. CASE at' = [at EXCEPT ![p] = next] /\ row' = [row EXCEPT ![at[p].id].status = at[p].verdict]
    BY <2>1, <2>4, <2>5, <2>6
  <2>7. CASE row' = row /\ at' = [at EXCEPT ![p] = again] /\ todo' = todo
    BY <1>1, <2>3, <2>7
  <2>8. CASE row' = row /\ at' = [at EXCEPT ![p] = Idle] /\ todo' = [todo EXCEPT ![p] = {}]
    BY <2>1, <2>8
  <2> QED
    BY <2>4, <2>6, <2>7, <2>8
<1>4. \/ row' = row
      \/ /\ c.id = "none" /\ todo' = todo
         /\ \E r \in Row : /\ row' = [row EXCEPT ![at[p].id] = r] /\ r.status \in Verdicts
                          /\ r.attempts = row[at[p].id].attempts /\ r.loose = row[at[p].id].loose
  <2> DEFINE r == [row[at[p].id] EXCEPT !.status = at[p].verdict]
  <2>1. /\ r \in Row /\ r.status \in Verdicts
        /\ r.attempts = row[at[p].id].attempts /\ r.loose = row[at[p].id].loose
    BY <1>1 DEF Row
  <2> QED
    BY <1>3, <2>1
<1>5. /\ c.id \in {"none", at[p].id} /\ c.pc \in {"idle", "next", "finish"}
      /\ c.pc = "finish" => c.id = at[p].id /\ c.verdict # "none"
      /\ c.pc # "finish" => c.id = "none"
      /\ todo' \in [Passes -> SUBSET Reading] /\ \A x \in Passes : todo'[x] \subseteq todo[x]
  BY <1>1, <1>3
<1>6. TypeOK'
  <2>1. row' \in [Requests -> Row] /\ at' \in [Actors -> Call]
    BY <1>3, <1>4
  <2>2. \A x \in Requests : row'[x].attempts <= Limit + switches'
    BY <1>1, <1>2, <1>4
  <2> QED
    BY <1>2, <1>5, <2>1, <2>2
<1>7. RequestShape'
  BY <1>1, <1>3, <1>4 DEF RequestShape, Unknown, Verdicts
<1>8. PassShape'
  BY <1>1, <1>3, <1>5 DEF PassShape
<1>9. StaffShape'
  BY <1>1, <1>2, <1>3, <1>4 DEF StaffShape
<1>10. CallShape'
  BY <1>1, <1>3, <1>5 DEF CallShape
<1>11. Unknown'
  BY <1>1, <1>3, <1>4, <1>5 DEF Unknown, Verdicts
<1>12. Exclusive'
  <2> SUFFICES ASSUME NEW q \in Requests, ~row'[q].loose
               PROVE  (Alone(q) /\ Fresh(q) /\ Past(q) /\ Unread(q))'
    BY DEF Exclusive
  <2>1. ~row[q].loose
    BY <1>1, <1>4
  <2>2. Alone(q) /\ Fresh(q) /\ Past(q) /\ Unread(q)
    BY <2>1 DEF Exclusive
  <2>3. \A a \in Workers : at'[a].id = q => at[a].id = q
    BY <1>3, <1>5
  <2>4. row'[q].attempts = row[q].attempts
    BY <1>1, <1>4
  <2>5. Alone(q)' /\ Unread(q)'
    BY <1>5, <2>2, <2>3 DEF Alone, Unread
  <2>6. Fresh(q)'
    <3>1. CASE row'[q] = row[q]
      BY <2>2, <2>3, <3>1 DEF Fresh
    <3>2. CASE q = at[p].id /\ c.id = "none"
      BY <1>3, <2>2, <2>3, <3>2 DEF Fresh, Alone
    <3> QED
      BY <1>1, <1>4, <3>1, <3>2
  <2>7. Past(q)'
    BY <1>5, <2>2, <2>3, <2>4 DEF Past, Busy
  <2> QED
    BY <2>5, <2>6, <2>7
<1> QED
  BY <1>6, <1>7, <1>8, <1>9, <1>10, <1>11, <1>12

LEMMA ManualSetsKeeps ==
    ASSUME IInv, NEW s \in Staff, ManualSets(s)
    PROVE  IInv'
<1> USE ConstantsAssumption, LimitType DEF IInv, Shape, TypeOK, Actors, Workers
<1>1. /\ at[s].pc = "set" /\ at[s].id \in Requests /\ row[at[s].id] \in Row
      /\ at[s] \in Call /\ at[s].attempts + 1 \in Nat /\ at[s].attempts + 1 <= Limit + switches
  BY DEF ManualSets, StaffShape, Call
<1>2. /\ UNCHANGED <<platform, enabled, receipt, todo, accepted, excused, lost, switches>>
      /\ faults' \in Nat
  BY DEF ManualSets, NoFault, Fault
<1>3. row[at[s].id].status # "none"
  BY <1>1 DEF Unknown
<1>4. CASE row' = row /\ at' = [at EXCEPT ![s] = Idle]
  <2>1. Idle \in Call /\ Idle.id = "none" /\ Idle.pc = "idle"
    BY DEF Idle, Call, Stages
  <2>2. TypeOK'
    BY <1>2, <1>4, <2>1
  <2>3. RequestShape' /\ PassShape' /\ StaffShape'
    BY <1>2, <1>4, <2>1 DEF RequestShape, PassShape, StaffShape
  <2>4. CallShape' /\ Unknown'
    BY <1>2, <1>4, <2>1 DEF CallShape, Unknown
  <2>5. Exclusive'
    BY <1>2, <1>4, <2>1 DEF Exclusive, Alone, Fresh, Past, Unread, Busy
  <2> QED
    BY <2>2, <2>3, <2>4, <2>5
<1>5. CASE ~(row' = row /\ at' = [at EXCEPT ![s] = Idle])
  <2>1. PICK c \in Call, r \in Row :
            /\ at' = [at EXCEPT ![s] = c] /\ c.pc = "send" /\ c.tries = 1 /\ c.id = at[s].id
            /\ row' = [row EXCEPT ![at[s].id] = r] /\ r.status = "PENDING"
            /\ r.attempts = at[s].attempts + 1 /\ r.loose = TRUE
    <3> DEFINE c == Sending(at[s].id)
               r == [row[at[s].id] EXCEPT !.status = "PENDING", !.attempts = at[s].attempts + 1,
                                          !.loose = TRUE]
    <3>1. c \in Call /\ c.pc = "send" /\ c.tries = 1 /\ c.id = at[s].id
      BY <1>1, SendingType
    <3>2. r \in Row /\ r.status = "PENDING" /\ r.attempts = at[s].attempts + 1 /\ r.loose = TRUE
      BY <1>1 DEF Row
    <3>3. at' = [at EXCEPT ![s] = c] /\ row' = [row EXCEPT ![at[s].id] = r]
      BY <1>5, <3>1 DEF ManualSets
    <3> QED
      BY <3>1, <3>2, <3>3
  <2>2. TypeOK'
    <3>1. row' \in [Requests -> Row] /\ at' \in [Actors -> Call]
      BY <1>1, <2>1
    <3>2. \A x \in Requests : row'[x].attempts <= Limit + switches'
      BY <1>1, <1>2, <2>1
    <3> QED
      BY <1>2, <3>1, <3>2
  <2>3. RequestShape'
    BY <1>1, <1>3, <2>1 DEF RequestShape
  <2>4. PassShape'
    BY <1>2, <2>1 DEF PassShape
  <2>5. StaffShape'
    BY <1>1, <1>2, <2>1 DEF StaffShape
  <2>6. CallShape'
    BY <2>1 DEF CallShape
  <2>7. Unknown'
    BY <1>1, <1>2, <1>3, <2>1 DEF Unknown
  <2>8. Exclusive'
    BY <1>1, <1>2, <2>1 DEF Exclusive, Alone, Fresh, Past, Unread, Busy
  <2> QED
    BY <2>2, <2>3, <2>4, <2>5, <2>6, <2>7, <2>8
<1> QED
  BY <1>4, <1>5

LEMMA PassReadsKeeps ==
    ASSUME IInv, NEW p \in Passes, PassReads(p)
    PROVE  IInv'
<1> USE ConstantsAssumption, LimitType DEF IInv, Shape, TypeOK, Actors, Workers, PassReads, Goes, Due, Snapshot
<1>1. TypeOK'
  <2>1. platform' \in {"GOOGLE", "META"} /\ enabled' \in BOOLEAN /\ receipt' \in BOOLEAN /\ lost' \in BOOLEAN
    BY Zenon
  <2>2. row' \in [Requests -> Row]
    BY DEF Row
  <2>3. at' \in [Actors -> Call]
    BY SMTT(20) DEF Call, Stages
  <2>4. todo' \in [Passes -> SUBSET Reading]
    BY DEF Reading, Row
  <2>5. accepted' \in Nat /\ excused' \in Nat /\ faults' \in Nat /\ switches' \in Nat
    OBVIOUS
  <2>6. \A x \in Requests : row'[x].attempts <= Limit + switches'
    BY DEF Row
  <2> QED
    BY <2>1, <2>2, <2>3, <2>4, <2>5, <2>6
<1>2. RequestShape'
  BY DEF RequestShape, Call, Row
<1>3. PassShape'
  BY DEF RequestShape, PassShape, Call, Row, Reading
<1>4. StaffShape'
  BY DEF RequestShape, PassShape, StaffShape, Call, Row
<1>5. CallShape'
  BY DEF CallShape, Call, Row
<1>6. Unknown'
  BY DEF Unknown, RequestShape, PassShape, StaffShape, Call, Row, Reading
<1>7. Exclusive'
  BY DEF Exclusive, Alone, Fresh, Past, Unread, Busy, RequestShape, PassShape, StaffShape, Unknown, Call, Row, Reading
<1> QED
  BY <1>1, <1>2, <1>3, <1>4, <1>5, <1>6, <1>7

LEMMA PassEndsKeeps ==
    ASSUME IInv, NEW p \in Passes, PassEnds(p)
    PROVE  IInv'
<1> USE ConstantsAssumption, LimitType DEF IInv, Shape, TypeOK, Actors, Workers, PassEnds, Goes
<1>1. TypeOK'
  <2>1. platform' \in {"GOOGLE", "META"} /\ enabled' \in BOOLEAN /\ receipt' \in BOOLEAN /\ lost' \in BOOLEAN
    BY Zenon
  <2>2. row' \in [Requests -> Row]
    BY DEF Row
  <2>3. at' \in [Actors -> Call]
    BY DEF Call, Stages
  <2>4. todo' \in [Passes -> SUBSET Reading]
    BY DEF Reading, Row
  <2>5. accepted' \in Nat /\ excused' \in Nat /\ faults' \in Nat /\ switches' \in Nat
    OBVIOUS
  <2>6. \A x \in Requests : row'[x].attempts <= Limit + switches'
    BY DEF Row
  <2> QED
    BY <2>1, <2>2, <2>3, <2>4, <2>5, <2>6
<1>2. RequestShape'
  BY DEF RequestShape, Call, Row
<1>3. PassShape'
  BY DEF RequestShape, PassShape, Call, Row, Reading
<1>4. StaffShape'
  BY DEF RequestShape, PassShape, StaffShape, Call, Row
<1>5. CallShape'
  BY DEF CallShape, Call, Row
<1>6. Unknown'
  BY DEF Unknown, RequestShape, PassShape, StaffShape, Call, Row, Reading
<1>7. Exclusive'
  BY DEF Exclusive, Alone, Fresh, Past, Unread, Busy, RequestShape, PassShape, StaffShape, Unknown, Call, Row, Reading
<1> QED
  BY <1>1, <1>2, <1>3, <1>4, <1>5, <1>6, <1>7

LEMMA ManualReadsKeeps ==
    ASSUME IInv, NEW s \in Staff, ManualReads(s)
    PROVE  IInv'
<1> USE ConstantsAssumption, LimitType DEF IInv, Shape, TypeOK, Actors, Workers, ManualReads, Reads
<1>1. TypeOK'
  <2>1. platform' \in {"GOOGLE", "META"} /\ enabled' \in BOOLEAN /\ receipt' \in BOOLEAN /\ lost' \in BOOLEAN
    BY Zenon
  <2>2. row' \in [Requests -> Row]
    BY DEF Row
  <2>3. at' \in [Actors -> Call]
    <3>1. PICK q \in Requests : at' = [at EXCEPT ![s] = Reads(q)]
      OBVIOUS
    <3>2. row[q].attempts \in Nat /\ 0 \in 0..MaxTries + 1
      BY DEF Row
    <3>3. Reads(q) \in Call
      BY <3>2 DEF Call, Stages
    <3> QED
      BY <3>1, <3>3
  <2>4. todo' \in [Passes -> SUBSET Reading]
    BY DEF Reading, Row
  <2>5. accepted' \in Nat /\ excused' \in Nat /\ faults' \in Nat /\ switches' \in Nat
    OBVIOUS
  <2>6. \A x \in Requests : row'[x].attempts <= Limit + switches'
    BY DEF Row
  <2> QED
    BY <2>1, <2>2, <2>3, <2>4, <2>5, <2>6
<1>2. RequestShape'
  BY DEF RequestShape, Call, Row
<1>3. PassShape'
  BY DEF RequestShape, PassShape, Call, Row, Reading
<1>4. StaffShape'
  BY DEF RequestShape, PassShape, StaffShape, Call, Row
<1>5. CallShape'
  BY DEF CallShape, Call, Row
<1>6. Unknown'
  BY DEF Unknown, RequestShape, PassShape, StaffShape, Call, Row, Reading
<1>7. Exclusive'
  BY DEF Exclusive, Alone, Fresh, Past, Unread, Busy, RequestShape, PassShape, StaffShape, Unknown, Call, Row, Reading
<1> QED
  BY <1>1, <1>2, <1>3, <1>4, <1>5, <1>6, <1>7

LEMMA GoesStaleKeeps ==
    ASSUME IInv, NEW q \in Requests, GoesStale(q)
    PROVE  IInv'
<1> USE ConstantsAssumption, LimitType DEF IInv, Shape, TypeOK, Actors, Workers, GoesStale, Busy
<1>1. TypeOK'
  <2>1. platform' \in {"GOOGLE", "META"} /\ enabled' \in BOOLEAN /\ receipt' \in BOOLEAN /\ lost' \in BOOLEAN
    BY Zenon
  <2>2. row' \in [Requests -> Row]
    BY DEF Row
  <2>3. at' \in [Actors -> Call]
    BY DEF Call, Stages
  <2>4. todo' \in [Passes -> SUBSET Reading]
    BY DEF Reading, Row
  <2>5. accepted' \in Nat /\ excused' \in Nat /\ faults' \in Nat /\ switches' \in Nat
    OBVIOUS
  <2>6. \A x \in Requests : row'[x].attempts <= Limit + switches'
    BY DEF Row
  <2> QED
    BY <2>1, <2>2, <2>3, <2>4, <2>5, <2>6
<1>2. RequestShape'
  BY DEF RequestShape, Call, Row
<1>3. PassShape'
  BY DEF RequestShape, PassShape, Call, Row, Reading
<1>4. StaffShape'
  BY DEF RequestShape, PassShape, StaffShape, Call, Row
<1>5. CallShape'
  BY DEF CallShape, Call, Row
<1>6. Unknown'
  BY DEF Unknown, RequestShape, PassShape, StaffShape, Call, Row, Reading
<1>7. Exclusive'
  BY DEF Exclusive, Alone, Fresh, Past, Unread, Busy, RequestShape, PassShape, StaffShape, Unknown, Call, Row, Reading
<1> QED
  BY <1>1, <1>2, <1>3, <1>4, <1>5, <1>6, <1>7

LEMMA GoesOldKeeps ==
    ASSUME IInv, NEW q \in Requests, GoesOld(q)
    PROVE  IInv'
<1> USE ConstantsAssumption, LimitType DEF IInv, Shape, TypeOK, Actors, Workers, GoesOld
<1>1. TypeOK'
  <2>1. platform' \in {"GOOGLE", "META"} /\ enabled' \in BOOLEAN /\ receipt' \in BOOLEAN /\ lost' \in BOOLEAN
    BY Zenon
  <2>2. row' \in [Requests -> Row]
    BY DEF Row, Verdicts
  <2>3. at' \in [Actors -> Call]
    BY DEF Call, Stages
  <2>4. todo' \in [Passes -> SUBSET Reading]
    BY DEF Reading, Row
  <2>5. accepted' \in Nat /\ excused' \in Nat /\ faults' \in Nat /\ switches' \in Nat
    OBVIOUS
  <2>6. \A x \in Requests : row'[x].attempts <= Limit + switches'
    BY DEF Row
  <2> QED
    BY <2>1, <2>2, <2>3, <2>4, <2>5, <2>6
<1>2. RequestShape'
  BY DEF RequestShape, Call, Row
<1>3. PassShape'
  BY DEF RequestShape, PassShape, Call, Row, Reading
<1>4. StaffShape'
  BY DEF RequestShape, PassShape, StaffShape, Call, Row
<1>5. CallShape'
  BY DEF CallShape, Call, Row
<1>6. Unknown'
  BY DEF Unknown, RequestShape, PassShape, StaffShape, Call, Row, Reading
<1>7. Exclusive'
  BY DEF Exclusive, Alone, Fresh, Past, Unread, Busy, RequestShape, PassShape, StaffShape, Unknown, Call, Row, Reading
<1> QED
  BY <1>1, <1>2, <1>3, <1>4, <1>5, <1>6, <1>7

LEMMA SwitchesKeeps ==
    ASSUME IInv, Switches
    PROVE  IInv'
<1> USE ConstantsAssumption, LimitType DEF IInv, Shape, TypeOK, Actors, Workers, Switches
<1>1. TypeOK'
  <2>1. platform' \in {"GOOGLE", "META"} /\ enabled' \in BOOLEAN /\ receipt' \in BOOLEAN /\ lost' \in BOOLEAN
    BY Zenon
  <2>2. row' \in [Requests -> Row]
    BY DEF Row
  <2>3. at' \in [Actors -> Call]
    BY DEF Call, Stages
  <2>4. todo' \in [Passes -> SUBSET Reading]
    BY DEF Reading, Row
  <2>5. accepted' \in Nat /\ excused' \in Nat /\ faults' \in Nat /\ switches' \in Nat
    OBVIOUS
  <2>6. \A x \in Requests : row'[x].attempts <= Limit + switches'
    BY DEF Row
  <2> QED
    BY <2>1, <2>2, <2>3, <2>4, <2>5, <2>6
<1>2. RequestShape'
  BY DEF RequestShape, Call, Row
<1>3. PassShape'
  BY DEF RequestShape, PassShape, Call, Row, Reading
<1>4. StaffShape'
  BY DEF RequestShape, PassShape, StaffShape, Call, Row
<1>5. CallShape'
  BY DEF CallShape, Call, Row
<1>6. Unknown'
  BY DEF Unknown, RequestShape, PassShape, StaffShape, Call, Row, Reading
<1>7. Exclusive'
  BY DEF Exclusive, Alone, Fresh, Past, Unread, Busy, RequestShape, PassShape, StaffShape, Unknown, Call, Row, Reading
<1> QED
  BY <1>1, <1>2, <1>3, <1>4, <1>5, <1>6, <1>7

LEMMA DiesKeeps ==
    ASSUME IInv, NEW a \in Actors, Dies(a)
    PROVE  IInv'
<1> USE ConstantsAssumption, LimitType DEF IInv, Shape, TypeOK, Actors, Workers, Dies, Fault, Over, Idle, Count
<1>1. TypeOK'
  <2>1. platform' \in {"GOOGLE", "META"} /\ enabled' \in BOOLEAN /\ receipt' \in BOOLEAN /\ lost' \in BOOLEAN
    BY Zenon
  <2>2. row' \in [Requests -> Row]
    BY DEF Row
  <2>3. at' \in [Actors -> Call]
    BY DEF Call, Stages
  <2>4. todo' \in [Passes -> SUBSET Reading]
    BY DEF Reading, Row
  <2>5. accepted' \in Nat /\ excused' \in Nat /\ faults' \in Nat /\ switches' \in Nat
    OBVIOUS
  <2>6. \A x \in Requests : row'[x].attempts <= Limit + switches'
    BY DEF Row
  <2> QED
    BY <2>1, <2>2, <2>3, <2>4, <2>5, <2>6
<1>2. RequestShape'
  BY DEF RequestShape, Call, Row
<1>3. PassShape'
  BY DEF RequestShape, PassShape, Call, Row, Reading
<1>4. StaffShape'
  BY DEF RequestShape, PassShape, StaffShape, Call, Row
<1>5. CallShape'
  BY DEF CallShape, Call, Row
<1>6. Unknown'
  BY DEF Unknown, RequestShape, PassShape, StaffShape, Call, Row, Reading
<1>7. Exclusive'
  BY DEF Exclusive, Alone, Fresh, Past, Unread, Busy, RequestShape, PassShape, StaffShape, Unknown, Call, Row, Reading
<1> QED
  BY <1>1, <1>2, <1>3, <1>4, <1>5, <1>6, <1>7

-----------------------------------------------------------------------------
LEMMA Initially == Init => IInv
<1> SUFFICES ASSUME Init PROVE IInv
  OBVIOUS
<1> USE ConstantsAssumption, LimitType DEF Init, NoRow, Idle, Actors
<1>1. TypeOK
  <2>1. 0 \in 0..MaxTries + 1
    OBVIOUS
  <2>2. enabled \in BOOLEAN /\ receipt \in BOOLEAN /\ lost \in BOOLEAN
    BY Zenon
  <2>3. NoRow \in Row /\ Idle \in Call
    BY <2>1 DEF Row, Call, Stages
  <2>4. row \in [Requests -> Row] /\ at \in [Actors -> Call] /\ todo \in [Passes -> SUBSET Reading]
    BY <2>3
  <2>5. \A q \in Requests : row[q].attempts <= Limit + switches
    <3>1. \A q \in Requests : row[q].attempts = 0
      OBVIOUS
    <3>2. 0 <= Limit + switches
      BY Limit \in Nat DEF Limit
    <3> QED
      BY <3>1, <3>2
  <2> QED
    BY <2>2, <2>4, <2>5 DEF TypeOK
<1>2. Shape
  BY DEF Shape, RequestShape, PassShape, StaffShape, CallShape
<1>3. Unknown /\ Exclusive
  BY DEF Unknown, Exclusive, Alone, Fresh, Past, Unread, Workers
<1> QED
  BY <1>1, <1>2, <1>3 DEF IInv

LEMMA StutterKeeps == ASSUME IInv, UNCHANGED vars PROVE IInv'
BY DEF IInv, vars, TypeOK, Shape, RequestShape, PassShape, StaffShape, CallShape, Unknown,
       Exclusive, Alone, Fresh, Past, Unread, Busy

\* Every step keeps the invariant.
LEMMA NextKeeps == ASSUME IInv, [Next]_vars PROVE IInv'
<1>1. CASE \E q \in Requests : RequestSteps(q) \/ GoesStale(q) \/ GoesOld(q)
  BY <1>1, IngestsKeeps, IngestedKeeps, UndoesKeeps, DeclinesKeeps, LogsKeeps, TokenThrowsKeeps,
     SendsKeeps, MarksKeeps, GoesStaleKeeps, GoesOldKeeps DEF RequestSteps
<1>2. CASE \E p \in Passes : PassSteps(p)
  BY <1>2, PassReadsKeeps, PassSendsKeeps, PassFinishesKeeps, PassEndsKeeps, PassGivesUpKeeps,
     PassClaimsKeeps DEF PassSteps
<1>3. CASE \E s \in Staff : ManualReads(s) \/ ManualSteps(s)
  BY <1>3, ManualReadsKeeps, ManualSetsKeeps, TokenThrowsKeeps, SendsKeeps, MarksKeeps DEF ManualSteps
<1>4. CASE \E a \in Actors : Dies(a)
  BY <1>4, DiesKeeps
<1>5. CASE Switches
  BY <1>5, SwitchesKeeps
<1>6. CASE UNCHANGED vars
  BY <1>6, StutterKeeps
<1> QED
  BY <1>1, <1>2, <1>3, <1>4, <1>5, <1>6 DEF Next

\* Every variable of the protocol keeps its type, and the attempts of a row their
\* bound, for any number of requests, passes and staff (processEvent, sendEvent,
\* retryFailedConversions, retryFailedDeliveries).
THEOREM TypeCorrect == Spec => []TypeOK
<1>1. IInv => TypeOK
  BY DEF IInv
<1> QED
  BY Initially, NextKeeps, <1>1, PTL DEF Spec

LEMMA Invariance == Spec => []IInv
BY Initially, NextKeeps, PTL DEF Spec

-----------------------------------------------------------------------------
\* The steps that write rows.
LEMMA RowSteps ==
    ASSUME [Next]_vars
    PROVE  \/ row' = row
           \/ \E x \in Requests : Logs(x) \/ GoesStale(x) \/ GoesOld(x)
           \/ \E a \in Requests \cup Staff : Marks(a)
           \/ \E p \in Passes : \/ PassFinishes(p)
                               \/ \E d \in todo[p] : PassGivesUp(p, d) \/ PassClaims(p, d)
           \/ \E s \in Staff : ManualSets(s)
<1>1. CASE \E x \in Requests : RequestSteps(x) \/ GoesStale(x) \/ GoesOld(x)
  BY <1>1 DEF RequestSteps, Ingests, Ingested, Undoes, Declines, TokenThrows, Sends
<1>2. CASE \E p \in Passes : PassSteps(p)
  BY <1>2 DEF PassSteps, PassReads, PassSends, PassEnds
<1>3. CASE \E s \in Staff : ManualReads(s) \/ ManualSteps(s)
  BY <1>3 DEF ManualSteps, ManualReads, TokenThrows, Sends
<1>4. CASE (\E a \in Actors : Dies(a)) \/ Switches \/ UNCHANGED vars
  BY <1>4 DEF Dies, Switches, vars
<1> QED
  BY <1>1, <1>2, <1>3, <1>4 DEF Next

\* A step that could take a row out of SENT works on that row, and no such step
\* is possible unless the row was written without regard to a claim.
LEMMA SentKept ==
    ASSUME IInv, [Next]_vars, NEW q \in Requests, row[q].status = "SENT"
    PROVE  row'[q].status = "SENT" \/ row'[q].loose
<1> USE ConstantsAssumption DEF IInv, Shape, TypeOK, Actors, Workers
<1>1. row[q].loose \/ ~Busy(q)
  BY DEF Exclusive, Fresh, Busy
<1>2. ASSUME NEW x \in Requests, Logs(x)
      PROVE  row'[q].status = "SENT"
  <2>1. x # q
    BY <1>2 DEF Logs, RequestShape
  <2> QED
    BY <1>2, <2>1 DEF Logs
<1>3. ASSUME NEW a \in Requests \cup Staff, Marks(a)
      PROVE  row'[q].status = "SENT" \/ row'[q].loose
  <2>1. \/ row' = row
        \/ row' = [row EXCEPT ![at[a].id] = [row[at[a].id] EXCEPT
                      !.status = at[a].verdict, !.attempts = at[a].tries]]
    BY <1>3 DEF Marks
  <2>2. CASE at[a].id # q
    BY <2>1, <2>2
  <2>3. CASE at[a].id = q
    <3>1. row[q].loose
      BY <1>1, <1>3, <2>3 DEF Marks, StaffShape, Busy
    <3>2. row[q] \in Row
      OBVIOUS
    <3>3. [row[q] EXCEPT !.status = at[a].verdict, !.attempts = at[a].tries].loose = row[q].loose
      BY <3>2 DEF Row
    <3> QED
      BY <2>1, <2>3, <3>1, <3>3
  <2> QED
    BY <2>2, <2>3
<1>4. ASSUME NEW p \in Passes, NEW d \in todo[p], PassGivesUp(p, d)
      PROVE  row'[q] = row[q]
  <2>1. row' = row \/ (row[d.id].status = "PENDING" /\ d.id \in Requests
                       /\ \E r : row' = [row EXCEPT ![d.id] = r])
    BY ZenonT(40), <1>4 DEF PassGivesUp, Reading
  <2> QED
    BY <2>1
<1>5. ASSUME NEW p \in Passes, NEW d \in todo[p], PassClaims(p, d)
      PROVE  row'[q] = row[q]
  <2>1. row' = row \/ (Claimable(d) /\ \E r : row' = [row EXCEPT ![d.id] = r])
    BY <1>5 DEF PassClaims
  <2>2. Claimable(d) => d.id # q
    BY DEF Claimable, Reading
  <2> QED
    BY <2>1, <2>2
<1>6. ASSUME NEW p \in Passes, PassFinishes(p)
      PROVE  row'[q].status = "SENT" \/ row'[q].loose
  <2>1. row' = row \/ row' = [row EXCEPT ![at[p].id].status = at[p].verdict]
    BY <1>6 DEF PassFinishes
  <2>2. CASE at[p].id # q
    BY <2>1, <2>2
  <2>3. CASE at[p].id = q
    <3>1. row[q].loose
      BY <1>1, <2>3 DEF Busy
    <3>2. row'[q].loose = row[q].loose
      BY <2>1, <2>3 DEF Row
    <3> QED
      BY <3>1, <3>2
  <2> QED
    BY <2>2, <2>3
<1>7. ASSUME NEW s \in Staff, ManualSets(s)
      PROVE  row'[q].status = "SENT" \/ row'[q].loose
  <2>1. \/ row' = row
        \/ row' = [row EXCEPT ![at[s].id] = [row[at[s].id] EXCEPT
                      !.status = "PENDING", !.attempts = at[s].attempts + 1, !.loose = TRUE]]
    BY <1>7 DEF ManualSets
  <2>2. [row[q] EXCEPT !.status = "PENDING", !.attempts = at[s].attempts + 1, !.loose = TRUE].loose
    BY DEF Row
  <2>3. CASE at[s].id # q
    BY <2>1, <2>3
  <2>4. CASE at[s].id = q
    BY <2>1, <2>2, <2>4
  <2> QED
    BY <2>3, <2>4
<1>8. ASSUME NEW x \in Requests, GoesStale(x) \/ GoesOld(x)
      PROVE  row'[q].status = "SENT"
  BY <1>8 DEF GoesStale, GoesOld, Row
<1>9. CASE row' = row
  BY <1>9
<1> QED
  BY <1>2, <1>3, <1>4, <1>5, <1>6, <1>7, <1>8, <1>9, RowSteps

\* A conversion recorded as sent stays so, however many passes overlap and whatever
\* fails, unless its row was written without regard to a claim (claimDelivery,
\* finishAttempt, markDelivery).
THEOREM SentIsFinal == Spec => SentStays
<1>1. IInv /\ [Next]_vars
        => [\A q \in Requests : row[q].status = "SENT" => row'[q].status = "SENT" \/ row'[q].loose]_vars
  BY SentKept
<1> QED
  BY Invariance, <1>1, PTL DEF Spec, SentStays

-----------------------------------------------------------------------------
\* A row once created remains.
LEMMA RowsRemain ==
    ASSUME IInv, [Next]_vars, NEW q \in Requests, row[q].status # "none"
    PROVE  row'[q].status # "none"
<1> USE ConstantsAssumption DEF IInv, Shape, TypeOK, Actors
<1>1. row[q] \in Row
  OBVIOUS
<1>2. \A s \in STRING : /\ [row[q] EXCEPT !.status = s].status = s
                        /\ \A n \in Nat : [row[q] EXCEPT !.status = s, !.attempts = n].status = s
  BY <1>1 DEF Row
<1>3. CASE \E x \in Requests : Logs(x) \/ GoesStale(x) \/ GoesOld(x)
  BY <1>1, <1>3 DEF Logs, GoesStale, GoesOld, NoRow, Row
<1>4. ASSUME NEW a \in Requests \cup Staff, Marks(a)
      PROVE  row'[q].status # "none"
  <2>1. at[a] \in Call /\ at[a].pc = "mark" /\ at[a].verdict # "none"
    BY <1>4 DEF Marks, CallShape
  <2>2. at[a].id # q \/ [row[q] EXCEPT !.status = at[a].verdict, !.attempts = at[a].tries].status = at[a].verdict
    BY <1>1 DEF Row
  <2>3. \/ row' = row
        \/ row' = [row EXCEPT ![at[a].id] = [row[at[a].id] EXCEPT
                      !.status = at[a].verdict, !.attempts = at[a].tries]]
    BY <1>4 DEF Marks
  <2>4. CASE at[a].id = q
    BY <2>1, <2>2, <2>3, <2>4
  <2> QED
    BY <2>3, <2>4
<1>5. ASSUME NEW p \in Passes, PassFinishes(p)
      PROVE  row'[q].status # "none"
  <2>1. at[p].verdict # "none"
    BY <1>5 DEF PassFinishes, CallShape
  <2> QED
    BY <1>1, <1>5, <2>1 DEF PassFinishes, Row
<1>6. ASSUME NEW p \in Passes, NEW d \in todo[p], PassGivesUp(p, d)
      PROVE  row'[q].status # "none"
  <2> DEFINE r == [row[q] EXCEPT !.status = "FAILED", !.loose = row[q].loose \/ Busy(q)]
  <2>1. row'[q] = row[q] \/ row'[q] = r
    BY <1>6 DEF PassGivesUp
  <2>2. r.status = "FAILED"
    BY <1>1 DEF Row
  <2> QED
    BY <2>1, <2>2
<1>7. ASSUME NEW p \in Passes, NEW d \in todo[p], PassClaims(p, d)
      PROVE  row'[q].status # "none"
  <2> DEFINE r == [row[q] EXCEPT !.status = "PENDING", !.attempts = row[q].attempts + 1, !.stale = FALSE]
  <2>1. row'[q] = row[q] \/ row'[q] = r
    BY ZenonT(40), <1>7 DEF PassClaims
  <2>2. r.status = "PENDING"
    BY <1>1 DEF Row
  <2> QED
    BY <2>1, <2>2
<1>8. ASSUME NEW s \in Staff, ManualSets(s)
      PROVE  row'[q].status # "none"
  <2> DEFINE r == [row[q] EXCEPT !.status = "PENDING", !.attempts = at[s].attempts + 1, !.loose = TRUE]
  <2>1. row'[q] = row[q] \/ row'[q] = r
    BY <1>8 DEF ManualSets
  <2>2. r.status = "PENDING"
    BY <1>1 DEF Row
  <2> QED
    BY <2>1, <2>2
<1>9. CASE row' = row
  BY <1>9
<1> QED
  BY <1>3, <1>4, <1>5, <1>6, <1>7, <1>8, <1>9, RowSteps

\* The steps of an ingestion hand over the receipt, or record that it was lost.
LEMMA RetryableKept ==
    ASSUME IInv, FailedRetryable, [Next]_vars
    PROVE  FailedRetryable'
<1> USE DEF IInv, Shape, TypeOK, Actors
<1> DEFINE Open(q) == at[q].pc \in {"ingest", "undo", "log", "declined"}
<1> SUFFICES ASSUME receipt', ~lost'
             PROVE  \E q \in Requests : row'[q].status # "none" \/ Open(q)'
  BY DEF FailedRetryable
<1>1. ASSUME NEW x \in Requests, Ingests(x), ~receipt
      PROVE  Open(x)'
  BY <1>1 DEF Ingests, Goes, Call
<1>2. ASSUME NEW x \in Requests, Ingested(x)
      PROVE  Open(x)'
  BY <1>2 DEF Ingested, Goes, Call
<1>13. ASSUME NEW x \in Requests, Declines(x)
      PROVE  Open(x)'
  BY <1>13 DEF Declines, Goes, Call
<1>3. ASSUME NEW x \in Requests, Undoes(x)
      PROVE  FALSE
  BY <1>3 DEF Undoes
<1>4. ASSUME NEW x \in Requests, Logs(x)
      PROVE  row'[x].status # "none"
  <2>1. row' = [row EXCEPT ![x] = [NoRow EXCEPT !.status = "PENDING"]]
    BY <1>4 DEF Logs
  <2> QED
    BY <2>1 DEF NoRow
<1>5. CASE \E x \in Requests : \/ Ingested(x) \/ Undoes(x) \/ Declines(x) \/ Logs(x)
                               \/ Ingests(x) /\ ~receipt
  BY <1>1, <1>2, <1>3, <1>4, <1>5, <1>13
<1>6. ASSUME receipt, ~lost, \A q \in Requests : Open(q) => Open(q)'
      PROVE  \E q \in Requests : row'[q].status # "none" \/ Open(q)'
  BY <1>6, RowsRemain DEF FailedRetryable
<1>7. CASE \E x \in Requests : Ingests(x) /\ receipt
  BY <1>6, <1>7 DEF Ingests, Goes
<1>8. CASE \E a \in Requests \cup Staff : TokenThrows(a) \/ Sends(a) \/ Marks(a)
  <2>1. PICK a \in Requests \cup Staff : at[a].pc \in {"send", "mark"} /\ \E c : at' = [at EXCEPT ![a] = c]
    BY <1>8 DEF TokenThrows, Sends, Answered, Unanswered, Marks
  <2>2. UNCHANGED <<receipt, lost>>
    BY <1>8 DEF TokenThrows, Sends, Marks
  <2>3. receipt /\ ~lost
    BY <2>2, Zenon
  <2> QED
    BY <1>6, <2>1, <2>3
<1>9. CASE \E p \in Passes : PassSteps(p)
  <2>1. PICK p \in Passes : at' = at \/ \E c : at' = [at EXCEPT ![p] = c]
    BY <1>9 DEF PassSteps, PassReads, PassSends, PassFinishes, PassEnds, PassGivesUp, PassClaims,
                Answered, Unanswered, Goes
  <2>2. UNCHANGED <<receipt, lost>>
    BY <1>9 DEF PassSteps, PassReads, PassSends, PassFinishes, PassEnds, PassGivesUp, PassClaims
  <2>3. receipt /\ ~lost
    BY <2>2, Zenon
  <2> QED
    BY <1>6, <2>1, <2>3, ConstantsAssumption
<1>10. CASE \E s \in Staff : ManualReads(s) \/ ManualSets(s)
  <2>1. PICK s \in Staff : \E c : at' = [at EXCEPT ![s] = c]
    BY <1>10 DEF ManualReads, ManualSets
  <2>2. UNCHANGED <<receipt, lost>>
    BY <1>10 DEF ManualReads, ManualSets
  <2>3. receipt /\ ~lost
    BY <2>2, Zenon
  <2> QED
    BY <1>6, <2>1, <2>3, ConstantsAssumption
<1>11. CASE \E a \in Actors : Dies(a)
  <2>1. PICK a \in Actors : /\ at' = [at EXCEPT ![a] = Over(a)] /\ UNCHANGED <<receipt, row>>
                             /\ lost' = (lost \/ Open(a))
    BY <1>11 DEF Dies
  <2> QED
    BY <1>6, <2>1
<1>12. CASE \/ (\E q \in Requests : GoesStale(q) \/ GoesOld(q)) \/ Switches \/ UNCHANGED vars
  <2>1. UNCHANGED <<at, receipt, lost>>
    BY <1>12 DEF GoesStale, GoesOld, Switches, vars
  <2> QED
    BY <1>6, <2>1
<1>14. CASE \E x \in Requests : RequestSteps(x)
  BY <1>5, <1>7, <1>8, <1>14, Zenon DEF RequestSteps
<1>15. CASE \E x \in Staff : ManualReads(x) \/ ManualSteps(x)
  BY <1>8, <1>10, <1>15, Zenon DEF ManualSteps
<1> QED
  BY <1>9, <1>11, <1>12, <1>14, <1>15, Zenon DEF Next

\* "A failed ingestion must remain retryable with the same source event ID": a
\* receipt without a delivery belongs to an ingestion under way or to one that declined
\* to deliver, or is left by a crash or a failing database (processEvent and its catch).
THEOREM FailedIngestionRetryable == Spec => []FailedRetryable
<1>1. Init => FailedRetryable
  BY DEF Init, FailedRetryable
<1> QED
  BY Invariance, RetryableKept, <1>1, PTL DEF Spec
-----------------------------------------------------------------------------
(* How often the platform accepts the conversion.  The receipt is given to *)
(* one request at a time (OneReceipt), whose row is worked on by one actor *)
(* at a time (Exclusive).  Whoever is told that the conversion is accepted *)
(* therefore leaves nobody behind who could send it again (Closed), until  *)
(* what it was told is lost.                                               *)

\* Requests the receipt was given to: one at a time, and for good once there is a row.
Engaged(q)  == at[q].pc \in {"ingest", "undo", "log", "send", "mark"} \/ row[q].status # "none"
OneReceipt  == \A q \in Requests : Engaged(q) => receipt /\ \A r \in Requests : Engaged(r) => r = q

\* A row that was not created is not loose, and one whose creation failed is not
\* created later.
Unlogged == \A q \in Requests :
    /\ row[q].status = "none" => ~row[q].loose
    /\ at[q].pc \in {"send", "mark"} /\ at[q].id = "none" => row[q].status = "none"

\* Nobody can send the conversion, nor come to send it: it is recorded as sent or
\* about to be, or there is no row to record it in.
MaySend(pc)  == pc \in {"ingest", "undo", "log", "send"}
Recorded(q) == \/ row[q].status \in {"none", "SENT"}
               \/ \E a \in Workers : at[a].id = q /\ at[a].verdict = "SENT"
Closed == /\ receipt
          /\ \A a \in Actors : ~MaySend(at[a].pc)
          /\ \A q \in Requests : Recorded(q)

Loose   == \E q \in Requests : row[q].loose
Spent   == accepted <= excused \/ (accepted = excused + 1 /\ Closed)
Counted == OneReceipt /\ Unlogged /\ (Loose \/ Spent)

\* A row that does not exist is written by its creation only.
LEMMA Untouched ==
    ASSUME IInv, [Next]_vars, NEW q \in Requests, row[q].status = "none", ~Logs(q)
    PROVE  row'[q] = row[q]
<1> USE DEF IInv, Shape, TypeOK, Actors
<1>0. /\ \A a \in Actors : at[a].id # q
      /\ \A p \in Passes : \A d \in todo[p] : d.id # q
  BY DEF Unknown
<1>1. ASSUME NEW x \in Requests, Logs(x)
      PROVE  row'[q] = row[q]
  <2>1. x # q
    BY <1>1
  <2> QED
    BY <1>1, <2>1 DEF Logs
<1>2. CASE \E x \in Requests : GoesStale(x) \/ GoesOld(x)
  BY <1>2 DEF GoesStale, GoesOld
<1>3. ASSUME NEW a \in Requests \cup Staff, Marks(a)
      PROVE  row'[q] = row[q]
  BY <1>0, <1>3 DEF Marks
<1>4. ASSUME NEW p \in Passes, PassFinishes(p)
      PROVE  row'[q] = row[q]
  BY <1>0, <1>4 DEF PassFinishes
<1>5. ASSUME NEW p \in Passes, NEW d \in todo[p], PassGivesUp(p, d) \/ PassClaims(p, d)
      PROVE  row'[q] = row[q]
  <2>1. row' = row \/ \E r : row' = [row EXCEPT ![d.id] = r]
    BY ZenonT(40), <1>5 DEF PassGivesUp, PassClaims
  <2> QED
    BY <1>0, <2>1
<1>6. ASSUME NEW s \in Staff, ManualSets(s)
      PROVE  row'[q] = row[q]
  BY <1>0, <1>6 DEF ManualSets
<1> QED
  BY <1>1, <1>2, <1>3, <1>4, <1>5, <1>6, RowSteps

\* Nothing takes back that a row was written without regard to a claim.
LEMMA LooseKept ==
    ASSUME IInv, Unlogged, [Next]_vars, Loose
    PROVE  Loose'
<1> USE DEF IInv, Shape, TypeOK, Actors
<1>1. PICK q \in Requests : row[q].loose
  BY DEF Loose
<1>2. row[q].status # "none" /\ row[q] \in Row
  BY <1>1 DEF Unlogged
<1> SUFFICES row'[q].loose
  BY DEF Loose
<1>3. ASSUME NEW x \in Requests, Logs(x)
      PROVE  row'[q].loose
  <2>1. x # q
    BY <1>2, <1>3 DEF Logs, RequestShape
  <2> QED
    BY <1>1, <1>3, <2>1 DEF Logs
<1>4. CASE \E x \in Requests : GoesStale(x) \/ GoesOld(x)
  BY <1>1, <1>2, <1>4 DEF GoesStale, GoesOld, Row
<1>5. ASSUME NEW a \in Requests \cup Staff, Marks(a)
      PROVE  row'[q].loose
  <2> DEFINE r == [row[q] EXCEPT !.status = at[a].verdict, !.attempts = at[a].tries]
  <2>1. row'[q] = row[q] \/ row'[q] = r
    BY <1>5 DEF Marks
  <2>2. r.loose = row[q].loose
    BY <1>2 DEF Row
  <2> QED
    BY <1>1, <2>1, <2>2
<1>6. ASSUME NEW p \in Passes, PassFinishes(p)
      PROVE  row'[q].loose
  BY <1>1, <1>2, <1>6 DEF PassFinishes, Row
<1>7. ASSUME NEW p \in Passes, NEW d \in todo[p], PassGivesUp(p, d)
      PROVE  row'[q].loose
  <2> DEFINE r == [row[q] EXCEPT !.status = "FAILED", !.loose = row[q].loose \/ Busy(q)]
  <2>1. row'[q] = row[q] \/ row'[q] = r
    BY <1>7 DEF PassGivesUp
  <2>2. r.loose = (row[q].loose \/ Busy(q))
    BY <1>2 DEF Row
  <2> QED
    BY <1>1, <2>1, <2>2, Zenon
<1>8. ASSUME NEW p \in Passes, NEW d \in todo[p], PassClaims(p, d)
      PROVE  row'[q].loose
  <2> DEFINE r == [row[q] EXCEPT !.status = "PENDING", !.attempts = row[q].attempts + 1, !.stale = FALSE]
  <2>1. row'[q] = row[q] \/ row'[q] = r
    BY ZenonT(40), <1>8 DEF PassClaims
  <2>2. r.loose = row[q].loose
    BY <1>2 DEF Row
  <2> QED
    BY <1>1, <2>1, <2>2
<1>9. ASSUME NEW s \in Staff, ManualSets(s)
      PROVE  row'[q].loose
  <2> DEFINE r == [row[q] EXCEPT !.status = "PENDING", !.attempts = at[s].attempts + 1, !.loose = TRUE]
  <2>1. row'[q] = row[q] \/ row'[q] = r
    BY <1>9 DEF ManualSets
  <2>2. r.loose
    BY <1>2 DEF Row
  <2> QED
    BY <1>1, <2>1, <2>2
<1>10. CASE row' = row
  BY <1>1, <1>10
<1> QED
  BY <1>3, <1>4, <1>5, <1>6, <1>7, <1>8, <1>9, <1>10, RowSteps

\* Where a request may come from, seen from where it is after a step.
LEMMA RequestMoves ==
    ASSUME IInv, [Next]_vars, NEW q \in Requests
    PROVE  \/ at'[q] = at[q]
           \/ Ingests(q) \/ Undoes(q) \/ Logs(q)
           \/ at[q].pc = "ingest" /\ at'[q].pc \in {"log", "undo"}
           \/ at[q].pc = "log" /\ at'[q].pc = "declined"
           \/ at[q].pc = "send" /\ at'[q].id = at[q].id
           \/ at'[q] = Over(q)
<1> USE ConstantsAssumption DEF IInv, TypeOK, Actors
<1>0. at[q] \in Call
  OBVIOUS
<1>2. ASSUME NEW x \in Requests, x # q, RequestSteps(x)
      PROVE  at'[q] = at[q]
  <2>1. CASE Ingests(x) \/ Ingested(x) \/ Undoes(x) \/ Declines(x)
    BY <1>2, <2>1 DEF Ingests, Ingested, Undoes, Declines, Goes
  <2>2. CASE Logs(x) \/ TokenThrows(x) \/ Marks(x)
    BY <1>2, <2>2 DEF Logs, TokenThrows, Marks
  <2>3. CASE Sends(x)
    BY <1>2, <2>3, AnsweredMoves DEF Sends
  <2> QED
    BY <1>2, <2>1, <2>2, <2>3 DEF RequestSteps
<1>3. ASSUME Ingested(q)
      PROVE  at[q].pc = "ingest" /\ at'[q].pc \in {"log", "undo"}
  BY <1>0, <1>3 DEF Ingested, Goes, Call
<1>10. ASSUME Declines(q)
      PROVE  at[q].pc = "log" /\ at'[q].pc = "declined"
  BY <1>0, <1>10 DEF Declines, Goes, Call
<1>4. ASSUME Sends(q)
      PROVE  at[q].pc = "send" /\ at'[q].id = at[q].id
  <2>1. at[q].pc = "send"
    <3>1. Answered(q, "mark") => at[q].pc = "send"
      BY AnsweredMoves
    <3> QED
      BY <1>4, <3>1 DEF Sends, Unanswered
  <2>2. CASE Answered(q, "mark")
    BY <2>1, <2>2, AnsweredMoves
  <2>3. CASE at' = [at EXCEPT ![q].tries = @ + 1]
    BY <1>0, <2>1, <2>3 DEF Call
  <2>4. CASE at' = [at EXCEPT ![q] = [at[q] EXCEPT !.pc = "mark", !.verdict = "FAILED"]]
    BY <1>0, <2>1, <2>4 DEF Call
  <2> QED
    BY <1>4, <2>2, <2>3, <2>4 DEF Sends
<1>5. ASSUME TokenThrows(q) \/ Marks(q) \/ Dies(q)
      PROVE  at'[q] = Over(q)
  BY <1>5 DEF TokenThrows, Marks, Dies
<1>6. ASSUME NEW p \in Passes, PassSteps(p)
      PROVE  at'[q] = at[q]
  <2>1. p # q
    OBVIOUS
  <2>2. CASE PassReads(p) \/ PassEnds(p)
    BY <2>1, <2>2 DEF PassReads, PassEnds, Goes
  <2>3. CASE PassSends(p)
    BY <2>1, <2>3, AnsweredMoves DEF PassSends
  <2>4. CASE PassFinishes(p)
    BY <2>1, <2>4 DEF PassFinishes
  <2>5. ASSUME NEW d \in todo[p], PassGivesUp(p, d)
        PROVE  at'[q] = at[q]
    BY <2>5, Zenon DEF PassGivesUp
  <2>6. ASSUME NEW d \in todo[p], PassClaims(p, d)
        PROVE  at'[q] = at[q]
    BY <2>1, <2>6 DEF PassClaims
  <2> QED
    BY <1>6, <2>2, <2>3, <2>4, <2>5, <2>6 DEF PassSteps
<1>7. ASSUME NEW s \in Staff, ManualReads(s) \/ ManualSteps(s)
      PROVE  at'[q] = at[q]
  <2>1. s # q
    OBVIOUS
  <2>2. CASE ManualReads(s) \/ ManualSets(s)
    BY <2>1, <2>2 DEF ManualReads, ManualSets
  <2>3. CASE TokenThrows(s) \/ Marks(s)
    BY <2>1, <2>3 DEF TokenThrows, Marks
  <2>4. CASE Sends(s)
    BY <2>1, <2>4, AnsweredMoves DEF Sends
  <2> QED
    BY <1>7, <2>2, <2>3, <2>4 DEF ManualSteps
<1>8. ASSUME NEW a \in Actors, a # q, Dies(a)
      PROVE  at'[q] = at[q]
  BY <1>8 DEF Dies
<1>9. CASE (\E x \in Requests : GoesStale(x) \/ GoesOld(x)) \/ Switches \/ UNCHANGED vars
  BY <1>9 DEF GoesStale, GoesOld, Switches, vars
<1> QED
  BY <1>2, <1>3, <1>4, <1>5, <1>6, <1>7, <1>8, <1>9, <1>10 DEF Next, RequestSteps

\* The receipt changes hands in the steps of processEvent only.
LEMMA ReceiptMoves ==
    ASSUME [Next]_vars, \A x \in Requests : ~Ingests(x) /\ ~Undoes(x)
    PROVE  receipt' = receipt
<1>1. CASE \E x \in Requests : RequestSteps(x) \/ GoesStale(x) \/ GoesOld(x)
  BY <1>1 DEF RequestSteps, Ingested, Declines, Logs, TokenThrows, Sends, Marks, GoesStale, GoesOld
<1>2. CASE \E p \in Passes : PassSteps(p)
  <2>1. PICK p \in Passes : PassSteps(p)
    BY <1>2
  <2>2. CASE PassReads(p) \/ PassSends(p) \/ PassFinishes(p) \/ PassEnds(p)
    BY <2>2 DEF PassReads, PassSends, PassFinishes, PassEnds
  <2>3. ASSUME NEW d \in todo[p], PassGivesUp(p, d) \/ PassClaims(p, d)
        PROVE  receipt' = receipt
    BY <2>3, Zenon DEF PassGivesUp, PassClaims
  <2> QED
    BY <2>1, <2>2, <2>3 DEF PassSteps
<1>3. CASE \E s \in Staff : ManualReads(s) \/ ManualSteps(s)
  BY <1>3 DEF ManualReads, ManualSteps, ManualSets, TokenThrows, Sends, Marks
<1>4. CASE (\E a \in Actors : Dies(a)) \/ Switches \/ UNCHANGED vars
  BY <1>4 DEF Dies, Switches, vars
<1> QED
  BY <1>1, <1>2, <1>3, <1>4 DEF Next

LEMMA ReceiptKept ==
    ASSUME IInv, OneReceipt, Unlogged, [Next]_vars
    PROVE  OneReceipt'
<1> USE DEF IInv, Shape, TypeOK, Actors
<1>1. ASSUME NEW q \in Requests, Engaged(q)', ~Ingests(q)
      PROVE  Engaged(q) /\ ~Undoes(q)
  <2>1. row'[q].status = "none" \/ row[q].status # "none" \/ Logs(q)
    BY Untouched
  <2>2. Logs(q) => Engaged(q) /\ ~Undoes(q)
    BY DEF Logs, Undoes, Engaged
  <2>3. Undoes(q) => ~Engaged(q)'
    BY DEF Undoes, Goes, Engaged, RequestShape, Call
  <2>4. Over(q).pc = "over"
    BY DEF Over, Idle
  <2> QED
    BY <1>1, <2>1, <2>2, <2>3, <2>4, RequestMoves DEF Engaged
<1>2. ASSUME NEW x \in Requests, Ingests(x)
      PROVE  OneReceipt'
  <2>1. receipt' /\ UNCHANGED row /\ \A q \in Requests : q # x => at'[q] = at[q]
    BY <1>2 DEF Ingests, Goes
  <2>2. CASE receipt
    <3>1. at'[x].pc = "over" /\ UNCHANGED row
      BY <1>2, <2>2 DEF Ingests, Goes, Call
    <3>2. \A q \in Requests : Engaged(q)' => Engaged(q)
      BY <2>1, <3>1 DEF Engaged
    <3> QED
      BY <2>1, <3>2 DEF OneReceipt
  <2>3. CASE ~receipt
    <3>1. \A q \in Requests : ~Engaged(q)
      BY <2>3 DEF OneReceipt
    <3>2. \A q \in Requests : Engaged(q)' => q = x
      BY <2>1, <3>1 DEF Engaged
    <3> QED
      BY <2>1, <3>2 DEF OneReceipt
  <2> QED
    BY <2>2, <2>3
<1>3. ASSUME NEW x \in Requests, Undoes(x)
      PROVE  OneReceipt'
  <2>1. Engaged(x) /\ UNCHANGED row /\ \A q \in Requests : q # x => at'[q] = at[q]
    BY <1>3 DEF Undoes, Goes, Engaged
  <2>2. ~Engaged(x)'
    BY <1>3 DEF Undoes, Goes, Engaged, RequestShape, Call
  <2>3. \A q \in Requests : ~Engaged(q)'
    BY <2>1, <2>2 DEF OneReceipt, Engaged
  <2> QED
    BY <2>3 DEF OneReceipt
<1>4. CASE \A x \in Requests : ~Ingests(x) /\ ~Undoes(x)
  BY <1>1, <1>4, ReceiptMoves DEF OneReceipt
<1> QED
  BY <1>2, <1>3, <1>4

LEMMA UnloggedKept ==
    ASSUME IInv, Unlogged, [Next]_vars
    PROVE  Unlogged'
<1> USE DEF IInv, Shape, TypeOK, Actors
<1> SUFFICES ASSUME NEW q \in Requests
             PROVE  /\ row'[q].status = "none" => ~row'[q].loose
                    /\ at'[q].pc \in {"send", "mark"} /\ at'[q].id = "none" => row'[q].status = "none"
  BY DEF Unlogged
<1>1. CASE Logs(q)
  <2>1. \/ row' = [row EXCEPT ![q] = [NoRow EXCEPT !.status = "PENDING"]] /\ at' = [at EXCEPT ![q] = Sending(q)]
        \/ row' = row /\ at' = [at EXCEPT ![q] = Sending("none")]
    BY <1>1 DEF Logs
  <2>2. row[q].status = "none"
    BY <1>1 DEF Logs, RequestShape
  <2>3. [NoRow EXCEPT !.status = "PENDING"].status = "PENDING" /\ Sending(q).id = q /\ q # "none"
    BY ConstantsAssumption DEF NoRow, Sending
  <2> QED
    BY <2>1, <2>2, <2>3 DEF Unlogged
<1>2. CASE ~Logs(q)
  <2>1. row[q].status = "none" => row'[q] = row[q]
    BY <1>2, Untouched
  <2>2. row'[q].status = "none" => row[q].status = "none"
    BY RowsRemain
  <2>3. at'[q].pc \in {"send", "mark"} /\ at'[q].id = "none" => at[q].pc \in {"send", "mark"} /\ at[q].id = "none"
    <3>1. Over(q).pc = "over"
      BY DEF Over, Idle
    <3>2. Ingests(q) \/ Undoes(q) => at'[q].pc \notin {"send", "mark"}
      BY DEF Ingests, Undoes, Goes, Call
    <3> QED
      BY <1>2, <3>1, <3>2, RequestMoves
  <2> QED
    BY <2>1, <2>2, <2>3 DEF Unlogged
<1> QED
  BY <1>1, <1>2

\* An acceptance that its sender was told of closes the conversion.
LEMMA AcceptedCloses ==
    ASSUME IInv, OneReceipt, Unlogged, ~Loose, NEW a \in Actors, NEW c \in Call,
           at[a].pc = "send", at' = [at EXCEPT ![a] = c],
           c.id = at[a].id, c.pc \in {"mark", "finish"}, c.verdict = "SENT",
           UNCHANGED <<receipt, row>>
    PROVE  Closed'
<1> USE ConstantsAssumption DEF IInv, Shape, TypeOK, Actors, Workers
<1>1. a \in Workers /\ a \notin Staff
  BY DEF StaffShape, Loose
<1>2. \A q \in Requests : Alone(q)
  BY DEF Exclusive, Loose
<1>3. PICK own \in Requests : Engaged(own) /\ (at[a].id = own \/ (at[a].id = "none" /\ a = own))
  <2>1. CASE at[a].id = "none"
    BY <1>1, <2>1 DEF PassShape, Engaged
  <2>2. CASE at[a].id # "none"
    <3>1. at[a].id \in Requests
      BY <2>2 DEF Call
    <3>2. row[at[a].id].status # "none"
      BY <3>1 DEF Unknown
    <3> QED
      BY <3>1, <3>2 DEF Engaged
  <2> QED
    BY <2>1, <2>2
<1>4. receipt /\ \A r \in Requests : Engaged(r) => r = own
  BY <1>3 DEF OneReceipt
<1>5. at[a].id = "none" => row[own].status = "none"
  BY <1>3 DEF Unlogged
<1>6. at[a].id = own => row[own].status # "none"
  BY DEF Unknown
<1>7. ASSUME NEW b \in Requests, b # a, MaySend(at[b].pc)
      PROVE  FALSE
  <2>1. b = own
    BY <1>4, <1>7 DEF Engaged, MaySend
  <2>2. at[a].id = own
    BY <1>3, <1>7, <2>1
  <2>3. at[b].pc = "send" /\ at[b].id = b
    BY <1>6, <1>7, <2>1, <2>2 DEF RequestShape, Unlogged, MaySend
  <2> QED
    BY <1>1, <1>2, <1>7, <2>1, <2>2, <2>3 DEF Alone
<1>8. ASSUME NEW b \in Passes, b # a, MaySend(at[b].pc)
      PROVE  FALSE
  <2>1. at[b].id \in Requests
    BY <1>8 DEF PassShape, MaySend
  <2>2. row[at[b].id].status # "none"
    BY <2>1 DEF Unknown
  <2>3. at[b].id = own
    BY <1>4, <2>1, <2>2 DEF Engaged
  <2>4. at[a].id = own
    BY <1>3, <1>5, <2>2, <2>3
  <2> QED
    BY <1>1, <1>2, <1>8, <2>3, <2>4 DEF Alone
<1>9. ASSUME NEW b \in Staff, MaySend(at[b].pc)
      PROVE  FALSE
  BY <1>9 DEF StaffShape, Loose, MaySend
<1>10. \A b \in Actors : ~MaySend(at'[b].pc)
  BY <1>7, <1>8, <1>9 DEF MaySend
<1>11. ASSUME NEW q \in Requests
       PROVE  Recorded(q)'
  <2>1. row[q].status # "none" => q = own
    BY <1>4 DEF Engaged
  <2>2. row[q].status # "none" => at[a].id = q
    BY <1>3, <1>5, <2>1
  <2>3. at[a].id = q => at'[a].id = q /\ at'[a].verdict = "SENT"
    OBVIOUS
  <2> QED
    BY <1>1, <2>2, <2>3 DEF Recorded
<1> QED
  BY <1>4, <1>10, <1>11 DEF Closed

\* The steps that remain when nobody can send the conversion again.
LEMMA ClosedSteps ==
    ASSUME IInv, Closed, ~Loose, ~Loose', [Next]_vars
    PROVE  \/ \E x \in Requests : (Ingests(x) /\ receipt) \/ GoesStale(x) \/ GoesOld(x) \/ Marks(x)
           \/ \E p \in Passes : PassFinishes(p)
           \/ \E p \in Passes : /\ PassReads(p) \/ PassEnds(p) \/ \E d \in todo[p] : PassGivesUp(p, d) \/ PassClaims(p, d)
                                /\ row' = row /\ (at' = at \/ at' = [at EXCEPT ![p].pc = "next"] \/ at' = [at EXCEPT ![p].pc = "idle"])
           \/ \E s \in Staff : (ManualReads(s) \/ ManualSets(s)) /\ row' = row
           \/ \E a \in Actors : Dies(a)
           \/ Switches \/ UNCHANGED vars
<1> USE ConstantsAssumption DEF IInv, Shape, TypeOK, Actors, Workers
<1>1. receipt /\ \A a \in Actors : at[a].pc \notin {"ingest", "undo", "log", "send"}
  BY DEF Closed, MaySend
<1>9. ASSUME NEW a \in Actors, NEW pc, Answered(a, pc) \/ Unanswered(a)
      PROVE  FALSE
  <2>1. at[a].pc = "send"
    BY <1>9, Zenon DEF Answered, Unanswered
  <2> QED
    BY <1>1, <2>1
<1>10. \A a \in Actors : ~Sends(a) /\ ~PassSends(a)
  BY <1>9, Zenon DEF Sends, PassSends
<1>2. CASE \E x \in Requests : RequestSteps(x) \/ GoesStale(x) \/ GoesOld(x)
  <2>1. PICK x \in Requests : RequestSteps(x) \/ GoesStale(x) \/ GoesOld(x)
    BY <1>2
  <2>2. ~Ingested(x) /\ ~Undoes(x) /\ ~Declines(x) /\ ~Logs(x) /\ ~TokenThrows(x)
    BY <1>1 DEF Ingested, Undoes, Declines, Logs, TokenThrows
  <2> QED
    BY <1>1, <1>10, <2>1, <2>2 DEF RequestSteps
<1>3. ASSUME NEW p \in Passes, NEW d \in todo[p], PassGivesUp(p, d)
      PROVE  row' = row /\ at' = at
  <2>1. d.id \in Requests
    BY <1>3 DEF Reading
  <2>2. CASE row[d.id].status = "PENDING" /\ d.status = "PENDING"
    <3> DEFINE r == [row[d.id] EXCEPT !.status = "FAILED", !.loose = row[d.id].loose \/ Busy(d.id)]
    <3>1. Busy(d.id)
      BY <2>1, <2>2 DEF Closed, Recorded, Busy
    <3>2. row'[d.id] = r
      BY <1>3, <2>1, <2>2 DEF PassGivesUp
    <3>3. r.loose = (row[d.id].loose \/ Busy(d.id))
      BY <2>1 DEF Row
    <3> QED
      BY <2>1, <3>1, <3>2, <3>3, Zenon DEF Loose
  <2> QED
    BY <1>3, <2>2 DEF PassGivesUp
<1>4. ASSUME NEW p \in Passes, NEW d \in todo[p], PassClaims(p, d)
      PROVE  row' = row /\ at' = at
  <2>1. d \in Reading /\ d.id \in Requests /\ d.status \in {"PENDING", "FAILED"}
    BY <1>4 DEF Reading
  <2>2. CASE Claimable(d)
    <3>1. Busy(d.id)
      BY <2>1, <2>2 DEF Claimable, Closed, Recorded, Busy
    <3>2. Fresh(d.id) /\ Past(d.id)
      BY <2>1 DEF Exclusive, Loose
    <3>3. row[d.id].status = "PENDING"
      BY <3>1, <3>2 DEF Busy, Fresh
    <3>4. d.status = "FAILED" \/ d.attempts < row[d.id].attempts
      BY <3>1, <3>2 DEF Past
    <3> QED
      BY <2>1, <2>2, <3>3, <3>4 DEF Claimable, Reading
  <2> QED
    BY <1>4, <2>2 DEF PassClaims
<1>5. CASE \E p \in Passes : PassSteps(p)
  <2>1. PICK p \in Passes : PassSteps(p)
    BY <1>5
  <2>2. CASE PassReads(p) \/ PassEnds(p)
    BY <2>2 DEF PassReads, PassEnds, Goes
  <2>3. CASE \E d \in todo[p] : PassGivesUp(p, d) \/ PassClaims(p, d)
    BY <1>3, <1>4, <2>3
  <2>4. ~PassSends(p)
    BY <1>10
  <2> QED
    BY <2>1, <2>2, <2>3, <2>4 DEF PassSteps
<1>6. ASSUME NEW s \in Staff, ManualSets(s)
      PROVE  row' = row
  <2> DEFINE x == at[s].id
             r == [row[x] EXCEPT !.status = "PENDING", !.attempts = at[s].attempts + 1, !.loose = TRUE]
  <2>1. x \in Requests
    BY <1>6 DEF ManualSets, StaffShape
  <2>2. row' = row \/ row'[x] = r
    BY <1>6, <2>1 DEF ManualSets
  <2>3. r.loose
    BY <2>1 DEF Row
  <2> QED
    BY <2>1, <2>2, <2>3 DEF Loose
<1>7. CASE \E s \in Staff : ManualReads(s) \/ ManualSteps(s)
  <2>1. PICK s \in Staff : ManualReads(s) \/ ManualSteps(s)
    BY <1>7
  <2>2. ~Sends(s) /\ ~TokenThrows(s)
    BY <1>1, <1>10 DEF TokenThrows
  <2>3. ~Marks(s)
    BY DEF Marks, StaffShape, Loose
  <2>4. ManualReads(s) => row' = row
    BY DEF ManualReads
  <2> QED
    BY <1>6, <2>1, <2>2, <2>3, <2>4 DEF ManualSteps
<1>8. CASE (\E a \in Actors : Dies(a)) \/ Switches \/ UNCHANGED vars
  BY <1>8
<1> QED
  BY <1>2, <1>5, <1>7, <1>8 DEF Next

\* An actor that was told of the acceptance is the only one who works on its row.
LEMMA TellerAlone ==
    ASSUME IInv, Closed, ~Loose, NEW a \in Workers, at[a].id \in Requests
    PROVE  at[a].verdict = "SENT"
<1> USE DEF IInv, Shape, TypeOK, Actors, Workers
<1>1. Alone(at[a].id) /\ Fresh(at[a].id)
  BY DEF Exclusive, Loose
<1>2. PICK b \in Workers : at[b].id = at[a].id /\ at[b].verdict = "SENT"
  BY <1>1 DEF Fresh, Closed, Recorded
<1> QED
  BY <1>1, <1>2 DEF Alone

\* While the conversion is closed nothing is accepted, and it stays closed until an
\* acceptance is lost.
LEMMA ClosedKept ==
    ASSUME IInv, Unlogged, Closed, ~Loose, ~Loose', [Next]_vars
    PROVE  /\ accepted' = accepted
           /\ excused' = excused + 1 \/ (excused' = excused /\ Closed')
<1> USE ConstantsAssumption DEF IInv, Shape, TypeOK, Actors, Workers
<1>1. receipt /\ (\A a \in Actors : ~MaySend(at[a].pc)) /\ \A q \in Requests : Recorded(q)
  BY DEF Closed
<1>2. ASSUME receipt', \A a \in Actors : ~MaySend(at'[a].pc),
             \A a \in Workers : at[a].verdict = "SENT" => at'[a].id = at[a].id /\ at'[a].verdict = at[a].verdict,
             \A q \in Requests : row'[q].status = row[q].status
      PROVE  Closed'
  BY <1>1, <1>2 DEF Closed, Recorded
<1>3. ASSUME NEW x \in Requests, Ingests(x), receipt
      PROVE  accepted' = accepted /\ excused' = excused /\ Closed'
  <2>1. at' = [at EXCEPT ![x].pc = "over"] /\ UNCHANGED <<row, accepted, excused>> /\ receipt'
    BY <1>3 DEF Ingests, Goes
  <2>2. at'[x].pc = "over" /\ at'[x].id = at[x].id /\ at'[x].verdict = at[x].verdict
    BY <2>1 DEF Call
  <2> QED
    BY <1>1, <1>2, <2>1, <2>2 DEF MaySend
<1>4. ASSUME NEW x \in Requests, GoesStale(x) \/ GoesOld(x)
      PROVE  accepted' = accepted /\ excused' = excused /\ Closed'
  <2>1. \A q \in Requests : row'[q].status = row[q].status
    BY <1>4 DEF GoesStale, GoesOld, Row
  <2>2. UNCHANGED <<at, accepted, excused, receipt>>
    BY <1>4 DEF GoesStale, GoesOld
  <2>3. receipt'
    BY <1>1, <2>2, Zenon
  <2> QED
    BY <1>1, <1>2, <2>1, <2>2, <2>3
\* Somebody gives up the row it works on: it is recorded, or the acceptance is lost.
<1>5. ASSUME NEW a \in Workers, NEW c \in Call, at' = [at EXCEPT ![a] = c], ~MaySend(c.pc),
             UNCHANGED receipt, at[a].verdict # "SENT" \/ at[a].id \notin Requests,
             \A q \in Requests : row'[q].status = row[q].status
      PROVE  Closed'
  <2>1. receipt'
    BY <1>1, <1>5, Zenon
  <2>2. \A b \in Actors : ~MaySend(at'[b].pc)
    BY <1>1, <1>5
  <2>3. \A q \in Requests : Recorded(q)'
    <3> SUFFICES ASSUME NEW q \in Requests PROVE Recorded(q)'
      OBVIOUS
    <3>1. CASE row[q].status \in {"none", "SENT"}
      BY <1>5, <3>1 DEF Recorded
    <3>2. CASE \E b \in Workers : at[b].id = q /\ at[b].verdict = "SENT"
      <4>1. PICK b \in Workers : at[b].id = q /\ at[b].verdict = "SENT"
        BY <3>2
      <4>2. b # a /\ at'[b] = at[b]
        BY <1>5, <4>1
      <4> QED
        BY <4>1, <4>2 DEF Recorded
    <3> QED
      BY <1>1, <3>1, <3>2 DEF Recorded
  <2> QED
    BY <2>1, <2>2, <2>3 DEF Closed
<1>6. ASSUME NEW a \in Workers, NEW c \in Call, at' = [at EXCEPT ![a] = c], ~MaySend(c.pc),
             UNCHANGED receipt, at[a].id \in Requests, row'[at[a].id].status = "SENT",
             \A q \in Requests : q # at[a].id => row'[q] = row[q]
      PROVE  Closed'
  <2>1. receipt'
    BY <1>1, <1>6, Zenon
  <2>2. \A b \in Actors : ~MaySend(at'[b].pc)
    BY <1>1, <1>6
  <2>3. \A q \in Requests : Recorded(q)'
    <3> SUFFICES ASSUME NEW q \in Requests, q # at[a].id PROVE Recorded(q)'
      BY <1>6 DEF Recorded
    <3>1. CASE row[q].status \in {"none", "SENT"}
      BY <1>6, <3>1 DEF Recorded
    <3>2. CASE \E b \in Workers : at[b].id = q /\ at[b].verdict = "SENT"
      <4>1. PICK b \in Workers : at[b].id = q /\ at[b].verdict = "SENT"
        BY <3>2
      <4>2. b # a /\ at'[b] = at[b]
        BY <1>6, <4>1
      <4> QED
        BY <4>1, <4>2 DEF Recorded
    <3> QED
      BY <1>1, <3>1, <3>2 DEF Recorded
  <2> QED
    BY <2>1, <2>2, <2>3 DEF Closed
<1>7. ASSUME NEW x \in Requests, Marks(x)
      PROVE  /\ accepted' = accepted
             /\ excused' = excused + 1 \/ (excused' = excused /\ Closed')
  <2> DEFINE c == Over(x)
             y == at[x].id
  <2>1. c \in Call /\ ~MaySend(c.pc)
    BY DEF Over, Idle, Call, Stages, MaySend
  <2>2. at' = [at EXCEPT ![x] = c] /\ UNCHANGED <<receipt, accepted>> /\ y \in Requests \cup {"none"}
    BY <1>7 DEF Marks, Call
  <2>3. CASE row' = row /\ excused' = excused + Count(at[x].verdict = "SENT")
    <3>1. CASE at[x].verdict = "SENT"
      BY <2>2, <2>3, <3>1 DEF Count
    <3>2. CASE at[x].verdict # "SENT"
      <4>1. excused' = excused
        BY <2>3, <3>2 DEF Count
      <4>2. \A q \in Requests : row'[q].status = row[q].status
        BY <2>3
      <4> QED
        BY <1>5, <2>1, <2>2, <3>2, <4>1, <4>2
    <3> QED
      BY <3>1, <3>2
  <2>4. CASE row' = row /\ excused' = excused /\ y = "none"
    BY <1>5, <2>1, <2>2, <2>4
  <2>5. CASE /\ y # "none" /\ excused' = excused
             /\ row' = [row EXCEPT ![y] = [row[y] EXCEPT !.status = at[x].verdict, !.attempts = at[x].tries]]
    <3>1. y \in Requests /\ at[x].verdict = "SENT"
      BY <2>2, <2>5, TellerAlone
    <3>2. [row[y] EXCEPT !.status = at[x].verdict, !.attempts = at[x].tries].status = "SENT"
      BY <3>1 DEF Row
    <3> QED
      BY <1>6, <2>1, <2>2, <2>5, <3>1, <3>2
  <2> QED
    BY <1>7, <2>3, <2>4, <2>5 DEF Marks
<1>8. ASSUME NEW p \in Passes, PassFinishes(p)
      PROVE  /\ accepted' = accepted
             /\ excused' = excused + 1 \/ (excused' = excused /\ Closed')
  <2>1. /\ at[p].id \in Requests /\ UNCHANGED <<receipt, accepted>> /\ at[p].verdict = "SENT"
    BY <1>8, TellerAlone DEF PassFinishes, PassShape
  <2>2. CASE excused' = excused + Count(at[p].verdict = "SENT")
    BY <2>1, <2>2 DEF Count
  <2>3. CASE /\ excused' = excused /\ row' = [row EXCEPT ![at[p].id].status = at[p].verdict]
             /\ at' = [at EXCEPT ![p] = [Idle EXCEPT !.pc = "next"]]
    <3> DEFINE c == [Idle EXCEPT !.pc = "next"]
    <3>1. c \in Call /\ ~MaySend(c.pc)
      BY DEF Idle, Call, Stages, MaySend
    <3>2. row'[at[p].id].status = "SENT"
      BY <2>1, <2>3 DEF Row
    <3> QED
      BY <1>6, <2>1, <2>3, <3>1, <3>2
  <2> QED
    BY <1>8, <2>2, <2>3 DEF PassFinishes
<1>9. ASSUME NEW p \in Passes,
             PassReads(p) \/ PassEnds(p) \/ \E d \in todo[p] : PassGivesUp(p, d) \/ PassClaims(p, d),
             row' = row, at' = at \/ at' = [at EXCEPT ![p].pc = "next"] \/ at' = [at EXCEPT ![p].pc = "idle"]
      PROVE  accepted' = accepted /\ excused' = excused /\ Closed'
  <2>1. UNCHANGED <<accepted, excused, receipt>>
    <3>1. CASE PassReads(p) \/ PassEnds(p)
      BY <3>1 DEF PassReads, PassEnds
    <3>2. CASE \E d \in todo[p] : PassGivesUp(p, d) \/ PassClaims(p, d)
      BY <3>2, Zenon DEF PassGivesUp, PassClaims
    <3> QED
      BY <1>9, <3>1, <3>2
  <2>2. receipt'
    BY <1>1, <2>1, Zenon
  <2>3. /\ at'[p].pc = at[p].pc \/ at'[p].pc \in {"next", "idle"}
        /\ at'[p].id = at[p].id /\ at'[p].verdict = at[p].verdict
    BY <1>9 DEF Call
  <2> QED
    BY <1>1, <1>2, <1>9, <2>1, <2>2, <2>3 DEF MaySend
<1>10. ASSUME NEW s \in Staff, ManualReads(s) \/ ManualSets(s), row' = row
       PROVE  accepted' = accepted /\ excused' = excused /\ Closed'
  <2>1. UNCHANGED <<accepted, excused, receipt>>
    BY <1>10 DEF ManualReads, ManualSets
  <2>2. receipt'
    BY <1>1, <2>1, Zenon
  <2>3. \/ \E x \in Requests : at' = [at EXCEPT ![s] = Reads(x)]
        \/ at' = [at EXCEPT ![s] = Idle]
        \/ \E r : /\ row' = [row EXCEPT ![at[s].id] = r] /\ r.loose
                  /\ at[s].id \in Requests
    <3>1. CASE ManualReads(s)
      BY <3>1 DEF ManualReads
    <3>2. CASE ManualSets(s)
      <4> DEFINE r == [row[at[s].id] EXCEPT !.status = "PENDING", !.attempts = at[s].attempts + 1, !.loose = TRUE]
      <4>1. at[s].id \in Requests
        BY <3>2 DEF ManualSets, StaffShape
      <4>2. r.loose
        BY <4>1 DEF Row
      <4>3. at' = [at EXCEPT ![s] = Idle] \/ row' = [row EXCEPT ![at[s].id] = r]
        BY <3>2 DEF ManualSets
      <4> QED
        BY <4>1, <4>2, <4>3
    <3> QED
      BY <1>10, <3>1, <3>2
  <2>4. PICK c : at' = [at EXCEPT ![s] = c] /\ c.pc \in {"set", "idle"}
    BY <2>3 DEF Reads, Idle, Loose
  <2>5. \A a \in Actors : ~MaySend(at'[a].pc)
    BY <1>1, <2>4 DEF MaySend
  <2>6. \A a \in Workers : at'[a] = at[a]
    BY <2>4
  <2> QED
    BY <1>2, <1>10, <2>1, <2>2, <2>5, <2>6
<1>11. ASSUME NEW a \in Actors, Dies(a)
       PROVE  /\ accepted' = accepted
              /\ excused' = excused + 1 \/ (excused' = excused /\ Closed')
  <2>1. /\ at' = [at EXCEPT ![a] = Over(a)] /\ UNCHANGED <<row, receipt, accepted>>
        /\ excused' = excused + Count(at[a].verdict = "SENT")
    BY <1>11 DEF Dies
  <2>2. Over(a) \in Call /\ ~MaySend(Over(a).pc)
    BY DEF Over, Idle, Call, Stages, MaySend
  <2>3. CASE at[a].verdict = "SENT"
    BY <2>1, <2>3 DEF Count
  <2>4. CASE at[a].verdict # "SENT"
    <3>1. excused' = excused
      BY <2>1, <2>4 DEF Count
    <3>2. CASE a \in Workers
      BY <1>5, <2>1, <2>2, <2>4, <3>1, <3>2
    <3>3. CASE a \in Staff
      <4>1. receipt'
        BY <1>1, <2>1, Zenon
      <4>2. (\A b \in Actors : ~MaySend(at'[b].pc)) /\ \A b \in Workers : at'[b] = at[b]
        BY <1>1, <2>1, <2>2, <3>3
      <4> QED
        BY <1>2, <2>1, <3>1, <4>1, <4>2
    <3> QED
      BY <3>2, <3>3
  <2> QED
    BY <2>3, <2>4
<1>12. CASE Switches \/ UNCHANGED vars
  <2>1. UNCHANGED <<at, row, receipt, accepted, excused>>
    BY <1>12 DEF Switches, vars
  <2>2. receipt'
    BY <1>1, <2>1, Zenon
  <2> QED
    BY <1>1, <1>2, <2>1, <2>2
<1> QED
  BY <1>3, <1>4, <1>7, <1>8, <1>9, <1>10, <1>11, <1>12, ClosedSteps

\* An acceptance is counted when it is made, and excused when it is lost.
LEMMA CountSteps ==
    ASSUME IInv, [Next]_vars
    PROVE  \/ accepted' = accepted /\ excused' \in Nat /\ excused' >= excused
           \/ accepted' = accepted + 1 /\ excused' = excused + 1
           \/ /\ accepted' = accepted + 1 /\ excused' = excused
              /\ \E a \in Actors, c \in Call :
                    /\ at[a].pc = "send" /\ at' = [at EXCEPT ![a] = c]
                    /\ c.id = at[a].id /\ c.pc \in {"mark", "finish"} /\ c.verdict = "SENT"
                    /\ UNCHANGED <<receipt, row>>
<1> USE DEF IInv, TypeOK, Actors
<1>1. ASSUME NEW a \in Actors, NEW pc \in {"mark", "finish"}, Answered(a, pc), UNCHANGED <<receipt, row>>
      PROVE  \/ accepted' = accepted /\ excused' = excused
             \/ /\ accepted' = accepted + 1 /\ excused' = excused
                /\ \E c \in Call : /\ at[a].pc = "send" /\ at' = [at EXCEPT ![a] = c]
                                   /\ c.id = at[a].id /\ c.pc \in {"mark", "finish"} /\ c.verdict = "SENT"
  <2>1. PICK v \in Verdicts : /\ at' = [at EXCEPT ![a] = [at[a] EXCEPT !.pc = pc, !.verdict = v]]
                              /\ accepted' = accepted + Count(v = "SENT")
    BY <1>1 DEF Answered, Verdicts, Refusals
  <2>2. at[a].pc = "send" /\ excused' = excused
    BY <1>1 DEF Answered
  <2> DEFINE c == [at[a] EXCEPT !.pc = pc, !.verdict = v]
  <2>3. c \in Call /\ c.pc = pc /\ c.id = at[a].id /\ c.verdict = v
    BY DEF Call, Stages, Verdicts
  <2>4. CASE v = "SENT"
    BY <2>1, <2>2, <2>3, <2>4 DEF Count
  <2>5. CASE v # "SENT"
    BY <2>1, <2>2, <2>5 DEF Count
  <2> QED
    BY <2>4, <2>5
<1>2. ASSUME NEW a \in Actors, Unanswered(a)
      PROVE  \/ accepted' = accepted /\ excused' = excused
             \/ accepted' = accepted + 1 /\ excused' = excused + 1
  BY <1>2 DEF Unanswered
<1>3. ASSUME NEW a \in Actors, Marks(a) \/ Dies(a)
      PROVE  accepted' = accepted /\ excused' \in Nat /\ excused' >= excused
  BY <1>3 DEF Marks, Dies, Count
<1>4. ASSUME NEW p \in Passes, PassFinishes(p)
      PROVE  accepted' = accepted /\ excused' \in Nat /\ excused' >= excused
  BY <1>4 DEF PassFinishes, Count
<1>5. CASE \E x \in Requests : RequestSteps(x) \/ GoesStale(x) \/ GoesOld(x)
  <2>1. PICK x \in Requests : RequestSteps(x) \/ GoesStale(x) \/ GoesOld(x)
    BY <1>5
  <2>2. CASE Sends(x)
    BY <1>1, <1>2, <2>2 DEF Sends
  <2>3. CASE \/ Ingests(x) \/ Ingested(x) \/ Undoes(x) \/ Declines(x) \/ Logs(x)
             \/ TokenThrows(x) \/ GoesStale(x) \/ GoesOld(x)
    BY <2>3 DEF Ingests, Ingested, Undoes, Declines, Logs, TokenThrows, GoesStale, GoesOld
  <2> QED
    BY <1>3, <2>1, <2>2, <2>3 DEF RequestSteps
<1>6. CASE \E p \in Passes : PassSteps(p)
  <2>1. PICK p \in Passes : PassSteps(p)
    BY <1>6
  <2>2. CASE PassSends(p)
    BY <1>1, <1>2, <2>2 DEF PassSends
  <2>3. CASE PassReads(p) \/ PassEnds(p)
    BY <2>3 DEF PassReads, PassEnds
  <2>4. CASE \E d \in todo[p] : PassGivesUp(p, d) \/ PassClaims(p, d)
    <3>1. UNCHANGED <<accepted, excused>>
      BY <2>4, Zenon DEF PassGivesUp, PassClaims
    <3> QED
      BY <3>1
  <2> QED
    BY <1>4, <2>1, <2>2, <2>3, <2>4 DEF PassSteps
<1>7. CASE \E s \in Staff : ManualReads(s) \/ ManualSteps(s)
  <2>1. PICK s \in Staff : ManualReads(s) \/ ManualSteps(s)
    BY <1>7
  <2>2. CASE Sends(s)
    BY <1>1, <1>2, <2>2 DEF Sends
  <2>3. CASE ManualReads(s) \/ ManualSets(s) \/ TokenThrows(s)
    BY <2>3 DEF ManualReads, ManualSets, TokenThrows
  <2> QED
    BY <1>3, <2>1, <2>2, <2>3 DEF ManualSteps
<1>8. CASE Switches \/ UNCHANGED vars
  BY <1>8 DEF Switches, vars
<1> QED
  BY <1>3, <1>5, <1>6, <1>7, <1>8 DEF Next

LEMMA CountedKept ==
    ASSUME IInv, Counted, [Next]_vars
    PROVE  Counted'
<1> USE DEF Counted
<1>1. OneReceipt' /\ Unlogged'
  BY ReceiptKept, UnloggedKept
<1>2. ASSUME ~Loose'
      PROVE  Spent'
  <2>1. ~Loose /\ Spent
    BY <1>2, LooseKept
  <2>2. accepted \in Nat /\ excused \in Nat
    BY DEF IInv, TypeOK
  <2>3. CASE accepted = excused + 1 /\ Closed
    BY <1>2, <2>1, <2>2, <2>3, ClosedKept DEF Spent
  <2>4. CASE accepted <= excused
    <3>1. CASE accepted' = accepted + 1 /\ excused' = excused
      BY <2>1, <2>2, <2>4, <3>1, CountSteps, AcceptedCloses DEF Spent
    <3> QED
      BY <2>2, <2>4, <3>1, CountSteps DEF Spent
  <2> QED
    BY <2>1, <2>3, <2>4 DEF Spent
<1> QED
  BY <1>1, <1>2

\* Repeated events, overlapping passes and retries send the conversion again only
\* after an acceptance that could not be recorded, or when a row was written without
\* regard to a claim, for any number of requests, passes and failures (processEvent,
\* sendWithRetry, claimDelivery, finishAttempt).
THEOREM NoNeedlessRepeat == Spec => []RepeatsExcused
<1>1. Init => Counted
  BY DEF Init, Counted, OneReceipt, Engaged, Unlogged, Spent, NoRow, Idle, Actors
<1>2. IInv /\ Counted => RepeatsExcused
  BY DEF IInv, TypeOK, Counted, Spent, Loose, RepeatsExcused
<1> QED
  BY Invariance, CountedKept, <1>1, <1>2, PTL DEF Spec
=============================================================================
