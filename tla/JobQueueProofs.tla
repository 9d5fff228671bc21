---------------------------- MODULE JobQueueProofs ----------------------------
(***************************************************************************)
(* Theorems about JobQueue for every number of rows, keys, producers and   *)
(* workers, and every MaxAttempts, Concurrency and set of priorities.      *)
(***************************************************************************)
EXTENDS JobQueue, FiniteSetTheorems, TLAPS

-----------------------------------------------------------------------------
(* Types.                                                                  *)

\* An INSERT writes a well-typed row.
LEMMA InsertType ==
    ASSUME TypeOK, NEW k \in Keys \cup {NoKey}, NEW prio \in Nat, Insert(k, prio)
    PROVE  job' \in [Jobs -> Row]
<1>1. PICK j \in Jobs :
         job' = [job EXCEPT ![j] = [NewRow EXCEPT !.status = "queued", !.key = k,
                                                 !.priority = prio, !.ripe = TRUE]]
  BY DEF Insert
<1>2. [NewRow EXCEPT !.status = "queued", !.key = k, !.priority = prio,
                     !.ripe = TRUE] \in Row
  BY DEF NewRow, Row, Status
<1> QED BY <1>1, <1>2 DEF TypeOK

\* Every variable keeps its type: rows, claims, executions, process states and
\* the positions of producers in enqueue.
THEOREM TypeCorrect == Spec => []TypeOK
<1>1. Init => TypeOK
  BY DEF Init, TypeOK, NewRow, Row, Status, Producer, Idle, Execution
<1>2. TypeOK /\ [Next]_vars => TypeOK'
  <2> SUFFICES ASSUME TypeOK, [Next]_vars PROVE TypeOK'
    OBVIOUS
  <2>1. ASSUME NEW p \in Producers, ProducerStep(p) PROVE TypeOK'
    <3>1. CASE Enqueue(p)
      <4>1. PICK k \in Keys \cup {NoKey}, prio \in Priorities :
               \/ Insert(k, prio) /\ UNCHANGED producer
               \/ /\ producer' = [producer EXCEPT
                         ![p] = [at |-> "hit", key |-> k, priority |-> prio]]
                  /\ UNCHANGED job
        BY <3>1 DEF Enqueue
      <4>2. prio \in Nat
        BY PriorityAssumption
      <4>3. job' \in [Jobs -> Row]
        BY <4>1, <4>2, InsertType DEF TypeOK
      <4>4. producer' \in [Producers -> Producer]
        BY <4>1, <4>2 DEF TypeOK, Producer
      <4> QED BY <3>1, <4>3, <4>4 DEF Enqueue, TypeOK
    <3>2. CASE FindExisting(p)
      BY <3>2 DEF FindExisting, TypeOK, Producer, Idle
    <3>3. CASE RetryInsert(p)
      <4>1. producer[p].key \in Keys \cup {NoKey} /\ producer[p].priority \in Nat
        BY DEF TypeOK, Producer
      <4>2. job' \in [Jobs -> Row]
        BY <3>3, <4>1, InsertType DEF RetryInsert, TypeOK
      <4>3. producer' \in [Producers -> Producer]
        BY <3>3 DEF RetryInsert, TypeOK, Producer, Idle
      <4> QED BY <3>3, <4>2, <4>3 DEF RetryInsert, TypeOK
    <3> QED BY <2>1, <3>1, <3>2, <3>3 DEF ProducerStep
  <2>2. ASSUME NEW w \in Workers, WorkerStep(w) PROVE TypeOK'
    <3>1. CASE ClaimNext(w)
      BY <3>1 DEF ClaimNext, Candidates, Runnable, TypeOK
    <3>2. CASE CommitClaim(w)
      <4> DEFINE j == claiming[w]
      <4>1. j \in Jobs
        BY <3>2 DEF CommitClaim, TypeOK
      <4>2. job' \in [Jobs -> Row]
        BY <3>2, <4>1 DEF CommitClaim, TypeOK, Row, Status
      <4>3. [job |-> j, attempt |-> job[j].attempts + 1, worker |-> w,
             phase |-> "run"] \in Execution
        BY <4>1 DEF Execution, TypeOK, Row
      <4> QED BY <3>2, <4>1, <4>2, <4>3 DEF CommitClaim, TypeOK
    <3>3. CASE AbortClaim(w)
      BY <3>3 DEF AbortClaim, TypeOK
    <3>4. CASE RequeueStale(w)
      BY <3>4 DEF RequeueStale, Swept, TypeOK, Row, Status
    <3>5. CASE Stop(w) \/ Exit(w) \/ Restart(w)
      BY <3>5 DEF Stop, Exit, Restart, TypeOK
    <3>6. CASE Crash(w)
      BY <3>6 DEF Crash, TypeOK
    <3> QED BY <2>2, <3>1, <3>2, <3>3, <3>4, <3>5, <3>6 DEF WorkerStep
  <2>3. ASSUME NEW e \in exec, ExecStep(e) PROVE TypeOK'
    <3> e \in Execution /\ e.job \in Jobs
      BY DEF TypeOK, Execution
    <3>1. CASE Return(e) \/ CompleteError(e)
      BY <3>1 DEF Return, CompleteError, Advance, TypeOK, Execution
    <3>2. CASE Complete(e)
      BY <3>2 DEF Complete, TypeOK, Row, Status
    <3>3. CASE FailRequeue(e)
      BY <3>3 DEF FailRequeue, TypeOK, Row, Status
    <3>4. CASE FailForGood(e)
      BY <3>4 DEF FailForGood, TypeOK, Row, Status
    <3>5. CASE FailError(e)
      BY <3>5 DEF FailError, TypeOK
    <3>6. CASE Heartbeat(e)
      BY <3>6 DEF Heartbeat, TypeOK, Row, Status
    <3> QED BY <2>3, <3>1, <3>2, <3>3, <3>4, <3>5, <3>6 DEF ExecStep
  <2>4. ASSUME NEW j \in Jobs, TimeStep(j) PROVE TypeOK'
    <3>1. CASE GoStale(j)
      BY <3>1 DEF GoStale, TypeOK, Row
    <3>2. CASE Ripen(j)
      BY <3>2 DEF Ripen, TypeOK, Row
    <3> QED BY <2>4, <3>1, <3>2 DEF TimeStep
  <2>5. CASE UNCHANGED vars
    BY <2>5 DEF vars, TypeOK
  <2> QED BY <2>1, <2>2, <2>3, <2>4, <2>5 DEF Next
<1> QED BY <1>1, <1>2, PTL DEF Spec
-----------------------------------------------------------------------------
(* Claims.                                                                 *)

\* What makes claims exclusive.  A row in an open claim is queued, so only the
\* claim that holds it can increment its attempts; an execution's attempt is
\* one the row has already counted, so the next claim makes a new pair.
ClaimInv ==
    /\ HeldRowsStayQueued
    /\ ClaimsAreExclusive
    /\ \A e \in exec : e.attempt <= job[e.job].attempts
    /\ \A j \in Jobs : job[j].status = "absent" => job[j].attempts = 0

\* Rows that a step may change, and how: outside CommitClaim no attempts
\* change, and no row in an open claim changes its status.
LEMMA RowsKept ==
    ASSUME TypeOK, ClaimInv, [Next]_vars, \A w \in Workers : ~CommitClaim(w),
           NEW j \in Jobs
    PROVE  /\ job'[j].attempts = job[j].attempts
           /\ j \in Locked => job'[j].status = job[j].status
           /\ job'[j].status = "absent" => job[j].status = "absent"
<1> DEFINE Goal == /\ job'[j].attempts = job[j].attempts
                   /\ j \in Locked => job'[j].status = job[j].status
                   /\ job'[j].status = "absent" => job[j].status = "absent"
<1>0. j \in Locked => job[j].status = "queued"
  BY DEF ClaimInv, HeldRowsStayQueued, Locked
<1>1. ASSUME NEW k, NEW prio, Insert(k, prio) PROVE Goal
  BY <1>0, <1>1 DEF Insert, NewRow, TypeOK, ClaimInv, Row
<1>2. ASSUME NEW p \in Producers, ProducerStep(p) PROVE Goal
  BY <1>1, <1>2 DEF ProducerStep, Enqueue, FindExisting, RetryInsert
<1>3. ASSUME NEW w \in Workers, WorkerStep(w) PROVE Goal
  <2>1. CASE RequeueStale(w)
    BY <2>1, <1>0 DEF RequeueStale, StaleRunning, Swept, TypeOK, Row
  <2>2. CASE ~RequeueStale(w)
    BY <1>3, <2>2 DEF WorkerStep, ClaimNext, AbortClaim, Stop, Exit, Crash, Restart
  <2> QED BY <2>1, <2>2
<1>4. ASSUME NEW e \in exec, ExecStep(e) PROVE Goal
  <2> e.job \in Jobs
    BY DEF TypeOK, Execution
  <2>1. CASE Complete(e)
    BY <2>1 DEF Complete, TypeOK, Row
  <2>2. CASE FailRequeue(e)
    BY <2>2 DEF FailRequeue, TypeOK, Row
  <2>3. CASE FailForGood(e)
    BY <2>3 DEF FailForGood, TypeOK, Row
  <2>4. CASE Heartbeat(e)
    BY <2>4 DEF Heartbeat, TypeOK, Row
  <2>5. CASE Return(e) \/ CompleteError(e) \/ FailError(e)
    BY <2>5 DEF Return, CompleteError, FailError
  <2> QED BY <1>4, <2>1, <2>2, <2>3, <2>4, <2>5 DEF ExecStep
<1>5. ASSUME NEW i \in Jobs, TimeStep(i) PROVE Goal
  <2>1. CASE GoStale(i)
    BY <2>1 DEF GoStale, TypeOK, Row
  <2>2. CASE Ripen(i)
    BY <2>2 DEF Ripen, TypeOK, Row
  <2> QED BY <1>5, <2>1, <2>2 DEF TimeStep
<1>6. ASSUME UNCHANGED vars PROVE Goal
  BY <1>6 DEF vars
<1> QED BY <1>2, <1>3, <1>4, <1>5, <1>6 DEF Next
\* Executions that a step other than CommitClaim leaves come one to one from
\* executions of the same row and attempt.
LEMMA ExecutionsKept ==
    ASSUME TypeOK, [Next]_vars, \A w \in Workers : ~CommitClaim(w)
    PROVE  \/ exec' \subseteq exec
           \/ \E e \in exec, phase \in {"returned", "raised"} : Advance(e, phase)
<1>1. ASSUME NEW p \in Producers, ProducerStep(p) PROVE exec' = exec
  BY <1>1 DEF ProducerStep, Enqueue, FindExisting, RetryInsert
<1>2. ASSUME NEW w \in Workers, WorkerStep(w) PROVE exec' \subseteq exec
  BY <1>2 DEF WorkerStep, ClaimNext, AbortClaim, RequeueStale, Stop, Exit, Crash,
              Restart
<1>3. ASSUME NEW e \in exec, ExecStep(e)
      PROVE  exec' \subseteq exec \/ \E phase \in {"returned", "raised"} :
                                       Advance(e, phase)
  BY <1>3 DEF ExecStep, Return, Complete, CompleteError, FailRequeue, FailForGood,
              FailError, Heartbeat
<1>4. ASSUME NEW j \in Jobs, TimeStep(j) PROVE exec' = exec
  BY <1>4 DEF TimeStep, GoStale, Ripen
<1>5. CASE UNCHANGED vars
  BY <1>5 DEF vars
<1> QED BY <1>1, <1>2, <1>3, <1>4, <1>5 DEF Next

\* A step changes open claims only by taking an unlocked runnable row for one
\* worker or by ending claims.
LEMMA ClaimsKept ==
    ASSUME TypeOK, [Next]_vars
    PROVE  \A v \in Workers :
              \/ claiming'[v] = claiming[v]
              \/ claiming'[v] = NoJob
              \/ ClaimNext(v)
<1>1. ASSUME NEW p \in Producers, ProducerStep(p) PROVE UNCHANGED claiming
  BY <1>1 DEF ProducerStep, Enqueue, FindExisting, RetryInsert
<1>2. ASSUME NEW w \in Workers, WorkerStep(w), NEW v \in Workers
      PROVE  \/ claiming'[v] = claiming[v] \/ claiming'[v] = NoJob \/ ClaimNext(v)
  <2>1. CASE ClaimNext(w)
    BY <2>1 DEF ClaimNext, TypeOK
  <2>2. CASE CommitClaim(w) \/ AbortClaim(w) \/ Crash(w)
    BY <2>2 DEF CommitClaim, AbortClaim, Crash, TypeOK
  <2>3. CASE RequeueStale(w) \/ Stop(w) \/ Exit(w) \/ Restart(w)
    BY <2>3 DEF RequeueStale, Stop, Exit, Restart
  <2> QED BY <1>2, <2>1, <2>2, <2>3 DEF WorkerStep
<1>3. ASSUME NEW e \in exec, ExecStep(e) PROVE UNCHANGED claiming
  BY <1>3 DEF ExecStep, Return, Complete, CompleteError, FailRequeue, FailForGood,
              FailError, Heartbeat
<1>4. ASSUME NEW j \in Jobs, TimeStep(j) PROVE UNCHANGED claiming
  BY <1>4 DEF TimeStep, GoStale, Ripen
<1>5. CASE UNCHANGED vars
  BY <1>5 DEF vars
<1> QED BY <1>1, <1>2, <1>3, <1>4, <1>5 DEF Next
-----------------------------------------------------------------------------

\* A claim's commit: the row was queued and unlocked by anybody else, and its
\* new attempt number is larger than that of any execution of the row.
LEMMA CommitKeepsClaimInv ==
    ASSUME TypeOK, ClaimInv, NEW w \in Workers, CommitClaim(w)
    PROVE  ClaimInv'
<1> DEFINE i == claiming[w]
<1> DEFINE new == [job |-> i, attempt |-> job[i].attempts + 1, worker |-> w,
                   phase |-> "run"]
<1>1. i \in Jobs /\ job[i].status = "queued" /\ job[i].attempts \in Nat
  BY DEF CommitClaim, TypeOK, ClaimInv, HeldRowsStayQueued, Row
<1>2. /\ job'[i].attempts = job[i].attempts + 1
      /\ job'[i].status = "running"
      /\ \A j \in Jobs : j # i => job'[j] = job[j]
  BY <1>1 DEF CommitClaim, TypeOK, Row
<1>3. \A v \in Workers : /\ claiming'[v] = claiming[v] \/ claiming'[v] = NoJob
                         /\ claiming'[v] # NoJob => claiming'[v] # i
  BY <1>1 DEF CommitClaim, TypeOK, ClaimInv, ClaimsAreExclusive
<1>4. exec' = exec \cup {new} /\ new.job = i /\ new.attempt = job[i].attempts + 1
  BY DEF CommitClaim
<1>5. \A e \in exec : e.job \in Jobs /\ e.attempt \in Nat /\ e.attempt <= job[e.job].attempts
  BY DEF TypeOK, Execution, ClaimInv
<1>6. HeldRowsStayQueued'
  BY <1>2, <1>3 DEF HeldRowsStayQueued, ClaimInv, TypeOK
<1>7. ClaimsAreExclusive'
  <2>1. \A v, u \in Workers :
           v # u /\ claiming'[v] # NoJob => claiming'[v] # claiming'[u]
    BY <1>3 DEF ClaimInv, ClaimsAreExclusive
  <2>2. \A d, e \in exec' : d.job = e.job /\ d.attempt = e.attempt => d = e
    <3> HIDE DEF new, i
    <3> SUFFICES ASSUME NEW d \in exec', NEW e \in exec', d.job = e.job,
                        d.attempt = e.attempt
                 PROVE  d = e
      OBVIOUS
    <3>1. CASE d \in exec /\ e \in exec
      BY <3>1 DEF ClaimInv, ClaimsAreExclusive
    <3>2. CASE d = new /\ e \in exec
      BY <3>2, <1>1, <1>4, <1>5
    <3>3. CASE e = new /\ d \in exec
      BY <3>3, <1>1, <1>4, <1>5
    <3> QED BY <1>4, <3>1, <3>2, <3>3
  <2> QED BY <2>1, <2>2 DEF ClaimsAreExclusive
<1>8. \A e \in exec' : e.attempt <= job'[e.job].attempts
  <2> SUFFICES ASSUME NEW e \in exec' PROVE e.attempt <= job'[e.job].attempts
    OBVIOUS
  <2> HIDE DEF new, i
  <2>1. CASE e = new
    BY <2>1, <1>1, <1>2, <1>4
  <2>2. CASE e \in exec /\ e.job = i
    BY <2>2, <1>1, <1>2, <1>5
  <2>3. CASE e \in exec /\ e.job # i
    BY <2>3, <1>2, <1>5
  <2> QED BY <1>4, <2>1, <2>2, <2>3
<1>9. \A j \in Jobs : job'[j].status = "absent" => job'[j].attempts = 0
  BY <1>2 DEF ClaimInv
<1> QED BY <1>6, <1>7, <1>8, <1>9 DEF ClaimInv

\* Every other step.
LEMMA OthersKeepClaimInv ==
    ASSUME TypeOK, ClaimInv, [Next]_vars, \A w \in Workers : ~CommitClaim(w)
    PROVE  ClaimInv'
<1>1. \A j \in Jobs : /\ job'[j].attempts = job[j].attempts
                      /\ j \in Locked => job'[j].status = job[j].status
                      /\ job'[j].status = "absent" => job[j].status = "absent"
  BY RowsKept
<1>2. \A v \in Workers : \/ claiming'[v] = claiming[v]
                         \/ claiming'[v] = NoJob
                         \/ ClaimNext(v)
  BY ClaimsKept
<1>3. \A e \in exec : e.job \in Jobs
  BY DEF TypeOK, Execution
<1>4. HeldRowsStayQueued' /\ (\A v, u \in Workers :
           v # u /\ claiming'[v] # NoJob => claiming'[v] # claiming'[u])
  <2>1. CASE \E w \in Workers : ClaimNext(w)
    <3>1. PICK w \in Workers : ClaimNext(w)
      BY <2>1
    <3>2. PICK i \in Candidates : claiming' = [claiming EXCEPT ![w] = i]
      BY <3>1 DEF ClaimNext
    <3>3. i \in Jobs /\ job[i].status = "queued" /\ i \notin Locked /\ i # NoJob
      BY JobAssumption DEF Candidates, Runnable
    <3>4. job' = job
      BY <3>1 DEF ClaimNext
    <3> QED BY <3>2, <3>3, <3>4 DEF ClaimInv, ClaimsAreExclusive, HeldRowsStayQueued,
                                    Locked, TypeOK
  <2>2. CASE \A w \in Workers : ~ClaimNext(w)
    <3>1. \A v \in Workers : claiming'[v] # NoJob => claiming'[v] = claiming[v]
      BY <2>2, <1>2
    <3>2. \A v \in Workers : claiming'[v] # NoJob
             => claiming[v] \in Jobs /\ claiming[v] \in Locked
      BY <3>1 DEF Locked, TypeOK
    <3> QED BY <3>1, <3>2, <1>1 DEF ClaimInv, ClaimsAreExclusive, HeldRowsStayQueued
  <2> QED BY <2>1, <2>2
<1>5. /\ \A d, e \in exec' : d.job = e.job /\ d.attempt = e.attempt => d = e
      /\ \A e \in exec' : e.attempt <= job'[e.job].attempts
  <2>1. CASE exec' \subseteq exec
    BY <2>1, <1>1, <1>3 DEF ClaimInv, ClaimsAreExclusive
  <2>2. CASE \E e \in exec, phase \in {"returned", "raised"} : Advance(e, phase)
    <3>1. PICK a \in exec, phase \in {"returned", "raised"} : Advance(a, phase)
      BY <2>2
    <3> DEFINE b == [a EXCEPT !.phase = phase]
    <3>2. exec' = (exec \ {a}) \cup {b}
      BY <3>1 DEF Advance
    <3>3. a \in Execution
      BY DEF TypeOK
    <3>4. b.job = a.job /\ b.attempt = a.attempt
      BY <3>3 DEF Execution
    <3> HIDE DEF b
    <3> QED BY <3>2, <3>4, <1>1, <1>3 DEF ClaimInv, ClaimsAreExclusive
  <2> QED BY <2>1, <2>2, ExecutionsKept
<1>6. \A j \in Jobs : job'[j].status = "absent" => job'[j].attempts = 0
  BY <1>1 DEF ClaimInv
<1> QED BY <1>4, <1>5, <1>6 DEF ClaimInv, ClaimsAreExclusive

LEMMA ClaimInvInvariant == Spec => []ClaimInv
<1>1. Init => ClaimInv
  BY DEF Init, ClaimInv, HeldRowsStayQueued, ClaimsAreExclusive, NewRow
<1>2. TypeOK /\ ClaimInv /\ [Next]_vars => ClaimInv'
  BY CommitKeepsClaimInv, OthersKeepClaimInv
<1> QED BY <1>1, <1>2, TypeCorrect, PTL DEF Spec

\* No two workers hold one row in an open claim, and no two executions come
\* from the same claim of a row: SKIP LOCKED and the increment of attempts in
\* the claim's transaction give every execution a number of its own.
THEOREM ClaimsExclusive == Spec => []ClaimsAreExclusive
BY ClaimInvInvariant, PTL DEF ClaimInv

\* Nobody changes the status of a row between a claim's UPDATE and its commit.
THEOREM HeldRowsQueued == Spec => []HeldRowsStayQueued
BY ClaimInvInvariant, PTL DEF ClaimInv
-----------------------------------------------------------------------------
(* Dedupe keys.                                                            *)

TwinInv == \A k \in Keys : \A i, j \in Twins(k) : i = j

\* A row that becomes pending, or changes its key while pending, was alone.
\* Every other step takes rows out of the unique index or leaves them there.
LEMMA TwinsChange ==
    ASSUME TypeOK, ClaimInv, [Next]_vars
    PROVE  \/ \A k \in Keys : Twins(k)' \subseteq Twins(k)
           \/ \E i \in Jobs : /\ \A j \in Jobs : j # i => job'[j] = job[j]
                              /\ Twins(job'[i].key) \subseteq {i}
<1> DEFINE Kept == \A k \in Keys : Twins(k)' \subseteq Twins(k)
<1> DEFINE Entered == \E i \in Jobs : /\ \A j \in Jobs : j # i => job'[j] = job[j]
                                      /\ Twins(job'[i].key) \subseteq {i}
<1>1. ASSUME NEW k, NEW prio, Insert(k, prio), Twins(k) = {} PROVE Entered
  <2>1. PICK i \in Jobs :
           job' = [job EXCEPT ![i] = [NewRow EXCEPT !.status = "queued", !.key = k,
                                                   !.priority = prio, !.ripe = TRUE]]
    BY <1>1 DEF Insert
  <2>2. job'[i].key = k
    BY <2>1 DEF NewRow, TypeOK
  <2> QED BY <1>1, <2>1, <2>2 DEF TypeOK
<1>2. ASSUME UNCHANGED job PROVE Kept
  BY <1>2 DEF Twins, Pending
<1>3. ASSUME NEW p \in Producers, ProducerStep(p) PROVE Kept \/ Entered
  <2> HIDE DEF Kept, Entered
  <2> QED BY <1>1, <1>2, <1>3 DEF ProducerStep, Enqueue, FindExisting, RetryInsert
<1>4. ASSUME NEW w \in Workers, WorkerStep(w) PROVE Kept
  <2>1. CASE CommitClaim(w)
    <3>1. claiming[w] \in Jobs /\ job[claiming[w]].status = "queued"
      BY <2>1 DEF CommitClaim, ClaimInv, HeldRowsStayQueued, TypeOK
    <3> QED BY <2>1, <3>1 DEF CommitClaim, Twins, Pending, TypeOK, Row
  <2>2. CASE RequeueStale(w)
    BY <2>2 DEF RequeueStale, StaleRunning, Swept, Twins, Pending, TypeOK, Row
  <2>3. CASE UNCHANGED job
    BY <2>3, <1>2
  <2> QED BY <1>4, <2>1, <2>2, <2>3 DEF WorkerStep, ClaimNext, AbortClaim, Stop, Exit,
                                        Crash, Restart
<1>5. ASSUME NEW e \in exec, ExecStep(e) PROVE Kept \/ Entered
  <2> e.job \in Jobs
    BY DEF TypeOK, Execution
  <2>1. CASE Complete(e)
    BY <2>1 DEF Complete, Twins, Pending, TypeOK, Row
  <2>2. CASE FailForGood(e)
    BY <2>2 DEF FailForGood, Twins, Pending, TypeOK, Row
  <2>3. CASE FailRequeue(e)
    <3>1. /\ \A j \in Jobs : j # e.job => job'[j] = job[j]
          /\ job'[e.job].key = job[e.job].key
      BY <2>3 DEF FailRequeue, TypeOK, Row
    <3> QED BY <2>3, <3>1 DEF FailRequeue
  <2>4. CASE Heartbeat(e)
    BY <2>4 DEF Heartbeat, Twins, Pending, TypeOK, Row
  <2>5. CASE UNCHANGED job
    BY <2>5, <1>2
  <2> HIDE DEF Kept, Entered
  <2> QED BY <1>5, <2>1, <2>2, <2>3, <2>4, <2>5 DEF ExecStep, Return, CompleteError,
                                                   FailError
<1>6. ASSUME NEW j \in Jobs, TimeStep(j) PROVE Kept
  <2>1. CASE GoStale(j)
    BY <2>1 DEF GoStale, Twins, Pending, TypeOK, Row
  <2>2. CASE Ripen(j)
    BY <2>2 DEF Ripen, Twins, Pending, TypeOK, Row
  <2> QED BY <1>6, <2>1, <2>2 DEF TimeStep
<1>7. ASSUME UNCHANGED vars PROVE Kept
  BY <1>2, <1>7 DEF vars
<1> HIDE DEF Kept, Entered
<1>8. Kept \/ Entered
  BY <1>3, <1>4, <1>5, <1>6, <1>7 DEF Next
<1> QED BY <1>8 DEF Kept, Entered

LEMMA TwinInvInvariant == Spec => []TwinInv
<1>1. Init => TwinInv
  BY DEF Init, TwinInv, Twins, Pending, NewRow
<1>2. TypeOK /\ ClaimInv /\ TwinInv /\ [Next]_vars => TwinInv'
  <2> SUFFICES ASSUME TypeOK, ClaimInv, TwinInv, [Next]_vars, NEW k \in Keys,
                      NEW a \in Twins(k)', NEW b \in Twins(k)'
               PROVE  a = b
    BY DEF TwinInv
  <2>1. CASE Twins(k)' \subseteq Twins(k)
    BY <2>1 DEF TwinInv
  <2>2. ASSUME NEW i \in Jobs, \A j \in Jobs : j # i => job'[j] = job[j],
               Twins(job'[i].key) \subseteq {i}
        PROVE  a = b
    <3>1. a \in Jobs /\ b \in Jobs /\ job'[a].key = k /\ job'[b].key = k
      BY DEF Twins
    <3>2. \A c \in Twins(k)' : c # i => c \in Twins(k)
      BY <2>2 DEF Twins, Pending
    <3>3. CASE a # i /\ b # i
      BY <3>2, <3>3 DEF TwinInv
    <3>4. CASE a = i \/ b = i
      BY <2>2, <3>1, <3>2, <3>4
    <3> QED BY <3>3, <3>4
  <2> QED BY <2>1, <2>2, TwinsChange
<1> QED BY <1>1, <1>2, TypeCorrect, ClaimInvInvariant, PTL DEF Spec

\* However the statements of concurrent enqueue calls, sweeps and late failures
\* interleave, a dedupe key has at most one pending row.
THEOREM OnePending == Spec => []OnePendingPerKey
<1>1. TwinInv => OnePendingPerKey
  <2> SUFFICES ASSUME TwinInv, NEW k \in Keys PROVE Cardinality(Twins(k)) <= 1
    BY DEF OnePendingPerKey
  <2>1. CASE Twins(k) = {}
    BY <2>1, FS_EmptySet
  <2>2. CASE Twins(k) # {}
    <3>1. PICK i : Twins(k) = {i}
      BY <2>2 DEF TwinInv
    <3>2. Cardinality({i}) = 1
      BY FS_Singleton
    <3> QED BY <3>1, <3>2
  <2> QED BY <2>1, <2>2
<1> QED BY <1>1, TwinInvInvariant, PTL
-----------------------------------------------------------------------------
(* Attempts.                                                               *)

\* Executions of a row that would put it back to queued if they fail.
Late(j) == {e \in exec : e.job = j /\ e.attempt < MaxAttempts}

\* 1 if the row can be claimed once more without help of an execution: it is
\* queued, not inserted yet, or running with attempts left for the sweep.
Owed(j) ==
    IF \/ job[j].status \in {"absent", "queued"}
       \/ job[j].status = "running" /\ job[j].attempts < MaxAttempts
    THEN 1 ELSE 0

\* Every attempt below the limit that is still to come can put the row back
\* twice, through the sweep and through its own failure.
Ahead(j) == IF job[j].attempts < MaxAttempts
            THEN 2 * (MaxAttempts - 1 - job[j].attempts) ELSE 0

\* The claims a row has had and those it can still get.
BudgetInv ==
    /\ IsFiniteSet(exec)
    /\ \A j \in Jobs : job[j].attempts + Owed(j) + Ahead(j) + Cardinality(Late(j))
                          <= 2 * MaxAttempts - 1

LEMMA ExecStaysFinite ==
    ASSUME TypeOK, IsFiniteSet(exec), [Next]_vars, \A w \in Workers : ~CommitClaim(w)
    PROVE  IsFiniteSet(exec')
<1>1. CASE exec' \subseteq exec
  BY <1>1, FS_Subset
<1>2. ASSUME NEW e \in exec, NEW phase, Advance(e, phase) PROVE IsFiniteSet(exec')
  <2>1. exec' = (exec \ {e}) \cup {[e EXCEPT !.phase = phase]}
    BY <1>2 DEF Advance
  <2>2. IsFiniteSet(exec \ {e})
    BY FS_RemoveElement
  <2> QED BY <2>1, <2>2, FS_AddElement
<1> QED BY <1>1, <1>2, ExecutionsKept

\* No step but a commit adds an execution that may put a row back, and a
\* failure that does put a row back is one execution less.
LEMMA LateShrinks ==
    ASSUME TypeOK, IsFiniteSet(exec), [Next]_vars,
           \A w \in Workers : ~CommitClaim(w), NEW j \in Jobs
    PROVE  /\ Cardinality(Late(j)') <= Cardinality(Late(j))
           /\ Cardinality(Late(j)) \in Nat /\ Cardinality(Late(j)') \in Nat
<1>1. IsFiniteSet(Late(j)) /\ Cardinality(Late(j)) \in Nat
  BY FS_Subset, FS_CardinalityType DEF Late
<1>2. CASE exec' \subseteq exec
  <2>1. Late(j)' \subseteq Late(j)
    BY <1>2 DEF Late
  <2> QED BY <1>1, <2>1, FS_Subset, FS_CardinalityType
<1>3. CASE \E e \in exec, phase \in {"returned", "raised"} : Advance(e, phase)
  <2>1. PICK a \in exec, phase \in {"returned", "raised"} : Advance(a, phase)
    BY <1>3
  <2> DEFINE b == [a EXCEPT !.phase = phase]
  <2>2. exec' = (exec \ {a}) \cup {b}
    BY <2>1 DEF Advance
  <2>3. b.job = a.job /\ b.attempt = a.attempt
    BY DEF TypeOK, Execution
  <2> HIDE DEF b
  <2>5. CASE a \in Late(j)
    <3>1. Late(j)' = (Late(j) \ {a}) \cup {b}
      BY <2>2, <2>3, <2>5 DEF Late
    <3>2. IsFiniteSet(Late(j) \ {a}) /\ Cardinality(Late(j) \ {a}) = Cardinality(Late(j)) - 1
      BY <1>1, <2>5, FS_RemoveElement
    <3>3. Cardinality(Late(j) \ {a}) \in Nat
      BY <3>2, FS_CardinalityType
    <3>4. \/ Cardinality(Late(j)') = Cardinality(Late(j) \ {a})
          \/ Cardinality(Late(j)') = Cardinality(Late(j) \ {a}) + 1
      BY <3>1, <3>2, FS_AddElement
    <3> QED BY <1>1, <3>2, <3>3, <3>4
  <2>6. CASE a \notin Late(j)
    <3>1. Late(j)' \subseteq Late(j)
      BY <2>2, <2>3, <2>6 DEF Late
    <3> QED BY <1>1, <3>1, FS_Subset, FS_CardinalityType
  <2> QED BY <2>5, <2>6
<1> QED BY <1>2, <1>3, ExecutionsKept

\* Only a failure that puts its row back makes the row claimable again.
LEMMA OwedShrinks ==
    ASSUME TypeOK, ClaimInv, [Next]_vars, \A w \in Workers : ~CommitClaim(w),
           \A e \in exec : ~FailRequeue(e), NEW j \in Jobs
    PROVE  Owed(j)' <= Owed(j)
<1> DEFINE Goal == Owed(j)' <= Owed(j)
<1>1. ASSUME job'[j].status = job[j].status, job'[j].attempts = job[j].attempts
      PROVE  Goal
  BY <1>1 DEF Owed
<1>2. ASSUME job'[j].status \in {"succeeded", "failed"} PROVE Goal
  BY <1>2 DEF Owed
<1>3. ASSUME NEW k, NEW prio, Insert(k, prio) PROVE Goal
  BY <1>3 DEF Insert, NewRow, TypeOK, Row, Owed
<1>4. ASSUME UNCHANGED job PROVE Goal
  BY <1>1, <1>4
<1>5. ASSUME NEW p \in Producers, ProducerStep(p) PROVE Goal
  <2> HIDE DEF Goal
  <2> QED BY <1>3, <1>4, <1>5 DEF ProducerStep, Enqueue, FindExisting, RetryInsert
<1>6. ASSUME NEW w \in Workers, WorkerStep(w) PROVE Goal
  <2>1. CASE RequeueStale(w)
    <3>1. CASE StaleRunning(j)
      <4>1. job'[j] = Swept(j) /\ job[j].status = "running"
        BY <2>1, <3>1 DEF RequeueStale, StaleRunning
      <4>2. CASE job[j].attempts >= MaxAttempts
        BY <1>2, <4>1, <4>2 DEF Swept, TypeOK, Row
      <4>3. CASE ~(job[j].attempts >= MaxAttempts)
        <5>1. job[j].attempts < MaxAttempts
          BY <4>3, MaxAttemptsAssumption DEF TypeOK, Row
        <5>2. job'[j].status = "queued"
          BY <4>1, <4>3 DEF Swept, TypeOK, Row
        <5> QED BY <4>1, <5>1, <5>2 DEF Owed
      <4> QED BY <4>2, <4>3
    <3>2. CASE ~StaleRunning(j)
      BY <1>1, <2>1, <3>2 DEF RequeueStale
    <3> QED BY <3>1, <3>2
  <2>2. CASE UNCHANGED job
    BY <1>4, <2>2
  <2> HIDE DEF Goal
  <2> QED BY <1>6, <2>1, <2>2 DEF WorkerStep, ClaimNext, AbortClaim, Stop, Exit,
                                  Crash, Restart
<1>7. ASSUME NEW e \in exec, ExecStep(e) PROVE Goal
  <2> e.job \in Jobs
    BY DEF TypeOK, Execution
  <2>1. CASE Complete(e)
    BY <1>1, <1>2, <2>1 DEF Complete, TypeOK, Row
  <2>2. CASE FailForGood(e)
    BY <1>1, <1>2, <2>2 DEF FailForGood, TypeOK, Row
  <2>3. CASE Heartbeat(e)
    BY <1>1, <2>3 DEF Heartbeat, TypeOK, Row
  <2>4. CASE UNCHANGED job
    BY <1>4, <2>4
  <2> HIDE DEF Goal
  <2> QED BY <1>7, <2>1, <2>2, <2>3, <2>4 DEF ExecStep, Return, CompleteError, FailError
<1>8. ASSUME NEW i \in Jobs, TimeStep(i) PROVE Goal
  <2>1. CASE GoStale(i)
    BY <1>1, <2>1 DEF GoStale, TypeOK, Row
  <2>2. CASE Ripen(i)
    BY <1>1, <2>2 DEF Ripen, TypeOK, Row
  <2> QED BY <1>8, <2>1, <2>2 DEF TimeStep
<1>9. ASSUME UNCHANGED vars PROVE Goal
  BY <1>4, <1>9 DEF vars
<1> HIDE DEF Goal
<1>10. Goal
  BY <1>5, <1>6, <1>7, <1>8, <1>9 DEF Next
<1> QED BY <1>10 DEF Goal

\* A failure that puts its row back pays with its own execution.
LEMMA FailureKeepsBudget ==
    ASSUME TypeOK, BudgetInv, NEW e \in exec, FailRequeue(e)
    PROVE  BudgetInv'
<1>1. e.job \in Jobs /\ e \in Late(e.job)
  BY DEF TypeOK, Execution, FailRequeue, Late
<1>2. exec' = exec \ {e} /\ IsFiniteSet(exec')
  BY FS_RemoveElement DEF FailRequeue, BudgetInv
<1> SUFFICES ASSUME NEW j \in Jobs
             PROVE  (job[j].attempts + Owed(j) + Ahead(j) + Cardinality(Late(j)))'
                       <= 2 * MaxAttempts - 1
  BY <1>2 DEF BudgetInv
<1>3. /\ job[j].attempts + Owed(j) + Ahead(j) + Cardinality(Late(j))
            <= 2 * MaxAttempts - 1
      /\ job[j].attempts \in Nat /\ Owed(j) \in {0, 1}
  BY DEF BudgetInv, TypeOK, Row, Owed
<1>4. IsFiniteSet(Late(j)) /\ Cardinality(Late(j)) \in Nat
  BY FS_Subset, FS_CardinalityType DEF Late, BudgetInv
<1>5. job'[j].attempts = job[j].attempts
  BY <1>1 DEF FailRequeue, TypeOK, Row
<1>6. Ahead(j)' = Ahead(j) /\ Ahead(j) \in Int
  BY <1>3, <1>5, MaxAttemptsAssumption DEF Ahead
<1>7. CASE j = e.job
  <2>1. Late(j)' = Late(j) \ {e}
    BY <1>2 DEF Late
  <2>2. Cardinality(Late(j)') = Cardinality(Late(j)) - 1
    BY <1>1, <1>4, <1>7, <2>1, FS_RemoveElement
  <2>3. Owed(j)' \in {0, 1}
    BY DEF Owed
  <2> QED BY <1>3, <1>4, <1>5, <1>6, <2>2, <2>3, MaxAttemptsAssumption
<1>8. CASE j # e.job
  <2>1. Late(j)' = Late(j)
    BY <1>2, <1>8 DEF Late
  <2>2. Owed(j)' = Owed(j)
    BY <1>1, <1>8 DEF FailRequeue, Owed, TypeOK
  <2> QED BY <1>3, <1>4, <1>5, <1>6, <2>1, <2>2
<1> QED BY <1>7, <1>8

\* A commit turns one owed claim into an attempt; below the limit the new
\* execution and the sweep are what Ahead had set aside for it.
LEMMA CommitKeepsBudget ==
    ASSUME TypeOK, ClaimInv, BudgetInv, NEW w \in Workers, CommitClaim(w)
    PROVE  BudgetInv'
<1> DEFINE i == claiming[w]
<1> DEFINE new == [job |-> i, attempt |-> job[i].attempts + 1, worker |-> w,
                   phase |-> "run"]
<1>1. i \in Jobs /\ job[i].status = "queued" /\ job[i].attempts \in Nat
  BY DEF CommitClaim, TypeOK, ClaimInv, HeldRowsStayQueued, Row
<1>2. /\ job'[i].attempts = job[i].attempts + 1
      /\ job'[i].status = "running"
      /\ \A j \in Jobs : j # i => job'[j] = job[j]
  BY <1>1 DEF CommitClaim, TypeOK, Row
<1>3. exec' = exec \cup {new} /\ new.job = i /\ new.attempt = job[i].attempts + 1
  BY DEF CommitClaim
<1> HIDE DEF i, new
<1>4. IsFiniteSet(exec')
  BY <1>3, FS_AddElement DEF BudgetInv
<1> SUFFICES ASSUME NEW j \in Jobs
             PROVE  (job[j].attempts + Owed(j) + Ahead(j) + Cardinality(Late(j)))'
                       <= 2 * MaxAttempts - 1
  BY <1>4 DEF BudgetInv
<1>5. /\ job[j].attempts + Owed(j) + Ahead(j) + Cardinality(Late(j))
            <= 2 * MaxAttempts - 1
      /\ job[j].attempts \in Nat
  BY DEF BudgetInv, TypeOK, Row
<1>6. IsFiniteSet(Late(j)) /\ Cardinality(Late(j)) \in Nat
  BY FS_Subset, FS_CardinalityType DEF Late, BudgetInv
<1>7. CASE j # i
  <2>1. Late(j)' = Late(j)
    BY <1>3, <1>7 DEF Late
  <2>2. Owed(j)' = Owed(j) /\ Ahead(j)' = Ahead(j)
    BY <1>2, <1>7 DEF Owed, Ahead
  <2> QED BY <1>2, <1>5, <1>7, <2>1, <2>2
<1>8. CASE j = i /\ job[i].attempts + 1 < MaxAttempts
  <2>1. Late(j)' = Late(j) \cup {new}
    BY <1>3, <1>8 DEF Late
  <2>2. Cardinality(Late(j)') <= Cardinality(Late(j)) + 1 /\ Cardinality(Late(j)') \in Nat
    <3>1. IsFiniteSet(Late(j)') /\ Cardinality(Late(j)') \in Nat
      BY <1>6, <2>1, FS_AddElement, FS_CardinalityType
    <3>2. \/ Cardinality(Late(j)') = Cardinality(Late(j))
          \/ Cardinality(Late(j)') = Cardinality(Late(j)) + 1
      BY <1>6, <2>1, FS_AddElement
    <3> QED BY <1>6, <3>1, <3>2
  <2>3. Owed(j) = 1 /\ Owed(j)' = 1
    BY <1>1, <1>2, <1>8 DEF Owed
  <2>4. /\ Ahead(j) = 2 * (MaxAttempts - 1 - job[j].attempts)
        /\ Ahead(j)' = 2 * (MaxAttempts - 1 - (job[j].attempts + 1))
    BY <1>1, <1>2, <1>8, MaxAttemptsAssumption DEF Ahead
  <2> QED BY <1>2, <1>5, <1>6, <1>8, <2>2, <2>3, <2>4, MaxAttemptsAssumption
<1>9. CASE j = i /\ ~(job[i].attempts + 1 < MaxAttempts)
  <2>1. Late(j)' = Late(j)
    BY <1>3, <1>9 DEF Late
  <2>2. Owed(j) = 1 /\ Owed(j)' = 0
    BY <1>1, <1>2, <1>9 DEF Owed
  <2>3. Ahead(j)' = 0 /\ Ahead(j) \in Nat
    BY <1>1, <1>2, <1>9, MaxAttemptsAssumption DEF Ahead
  <2> QED BY <1>2, <1>5, <1>6, <1>9, <2>1, <2>2, <2>3, MaxAttemptsAssumption
<1> QED BY <1>7, <1>8, <1>9

LEMMA OthersKeepBudget ==
    ASSUME TypeOK, ClaimInv, BudgetInv, [Next]_vars,
           \A w \in Workers : ~CommitClaim(w), \A e \in exec : ~FailRequeue(e)
    PROVE  BudgetInv'
<1>1. IsFiniteSet(exec')
  BY ExecStaysFinite DEF BudgetInv
<1> SUFFICES ASSUME NEW j \in Jobs
             PROVE  (job[j].attempts + Owed(j) + Ahead(j) + Cardinality(Late(j)))'
                       <= 2 * MaxAttempts - 1
  BY <1>1 DEF BudgetInv
<1>2. job'[j].attempts = job[j].attempts /\ job[j].attempts \in Nat
  BY RowsKept DEF TypeOK, Row
<1>3. Ahead(j)' = Ahead(j) /\ Ahead(j) \in Int
  BY <1>2, MaxAttemptsAssumption DEF Ahead
<1>4. Owed(j)' <= Owed(j) /\ Owed(j) \in {0, 1} /\ Owed(j)' \in {0, 1}
  BY OwedShrinks DEF Owed
<1>5. /\ Cardinality(Late(j)') <= Cardinality(Late(j))
      /\ Cardinality(Late(j)) \in Nat /\ Cardinality(Late(j)') \in Nat
  BY LateShrinks DEF BudgetInv
<1>6. job[j].attempts + Owed(j) + Ahead(j) + Cardinality(Late(j)) <= 2 * MaxAttempts - 1
  BY DEF BudgetInv
<1> QED BY <1>2, <1>3, <1>4, <1>5, <1>6, MaxAttemptsAssumption

LEMMA BudgetInvInvariant == Spec => []BudgetInv
<1>1. Init => BudgetInv
  <2> SUFFICES ASSUME Init, NEW j \in Jobs
               PROVE  job[j].attempts + Owed(j) + Ahead(j) + Cardinality(Late(j))
                         <= 2 * MaxAttempts - 1
    BY FS_EmptySet DEF Init, BudgetInv
  <2>1. Late(j) = {} /\ Cardinality({}) = 0
    BY FS_EmptySet DEF Init, Late
  <2>2. job[j].attempts = 0 /\ job[j].status = "absent"
    BY DEF Init, NewRow
  <2>3. Owed(j) = 1 /\ Ahead(j) = 2 * (MaxAttempts - 1)
    BY <2>2, MaxAttemptsAssumption DEF Owed, Ahead
  <2> QED BY <2>1, <2>2, <2>3, MaxAttemptsAssumption
<1>2. TypeOK /\ ClaimInv /\ BudgetInv /\ [Next]_vars => BudgetInv'
  BY CommitKeepsBudget, FailureKeepsBudget, OthersKeepBudget
<1> QED BY <1>1, <1>2, TypeCorrect, ClaimInvInvariant, PTL DEF Spec

\* No row is ever claimed more than 2 * MaxAttempts - 1 times, whatever
\* crashes, lost heartbeats and late failures do: the queue cannot loop.
THEOREM AttemptsBound == Spec => []AttemptsBounded
<1>1. TypeOK /\ BudgetInv => AttemptsBounded
  <2> SUFFICES ASSUME TypeOK, BudgetInv, NEW j \in Jobs
               PROVE  job[j].attempts <= 2 * MaxAttempts - 1
    BY DEF AttemptsBounded
  <2>1. job[j].attempts + Owed(j) + Ahead(j) + Cardinality(Late(j)) <= 2 * MaxAttempts - 1
    BY DEF BudgetInv
  <2>2. Cardinality(Late(j)) \in Nat
    BY FS_Subset, FS_CardinalityType DEF Late, BudgetInv
  <2>3. Owed(j) \in {0, 1} /\ Ahead(j) \in Nat /\ job[j].attempts \in Nat
    BY MaxAttemptsAssumption DEF Owed, Ahead, TypeOK, Row
  <2> QED BY <2>1, <2>2, <2>3, MaxAttemptsAssumption
<1> QED BY <1>1, TypeCorrect, BudgetInvInvariant, PTL
-----------------------------------------------------------------------------
(* Steps.                                                                  *)

\* A call of enqueue that met a pending twin ends only at a moment at which a
\* row with its key is pending: the request is never swallowed.
THEOREM RequestsKept == Spec => NoRequestLost
<1> DEFINE Kept == \A p \in Producers, k \in Keys :
                      /\ producer[p].at # "idle" /\ producer[p].key = k
                      /\ producer'[p].at = "idle"
                      => Twins(k)' # {}
<1>1. TypeOK /\ [Next]_vars => [Kept]_vars
  <2> SUFFICES ASSUME TypeOK, Next, NEW p \in Producers, NEW k \in Keys,
                      producer[p].at # "idle", producer[p].key = k,
                      producer'[p].at = "idle"
               PROVE  Twins(k)' # {}
    BY DEF vars
  <2> k # NoKey
    BY KeyAssumption
  <2>1. ASSUME UNCHANGED producer PROVE FALSE
    BY <2>1
  <2>2. PICK q \in Producers : ProducerStep(q)
    BY <2>1 DEF Next, WorkerStep, ExecStep, TimeStep, ClaimNext, CommitClaim,
                AbortClaim, RequeueStale, Stop, Exit, Crash, Restart, Return, Complete,
                CompleteError, FailRequeue, FailForGood, FailError, Heartbeat, GoStale,
                Ripen
  <2>3. CASE Enqueue(q)
    BY <2>3 DEF Enqueue, TypeOK
  <2>4. CASE FindExisting(q)
    <3>1. q = p
      BY <2>4 DEF FindExisting, TypeOK
    <3>2. Twins(k) # {} /\ job' = job
      BY <2>4, <3>1 DEF FindExisting, TypeOK, Producer
    <3> QED BY <3>2 DEF Twins, Pending
  <2>5. CASE RetryInsert(q)
    <3>1. q = p
      BY <2>5 DEF RetryInsert, TypeOK
    <3>2. CASE Insert(producer[p].key, producer[p].priority)
      <4>1. PICK i \in Jobs :
               job' = [job EXCEPT ![i] = [NewRow EXCEPT !.status = "queued",
                          !.key = k, !.priority = producer[p].priority, !.ripe = TRUE]]
        BY <3>2 DEF Insert
      <4>2. i \in Twins(k)'
        BY <4>1 DEF Twins, Pending, NewRow, TypeOK
      <4> QED BY <4>2
    <3>3. CASE Twins(k) # {} /\ job' = job
      BY <3>3 DEF Twins, Pending
    <3> QED BY <2>5, <3>1, <3>2, <3>3 DEF RetryInsert
  <2> QED BY <2>2, <2>3, <2>4, <2>5 DEF ProducerStep
<1> QED BY <1>1, TypeCorrect, PTL DEF Spec, NoRequestLost

\* A row without an execution is finished for good, and leaves "running" only
\* when it is stale: only the sweep or a late execution moves it.
THEOREM SettledRows == Spec => SettledRowsStay
<1> DEFINE Kept(j) == (\A e \in exec : e.job # j) =>
                         /\ Finished(j) => job'[j] = job[j]
                         /\ job[j].status = "running" /\ job'[j].status # "running"
                               => job[j].stale
<1>1. TypeOK /\ ClaimInv /\ [Next]_vars => [\A j \in Jobs : Kept(j)]_vars
  <2> SUFFICES ASSUME TypeOK, ClaimInv, Next, NEW j \in Jobs, \A e \in exec : e.job # j
               PROVE  /\ Finished(j) => job'[j] = job[j]
                      /\ job[j].status = "running" /\ job'[j].status # "running"
                            => job[j].stale
    BY DEF vars
  <2>1. ASSUME job'[j] = job[j] PROVE Kept(j)
    BY <2>1
  <2>2. ASSUME NEW k, NEW prio, Insert(k, prio) PROVE Kept(j)
    BY <2>2 DEF Insert, NewRow, TypeOK, Finished
  <2>3. ASSUME NEW p \in Producers, ProducerStep(p) PROVE Kept(j)
    <3> HIDE DEF Kept
    <3> QED BY <2>1, <2>2, <2>3 DEF ProducerStep, Enqueue, FindExisting, RetryInsert
  <2>4. ASSUME NEW w \in Workers, WorkerStep(w) PROVE Kept(j)
    <3>1. CASE CommitClaim(w)
      <4>1. claiming[w] \in Jobs /\ job[claiming[w]].status = "queued"
        BY <3>1 DEF CommitClaim, ClaimInv, HeldRowsStayQueued, TypeOK
      <4> QED BY <3>1, <4>1 DEF CommitClaim, Finished, TypeOK, Row
    <3>2. CASE RequeueStale(w)
      BY <3>2 DEF RequeueStale, StaleRunning, Finished, TypeOK
    <3>3. CASE UNCHANGED job
      BY <2>1, <3>3
    <3> QED BY <2>4, <3>1, <3>2, <3>3 DEF WorkerStep, ClaimNext, AbortClaim, Stop,
                                          Exit, Crash, Restart
  <2>5. ASSUME NEW e \in exec, ExecStep(e) PROVE Kept(j)
    <3>1. e.job # j /\ e.job \in Jobs
      BY DEF TypeOK, Execution
    <3>2. job'[j] = job[j]
      BY <2>5, <3>1 DEF ExecStep, Return, Complete, CompleteError, FailRequeue,
                        FailForGood, FailError, Heartbeat, TypeOK
    <3> QED BY <2>1, <3>2
  <2>6. ASSUME NEW i \in Jobs, TimeStep(i) PROVE Kept(j)
    <3>1. CASE GoStale(i)
      BY <3>1 DEF GoStale, Finished, TypeOK, Row
    <3>2. CASE Ripen(i)
      BY <3>2 DEF Ripen, Finished, TypeOK, Row
    <3> QED BY <2>6, <3>1, <3>2 DEF TimeStep
  <2>7. Kept(j)
    <3> HIDE DEF Kept
    <3> QED BY <2>3, <2>4, <2>5, <2>6 DEF Next
  <2> QED BY <2>7
<1> QED BY <1>1, TypeCorrect, ClaimInvInvariant, PTL DEF Spec, SettledRowsStay-----------------------------------------------------------------------------
(* Each row goes through the lifecycle of module QueueRow.                 *)

\* The numbers of the executions of a row.
Numbers(j) == {e.attempt : e \in Executions(j)}

\* An execution that goes on keeps its number.
LEMMA NumbersAdvance ==
    ASSUME TypeOK, NEW e \in exec, NEW phase, Advance(e, phase), NEW j \in Jobs
    PROVE  Numbers(j)' = Numbers(j)
<1> DEFINE b == [e EXCEPT !.phase = phase]
<1>1. e \in Execution
  BY DEF TypeOK
<1>2. b.job = e.job /\ b.attempt = e.attempt /\ exec' = (exec \ {e}) \cup {b}
  BY <1>1 DEF Execution, Advance
<1> HIDE DEF b
<1> QED
  BY <1>2 DEF Numbers, Executions

\* One that ends takes its number with it, and that of no other.
LEMMA NumbersEnd ==
    ASSUME TypeOK, ClaimInv, NEW e \in exec, exec' = exec \ {e}, NEW j \in Jobs
    PROVE  /\ e.attempt \in Numbers(e.job)
           /\ Numbers(j)' = IF j = e.job THEN Numbers(j) \ {e.attempt} ELSE Numbers(j)
<1>1. \A d \in exec : d.job = e.job /\ d.attempt = e.attempt => d = e
  BY DEF ClaimInv, ClaimsAreExclusive
<1> QED
  BY <1>1 DEF Numbers, Executions

LEMMA NumbersVanish ==
    ASSUME exec' \subseteq exec, NEW j \in Jobs
    PROVE  Numbers(j)' \subseteq Numbers(j)
BY DEF Numbers, Executions

LEMMA NumbersStay ==
    ASSUME exec' = exec, NEW j \in Jobs
    PROVE  Numbers(j)' = Numbers(j)
BY DEF Numbers, Executions

\* A step of the row j of the lifecycle, in terms of the queue.
RowStep(j) ==
    \/ /\ job[j].status = "absent" /\ job'[j].status = "queued"
       /\ job'[j].attempts = job[j].attempts /\ Numbers(j)' = Numbers(j)
    \/ /\ job[j].status = "queued" /\ job'[j].status = "running"
       /\ job'[j].attempts = job[j].attempts + 1
       /\ job'[j].attempts \notin Numbers(j)
       /\ Numbers(j)' = Numbers(j) \cup {job'[j].attempts}
    \/ /\ Numbers(j)' \subseteq Numbers(j)
       /\ UNCHANGED <<job[j].status, job[j].attempts>>
    \/ /\ job[j].status = "running"
       /\ job'[j].status = IF job[j].attempts < MaxAttempts THEN "queued" ELSE "failed"
       /\ job'[j].attempts = job[j].attempts /\ Numbers(j)' = Numbers(j)
    \/ \E a \in Numbers(j) :
          /\ \/ job'[j].status = "succeeded"
             \/ job'[j].status = IF a < MaxAttempts THEN "queued" ELSE "failed"
          /\ Numbers(j)' = Numbers(j) \ {a}
          /\ job'[j].attempts = job[j].attempts

LEMMA RowStepIsNext ==
    ASSUME NEW j \in Jobs, RowStep(j)
    PROVE  [Lifecycle(j)!Next]_(Lifecycle(j)!row)
BY DEF RowStep, Numbers, Lifecycle!Next, Lifecycle!row, Lifecycle!Enqueue,
   Lifecycle!Claim, Lifecycle!Vanish, Lifecycle!Sweep, Lifecycle!Complete,
   Lifecycle!Fail

\* The row keeps what the lifecycle sees of it.
LEMMA RowKept ==
    ASSUME NEW j \in Jobs, job'[j].status = job[j].status,
           job'[j].attempts = job[j].attempts, Numbers(j)' \subseteq Numbers(j)
    PROVE  RowStep(j)
BY DEF RowStep

LEMMA InsertRow ==
    ASSUME TypeOK, ClaimInv, NEW k, NEW prio, Insert(k, prio), exec' = exec,
           NEW j \in Jobs
    PROVE  RowStep(j)
<1>1. PICK i \in Jobs :
         /\ job[i].status = "absent"
         /\ job' = [job EXCEPT ![i] = [NewRow EXCEPT !.status = "queued", !.key = k,
                                                    !.priority = prio, !.ripe = TRUE]]
  BY DEF Insert
<1>2. CASE j = i
  <2>1. job'[j].status = "queued" /\ job'[j].attempts = 0
    BY <1>1, <1>2 DEF TypeOK, NewRow
  <2>2. job[j].attempts = 0
    BY <1>1, <1>2 DEF ClaimInv
  <2> QED
    BY <1>1, <1>2, <2>1, <2>2, NumbersStay DEF RowStep
<1>3. CASE j # i
  BY <1>1, <1>3, NumbersStay, RowKept DEF TypeOK
<1> QED
  BY <1>2, <1>3

LEMMA ClaimedRow ==
    ASSUME TypeOK, ClaimInv, NEW w \in Workers, CommitClaim(w), NEW j \in Jobs
    PROVE  RowStep(j)
<1> DEFINE i == claiming[w]
           new == [job |-> i, attempt |-> job[i].attempts + 1, worker |-> w,
                   phase |-> "run"]
<1>1. i \in Jobs /\ job[i].status = "queued" /\ job[i].attempts \in Nat
  BY DEF CommitClaim, TypeOK, ClaimInv, HeldRowsStayQueued, Row
<1>2. /\ job'[i].attempts = job[i].attempts + 1 /\ job'[i].status = "running"
      /\ i # j => job'[j] = job[j]
  BY <1>1 DEF CommitClaim, TypeOK, Row
<1>3. exec' = exec \cup {new} /\ new.job = i /\ new.attempt = job[i].attempts + 1
  BY DEF CommitClaim
<1>4. \A e \in exec : e.attempt \in Nat /\ e.attempt <= job[e.job].attempts
  BY DEF TypeOK, Execution, ClaimInv
<1> HIDE DEF new, i
<1>5. CASE j = i
  <2>1. Numbers(j)' = Numbers(j) \cup {job'[j].attempts}
    BY <1>2, <1>3, <1>5 DEF Numbers, Executions
  <2>2. job'[j].attempts \notin Numbers(j)
    BY <1>1, <1>2, <1>4, <1>5 DEF Numbers, Executions
  <2> QED
    BY <1>1, <1>2, <1>5, <2>1, <2>2 DEF RowStep
<1>6. CASE j # i
  <2>1. Numbers(j)' = Numbers(j)
    BY <1>3, <1>6 DEF Numbers, Executions
  <2> QED
    BY <1>2, <1>6, <2>1, RowKept
<1> QED
  BY <1>5, <1>6

LEMMA EndedRow ==
    ASSUME TypeOK, ClaimInv, NEW e \in exec, NEW j \in Jobs,
           Complete(e) \/ FailRequeue(e) \/ FailForGood(e)
    PROVE  RowStep(j)
<1>1. e.job \in Jobs /\ e.attempt \in Nat /\ exec' = exec \ {e}
  BY DEF TypeOK, Execution, Complete, FailRequeue, FailForGood
<1>2. CASE j = e.job
  <2>1. /\ \/ job'[j].status = "succeeded"
           \/ job'[j].status = IF e.attempt < MaxAttempts THEN "queued" ELSE "failed"
        /\ job'[j].attempts = job[j].attempts
    <3>1. CASE Complete(e)
      BY <1>1, <1>2, <3>1 DEF Complete, TypeOK, Row
    <3>2. CASE FailRequeue(e)
      BY <1>1, <1>2, <3>2 DEF FailRequeue, TypeOK, Row
    <3>3. CASE FailForGood(e)
      BY <1>1, <1>2, <3>3, MaxAttemptsAssumption DEF FailForGood, TypeOK, Row
    <3> QED
      BY <3>1, <3>2, <3>3
  <2>2. e.attempt \in Numbers(j) /\ Numbers(j)' = Numbers(j) \ {e.attempt}
    BY <1>1, <1>2, NumbersEnd
  <2> QED
    BY <2>1, <2>2 DEF RowStep
<1>3. CASE j # e.job
  <2>1. job'[j] = job[j]
    BY <1>1, <1>3 DEF Complete, FailRequeue, FailForGood, TypeOK
  <2> QED
    BY <1>1, <2>1, NumbersVanish, RowKept
<1> QED
  BY <1>2, <1>3

LEMMA EveryRowSteps ==
    ASSUME TypeOK, ClaimInv, [Next]_vars, NEW j \in Jobs
    PROVE  RowStep(j)
<1>1. ASSUME NEW p \in Producers, ProducerStep(p) PROVE RowStep(j)
  <2>1. exec' = exec
    BY <1>1 DEF ProducerStep, Enqueue, FindExisting, RetryInsert
  <2>2. (\E k, prio : Insert(k, prio)) \/ job' = job
    BY <1>1 DEF ProducerStep, Enqueue, FindExisting, RetryInsert
  <2> QED
    BY <2>1, <2>2, InsertRow, NumbersStay, RowKept
<1>2. ASSUME NEW w \in Workers, WorkerStep(w) PROVE RowStep(j)
  <2>1. CASE CommitClaim(w)
    BY <2>1, ClaimedRow
  <2>2. CASE RequeueStale(w)
    <3>1. Numbers(j)' = Numbers(j)
      BY <2>2, NumbersStay DEF RequeueStale
    <3>2. CASE StaleRunning(j)
      <4>1. job'[j] = Swept(j) /\ job[j].status = "running"
        BY <2>2, <3>2 DEF RequeueStale, StaleRunning
      <4>2. /\ job'[j].status = IF job[j].attempts < MaxAttempts THEN "queued"
                                ELSE "failed"
            /\ job'[j].attempts = job[j].attempts
        BY <4>1, MaxAttemptsAssumption DEF Swept, TypeOK, Row
      <4> QED
        BY <3>1, <4>1, <4>2 DEF RowStep
    <3>3. CASE ~StaleRunning(j)
      BY <2>2, <3>1, <3>3, RowKept DEF RequeueStale
    <3> QED
      BY <3>2, <3>3
  <2>3. CASE ClaimNext(w) \/ AbortClaim(w) \/ Stop(w) \/ Exit(w) \/ Crash(w)
                \/ Restart(w)
    <3>1. job' = job /\ exec' \subseteq exec
      BY <2>3 DEF ClaimNext, AbortClaim, Stop, Exit, Crash, Restart
    <3> QED
      BY <3>1, NumbersVanish, RowKept
  <2> QED
    BY <1>2, <2>1, <2>2, <2>3 DEF WorkerStep
<1>3. ASSUME NEW e \in exec, ExecStep(e) PROVE RowStep(j)
  <2>1. CASE Complete(e) \/ FailRequeue(e) \/ FailForGood(e)
    BY <2>1, EndedRow
  <2>2. CASE Return(e) \/ CompleteError(e)
    <3>1. job' = job /\ \E phase : Advance(e, phase)
      BY <2>2 DEF Return, CompleteError
    <3> QED
      BY <3>1, NumbersAdvance, RowKept
  <2>3. CASE FailError(e)
    BY <2>3, NumbersVanish, RowKept DEF FailError
  <2>4. CASE Heartbeat(e)
    <3>1. job'[j].status = job[j].status /\ job'[j].attempts = job[j].attempts
      BY <2>4 DEF Heartbeat, TypeOK, Row
    <3> QED
      BY <2>4, <3>1, NumbersStay, RowKept DEF Heartbeat
  <2> QED
    BY <1>3, <2>1, <2>2, <2>3, <2>4 DEF ExecStep
<1>4. ASSUME NEW i \in Jobs, TimeStep(i) PROVE RowStep(j)
  <2>1. job'[j].status = job[j].status /\ job'[j].attempts = job[j].attempts
    BY <1>4 DEF TimeStep, GoStale, Ripen, TypeOK, Row
  <2>2. exec' = exec
    BY <1>4 DEF TimeStep, GoStale, Ripen
  <2> QED
    BY <2>1, <2>2, NumbersStay, RowKept
<1>5. CASE UNCHANGED vars
  BY <1>5, NumbersStay, RowKept DEF vars
<1> QED
  BY <1>1, <1>2, <1>3, <1>4, <1>5 DEF Next

LEMMA RowStarts ==
    ASSUME Init, NEW j \in Jobs
    PROVE  Lifecycle(j)!Init
<1>1. Executions(j) = {}
  BY DEF Init, Executions
<1> QED
  BY <1>1 DEF Init, NewRow, Lifecycle!Init

\* Every row of the queue is a row of QueueRow: whatever producers, other rows,
\* locks, heartbeats and crashes there are, it is claimed only while queued and
\* under a number none of its executions has, and it ends only by the sweep or
\* by an execution of it that is under way, once.
THEOREM RowsLive == Spec => RowsKeepLifecycle
<1>1. Init => \A j \in Jobs : Lifecycle(j)!Init
  BY RowStarts
<1>2. TypeOK /\ ClaimInv /\ [Next]_vars
        => \A j \in Jobs : [Lifecycle(j)!Next]_(Lifecycle(j)!row)
  BY EveryRowSteps, RowStepIsNext
<1> QED
  BY <1>1, <1>2, TypeCorrect, ClaimInvInvariant, PTL DEF Spec, RowsKeepLifecycle

\* The same as a refinement of each single row.
COROLLARY RowRefines ==
    ASSUME NEW j \in Jobs
    PROVE  Spec => Lifecycle(j)!Spec
<1>1. Init => Lifecycle(j)!Init
  BY RowStarts
<1>2. TypeOK /\ ClaimInv /\ [Next]_vars => [Lifecycle(j)!Next]_(Lifecycle(j)!row)
  BY EveryRowSteps, RowStepIsNext
<1> QED
  BY <1>1, <1>2, TypeCorrect, ClaimInvInvariant, PTL DEF Spec, Lifecycle!Spec
=============================================================================
