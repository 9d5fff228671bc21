------------------------------- MODULE JobQueue -------------------------------
(***************************************************************************)
(* The Postgres job queue of pmi-core (pmi_core/queue.py, table core_jobs) *)
(* as its producers and its worker containers use it.                      *)
(*                                                                         *)
(* One action is one statement or one transaction of the code: Postgres    *)
(* runs at READ COMMITTED, a claim keeps its row locked from its statement *)
(* to its commit, and a dedupe hit in enqueue takes up to three statements *)
(* between which other transactions commit.  An execution (_execute of     *)
(* pmi_workers/worker.py) lives in a worker process and keeps the row as   *)
(* it was when claimed: it does not notice that its row was re-queued.     *)
(***************************************************************************)
EXTENDS Naturals, FiniteSets

CONSTANTS
    Jobs,         \* the ids of the rows of core_jobs a behaviour may insert
    Keys,         \* dedupe keys
    NoKey,        \* dedupe_key IS NULL
    Producers,    \* transactions that enqueue: API, cron, stream consumers
    Workers,      \* worker processes
    NoJob,        \* no row
    Priorities,   \* values of the priority column, lower is claimed sooner
    MaxAttempts,  \* max_attempts
    Concurrency   \* PMI_WORKER_CONCURRENCY

ASSUME KeyAssumption == NoKey \notin Keys
ASSUME JobAssumption == NoJob \notin Jobs
ASSUME PriorityAssumption == Priorities \subseteq Nat /\ Priorities # {}
ASSUME MaxAttemptsAssumption == MaxAttempts \in Nat \ {0}
ASSUME ConcurrencyAssumption == Concurrency \in Nat \ {0}

VARIABLES
    job,      \* core_jobs
    claiming, \* the row a worker's uncommitted claim has locked
    exec,     \* executions under way in some worker process
    worker,   \* the state of every worker process
    producer  \* where every producer is in enqueue

vars == <<job, claiming, exec, worker, producer>>

-----------------------------------------------------------------------------
(* Data. *)

\* "absent" is a row not inserted yet.
Status == {"absent", "queued", "running", "succeeded", "failed"}

\* ripe: run_at <= now.  stale: heartbeat_at < now - worker_stale_after_sec.
Row == [status : Status, key : Keys \cup {NoKey}, priority : Nat,
        attempts : Nat, ripe : BOOLEAN, stale : BOOLEAN]

\* attempt is job.attempts of the claimed object, which is never refreshed;
\* phase says how far _execute has come: fn running, returned, or raised.
Execution == [job : Jobs, attempt : Nat, worker : Workers,
              phase : {"run", "returned", "raised"}]

\* idle: no call under way.  hit: the INSERT met a pending row.
\* retry: that row was gone when it was looked for.
Producer == [at : {"idle", "hit", "retry"}, key : Keys \cup {NoKey},
             priority : Nat]

Idle == [at |-> "idle", key |-> NoKey, priority |-> 0]

Pending(j) == job[j].status \in {"queued", "running"}
Finished(j) == job[j].status \in {"succeeded", "failed"}

\* The rows the partial unique index uq_core_jobs__dedupe_pending has at a key.
Twins(k) == {j \in Jobs : k # NoKey /\ Pending(j) /\ job[j].key = k}

Locked == {claiming[w] : w \in Workers} \ {NoJob}

InFlight(w) == {e \in exec : e.worker = w}

TypeOK ==
    /\ job \in [Jobs -> Row]
    /\ claiming \in [Workers -> Jobs \cup {NoJob}]
    /\ exec \in SUBSET Execution
    /\ worker \in [Workers -> {"up", "draining", "down"}]
    /\ producer \in [Producers -> Producer]

NewRow == [status |-> "absent", key |-> NoKey, priority |-> 0,
           attempts |-> 0, ripe |-> FALSE, stale |-> FALSE]

Init ==
    /\ job = [j \in Jobs |-> NewRow]
    /\ claiming = [w \in Workers |-> NoJob]
    /\ exec = {}
    /\ worker = [w \in Workers |-> "up"]
    /\ producer = [p \in Producers |-> Idle]

-----------------------------------------------------------------------------
(* enqueue: insert, look for the row the insert conflicted with, insert.   *)

\* INSERT INTO core_jobs; run_at is now, so the row can be claimed at once.
Insert(k, prio) ==
    \E j \in Jobs :
        /\ job[j].status = "absent"
        /\ job' = [job EXCEPT ![j] = [NewRow EXCEPT !.status = "queued",
                                                   !.key = k,
                                                   !.priority = prio,
                                                   !.ripe = TRUE]]

\* The first INSERT, ON CONFLICT DO NOTHING when there is a dedupe key.
Enqueue(p) ==
    /\ producer[p].at = "idle"
    /\ \E k \in Keys \cup {NoKey}, prio \in Priorities :
        \/ /\ Twins(k) = {}
           /\ Insert(k, prio)
           /\ UNCHANGED producer
        \/ /\ Twins(k) # {}
           /\ producer' = [producer EXCEPT
                              ![p] = [at |-> "hit", key |-> k, priority |-> prio]]
           /\ UNCHANGED job
    /\ UNCHANGED <<claiming, exec, worker>>

\* Mutant: the call returns although the twin is gone.
FindExistingOrGiveUp(p) ==
    /\ producer[p].at = "hit"
    /\ producer' = [producer EXCEPT ![p] = Idle]
    /\ UNCHANGED <<job, claiming, exec, worker>>

\* SELECT the pending row: return it, or find that it finished meanwhile.
FindExisting(p) ==
    /\ producer[p].at = "hit"
    /\ producer' = [producer EXCEPT ![p] =
                       IF Twins(producer[p].key) # {} THEN Idle
                       ELSE [producer[p] EXCEPT !.at = "retry"]]
    /\ UNCHANGED <<job, claiming, exec, worker>>

\* The plain INSERT of the retry: the unique index raises when yet another
\* twin was inserted meanwhile, and the error reaches the caller.
RetryInsert(p) ==
    /\ producer[p].at = "retry"
    /\ \/ /\ Twins(producer[p].key) = {}
          /\ Insert(producer[p].key, producer[p].priority)
       \/ /\ Twins(producer[p].key) # {}
          /\ UNCHANGED job
    /\ producer' = [producer EXCEPT ![p] = Idle]
    /\ UNCHANGED <<claiming, exec, worker>>

-----------------------------------------------------------------------------
(* The claim of the worker loop: claim_next and the commit around it.      *)

Runnable == {j \in Jobs : job[j].status = "queued" /\ job[j].ripe}

\* Mutant: FOR UPDATE without SKIP LOCKED, and no new look at the row.
CandidatesWithoutSkip ==
    {j \in Runnable : \A i \in Runnable : job[j].priority <= job[i].priority}

\* The rows claim_next may take: FOR UPDATE SKIP LOCKED passes over rows that
\* another transaction holds, ORDER BY takes the smallest priority (run_at
\* and id, which break ties, are left open).
Candidates ==
    {j \in Runnable \ Locked :
        \A i \in Runnable \ Locked : job[j].priority <= job[i].priority}

ClaimNext(w) ==
    /\ worker[w] = "up"
    /\ claiming[w] = NoJob
    /\ Cardinality(InFlight(w)) < Concurrency
    /\ \E j \in Candidates : claiming' = [claiming EXCEPT ![w] = j]
    /\ UNCHANGED <<job, exec, worker, producer>>

\* The UPDATE becomes visible at commit; the loop then starts _execute.
CommitClaim(w) ==
    LET j == claiming[w] IN
    /\ j # NoJob
    /\ job' = [job EXCEPT ![j].status = "running",
                          ![j].stale = FALSE,
                          ![j].attempts = @ + 1]
    /\ exec' = exec \cup {[job |-> j, attempt |-> job[j].attempts + 1,
                           worker |-> w, phase |-> "run"]}
    /\ claiming' = [claiming EXCEPT ![w] = NoJob]
    /\ UNCHANGED <<worker, producer>>

\* A database error rolls the claim back; the loop sleeps and tries again.
AbortClaim(w) ==
    /\ claiming[w] # NoJob
    /\ claiming' = [claiming EXCEPT ![w] = NoJob]
    /\ UNCHANGED <<job, exec, worker, producer>>

-----------------------------------------------------------------------------
(* One execution.                                                          *)

Advance(e, phase) == exec' = (exec \ {e}) \cup {[e EXCEPT !.phase = phase]}

\* fn(**args) returned, or raised (an unregistered name raises as well).
Return(e) ==
    /\ e.phase = "run"
    /\ \E phase \in {"returned", "raised"} : Advance(e, phase)
    /\ UNCHANGED <<job, claiming, worker, producer>>

\* Mutant: the UPDATE does not wait for a claim that holds the row.
CompleteThroughLock(e) ==
    /\ e.phase = "returned"
    /\ job' = [job EXCEPT ![e.job].status = "succeeded"]
    /\ exec' = exec \ {e}
    /\ UNCHANGED <<claiming, worker, producer>>

\* complete: UPDATE ... WHERE id = job_id, whatever the row's status is now.
Complete(e) ==
    /\ e.phase = "returned"
    /\ e.job \notin Locked
    /\ job' = [job EXCEPT ![e.job].status = "succeeded"]
    /\ exec' = exec \ {e}
    /\ UNCHANGED <<claiming, worker, producer>>

\* An error while the success is written is handled as an error of the job.
CompleteError(e) ==
    /\ e.phase = "returned"
    /\ Advance(e, "raised")
    /\ UNCHANGED <<job, claiming, worker, producer>>

\* Mutant: no unique index guards the row on its way back.
FailRequeueUnchecked(e) ==
    /\ e.phase = "raised"
    /\ e.attempt < MaxAttempts
    /\ e.job \notin Locked
    /\ job' = [job EXCEPT ![e.job].status = "queued", ![e.job].ripe = FALSE]
    /\ exec' = exec \ {e}
    /\ UNCHANGED <<claiming, worker, producer>>

\* fail decides by the attempts of the claimed object and writes WHERE id.
\* Back to queued, a row that was finished enters the unique index again.
FailRequeue(e) ==
    /\ e.phase = "raised"
    /\ e.attempt < MaxAttempts
    /\ e.job \notin Locked
    /\ Twins(job[e.job].key) \subseteq {e.job}
    /\ job' = [job EXCEPT ![e.job].status = "queued", ![e.job].ripe = FALSE]
    /\ exec' = exec \ {e}
    /\ UNCHANGED <<claiming, worker, producer>>

FailForGood(e) ==
    /\ e.phase = "raised"
    /\ e.attempt >= MaxAttempts
    /\ e.job \notin Locked
    /\ job' = [job EXCEPT ![e.job].status = "failed"]
    /\ exec' = exec \ {e}
    /\ UNCHANGED <<claiming, worker, producer>>

\* fail itself raises (database error, or the unique index refuses the row):
\* the task ends and the row keeps what it has.
FailError(e) ==
    /\ e.phase = "raised"
    /\ exec' = exec \ {e}
    /\ UNCHANGED <<job, claiming, worker, producer>>

\* _heartbeat_loop of any execution of the row refreshes a running row.
Heartbeat(e) ==
    /\ job[e.job].status = "running"
    /\ job' = [job EXCEPT ![e.job].stale = FALSE]
    /\ UNCHANGED <<claiming, exec, worker, producer>>

-----------------------------------------------------------------------------
(* Time, and the sweep that recovers rows of dead workers.                 *)

\* No heartbeat was written for worker_stale_after_sec: the worker is gone,
\* or its heartbeats fail (they are logged and dropped) or its loop is blocked.
GoStale(j) ==
    /\ job[j].status = "running"
    /\ ~job[j].stale
    /\ job' = [job EXCEPT ![j].stale = TRUE]
    /\ UNCHANGED <<claiming, exec, worker, producer>>

\* run_at passes.
Ripen(j) ==
    /\ job[j].status = "queued"
    /\ ~job[j].ripe
    /\ job' = [job EXCEPT ![j].ripe = TRUE]
    /\ UNCHANGED <<claiming, exec, worker, producer>>

StaleRunning(j) == job[j].status = "running" /\ job[j].stale

\* Mutants: the two statements in the other order, the first one missing, and
\* a status the claim does not know.
SweptRequeueFirst(j) == [job[j] EXCEPT !.status = "queued", !.ripe = TRUE]

SweptUnlessExhausted(j) ==
    IF job[j].attempts >= MaxAttempts THEN job[j]
    ELSE [job[j] EXCEPT !.status = "queued", !.ripe = TRUE]

\* requeue_stale: first the rows out of attempts fail, then the rest of the
\* stale rows go back to queued with run_at = now, in one transaction.
Swept(j) ==
    IF job[j].attempts >= MaxAttempts
    THEN [job[j] EXCEPT !.status = "failed"]
    ELSE [job[j] EXCEPT !.status = "queued", !.ripe = TRUE]

RequeueStale(w) ==
    /\ worker[w] = "up"
    /\ claiming[w] = NoJob
    /\ job' = [j \in Jobs |-> IF StaleRunning(j) THEN Swept(j) ELSE job[j]]
    /\ UNCHANGED <<claiming, exec, worker, producer>>

-----------------------------------------------------------------------------
(* Worker processes.                                                       *)

\* SIGTERM, observed at the top of the loop: no more claims or sweeps.
Stop(w) ==
    /\ worker[w] = "up"
    /\ claiming[w] = NoJob
    /\ worker' = [worker EXCEPT ![w] = "draining"]
    /\ UNCHANGED <<job, claiming, exec, producer>>

\* The loop's finally block has waited for every task in flight.
Exit(w) ==
    /\ worker[w] = "draining"
    /\ InFlight(w) = {}
    /\ worker' = [worker EXCEPT ![w] = "down"]
    /\ UNCHANGED <<job, claiming, exec, producer>>

\* The process dies: its tasks vanish, an open claim is rolled back.
Crash(w) ==
    /\ worker[w] # "down"
    /\ worker' = [worker EXCEPT ![w] = "down"]
    /\ exec' = exec \ InFlight(w)
    /\ claiming' = [claiming EXCEPT ![w] = NoJob]
    /\ UNCHANGED <<job, producer>>

\* The container is restarted.
Restart(w) ==
    /\ worker[w] = "down"
    /\ worker' = [worker EXCEPT ![w] = "up"]
    /\ UNCHANGED <<job, claiming, exec, producer>>

-----------------------------------------------------------------------------

ProducerStep(p) == Enqueue(p) \/ FindExisting(p) \/ RetryInsert(p)

WorkerStep(w) ==
    \/ ClaimNext(w) \/ CommitClaim(w) \/ AbortClaim(w) \/ RequeueStale(w)
    \/ Stop(w) \/ Exit(w) \/ Crash(w) \/ Restart(w)

ExecStep(e) ==
    \/ Return(e) \/ Complete(e) \/ CompleteError(e) \/ FailRequeue(e)
    \/ FailForGood(e) \/ FailError(e) \/ Heartbeat(e)

TimeStep(j) == GoStale(j) \/ Ripen(j)

Next ==
    \/ \E p \in Producers : ProducerStep(p)
    \/ \E w \in Workers : WorkerStep(w)
    \/ \E e \in exec : ExecStep(e)
    \/ \E j \in Jobs : TimeStep(j)

Spec == Init /\ [][Next]_vars

-----------------------------------------------------------------------------
(* Safety.                                                                 *)

\* At most one pending row per dedupe key, whatever statements of enqueue
\* interleave and however many late executions push finished rows back.
OnePendingPerKey == \A k \in Keys : Cardinality(Twins(k)) <= 1

\* No two workers hold the same row in an open claim, and no two executions
\* come from the same claim: every execution under way has an attempt number
\* of its own.
ClaimsAreExclusive ==
    /\ \A v, w \in Workers :
          v # w /\ claiming[v] # NoJob => claiming[v] # claiming[w]
    /\ \A d, e \in exec : d.job = e.job /\ d.attempt = e.attempt => d = e

\* A row a claim holds is still queued when the claim commits: no execution
\* that outlived an earlier claim finishes it in between.
HeldRowsStayQueued ==
    \A w \in Workers : claiming[w] # NoJob => job[claiming[w]].status = "queued"

\* However workers crash, stall and come back late, no row is claimed more
\* than 2 * MaxAttempts - 1 times: every attempt below the limit can put its
\* row back twice, once by the sweep and once by its own late failure.
AttemptsBounded == \A j \in Jobs : job[j].attempts <= 2 * MaxAttempts - 1

\* enqueue never swallows a request: when a call that met a pending twin ends,
\* a row with its key is pending.
NoRequestLost ==
    [][\A p \in Producers, k \in Keys :
          /\ producer[p].at # "idle" /\ producer[p].key = k
          /\ producer'[p].at = "idle"
          => Twins(k)' # {}]_vars

\* A row leaves "running" while no execution of it is under way only through
\* the sweep of a stale row, and a finished row with no execution under way
\* is never touched again: nothing but a late execution revives it.
SettledRowsStay ==
    [][\A j \in Jobs :
          (\A e \in exec : e.job # j) =>
             /\ Finished(j) => job'[j] = job[j]
             /\ job[j].status = "running" /\ job'[j].status # "running"
                   => job[j].stale]_vars

-----------------------------------------------------------------------------
(* Fairness and liveness.                                                  *)

Executions(j) == {e \in exec : e.job = j}

\* Time passes; heartbeats of a row stop only with its last execution.
TimeFairness ==
    \A j \in Jobs : /\ WF_vars(Ripen(j))
                    /\ WF_vars(Executions(j) = {} /\ GoStale(j))

\* Job functions end, and the worker writes how they ended or gives up.
ExecFairness ==
    \A j \in Jobs :
        /\ WF_vars(\E e \in Executions(j) : Return(e))
        /\ WF_vars(\E e \in Executions(j) :
               Complete(e) \/ CompleteError(e) \/ FailRequeue(e)
                  \/ FailForGood(e) \/ FailError(e))

\* Containers are restarted; crashes and database errors do not hit every
\* single claim and every single sweep for ever.
WorkerFairness ==
    \A w \in Workers : /\ WF_vars(Exit(w)) /\ WF_vars(Restart(w))
                       /\ SF_vars(ClaimNext(w)) /\ SF_vars(CommitClaim(w))
                       /\ SF_vars(RequeueStale(w))

FairSpec == Spec /\ TimeFairness /\ ExecFairness /\ WorkerFairness

\* Every row that is enqueued is finished in the end and then for good, even
\* if workers never stop crashing: each crash costs an attempt.
EveryJobSettles ==
    \A j \in Jobs : (job[j].status = "queued") ~> [](Finished(j))

-----------------------------------------------------------------------------
(* What an execution may rely on.                                          *)

Lifecycle(j) == INSTANCE QueueRow WITH
              status <- job[j].status,
              attempts <- job[j].attempts,
              live <- {e.attempt : e \in Executions(j)}

\* Whatever producers, locks, clocks and the other rows do, each row goes
\* through the lifecycle of module QueueRow: only a queued row is claimed, under
\* a fresh number, and only the sweep or an execution under way ends it.
RowsKeepLifecycle ==
    /\ \A j \in Jobs : Lifecycle(j)!Init
    /\ [][\A j \in Jobs : [Lifecycle(j)!Next]_(Lifecycle(j)!row)]_vars

-----------------------------------------------------------------------------
(* What the documentation says and the code does not keep: an execution     *)
(* whose row went stale is still alive, and its writes are not fenced.      *)

\* queue.py: workers "can run side-by-side without double-execution".
NoDoubleExecution == \A d, e \in exec : d.job = e.job => d = e

=============================================================================
