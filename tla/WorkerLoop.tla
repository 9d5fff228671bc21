------------------------------ MODULE WorkerLoop ------------------------------
(***************************************************************************)
(* run_worker of pmi_workers/worker.py: the loop of one worker process,    *)
(* with the wake event, the LISTEN connection, the stop event and the      *)
(* tasks it has in flight.  One action runs from one await to the next, so *)
(* callbacks and other tasks interleave exactly where asyncio lets them.   *)
(* The table is reduced to two counts: rows this worker could claim, and   *)
(* rows of dead workers that only a sweep brings back (JobQueue has the    *)
(* rows themselves).                                                       *)
(***************************************************************************)
EXTENDS Naturals

CONSTANTS
    Concurrency, \* PMI_WORKER_CONCURRENCY
    MaxRows      \* bound: claimable rows and rows of dead workers at one time

ASSUME ConcurrencyAssumption == Concurrency \in Nat \ {0}
ASSUME BoundAssumption == MaxRows \in Nat

VARIABLES
    pc,        \* the await or branch the loop is at
    stop,      \* the stop event: SIGTERM or SIGINT arrived
    wake,      \* the wake event
    running,   \* tasks in flight
    late,      \* history: rows claimed since the stop event was set
    sweepDue,  \* 60 s have passed since last_sweep
    listening, \* the LISTEN connection is up
    note,      \* a notification is on its way over that connection
    ready,     \* rows claim_next would find
    orphans    \* running rows whose heartbeat is stale

loop == <<pc, late, running>>
env == <<listening, note, ready, orphans>>
vars == <<pc, stop, wake, running, late, sweepDue, listening, note, ready, orphans>>

Stopped == {"drain", "exited"}

TypeOK ==
    /\ pc \in {"top", "sweep", "claim", "backoff", "idle", "wait"} \cup Stopped
    /\ stop \in BOOLEAN /\ wake \in BOOLEAN /\ sweepDue \in BOOLEAN
    /\ listening \in BOOLEAN /\ note \in BOOLEAN
    /\ running \in 0..Concurrency
    /\ late \in Nat
    /\ ready \in Nat /\ orphans \in Nat /\ ready + orphans <= MaxRows

\* last_sweep is 0.0, so the first iteration sweeps.
Init ==
    /\ pc = "top" /\ running = 0 /\ late = 0
    /\ stop = FALSE /\ wake = FALSE /\ sweepDue = TRUE
    /\ listening = FALSE /\ note = FALSE
    /\ ready = 0 /\ orphans = 0

-----------------------------------------------------------------------------
(* The loop.                                                               *)

\* Mutant: the sweep waits until the loop would go to sleep.
TopSweepWhenIdle ==
    /\ pc = "top" /\ ~stop
    /\ pc' = IF sweepDue /\ (running = Concurrency \/ ready = 0)
             THEN "sweep" ELSE "claim"
    /\ UNCHANGED <<stop, wake, running, late, sweepDue, env>>

\* Another iteration: a due sweep comes before the claim.
Top ==
    /\ pc = "top" /\ ~stop
    /\ pc' = IF sweepDue THEN "sweep" ELSE "claim"
    /\ UNCHANGED <<stop, wake, running, late, sweepDue, env>>

\* Mutant: the loop goes on as long as there is work.
LeaveLoopWhenEmpty ==
    /\ pc = "top" /\ stop /\ ready = 0
    /\ pc' = "drain"
    /\ UNCHANGED <<stop, wake, running, late, sweepDue, env>>

\* The stop event is looked at here and nowhere else.
LeaveLoop ==
    /\ pc = "top" /\ stop
    /\ pc' = "drain"
    /\ UNCHANGED <<stop, wake, running, late, sweepDue, env>>

\* requeue_stale and its commit; last_sweep was set before it.
Sweep ==
    /\ pc = "sweep"
    /\ ready' = ready + orphans
    /\ orphans' = 0
    /\ sweepDue' = FALSE
    /\ pc' = "claim"
    /\ UNCHANGED <<stop, wake, running, late, listening, note>>

\* A sweep that fails is logged; the next one is due in 60 s.
SweepError ==
    /\ pc = "sweep"
    /\ sweepDue' = FALSE
    /\ pc' = "claim"
    /\ UNCHANGED <<stop, wake, running, late, env>>

\* A row was claimed: start its task and go on at once.
ClaimRow ==
    /\ pc = "claim" /\ running < Concurrency /\ ready > 0
    /\ ready' = ready - 1
    /\ running' = running + 1
    /\ late' = IF stop THEN late + 1 ELSE late
    /\ pc' = "top"
    /\ UNCHANGED <<stop, wake, sweepDue, listening, note, orphans>>

\* No slot is free, or no row is claimable.
ClaimNothing ==
    /\ pc = "claim"
    /\ running = Concurrency \/ ready = 0
    /\ pc' = "idle"
    /\ UNCHANGED <<stop, wake, running, late, sweepDue, env>>

\* A database error: sleep for the poll interval, then start over.
ClaimError ==
    /\ pc = "claim" /\ running < Concurrency
    /\ pc' = "backoff"
    /\ UNCHANGED <<stop, wake, running, late, sweepDue, env>>

BackoffEnds ==
    /\ pc = "backoff"
    /\ pc' = "top"
    /\ UNCHANGED <<stop, wake, running, late, sweepDue, env>>

\* Whatever set the event since the claim found nothing is forgotten here.
ClearWake ==
    /\ pc = "idle"
    /\ wake' = FALSE
    /\ pc' = "wait"
    /\ UNCHANGED <<stop, running, late, sweepDue, env>>

\* asyncio.wait returns because of an event.
Woken ==
    /\ pc = "wait" /\ (wake \/ stop)
    /\ pc' = "top"
    /\ UNCHANGED <<stop, wake, running, late, sweepDue, env>>

\* Mutant: no timeout on the wait; only events end it.
PollOnlyIfWoken ==
    /\ pc = "wait" /\ wake
    /\ pc' = "top"
    /\ UNCHANGED <<stop, wake, running, late, sweepDue, env>>

\* asyncio.wait returns because PMI_WORKER_POLL_INTERVAL_SEC passed.
Poll ==
    /\ pc = "wait"
    /\ pc' = "top"
    /\ UNCHANGED <<stop, wake, running, late, sweepDue, env>>

\* gather has waited for every task.
Exit ==
    /\ pc = "drain" /\ running = 0
    /\ pc' = "exited"
    /\ UNCHANGED <<stop, wake, running, late, sweepDue, env>>

-----------------------------------------------------------------------------
(* Tasks, signals, timers, the connection and the table.                   *)

\* _on_done: the slot is free and the loop is woken.
TaskDone ==
    /\ running > 0 /\ pc # "exited"
    /\ running' = running - 1
    /\ wake' = TRUE
    /\ UNCHANGED <<pc, stop, late, sweepDue, env>>

Signal ==
    /\ ~stop
    /\ stop' = TRUE
    /\ UNCHANGED <<loop, wake, sweepDue, env>>

SweepTimer ==
    /\ ~sweepDue
    /\ sweepDue' = TRUE
    /\ UNCHANGED <<loop, stop, wake, env>>

\* A producer commits a row and its NOTIFY.
Enqueued ==
    /\ ready + orphans < MaxRows
    /\ ready' = ready + 1
    /\ note' = (note \/ listening)
    /\ UNCHANGED <<loop, stop, wake, sweepDue, listening, orphans>>

\* The run_at of a retried row passes: nobody is notified.
Ripened ==
    /\ ready + orphans < MaxRows
    /\ ready' = ready + 1
    /\ UNCHANGED <<loop, stop, wake, sweepDue, listening, note, orphans>>

\* Another worker claims a row.
Taken ==
    /\ ready > 0
    /\ ready' = ready - 1
    /\ UNCHANGED <<loop, stop, wake, sweepDue, listening, note, orphans>>

\* Another worker dies and its row goes stale.
Orphaned ==
    /\ ready + orphans < MaxRows
    /\ orphans' = orphans + 1
    /\ UNCHANGED <<loop, stop, wake, sweepDue, listening, note, ready>>

\* The listener's callback.
Notified ==
    /\ note /\ pc \notin Stopped
    /\ note' = FALSE
    /\ wake' = TRUE
    /\ UNCHANGED <<loop, stop, sweepDue, listening, ready, orphans>>

\* The connection drops with what it carried, or is established again.
Disconnect ==
    /\ listening
    /\ listening' = FALSE /\ note' = FALSE
    /\ UNCHANGED <<loop, stop, wake, sweepDue, ready, orphans>>

Connect ==
    /\ ~listening /\ pc \notin Stopped
    /\ listening' = TRUE
    /\ UNCHANGED <<loop, stop, wake, sweepDue, note, ready, orphans>>

-----------------------------------------------------------------------------

LoopStep ==
    \/ Top \/ LeaveLoop \/ Sweep \/ SweepError \/ ClaimRow \/ ClaimNothing
    \/ ClaimError \/ BackoffEnds \/ ClearWake \/ Woken \/ Poll \/ Exit

Environment ==
    \/ TaskDone \/ Signal \/ SweepTimer \/ Enqueued \/ Ripened \/ Taken
    \/ Orphaned \/ Notified \/ Disconnect \/ Connect

Next == LoopStep \/ Environment

Spec == Init /\ [][Next]_vars

\* The event loop runs what is runnable, timers fire, job functions end, and
\* the database does not refuse every claim and every sweep for ever.
FairSpec ==
    /\ Spec
    /\ WF_vars(LoopStep) /\ WF_vars(Poll) /\ WF_vars(TaskDone)
    /\ WF_vars(SweepTimer)
    /\ SF_vars(ClaimRow) /\ SF_vars(Sweep)

-----------------------------------------------------------------------------
(* Properties.                                                             *)

\* A worker told to stop takes at most one more row, the one its current
\* iteration was already after.
AtMostOneLateClaim == late <= 1

\* A worker that has left gracefully has left no task behind.
NothingLeftRunning == pc = "exited" => running = 0

\* Work is not left lying while a slot is free: notifications may be lost, or
\* cleared unseen, or never sent for a retried row, and yet the worker claims.
KeepsClaiming ==
    <>[](ready > 0 /\ running < Concurrency /\ ~stop) => []<><<ClaimRow>>_vars

\* Rows of dead workers come back however busy this worker is.
OrphansRecovered ==
    (orphans > 0) ~> (orphans = 0 \/ stop)

\* A signal, whichever await it meets the loop at, ends the process, and by then
\* every task has ended: those in flight and that of the one row it may still
\* have claimed.
StopsInTheEnd == stop ~> (pc = "exited" /\ running = 0 /\ late <= 1)
=============================================================================
