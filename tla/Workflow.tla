------------------------------- MODULE Workflow -------------------------------
(***************************************************************************)
(* One durable workflow run (pmi_core/workflow.py), executed by the queue  *)
(* job "workflow", with engine/backtest.py as the workflow: a fixed number *)
(* of steps, one per replay point.                                         *)
(*                                                                         *)
(* Every transaction of execute_run and of WorkflowContext.step is one     *)
(* action; the reading and the marking of the run, one transaction at READ *)
(* COMMITTED without a row lock, are two.  The queue is the interface that *)
(* module JobQueue proves about: a row that is claimed, put back by a late *)
(* failure or by the sweep, so that two executions of one run can overlap. *)
(* The status "cancelled" is left out: the code reads it and never sets it.*)
(***************************************************************************)
EXTENDS Naturals, Sequences, FiniteSets

CONSTANTS
    Executors,   \* worker slots that may execute the job
    Length,      \* the number of replay points
    Values,      \* results a step may compute
    NoValue,     \* no result yet
    MaxAttempts, \* max_attempts of the queue job
    KeysFixed    \* TRUE: step keys follow from the args (backtest with end=)
                 \* FALSE: they follow from the time the execution began

ASSUME LengthAssumption == Length \in Nat \ {0}
ASSUME AttemptAssumption == MaxAttempts \in Nat \ {0}
ASSUME ValueAssumption == NoValue \notin Values
ASSUME KeysAssumption == KeysFixed \in BOOLEAN

VARIABLES
    run,   \* the core_workflow_runs row
    steps, \* core_workflow_steps of the run: the result at each step key
    job,   \* the core_jobs row that executes the run
    exec   \* what each slot is doing

vars == <<run, steps, job, exec>>

-----------------------------------------------------------------------------
(* Data. *)

\* A step key is a replay point counted from an anchor: the end of the window.
Key == Nat \X (1 .. Length)

Points == {p \in Seq(Values) : Len(p) <= Length}

\* The steps of execute_run; returned and raised are back in the queue's hands.
Location == {"idle", "load", "mark", "total", "look", "call", "save",
             "finish", "failing", "returned", "raised"}

Execution == [at : Location, attempt : Nat, points : Points,
              value : Values \cup {NoValue}]

Idle == [at |-> "idle", attempt |-> 0, points |-> << >>, value |-> NoValue]

\* The anchor of a key is the same for all attempts only if the args fix it:
\* attempts begin seconds apart and keys have the precision of a second.
AnchorOf(attempt) == IF KeysFixed THEN 0 ELSE attempt

\* The key of the next step of an execution.
KeyOf(e) == <<AnchorOf(exec[e].attempt), Len(exec[e].points) + 1>>

Active == {e \in Executors : exec[e].at # "idle"}

RowsOK ==
    /\ run \in [status : {"queued", "running", "failed", "succeeded"},
                done : Nat, total : {0, Length},
                anchor : Nat, points : Points]
    /\ DOMAIN steps \subseteq Key
    /\ \A k \in DOMAIN steps : steps[k] \in Values
    /\ job \in [status : {"queued", "running", "succeeded", "failed"},
                attempts : Nat]

TypeOK == RowsOK /\ exec \in [Executors -> Execution]

\* create_run and the enqueue of its job are one transaction of the API.
Init ==
    /\ run = [status |-> "queued", done |-> 0, total |-> 0,
              anchor |-> 0, points |-> << >>]
    /\ steps = [k \in {} |-> NoValue]
    /\ job = [status |-> "queued", attempts |-> 0]
    /\ exec = [e \in Executors |-> Idle]

Goto(e, at) == exec' = [exec EXCEPT ![e].at = at]

-----------------------------------------------------------------------------
(* The queue. *)

Claim(e) ==
    /\ job.status = "queued"
    /\ exec[e].at = "idle"
    /\ job' = [status |-> "running", attempts |-> job.attempts + 1]
    /\ exec' = [exec EXCEPT ![e] = [Idle EXCEPT !.at = "load",
                                                !.attempt = job.attempts + 1]]
    /\ UNCHANGED <<run, steps>>

Complete(e) ==
    /\ exec[e].at = "returned"
    /\ job' = [job EXCEPT !.status = "succeeded"]
    /\ exec' = [exec EXCEPT ![e] = Idle]
    /\ UNCHANGED <<run, steps>>

Fail(e) ==
    /\ exec[e].at = "raised"
    /\ job' = [job EXCEPT !.status = IF exec[e].attempt < MaxAttempts
                                     THEN "queued" ELSE "failed"]
    /\ exec' = [exec EXCEPT ![e] = Idle]
    /\ UNCHANGED <<run, steps>>

\* The worker dies, or cannot write the failure to the queue.
Crash(e) ==
    /\ exec[e].at # "idle"
    /\ exec' = [exec EXCEPT ![e] = Idle]
    /\ UNCHANGED <<run, steps, job>>

\* requeue_stale, of a row whose execution is gone or only looks gone.
Sweep ==
    /\ job.status = "running"
    /\ job' = [job EXCEPT !.status = IF job.attempts < MaxAttempts
                                     THEN "queued" ELSE "failed"]
    /\ UNCHANGED <<run, steps, exec>>

-----------------------------------------------------------------------------
(* execute_run *)

\* Mutant: a run that is under way is left to whoever runs it.
LoadUnlessRunning(e) ==
    /\ exec[e].at = "load"
    /\ Goto(e, IF run.status \in {"succeeded", "running"} THEN "returned"
               ELSE "mark")
    /\ UNCHANGED <<run, steps, job>>

\* SELECT the run: what succeeded is returned as it was stored.
Load(e) ==
    /\ exec[e].at = "load"
    /\ Goto(e, IF run.status = "succeeded" THEN "returned" ELSE "mark")
    /\ UNCHANGED <<run, steps, job>>

\* Mutant: the row starts over.
MarkAnew(e) ==
    /\ exec[e].at = "mark"
    /\ run' = [run EXCEPT !.status = "running", !.anchor = 0, !.points = << >>]
    /\ Goto(e, "total")
    /\ UNCHANGED <<steps, job>>

\* UPDATE ... SET status = 'running' WHERE id, whatever it has become.
Mark(e) ==
    /\ exec[e].at = "mark"
    /\ run' = [run EXCEPT !.status = "running"]
    /\ Goto(e, "total")
    /\ UNCHANGED <<steps, job>>

\* backtest: set_steps_total.
SetTotal(e) ==
    /\ exec[e].at = "total"
    /\ run' = [run EXCEPT !.total = Length]
    /\ Goto(e, "look")
    /\ UNCHANGED <<steps, job>>

\* Where an execution goes with the results of its first steps.
Proceed(e, points) ==
    exec' = [exec EXCEPT ![e].points = points, ![e].value = NoValue,
                         ![e].at = IF Len(points) < Length THEN "look"
                                   ELSE "finish"]

\* Mutant: the checkpoint is not consulted.
LookNowhere(e) ==
    /\ exec[e].at = "look"
    /\ Goto(e, "call")
    /\ UNCHANGED <<run, steps, job>>

\* step: SELECT the succeeded row of this key; no row, run the function.
Look(e) ==
    /\ exec[e].at = "look"
    /\ \/ /\ KeyOf(e) \in DOMAIN steps
          /\ Proceed(e, Append(exec[e].points, steps[KeyOf(e)]))
       \/ /\ KeyOf(e) \notin DOMAIN steps
          /\ Goto(e, "call")
    /\ UNCHANGED <<run, steps, job>>

\* step: await fn(...); what score_index_as_of computes depends on the
\* definition and the evaluations that are current then.
Call(e) ==
    /\ exec[e].at = "call"
    /\ \/ \E v \in Values :
             exec' = [exec EXCEPT ![e].at = "save", ![e].value = v]
       \/ Goto(e, "failing")
    /\ UNCHANGED <<run, steps, job>>

WithStep(k, v) == [x \in DOMAIN steps \cup {k} |-> IF x = k THEN v ELSE steps[x]]

\* Mutant: ON CONFLICT DO NOTHING.
SaveOrIgnore(e) ==
    /\ exec[e].at = "save"
    /\ IF KeyOf(e) \in DOMAIN steps THEN UNCHANGED <<run, steps>>
       ELSE /\ steps' = WithStep(KeyOf(e), exec[e].value)
            /\ run' = [run EXCEPT !.done = @ + 1]
    /\ Proceed(e, Append(exec[e].points, exec[e].value))
    /\ UNCHANGED job

\* step: INSERT the row and count it, one transaction; the unique constraint
\* on (run, key) raises when another execution saved the step first.
Save(e) ==
    /\ exec[e].at = "save"
    /\ \/ /\ KeyOf(e) \notin DOMAIN steps
          /\ steps' = WithStep(KeyOf(e), exec[e].value)
          /\ run' = [run EXCEPT !.done = @ + 1]
          /\ Proceed(e, Append(exec[e].points, exec[e].value))
       \/ /\ KeyOf(e) \in DOMAIN steps
          /\ Goto(e, "failing")
          /\ UNCHANGED <<run, steps>>
    /\ UNCHANGED job

\* The workflow function raised: UPDATE ... SET status = 'failed', re-raise.
MarkFailed(e) ==
    /\ exec[e].at = "failing"
    /\ run' = [run EXCEPT !.status = "failed"]
    /\ Goto(e, "raised")
    /\ UNCHANGED <<steps, job>>

\* UPDATE ... SET status = 'succeeded', result = ...
Finish(e) ==
    /\ exec[e].at = "finish"
    /\ run' = [run EXCEPT !.status = "succeeded",
                          !.anchor = AnchorOf(exec[e].attempt),
                          !.points = exec[e].points]
    /\ Goto(e, "returned")
    /\ UNCHANGED <<steps, job>>

\* A transaction fails.  Inside the workflow function the run is marked failed;
\* outside it, and while the success of the job is written, the exception
\* goes straight to the queue.
DatabaseError(e) ==
    /\ \/ exec[e].at \in {"total", "look", "save"} /\ Goto(e, "failing")
       \/ exec[e].at \in {"load", "mark", "finish", "failing", "returned"}
          /\ Goto(e, "raised")
    /\ UNCHANGED <<run, steps, job>>

-----------------------------------------------------------------------------

RunStep(e) ==
    \/ Load(e) \/ Mark(e) \/ SetTotal(e) \/ Look(e) \/ Call(e) \/ Save(e)
    \/ MarkFailed(e) \/ Finish(e) \/ DatabaseError(e)

QueueStep(e) == Claim(e) \/ Complete(e) \/ Fail(e) \/ Crash(e)

Next == Sweep \/ \E e \in Executors : RunStep(e) \/ QueueStep(e)

Spec == Init /\ [][Next]_vars

\* The queue executes what is queued and recovers what has nobody left
\* (JobQueue, EveryJobSettles); an execution that lives goes on.
FairSpec ==
    /\ Spec
    /\ WF_vars(Active = {} /\ Sweep)
    /\ WF_vars(\E e \in Executors : Claim(e))
    /\ \A e \in Executors :
          WF_vars(RunStep(e) \/ Complete(e) \/ Fail(e) \/ Crash(e))

-----------------------------------------------------------------------------
(* Properties. *)

\* The progress the API shows is the number of checkpoints, however many
\* executions replay the run or race for a step.
DoneCountsSteps == run.done = Cardinality(DOMAIN steps)

\* The stored result of a run is made of its checkpoints: no point of it was
\* computed by an execution that lost the race for the step.
ResultIsCheckpointed ==
    \A i \in DOMAIN run.points :
        /\ <<run.anchor, i>> \in DOMAIN steps
        /\ steps[<<run.anchor, i>>] = run.points[i]

\* A run that succeeded, with no execution under way that read it before.
Settled == /\ run.status = "succeeded"
           /\ \A e \in Active : exec[e].at \in {"load", "returned", "raised"}

\* Executing a run again after its success changes nothing: not the row, not
\* its checkpoints, however often the queue comes back to it.
SuccessIsStable == [][Settled => Settled' /\ UNCHANGED <<run, steps>>]_vars

\* A result that has been written never changes: not when an execution that had
\* read the run before marks it running again and replays its steps, nor when it
\* saves or loses a step, fails, or writes a result of its own.
ResultIsFinal ==
    [][run.points # << >> => UNCHANGED <<run.anchor, run.points>>]_vars

\* A point that is checkpointed is never computed again by an execution that
\* comes to it later.
ResumesAtCheckpoint ==
    [][\A e \in Executors :
          exec[e].at = "look" /\ exec'[e].at = "call" =>
              \A k \in DOMAIN steps : k[2] # Len(exec[e].points) + 1]_vars

\* The queue has given the job up.
GivenUp == job.status = "failed" /\ Active = {}

Overlap == \E d, e \in Active : d # e

\* Unless two of its executions ever overlap, every run ends: it succeeds or
\* fails for good, wherever its executions die, or the queue has given its job
\* up.  (With an overlap the loser can leave a finished run at "running".)
RunEnds ==
    \/ <>Overlap
    \/ <>[](run.status \in {"succeeded", "failed"} \/ GivenUp)

-----------------------------------------------------------------------------
(* The queue as JobQueue gives it: one row in the lifecycle of QueueRow.    *)

Queue == INSTANCE QueueRow WITH
            status <- job.status,
            attempts <- job.attempts,
            live <- {exec[e].attempt : e \in Active}

\* The job of the run does nothing a row of the queue would not do.
JobKeepsLifecycle == Queue!Spec

-----------------------------------------------------------------------------
(* What the caller of the run gets.                                        *)

Durable == INSTANCE DurableRun WITH
              Anchors <- IF KeysFixed THEN {0} ELSE Nat,
              NoResult <- [anchor |-> 0, points |-> << >>],
              saved <- steps,
              done <- run.done,
              result <- [anchor |-> run.anchor, points |-> run.points]

\* However its executions overlap, die and begin again, the run saves each step
\* once, after the one before it and for good, shows the number of them as its
\* progress and has no result but all of them (module DurableRun).
RunIsDurable == Durable!Spec
=============================================================================
