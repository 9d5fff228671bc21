------------------------------ MODULE QueueRow ------------------------------
(***************************************************************************)
(* What one row of core_jobs does, as far as its executions can tell: the  *)
(* lifecycle of models/core_job.py plus what late executions and the sweep *)
(* of stale rows do to it.  No lock, dedupe key, clock or worker is seen.  *)
(***************************************************************************)
EXTENDS Naturals

CONSTANT MaxAttempts

VARIABLES
    status,
    attempts,  \* claims so far
    live       \* the numbers of the claims whose executions are under way

\* One row is enqueued before its executions begin, or is not there yet.
Init ==
    /\ status \in {"absent", "queued"}
    /\ attempts = 0
    /\ live = {}

Enqueue ==
    /\ status = "absent"
    /\ status' = "queued"
    /\ UNCHANGED <<attempts, live>>

\* Only a queued row is claimed, and under a number no execution has.
Claim ==
    /\ status = "queued"
    /\ status' = "running"
    /\ attempts' = attempts + 1
    /\ attempts' \notin live
    /\ live' = live \cup {attempts'}

\* An execution that is under way ends once, with what its own number says and
\* whatever the row has become meanwhile.
Complete(a) ==
    /\ status' = "succeeded"
    /\ live' = live \ {a}
    /\ UNCHANGED attempts

Fail(a) ==
    /\ status' = IF a < MaxAttempts THEN "queued" ELSE "failed"
    /\ live' = live \ {a}
    /\ UNCHANGED attempts

\* Executions die, or cannot write how they ended.
Vanish ==
    /\ live' \subseteq live
    /\ UNCHANGED <<status, attempts>>

\* A running row is given to another execution, or given up.
Sweep ==
    /\ status = "running"
    /\ status' = IF attempts < MaxAttempts THEN "queued" ELSE "failed"
    /\ UNCHANGED <<attempts, live>>

Next ==
    \/ Enqueue \/ Claim \/ Vanish \/ Sweep
    \/ \E a \in live : Complete(a) \/ Fail(a)

row == <<status, attempts, live>>

Spec == Init /\ [][Next]_row
=============================================================================
