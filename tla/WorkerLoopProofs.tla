--------------------------- MODULE WorkerLoopProofs ---------------------------
(* Theorems about WorkerLoop for every Concurrency and every table bound.  *)
EXTENDS WorkerLoop, TLAPS

LEMMA TypeStep == TypeOK /\ [Next]_vars => TypeOK'
<1> SUFFICES ASSUME TypeOK, [Next]_vars PROVE TypeOK'
  OBVIOUS
<1> USE ConcurrencyAssumption, BoundAssumption DEF TypeOK, Stopped
<1>1. CASE Top
  BY <1>1 DEF Top, env
<1>2. CASE LeaveLoop
  BY <1>2 DEF LeaveLoop, env
<1>3. CASE Sweep \/ ClaimRow
  <2>1. CASE Sweep
    <3>1. ready' \in Nat /\ orphans' \in Nat /\ ready' + orphans' <= MaxRows
      BY <2>1 DEF Sweep
    <3>2. pc' = "claim" /\ sweepDue' \in BOOLEAN
      BY <2>1 DEF Sweep
    <3>3. UNCHANGED <<stop, wake, running, late, listening, note>>
      BY <2>1 DEF Sweep
    <3> QED BY <3>1, <3>2, <3>3
  <2>2. CASE ClaimRow
    BY <2>2 DEF ClaimRow
  <2> QED BY <1>3, <2>1, <2>2
<1>4. CASE SweepError \/ ClaimNothing \/ ClaimError \/ BackoffEnds
  BY <1>4 DEF SweepError, ClaimNothing, ClaimError, BackoffEnds, env
<1>5. CASE ClearWake \/ Woken \/ Poll \/ Exit
  BY <1>5 DEF ClearWake, Woken, Poll, Exit, env
<1>6. CASE TaskDone
  BY <1>6 DEF TaskDone, env
<1>7. CASE Signal \/ SweepTimer
  BY <1>7 DEF Signal, SweepTimer, loop, env
<1>8. CASE Enqueued \/ Ripened \/ Taken \/ Orphaned
  BY <1>8 DEF Enqueued, Ripened, Taken, Orphaned, loop
<1>9. CASE Notified \/ Disconnect \/ Connect
  BY <1>9 DEF Notified, Disconnect, Connect, loop
<1>10. CASE UNCHANGED vars
  BY <1>10 DEF vars
<1> QED BY <1>1, <1>2, <1>3, <1>4, <1>5, <1>6, <1>7, <1>8, <1>9, <1>10
        DEF Next, LoopStep, Environment

\* The inductive invariant.  A row claimed after the signal sends the loop to
\* the top, where the stop event is seen and no further claim begins; a worker
\* leaves only when its count of tasks, never negative, is zero.
LoopInv ==
    /\ ~stop => late = 0
    /\ late > 0 => late = 1 /\ pc \in {"top", "drain", "exited"}
    /\ pc \in Stopped => stop
    /\ pc = "exited" => running = 0

LEMMA LoopInvInductive == TypeOK /\ LoopInv /\ [Next]_vars => LoopInv'
<1> SUFFICES ASSUME TypeOK, LoopInv, [Next]_vars PROVE LoopInv'
  OBVIOUS
<1> late \in Nat /\ stop \in BOOLEAN
  BY DEF TypeOK
<1>1. CASE Top \/ LeaveLoop
  BY <1>1 DEF Top, LeaveLoop, LoopInv, Stopped
<1>2. CASE Sweep \/ SweepError
  BY <1>2 DEF Sweep, SweepError, LoopInv, Stopped
<1>3. CASE ClaimRow
  BY <1>3 DEF ClaimRow, LoopInv, Stopped
<1>4. CASE ClaimNothing \/ ClaimError \/ BackoffEnds
  BY <1>4 DEF ClaimNothing, ClaimError, BackoffEnds, LoopInv, Stopped
<1>5. CASE ClearWake \/ Woken \/ Poll \/ Exit
  BY <1>5 DEF ClearWake, Woken, Poll, Exit, LoopInv, Stopped
<1>6. CASE TaskDone
  BY <1>6 DEF TaskDone, LoopInv, Stopped
<1>7. CASE Signal
  BY <1>7 DEF Signal, loop, LoopInv, Stopped
<1>8. CASE UNCHANGED <<loop, stop>>
  BY <1>8 DEF loop, LoopInv
<1> QED BY <1>1, <1>2, <1>3, <1>4, <1>5, <1>6, <1>7, <1>8
        DEF Next, LoopStep, Environment, vars, loop, SweepTimer, Enqueued, Ripened,
            Taken, Orphaned, Notified, Disconnect, Connect

LEMMA InitLoop == Init => TypeOK /\ LoopInv
<1>1. 0 \in 0..Concurrency /\ 0 + 0 <= MaxRows /\ 0 \in Nat /\ ~(0 > 0)
  BY ConcurrencyAssumption, BoundAssumption
<1>2. Init => TypeOK
  BY <1>1 DEF Init, TypeOK, Stopped
<1>3. Init => LoopInv
  BY <1>1, Zenon DEF Init, LoopInv, Stopped
<1> QED BY <1>2, <1>3

LEMMA LoopInvInvariant == Spec => [](TypeOK /\ LoopInv)
BY InitLoop, TypeStep, LoopInvInductive, PTL DEF Spec

\* The loop's variables keep their types; in particular no more tasks are in
\* flight than PMI_WORKER_CONCURRENCY allows.
THEOREM LoopTypes == Spec => []TypeOK
BY LoopInvInvariant, PTL

\* After SIGTERM a worker claims at most one more row.
THEOREM OneLateClaim == Spec => []AtMostOneLateClaim
<1>1. TypeOK /\ LoopInv => AtMostOneLateClaim
  BY DEF LoopInv, TypeOK, AtMostOneLateClaim
<1> QED BY <1>1, LoopInvInvariant, PTL

\* A worker that leaves gracefully has no task in flight.
THEOREM GracefulExit == Spec => []NothingLeftRunning
<1>1. LoopInv => NothingLeftRunning
  BY DEF LoopInv, NothingLeftRunning
<1> QED BY <1>1, LoopInvInvariant, PTL
=============================================================================
