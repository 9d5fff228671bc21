---------------------------- MODULE WorkflowProofs ----------------------------
(***************************************************************************)
(* What holds of a workflow run for any number of executions, attempts,    *)
(* steps and results: its types, and that the stored result and the shown  *)
(* progress agree with the checkpoints.                                    *)
(***************************************************************************)
EXTENDS Workflow, FiniteSetTheorems, SequenceTheorems, TLAPS

\* What an execution holds fits where it is in the code.
Phase(x) ==
    /\ x.at \in {"load", "mark", "total"} => x.points = << >>
    /\ x.at \in {"look", "call", "save"} => Len(x.points) < Length
    /\ x.at = "save" => x.value \in Values
    /\ x.at = "finish" => Len(x.points) = Length

TypePhase == TypeOK /\ \A e \in Executors : Phase(exec[e])

LEMMA EmptyPoints == << >> \in Points /\ Len(<< >>) = 0
BY EmptySeq, LengthAssumption DEF Points

LEMMA AppendPoint ==
    ASSUME NEW p \in Points, Len(p) < Length, NEW v \in Values
    PROVE  /\ Append(p, v) \in Points
           /\ Len(p) \in Nat
           /\ DOMAIN p = 1 .. Len(p)
           /\ DOMAIN Append(p, v) = 1 .. Len(p) + 1
           /\ \A i \in DOMAIN p : Append(p, v)[i] = p[i]
           /\ Append(p, v)[Len(p) + 1] = v
<1>1. p \in Seq(Values)
  BY DEF Points
<1>2. /\ Append(p, v) \in Seq(Values)
      /\ Len(Append(p, v)) = Len(p) + 1
      /\ \A i \in 1 .. Len(p) : Append(p, v)[i] = p[i]
      /\ Append(p, v)[Len(p) + 1] = v
  BY <1>1, AppendProperties
<1>3. Len(p) \in Nat /\ DOMAIN p = 1 .. Len(p)
  BY <1>1, LenProperties
<1>4. DOMAIN Append(p, v) = 1 .. Len(p) + 1
  BY <1>2, LenProperties
<1> QED
  BY <1>2, <1>3, <1>4, LengthAssumption DEF Points

\* A step that leaves the rows well typed and gives one execution a value
\* that fits.
LEMMA Replaced ==
    ASSUME TypePhase, NEW e \in Executors, NEW x \in Execution, Phase(x),
           exec' = [exec EXCEPT ![e] = x], RowsOK'
    PROVE  TypePhase'
<1>1. exec' \in [Executors -> Execution]
  BY DEF TypePhase, TypeOK
<1>2. \A d \in Executors : Phase(exec'[d])
  BY DEF TypePhase, TypeOK
<1> QED
  BY <1>1, <1>2 DEF TypePhase, TypeOK, Phase

LEMMA Moved ==
    ASSUME TypePhase, NEW e \in Executors, NEW at \in Location, Goto(e, at),
           Phase([exec[e] EXCEPT !.at = at]), RowsOK'
    PROVE  TypePhase'
<1>1. [exec[e] EXCEPT !.at = at] \in Execution
  BY DEF TypePhase, TypeOK, Execution
<1> QED
  BY <1>1, Replaced DEF Goto

LEMMA Proceeded ==
    ASSUME TypePhase, NEW e \in Executors, NEW p \in Points, Proceed(e, p),
           RowsOK'
    PROVE  TypePhase'
<1> DEFINE x == [exec[e] EXCEPT !.points = p, !.value = NoValue,
                                !.at = IF Len(p) < Length THEN "look"
                                       ELSE "finish"]
<1>1. exec[e] \in Execution
  BY DEF TypePhase, TypeOK
<1>2. x \in Execution /\ Phase(x)
  <2>1. Len(p) \in Nat /\ Len(p) <= Length
    BY LenProperties DEF Points
  <2>2. x \in Execution /\ x.points = p
    BY <1>1 DEF Execution, Location
  <2>3. x.at \in {"look", "finish"} /\ (x.at = "look" <=> Len(p) < Length)
    BY <1>1 DEF Execution
  <2> HIDE DEF x
  <2> QED
    BY <2>1, <2>2, <2>3, LengthAssumption DEF Phase
<1>3. exec' = [exec EXCEPT ![e] = x]
  BY DEF Proceed
<1> HIDE DEF x
<1> QED
  BY <1>2, <1>3, Replaced

LEMMA TypePhaseInductive == TypePhase /\ [Next]_vars => TypePhase'
<1> SUFFICES ASSUME TypePhase, [Next]_vars PROVE TypePhase'
  OBVIOUS
<1>t. RowsOK /\ \A e \in Executors : exec[e] \in Execution /\ Phase(exec[e])
  BY DEF TypePhase, TypeOK
<1>i. Idle \in Execution /\ Phase(Idle)
  BY EmptyPoints DEF Idle, Execution, Phase, Location
<1>1. CASE Sweep
  <2>1. RowsOK'
    BY <1>1, <1>t DEF Sweep, RowsOK
  <2> QED
    BY <1>1, <2>1 DEF Sweep, TypePhase, TypeOK, Phase
<1>2. ASSUME NEW e \in Executors, Claim(e) PROVE TypePhase'
  <2> DEFINE x == [Idle EXCEPT !.at = "load", !.attempt = job.attempts + 1]
  <2>1. RowsOK'
    BY <1>2, <1>t DEF Claim, RowsOK
  <2>2. x \in Execution /\ Phase(x)
    <3>1. job.attempts + 1 \in Nat
      BY <1>t DEF RowsOK
    <3>2. x \in Execution
      BY <3>1, <1>i DEF Execution, Location
    <3>3. x.at = "load" /\ x.points = << >>
      BY DEF Idle
    <3> QED
      BY <3>2, <3>3 DEF Phase
  <2>3. exec' = [exec EXCEPT ![e] = x]
    BY <1>2 DEF Claim
  <2> HIDE DEF x
  <2> QED
    BY <2>1, <2>2, <2>3, Replaced
<1>3. ASSUME NEW e \in Executors, Complete(e) \/ Fail(e) \/ Crash(e)
      PROVE  TypePhase'
  <2>1. RowsOK' /\ exec' = [exec EXCEPT ![e] = Idle]
    BY <1>3, <1>t DEF Complete, Fail, Crash, RowsOK
  <2> QED
    BY <2>1, <1>i, Replaced
<1>4. ASSUME NEW e \in Executors, Load(e) PROVE TypePhase'
  <2>1. RowsOK'
    BY <1>4, <1>t DEF Load, RowsOK
  <2>2. PICK at \in {"returned", "mark"} : Goto(e, at)
    BY <1>4 DEF Load
  <2>3. at \in Location /\ Phase([exec[e] EXCEPT !.at = at])
    BY <1>4, <2>2, <1>t DEF Load, Phase, Location, Execution
  <2> QED
    BY <2>1, <2>2, <2>3, Moved
<1>5. ASSUME NEW e \in Executors, Mark(e) PROVE TypePhase'
  <2>1. RowsOK' /\ Goto(e, "total")
    BY <1>5, <1>t DEF Mark, RowsOK
  <2>2. "total" \in Location /\ Phase([exec[e] EXCEPT !.at = "total"])
    BY <1>5, <1>t DEF Mark, Phase, Location, Execution
  <2> QED
    BY <2>1, <2>2, Moved
<1>6. ASSUME NEW e \in Executors, SetTotal(e) PROVE TypePhase'
  <2>1. RowsOK' /\ Goto(e, "look")
    BY <1>6, <1>t DEF SetTotal, RowsOK
  <2>2. "look" \in Location /\ Phase([exec[e] EXCEPT !.at = "look"])
    BY <1>6, <1>t, EmptyPoints, LengthAssumption
       DEF SetTotal, Phase, Location, Execution
  <2> QED
    BY <2>1, <2>2, Moved
<1>7. ASSUME NEW e \in Executors, Look(e) PROVE TypePhase'
  <2>1. RowsOK' /\ Len(exec[e].points) < Length /\ exec[e].points \in Points
    BY <1>7, <1>t DEF Look, RowsOK, Phase, Execution
  <2>2. CASE KeyOf(e) \in DOMAIN steps
    <3>1. Append(exec[e].points, steps[KeyOf(e)]) \in Points
      BY <2>1, <2>2, <1>t, AppendPoint DEF RowsOK
    <3> QED
      BY <1>7, <2>1, <2>2, <3>1, Proceeded DEF Look
  <2>3. CASE KeyOf(e) \notin DOMAIN steps
    <3>1. "call" \in Location /\ Phase([exec[e] EXCEPT !.at = "call"])
      BY <2>1, <1>t DEF Phase, Location, Execution
    <3> QED
      BY <1>7, <2>1, <2>3, <3>1, Moved DEF Look
  <2> QED
    BY <2>2, <2>3
<1>8. ASSUME NEW e \in Executors, Call(e) PROVE TypePhase'
  <2>1. RowsOK' /\ Len(exec[e].points) < Length
    BY <1>8, <1>t DEF Call, RowsOK, Phase
  <2>2. ASSUME NEW v \in Values,
               exec' = [exec EXCEPT ![e].at = "save", ![e].value = v]
        PROVE  TypePhase'
    <3> DEFINE x == [exec[e] EXCEPT !.at = "save", !.value = v]
    <3>1. x \in Execution /\ Phase(x)
      BY <2>1, <1>t DEF Execution, Phase, Location
    <3>2. exec' = [exec EXCEPT ![e] = x]
      BY <2>2
    <3> HIDE DEF x
    <3> QED
      BY <2>1, <3>1, <3>2, Replaced
  <2>3. ASSUME Goto(e, "failing") PROVE TypePhase'
    <3>1. "failing" \in Location /\ Phase([exec[e] EXCEPT !.at = "failing"])
      BY <1>t DEF Phase, Location, Execution
    <3> QED
      BY <2>1, <2>3, <3>1, Moved
  <2> QED
    BY <1>8, <2>2, <2>3 DEF Call
<1>9. ASSUME NEW e \in Executors, Save(e) PROVE TypePhase'
  <2>1. CASE KeyOf(e) \in DOMAIN steps
    <3>1. RowsOK' /\ Goto(e, "failing")
      BY <1>9, <2>1, <1>t DEF Save, RowsOK
    <3>2. "failing" \in Location /\ Phase([exec[e] EXCEPT !.at = "failing"])
      BY <1>t DEF Phase, Location, Execution
    <3> QED
      BY <3>1, <3>2, Moved
  <2>2. CASE KeyOf(e) \notin DOMAIN steps
    <3>1. /\ exec[e].value \in Values
          /\ exec[e].points \in Points
          /\ Len(exec[e].points) < Length
      BY <1>9, <1>t DEF Save, Phase, Execution
    <3>2. /\ Append(exec[e].points, exec[e].value) \in Points
          /\ Len(exec[e].points) + 1 \in 1 .. Length
      BY <3>1, AppendPoint, LengthAssumption
    <3>3. KeyOf(e) \in Key
      BY <3>2, <1>t DEF KeyOf, Key, AnchorOf, Execution
    <3>4. RowsOK'
      BY <1>9, <2>2, <3>1, <3>3, <1>t DEF Save, WithStep, RowsOK
    <3> QED
      BY <1>9, <2>2, <3>2, <3>4, Proceeded DEF Save
  <2> QED
    BY <2>1, <2>2
<1>10. ASSUME NEW e \in Executors, MarkFailed(e) \/ Finish(e) \/ DatabaseError(e)
       PROVE  TypePhase'
  <2>1. RowsOK'
    <3>1. AnchorOf(exec[e].attempt) \in Nat /\ exec[e].points \in Points
      BY <1>t DEF AnchorOf, Execution
    <3>2. CASE Finish(e)
      BY <3>1, <3>2, <1>t DEF Finish, RowsOK
    <3>3. CASE MarkFailed(e) \/ DatabaseError(e)
      BY <3>3, <1>t DEF MarkFailed, DatabaseError, RowsOK
    <3> QED
      BY <1>10, <3>2, <3>3
  <2>2. PICK at \in {"raised", "returned", "failing"} : Goto(e, at)
    BY <1>10 DEF MarkFailed, Finish, DatabaseError
  <2>3. at \in Location /\ Phase([exec[e] EXCEPT !.at = at])
    BY <2>2, <1>t DEF Phase, Location, Execution
  <2> QED
    BY <2>1, <2>2, <2>3, Moved
<1>11. CASE UNCHANGED vars
  BY <1>11 DEF vars, TypePhase, TypeOK, RowsOK, Phase
<1> QED
  BY <1>1, <1>2, <1>3, <1>4, <1>5, <1>6, <1>7, <1>8, <1>9, <1>10, <1>11
     DEF Next, RunStep, QueueStep

LEMMA TypePhaseInvariant == Spec => []TypePhase
<1>1. Init => TypePhase
  BY EmptyPoints, LengthAssumption
     DEF Init, TypePhase, TypeOK, RowsOK, Phase, Execution, Idle, Location, Key
<1> QED
  BY <1>1, TypePhaseInductive, PTL DEF Spec

\* TypeOK of the workflow run, whatever executions of it overlap.
THEOREM RunTypes == Spec => []TypeOK
<1>1. TypePhase => TypeOK
  BY DEF TypePhase
<1> QED
  BY <1>1, TypePhaseInvariant, PTL

-----------------------------------------------------------------------------
(* Checkpoints.  A step row is only ever added, and for a key that has none. *)

LEMMA CheckpointsStay ==
    ASSUME TypePhase, [Next]_vars
    PROVE  \/ steps' = steps /\ run'.done = run.done
           \/ \E e \in Executors :
                 /\ exec[e].at = "save"
                 /\ KeyOf(e) \notin DOMAIN steps
                 /\ steps' = WithStep(KeyOf(e), exec[e].value)
                 /\ run' = [run EXCEPT !.done = @ + 1]
                 /\ Proceed(e, Append(exec[e].points, exec[e].value))
<1> USE DEF TypePhase, TypeOK, RowsOK
<1>1. ASSUME NEW e \in Executors, QueueStep(e) PROVE UNCHANGED <<run, steps>>
  BY <1>1 DEF QueueStep, Claim, Complete, Fail, Crash
<1>2. ASSUME NEW e \in Executors, RunStep(e), ~Save(e)
      PROVE  steps' = steps /\ run'.done = run.done
  BY <1>2 DEF RunStep, Load, Mark, SetTotal, Look, Call, MarkFailed, Finish,
              DatabaseError
<1>3. ASSUME NEW e \in Executors, Save(e) PROVE
         \/ steps' = steps /\ run'.done = run.done
         \/ /\ exec[e].at = "save"
            /\ KeyOf(e) \notin DOMAIN steps
            /\ steps' = WithStep(KeyOf(e), exec[e].value)
            /\ run' = [run EXCEPT !.done = @ + 1]
            /\ Proceed(e, Append(exec[e].points, exec[e].value))
  BY <1>3 DEF Save
<1>4. CASE Sweep \/ UNCHANGED vars
  BY <1>4 DEF Sweep, vars
<1> QED
  BY <1>1, <1>2, <1>3, <1>4 DEF Next

CountInv == IsFiniteSet(DOMAIN steps) /\ DoneCountsSteps

\* steps_done counts the checkpoints, however executions race for a step.
THEOREM DoneCounts == Spec => []DoneCountsSteps
<1>1. Init => CountInv
  BY FS_EmptySet DEF Init, CountInv, DoneCountsSteps
<1>2. TypePhase /\ CountInv /\ [Next]_vars => CountInv'
  <2> SUFFICES ASSUME TypePhase, CountInv, [Next]_vars PROVE CountInv'
    OBVIOUS
  <2>1. CASE steps' = steps /\ run'.done = run.done
    BY <2>1 DEF CountInv, DoneCountsSteps
  <2>2. ASSUME NEW e \in Executors, KeyOf(e) \notin DOMAIN steps,
               steps' = WithStep(KeyOf(e), exec[e].value),
               run' = [run EXCEPT !.done = @ + 1]
        PROVE  CountInv'
    <3>1. DOMAIN steps' = DOMAIN steps \cup {KeyOf(e)}
      BY <2>2 DEF WithStep
    <3>2. run'.done = run.done + 1
      BY <2>2 DEF TypePhase, TypeOK, RowsOK
    <3> QED
      BY <3>1, <3>2, <2>2, FS_AddElement DEF CountInv, DoneCountsSteps
  <2> QED
    BY <2>1, <2>2, CheckpointsStay
<1>3. CountInv => DoneCountsSteps
  BY DEF CountInv
<1> QED
  BY <1>1, <1>2, <1>3, TypePhaseInvariant, PTL DEF Spec

\* The points an execution has gathered are checkpoints of its own keys.
Gathered(e) ==
    \A i \in DOMAIN exec[e].points :
        /\ <<AnchorOf(exec[e].attempt), i>> \in DOMAIN steps
        /\ steps[<<AnchorOf(exec[e].attempt), i>>] = exec[e].points[i]

CheckpointInv == ResultIsCheckpointed /\ \A e \in Executors : Gathered(e)

LEMMA CheckpointAlways == Spec => []CheckpointInv
<1>1. Init => CheckpointInv
  BY DEF Init, CheckpointInv, ResultIsCheckpointed, Gathered, Idle
<1>2. TypePhase /\ CheckpointInv /\ [Next]_vars => CheckpointInv'
  <2> SUFFICES ASSUME TypePhase, CheckpointInv, [Next]_vars
               PROVE  CheckpointInv'
    OBVIOUS
  <2> USE DEF CheckpointInv
  <2>t. /\ exec \in [Executors -> Execution]
        /\ run \in [status : {"queued", "running", "failed", "succeeded"},
                    done : Nat, total : {0, Length},
                    anchor : Nat, points : Points]
    BY DEF TypePhase, TypeOK, RowsOK
  <2>1. \A k \in DOMAIN steps : k \in DOMAIN steps' /\ steps'[k] = steps[k]
    BY CheckpointsStay DEF WithStep
  \* An execution that keeps its points, or drops them, keeps what it gathered.
  <2>2. ASSUME NEW e \in Executors,
               \/ /\ exec'[e].points = exec[e].points
                  /\ exec'[e].attempt = exec[e].attempt
               \/ exec'[e].points = << >>
        PROVE  Gathered(e)'
    BY <2>1, <2>2 DEF Gathered
  \* One that proceeds adds the checkpoint of its key.
  <2>3. ASSUME NEW e \in Executors, NEW v \in Values, Len(exec[e].points) < Length,
               Proceed(e, Append(exec[e].points, v)),
               KeyOf(e) \in DOMAIN steps', steps'[KeyOf(e)] = v
        PROVE  Gathered(e)'
    <3>1. exec[e].points \in Points
      BY <2>t DEF Execution
    <3>2. /\ exec'[e].points = Append(exec[e].points, v)
          /\ exec'[e].attempt = exec[e].attempt
      BY <2>3, <2>t DEF Proceed, Execution
    <3>3. /\ DOMAIN exec'[e].points = DOMAIN exec[e].points \cup {Len(exec[e].points) + 1}
          /\ \A i \in DOMAIN exec[e].points : exec'[e].points[i] = exec[e].points[i]
          /\ exec'[e].points[Len(exec[e].points) + 1] = v
      BY <3>1, <3>2, <2>3, AppendPoint
    <3> QED
      BY <2>1, <2>3, <3>2, <3>3 DEF Gathered, KeyOf
  <2>4. ASSUME NEW e \in Executors, exec' = [exec EXCEPT ![e] = exec'[e]],
               Gathered(e)', UNCHANGED <<run.points, run.anchor>>
        PROVE  CheckpointInv'
    <3>1. \A d \in Executors : Gathered(d)'
      BY <2>2, <2>4, <2>t
    <3>2. ResultIsCheckpointed'
      BY <2>1, <2>4 DEF ResultIsCheckpointed
    <3> QED
      BY <3>1, <3>2
  <2>5. ASSUME NEW e \in Executors,
               QueueStep(e) \/ Load(e) \/ Mark(e) \/ SetTotal(e) \/ Call(e)
                  \/ MarkFailed(e) \/ DatabaseError(e)
        PROVE  CheckpointInv'
    <3>1. /\ exec' = [exec EXCEPT ![e] = exec'[e]]
          /\ \/ /\ exec'[e].points = exec[e].points
                /\ exec'[e].attempt = exec[e].attempt
             \/ exec'[e].points = << >>
      <4>1. CASE QueueStep(e)
        <5>1. CASE Claim(e)
          BY <5>1, <2>t DEF Claim, Idle
        <5>2. CASE Complete(e) \/ Fail(e) \/ Crash(e)
          BY <5>2, <2>t DEF Complete, Fail, Crash, Idle
        <5> QED
          BY <4>1, <5>1, <5>2 DEF QueueStep
      <4>2. CASE Load(e) \/ Mark(e) \/ SetTotal(e) \/ MarkFailed(e) \/ DatabaseError(e)
        <5>1. PICK at \in Location : Goto(e, at)
          BY <4>2 DEF Load, Mark, SetTotal, MarkFailed, DatabaseError, Location
        <5> QED
          BY <5>1, <2>t DEF Goto, Execution
      <4>3. CASE Call(e)
        BY <4>3, <2>t DEF Call, Goto, Execution
      <4> QED
        BY <2>5, <4>1, <4>2, <4>3
    <3>2. UNCHANGED <<run.points, run.anchor>>
      BY <2>5, <2>t
         DEF QueueStep, Claim, Complete, Fail, Crash, Load, Mark, SetTotal,
             Call, MarkFailed, DatabaseError
    <3> QED
      BY <3>1, <3>2, <2>2, <2>4
  <2>6. ASSUME NEW e \in Executors, Look(e) \/ Save(e) PROVE CheckpointInv'
    <3>1. /\ exec' = [exec EXCEPT ![e] = exec'[e]]
          /\ UNCHANGED <<run.points, run.anchor>>
          /\ Len(exec[e].points) < Length
      BY <2>6, <2>t DEF Look, Save, Goto, Proceed, TypePhase, Phase
    <3>2. CASE Goto(e, "call") \/ Goto(e, "failing")
      <4>1. exec'[e].points = exec[e].points /\ exec'[e].attempt = exec[e].attempt
        BY <3>2, <2>t DEF Goto, Execution
      <4> QED
        BY <4>1, <3>1, <2>2, <2>4
    <3>3. ASSUME Look(e), KeyOf(e) \in DOMAIN steps PROVE CheckpointInv'
      <4>1. steps[KeyOf(e)] \in Values /\ steps' = steps
        BY <3>3 DEF Look, TypePhase, TypeOK, RowsOK
      <4>2. Gathered(e)'
        BY <4>1, <3>1, <3>3, <2>3 DEF Look
      <4> QED
        BY <4>2, <3>1, <2>4
    <3>4. ASSUME Save(e), KeyOf(e) \notin DOMAIN steps PROVE CheckpointInv'
      <4>1. /\ exec[e].value \in Values
            /\ KeyOf(e) \in DOMAIN steps'
            /\ steps'[KeyOf(e)] = exec[e].value
        BY <3>4 DEF Save, WithStep, TypePhase, Phase
      <4>2. Gathered(e)'
        BY <4>1, <3>1, <3>4, <2>3 DEF Save
      <4> QED
        BY <4>2, <3>1, <2>4
    <3> QED
      BY <2>6, <3>2, <3>3, <3>4 DEF Look, Save
  <2>7. ASSUME NEW e \in Executors, Finish(e) PROVE CheckpointInv'
    <3>1. /\ exec' = [exec EXCEPT ![e].at = "returned"]
          /\ run'.points = exec[e].points
          /\ run'.anchor = AnchorOf(exec[e].attempt)
          /\ steps' = steps
      BY <2>7, <2>t DEF Finish, Goto
    <3>2. ResultIsCheckpointed'
      BY <3>1 DEF ResultIsCheckpointed, Gathered
    <3>3. \A d \in Executors : Gathered(d)'
      BY <3>1, <2>2, <2>t DEF Execution
    <3> QED
      BY <3>2, <3>3
  <2>8. CASE Sweep \/ UNCHANGED vars
    <3>1. UNCHANGED <<run, steps, exec>>
      BY <2>8 DEF Sweep, vars
    <3> QED
      BY <3>1 DEF ResultIsCheckpointed, Gathered
  <2> QED
    BY <2>5, <2>6, <2>7, <2>8 DEF Next, RunStep
<1> QED
  BY <1>1, <1>2, TypePhaseInvariant, PTL DEF Spec

\* The result of a successful run consists of its checkpoints, even if
\* executions overlap: the loser of a step never gets to finish.
THEOREM ResultCheckpointed == Spec => []ResultIsCheckpointed
<1>1. CheckpointInv => ResultIsCheckpointed
  BY DEF CheckpointInv
<1> QED
  BY <1>1, CheckpointAlways, PTL

\* A run that succeeded and that no execution still holds from before stays as
\* it is, whatever the queue does.
THEOREM SuccessStays == Spec => SuccessIsStable
<1>1. TypePhase /\ [Next]_vars => (Settled => Settled' /\ UNCHANGED <<run, steps>>)
  <2> SUFFICES ASSUME TypePhase, [Next]_vars, Settled
               PROVE  Settled' /\ UNCHANGED <<run, steps>>
    OBVIOUS
  <2>t. exec \in [Executors -> Execution]
    BY DEF TypePhase, TypeOK
  <2>1. \A e \in Executors : exec[e].at \in {"idle", "load", "returned", "raised"}
    BY DEF Settled, Active
  <2>2. ASSUME NEW e \in Executors, QueueStep(e) \/ RunStep(e)
        PROVE  /\ UNCHANGED <<run, steps>>
               /\ exec' = [exec EXCEPT ![e] = exec'[e]]
               /\ exec'[e].at \in {"idle", "load", "returned", "raised"}
    <3>1. CASE QueueStep(e)
      <4>1. CASE Claim(e)
        BY <4>1, <2>t DEF Claim, Idle
      <4>2. CASE Complete(e) \/ Fail(e) \/ Crash(e)
        BY <4>2, <2>t DEF Complete, Fail, Crash, Idle
      <4> QED
        BY <3>1, <4>1, <4>2 DEF QueueStep
    <3>2. CASE RunStep(e)
      BY <3>2, <2>1, <2>t
         DEF RunStep, Load, Mark, SetTotal, Look, Call, Save, MarkFailed,
             Finish, DatabaseError, Goto, Settled, Execution
    <3> QED
      BY <2>2, <3>1, <3>2
  <2>3. ASSUME NEW e \in Executors, QueueStep(e) \/ RunStep(e) PROVE Settled'
    <3>1. \A d \in Executors : exec'[d].at \in {"idle", "load", "returned", "raised"}
      BY <2>1, <2>2, <2>3, <2>t
    <3> QED
      BY <3>1, <2>2, <2>3 DEF Settled, Active
  <2>4. CASE Sweep \/ UNCHANGED vars
    BY <2>4 DEF Sweep, vars, Settled, Active
  <2> QED
    BY <2>2, <2>3, <2>4 DEF Next
<1> QED
  BY <1>1, TypePhaseInvariant, PTL DEF Spec, SuccessIsStable
-----------------------------------------------------------------------------
(* Resuming.  If the args fix the keys, all executions count their points   *)
(* from one anchor, and the checkpoint of a point has the same key in all.  *)

AnchoredKeys == \A k \in DOMAIN steps : k[1] = 0

\* With fixed keys no execution computes a point again that is checkpointed,
\* whichever execution of the run saved it and however they overlap.
THEOREM CheckpointsResume ==
    ASSUME KeysFixed
    PROVE  Spec => ResumesAtCheckpoint
<1>1. Init => AnchoredKeys
  BY DEF Init, AnchoredKeys
<1>2. TypePhase /\ AnchoredKeys /\ [Next]_vars => AnchoredKeys'
  <2> SUFFICES ASSUME TypePhase, AnchoredKeys, [Next]_vars PROVE AnchoredKeys'
    OBVIOUS
  <2>1. CASE steps' = steps
    BY <2>1 DEF AnchoredKeys
  <2>2. ASSUME NEW e \in Executors, steps' = WithStep(KeyOf(e), exec[e].value)
        PROVE  AnchoredKeys'
    <3>1. KeyOf(e)[1] = 0
      BY DEF KeyOf, AnchorOf
    <3>2. DOMAIN steps' = DOMAIN steps \cup {KeyOf(e)}
      BY <2>2 DEF WithStep
    <3> QED
      BY <3>1, <3>2 DEF AnchoredKeys
  <2> QED
    BY <2>1, <2>2, CheckpointsStay
<1>3. TypePhase /\ AnchoredKeys /\ [Next]_vars =>
         \A e \in Executors : exec[e].at = "look" /\ exec'[e].at = "call" =>
            \A k \in DOMAIN steps : k[2] # Len(exec[e].points) + 1
  <2> SUFFICES ASSUME TypePhase, AnchoredKeys, [Next]_vars,
                      NEW e \in Executors,
                      exec[e].at = "look", exec'[e].at = "call",
                      NEW k \in DOMAIN steps, k[2] = Len(exec[e].points) + 1
               PROVE  FALSE
    OBVIOUS
  <2>t. exec \in [Executors -> Execution] /\ k \in Key
    BY DEF TypePhase, TypeOK, RowsOK
  \* The checkpoint is the row the lookup of this execution asks for.
  <2>1. k = KeyOf(e)
    BY <2>t DEF Key, KeyOf, AnchorOf, AnchoredKeys
  <2>2. ASSUME Look(e) PROVE FALSE
    BY <2>1, <2>2, <2>t DEF Look, Proceed, Execution
  <2>3. ASSUME NEW d \in Executors, d # e, QueueStep(d) \/ RunStep(d) PROVE FALSE
    <3>1. exec'[e] = exec[e]
      BY <2>3, <2>t
         DEF QueueStep, Claim, Complete, Fail, Crash, RunStep, Load, Mark,
             SetTotal, Look, Call, Save, MarkFailed, Finish, DatabaseError,
             Goto, Proceed
    <3> QED
      BY <3>1
  <2>4. ASSUME QueueStep(e) PROVE FALSE
    <3>1. exec'[e] = Idle
      BY <2>4, <2>t DEF QueueStep, Claim, Complete, Fail, Crash
    <3> QED
      BY <3>1 DEF Idle
  <2>5. ASSUME RunStep(e), ~Look(e) PROVE FALSE
    <3>1. DatabaseError(e)
      BY <2>5 DEF RunStep, Load, Mark, SetTotal, Call, Save, MarkFailed, Finish
    <3> QED
      BY <3>1, <2>t DEF DatabaseError, Goto, Execution
  <2>6. CASE Sweep \/ UNCHANGED vars
    BY <2>6 DEF Sweep, vars
  <2> QED
    BY <2>2, <2>3, <2>4, <2>5, <2>6 DEF Next
<1> QED
  BY <1>1, <1>2, <1>3, TypePhaseInvariant, PTL DEF Spec, ResumesAtCheckpoint-----------------------------------------------------------------------------
(* The run as its caller sees it (module DurableRun).                       *)

\* Only Save touches the checkpoints, and only Finish the result.
LEMMA RowsMoved ==
    ASSUME TypePhase, [Next]_vars
    PROVE  \/ UNCHANGED <<steps, run.done, run.anchor, run.points>>
           \/ \E e \in Executors : Finish(e)
           \/ \E e \in Executors : Save(e) /\ KeyOf(e) \notin DOMAIN steps
<1>t. run \in [status : {"queued", "running", "failed", "succeeded"},
               done : Nat, total : {0, Length}, anchor : Nat, points : Points]
  BY DEF TypePhase, TypeOK, RowsOK
<1>1. ASSUME NEW e \in Executors, QueueStep(e)
      PROVE  UNCHANGED <<steps, run.done, run.anchor, run.points>>
  BY <1>1 DEF QueueStep, Claim, Complete, Fail, Crash
<1>2. ASSUME NEW e \in Executors, RunStep(e), ~Finish(e),
             ~(Save(e) /\ KeyOf(e) \notin DOMAIN steps)
      PROVE  UNCHANGED <<steps, run.done, run.anchor, run.points>>
  BY <1>2, <1>t DEF RunStep, Load, Mark, SetTotal, Look, Call, Save, MarkFailed,
     DatabaseError
<1>3. CASE Sweep \/ UNCHANGED vars
  BY <1>3 DEF Sweep, vars
<1> QED
  BY <1>1, <1>2, <1>3 DEF Next

LEMMA AnchorTypes ==
    ASSUME TypePhase, NEW e \in Executors
    PROVE  /\ AnchorOf(exec[e].attempt) \in Nat
           /\ AnchorOf(exec[e].attempt) \in IF KeysFixed THEN {0} ELSE Nat
           /\ exec[e].points \in Points
           /\ Len(exec[e].points) \in Nat
           /\ DOMAIN exec[e].points = 1 .. Len(exec[e].points)
<1>1. exec[e].attempt \in Nat /\ exec[e].points \in Points
  BY DEF TypePhase, TypeOK, Execution
<1> QED
  BY <1>1, LenProperties DEF AnchorOf, Points

LEMMA SaveIsDurable ==
    ASSUME TypePhase, CheckpointInv, NEW e \in Executors, Save(e),
           KeyOf(e) \notin DOMAIN steps
    PROVE  Durable!Save
<1> DEFINE k == KeyOf(e)
           a == AnchorOf(exec[e].attempt)
           n == Len(exec[e].points)
<1>1. /\ steps' = WithStep(k, exec[e].value)
      /\ run' = [run EXCEPT !.done = @ + 1]
      /\ exec[e].at = "save"
  BY DEF Save
<1>2. exec[e].value \in Values /\ n \in Nat /\ n < Length
  BY <1>1, AnchorTypes DEF TypePhase, Phase
<1>3. k = <<a, n + 1>> /\ a \in IF KeysFixed THEN {0} ELSE Nat
  BY AnchorTypes DEF KeyOf
<1>4. n + 1 = 1 \/ <<a, n + 1 - 1>> \in DOMAIN steps
  <2>1. CASE n = 0
    BY <2>1
  <2>2. CASE n # 0
    <3>1. n \in DOMAIN exec[e].points /\ n + 1 - 1 = n
      BY <1>2, <2>2, AnchorTypes
    <3> QED
      BY <3>1 DEF CheckpointInv, Gathered
  <2> QED
    BY <2>1, <2>2
<1>5. /\ DOMAIN steps' = DOMAIN steps \cup {k}
      /\ steps'[k] = exec[e].value
      /\ steps' = [x \in DOMAIN steps \cup {k} |-> IF x = k THEN steps'[k] ELSE steps[x]]
  BY <1>1 DEF WithStep
<1>6. /\ run'.done = run.done + 1
      /\ UNCHANGED <<run.anchor, run.points>>
  BY <1>1 DEF TypePhase, TypeOK, RowsOK
<1>7. k \in DOMAIN steps' \ DOMAIN steps
  BY <1>5
<1>8. k[1] = a /\ k[2] = n + 1 /\ n + 1 \in 1 .. Length
  BY <1>2, <1>3, LengthAssumption
<1>9. UNCHANGED [anchor |-> run.anchor, points |-> run.points]
  BY <1>6
<1>10. k[1] \in (IF KeysFixed THEN {0} ELSE Nat) /\ k[2] \in 1 .. Length
  BY <1>3, <1>8
<1>11. k[2] = 1 \/ <<k[1], k[2] - 1>> \in DOMAIN steps
  BY <1>4, <1>8
<1>12. steps'[k] \in Values
  BY <1>2, <1>5
<1> HIDE DEF k, a, n
<1>13. /\ steps' = [x \in DOMAIN steps \cup {k} |->
                       IF x = k THEN steps'[k] ELSE steps[x]]
       /\ steps'[k] \in Values
       /\ k[1] \in (IF KeysFixed THEN {0} ELSE Nat)
       /\ k[2] \in 1 .. Length
       /\ k[2] = 1 \/ <<k[1], k[2] - 1>> \in DOMAIN steps
       /\ run'.done = run.done + 1
       /\ UNCHANGED [anchor |-> run.anchor, points |-> run.points]
  BY <1>5, <1>6, <1>9, <1>10, <1>11, <1>12
<1> QED
  BY <1>7, <1>13, ZenonT(60) DEF Durable!Save

LEMMA FinishIsDurable ==
    ASSUME TypePhase, CheckpointInv, NEW e \in Executors, Finish(e)
    PROVE  Durable!Finish
<1>1. /\ exec[e].at = "finish"
      /\ run'.anchor = AnchorOf(exec[e].attempt)
      /\ run'.points = exec[e].points
      /\ run'.done = run.done /\ steps' = steps
  BY DEF Finish, TypePhase, TypeOK, RowsOK
<1>2. DOMAIN exec[e].points = 1 .. Length
  BY <1>1, AnchorTypes DEF TypePhase, Phase
<1>3. Gathered(e)
  BY DEF CheckpointInv
<1> QED
  BY <1>1, <1>2, <1>3, AnchorTypes DEF Durable!Finish, Gathered

\* Executions may overlap, die at any statement and be repeated: what is saved
\* is saved once, in order and for good, the progress counts it, and a result
\* is all that is saved of one anchor.
THEOREM RunsAreDurable == Spec => RunIsDurable
<1>1. Init => Durable!Init
  BY DEF Init, Durable!Init
<1>2. TypePhase /\ CheckpointInv /\ [Next]_vars => [Durable!Next]_Durable!rows
  BY RowsMoved, SaveIsDurable, FinishIsDurable DEF Durable!Next, Durable!rows
<1> QED
  BY <1>1, <1>2, TypePhaseInvariant, CheckpointAlways, PTL
     DEF Spec, RunIsDurable, Durable!Spec

\* A result that is there holds all the points, all of them checkpoints.
ResultIsFull == run.points = << >> \/ DOMAIN run.points = 1 .. Length

\* With keys that follow from the args the result of a run is final: a stale
\* reader leaves it alone, and another success writes the same points again.
THEOREM ResultsAreFinal ==
    ASSUME KeysFixed
    PROVE  Spec => ResultIsFinal
<1> DEFINE Fixed == ResultIsFull /\ run.anchor = 0
<1>1. Init => Fixed
  BY DEF Init, ResultIsFull
<1>2. TypePhase /\ CheckpointInv /\ Fixed /\ [Next]_vars
        => /\ Fixed'
           /\ run.points # << >> => UNCHANGED <<run.anchor, run.points>>
  <2> SUFFICES ASSUME TypePhase, CheckpointInv, Fixed, [Next]_vars
               PROVE  /\ Fixed'
                      /\ run.points # << >> => UNCHANGED <<run.anchor, run.points>>
    OBVIOUS
  <2>1. CASE UNCHANGED <<run.anchor, run.points>>
    BY <2>1 DEF ResultIsFull
  <2>2. ASSUME NEW e \in Executors, Finish(e)
        PROVE  /\ Fixed'
               /\ run.points # << >> => UNCHANGED <<run.anchor, run.points>>
    <3>1. /\ run'.anchor = 0 /\ DOMAIN run'.points = 1 .. Length
          /\ \A i \in 1 .. Length : run'.points[i] = steps[<<0, i>>]
      BY <2>2, FinishIsDurable DEF Durable!Finish
    <3>2. run.points # << >> =>
             /\ DOMAIN run.points = 1 .. Length
             /\ \A i \in 1 .. Length : run.points[i] = steps[<<0, i>>]
      BY DEF ResultIsFull, CheckpointInv, ResultIsCheckpointed
    <3>3. run.points \in Seq(Values) /\ run'.points \in Seq(Values)
      BY <2>2, TypePhaseInductive DEF TypePhase, TypeOK, RowsOK, Points
    <3>4. run.points # << >> => run'.points = run.points
      <4>1. SUFFICES ASSUME run.points # << >>
                     PROVE  run'.points = run.points
        OBVIOUS
      <4>2. Len(run.points) = Length /\ Len(run'.points) = Length
        BY <3>1, <3>2, <3>3, <4>1, LengthAssumption, LenProperties
      <4>3. \A i \in 1 .. Length : run'.points[i] = run.points[i]
        BY <3>1, <3>2, <4>1
      <4> QED
        BY <3>3, <4>2, <4>3, SeqEqual
    <3> QED
      BY <3>1, <3>4 DEF ResultIsFull
  <2>3. ASSUME NEW e \in Executors, Save(e), KeyOf(e) \notin DOMAIN steps
        PROVE  UNCHANGED <<run.anchor, run.points>>
    BY <2>3, SaveIsDurable DEF Durable!Save
  <2> QED
    BY <2>1, <2>2, <2>3, RowsMoved
<1> QED
  BY <1>1, <1>2, TypePhaseInvariant, CheckpointAlways, PTL DEF Spec, ResultIsFinal
-----------------------------------------------------------------------------
(* The job of the run is a row of the queue (module QueueRow).              *)

\* Executions under way come from claims of their own.
ClaimsCounted ==
    /\ \A e \in Active : exec[e].attempt <= job.attempts
    /\ \A d, e \in Active : exec[d].attempt = exec[e].attempt => d = e

\* The numbers of the executions under way.
Numbers == {exec[e].attempt : e \in Active}

\* A step of one execution that neither claims nor ends.
LEMMA GoesOn ==
    ASSUME TypePhase, NEW e \in Executors, RunStep(e)
    PROVE  /\ exec[e].at # "idle" /\ exec'[e].at # "idle"
           /\ exec'[e].attempt = exec[e].attempt
           /\ \A d \in Executors : d # e => exec'[d] = exec[d]
           /\ job' = job
<1>t. exec \in [Executors -> Execution]
  BY DEF TypePhase, TypeOK
<1>1. job' = job /\ exec[e].at # "idle"
  BY DEF RunStep, Load, Mark, SetTotal, Look, Call, Save, MarkFailed, Finish,
     DatabaseError
<1>2. CASE \E at \in Location \ {"idle"} : Goto(e, at)
  BY <1>1, <1>2, <1>t DEF Goto, Execution
<1>3. CASE \E points : Proceed(e, points)
  BY <1>1, <1>3, <1>t DEF Proceed, Execution
<1>4. CASE \E v : exec' = [exec EXCEPT ![e].at = "save", ![e].value = v]
  BY <1>1, <1>4, <1>t DEF Execution
<1>5. \/ \E at \in Location \ {"idle"} : Goto(e, at)
      \/ \E points : Proceed(e, points)
      \/ \E v : exec' = [exec EXCEPT ![e].at = "save", ![e].value = v]
  BY DEF RunStep, Load, Mark, SetTotal, Look, Call, Save, MarkFailed, Finish,
     DatabaseError, Location
<1> QED
  BY <1>2, <1>3, <1>4, <1>5

\* One that ends takes its number with it.
LEMMA EndsOnce ==
    ASSUME TypePhase, ClaimsCounted, NEW e \in Executors, exec[e].at # "idle",
           exec' = [exec EXCEPT ![e] = Idle]
    PROVE  /\ exec[e].attempt \in Numbers
           /\ Numbers' = Numbers \ {exec[e].attempt}
           /\ Active' = Active \ {e}
           /\ \A d \in Active' : exec'[d] = exec[d]
<1>1. /\ exec'[e].at = "idle"
      /\ \A d \in Executors : d # e => exec'[d] = exec[d]
  BY DEF TypePhase, TypeOK, Idle
<1>2. Active' = Active \ {e} /\ e \in Active
  BY <1>1 DEF Active
<1>3. \A d \in Active : exec[d].attempt = exec[e].attempt => d = e
  BY <1>2 DEF ClaimsCounted
<1>4. \A d \in Active' : exec'[d] = exec[d]
  BY <1>1, <1>2 DEF Active
<1> QED
  BY <1>2, <1>3, <1>4 DEF Numbers

\* A step of the lifecycle, in terms of the run, and the claims it leaves.
RowStep ==
    \/ /\ job.status = "queued" /\ job'.status = "running"
       /\ job'.attempts = job.attempts + 1
       /\ job'.attempts \notin Numbers
       /\ Numbers' = Numbers \cup {job'.attempts}
    \/ Numbers' \subseteq Numbers /\ UNCHANGED <<job.status, job.attempts>>
    \/ /\ job.status = "running"
       /\ job'.status = IF job.attempts < MaxAttempts THEN "queued" ELSE "failed"
       /\ job'.attempts = job.attempts /\ Numbers' = Numbers
    \/ \E a \in Numbers :
          /\ \/ job'.status = "succeeded"
             \/ job'.status = IF a < MaxAttempts THEN "queued" ELSE "failed"
          /\ Numbers' = Numbers \ {a}
          /\ job'.attempts = job.attempts

LEMMA JobSteps ==
    ASSUME TypePhase, ClaimsCounted, [Next]_vars
    PROVE  RowStep /\ ClaimsCounted'
<1>t. /\ exec \in [Executors -> Execution]
      /\ job \in [status : {"queued", "running", "succeeded", "failed"},
                  attempts : Nat]
  BY DEF TypePhase, TypeOK, RowsOK
<1>1. ASSUME NEW e \in Executors, RunStep(e) PROVE RowStep /\ ClaimsCounted'
  <2>1. Active' = Active /\ job' = job
    BY <1>1, GoesOn DEF Active
  <2>2. \A d \in Active : exec'[d].attempt = exec[d].attempt
    BY <1>1, GoesOn DEF Active
  <2>3. Numbers' = Numbers
    BY <2>1, <2>2 DEF Numbers
  <2>4. ClaimsCounted'
    BY <2>1, <2>2 DEF ClaimsCounted
  <2> QED
    BY <2>1, <2>3, <2>4 DEF RowStep
<1>2. ASSUME NEW e \in Executors, Claim(e) PROVE RowStep /\ ClaimsCounted'
  <2>1. /\ job.status = "queued" /\ job'.status = "running"
        /\ job'.attempts = job.attempts + 1
        /\ e \notin Active /\ exec'[e].at = "load"
        /\ exec'[e].attempt = job.attempts + 1
        /\ \A d \in Executors : d # e => exec'[d] = exec[d]
    BY <1>2, <1>t DEF Claim, Idle, Active
  <2>2. Active' = Active \cup {e} /\ \A d \in Active : exec'[d] = exec[d]
    BY <2>1 DEF Active
  <2>3. Numbers' = Numbers \cup {job'.attempts}
    BY <2>1, <2>2 DEF Numbers
  <2>4. \A d \in Active : exec[d].attempt \in Nat /\ exec[d].attempt <= job.attempts
    BY <1>t DEF ClaimsCounted, Active, Execution
  <2>5. job'.attempts \notin Numbers
    BY <2>1, <2>4, <1>t DEF Numbers
  <2>6. ClaimsCounted'
    <3>1. \A d \in Active' : exec'[d].attempt <= job'.attempts
      BY <2>1, <2>2, <2>4, <1>t
    <3>2. ASSUME NEW c \in Active', NEW d \in Active',
                 exec'[c].attempt = exec'[d].attempt
          PROVE  c = d
      <4>1. CASE c = e /\ d = e
        BY <4>1
      <4>2. CASE c = e /\ d # e
        BY <3>2, <4>2, <2>1, <2>2, <2>4, <1>t
      <4>3. CASE c # e /\ d = e
        BY <3>2, <4>3, <2>1, <2>2, <2>4, <1>t
      <4>4. CASE c # e /\ d # e
        BY <3>2, <4>4, <2>2 DEF ClaimsCounted
      <4> QED
        BY <4>1, <4>2, <4>3, <4>4
    <3> QED
      BY <3>1, <3>2 DEF ClaimsCounted
  <2> QED
    BY <2>1, <2>3, <2>5, <2>6 DEF RowStep
<1>3. ASSUME NEW e \in Executors, Complete(e) \/ Fail(e) \/ Crash(e)
      PROVE  RowStep /\ ClaimsCounted'
  <2>1. exec[e].at # "idle" /\ exec' = [exec EXCEPT ![e] = Idle]
    BY <1>3 DEF Complete, Fail, Crash
  <2>2. job'.attempts = job.attempts
    BY <1>3, <1>t DEF Complete, Fail, Crash
  <2>3. \/ job'.status = "succeeded"
        \/ job'.status = IF exec[e].attempt < MaxAttempts THEN "queued" ELSE "failed"
        \/ job'.status = job.status
    BY <1>3, <1>t DEF Complete, Fail, Crash
  <2>4. /\ exec[e].attempt \in Numbers
        /\ Numbers' = Numbers \ {exec[e].attempt}
        /\ Active' = Active \ {e}
        /\ \A d \in Active' : exec'[d] = exec[d]
    BY <2>1, EndsOnce
  <2>5. ClaimsCounted'
    BY <2>2, <2>4 DEF ClaimsCounted
  <2>6. RowStep
    BY <2>2, <2>3, <2>4 DEF RowStep
  <2> QED
    BY <2>5, <2>6
<1>4. CASE Sweep
  <2>1. Active' = Active /\ Numbers' = Numbers /\ job'.attempts = job.attempts
    BY <1>4, <1>t DEF Sweep, Active, Numbers
  <2>2. ClaimsCounted'
    BY <1>4, <2>1 DEF Sweep, ClaimsCounted
  <2>3. RowStep
    BY <1>4, <2>1, <1>t DEF Sweep, RowStep
  <2> QED
    BY <2>2, <2>3
<1>5. CASE UNCHANGED vars
  BY <1>5 DEF vars, RowStep, Numbers, Active, ClaimsCounted
<1> QED
  BY <1>1, <1>2, <1>3, <1>4, <1>5 DEF Next, QueueStep

LEMMA RowStepIsNext == RowStep => [Queue!Next]_Queue!row
BY DEF RowStep, Numbers, Queue!Next, Queue!row, Queue!Claim, Queue!Vanish,
   Queue!Sweep, Queue!Complete, Queue!Fail

\* The job of a run lives as every row of the queue does (RowsLive of
\* JobQueueProofs): the overlaps a run is shown to survive are the queue's own.
THEOREM JobLives == Spec => JobKeepsLifecycle
<1>1. Init => Queue!Init /\ ClaimsCounted
  BY DEF Init, Idle, Active, ClaimsCounted, Queue!Init
<1> QED
  BY <1>1, JobSteps, RowStepIsNext, TypePhaseInvariant, PTL
     DEF Spec, JobKeepsLifecycle, Queue!Spec
=============================================================================
