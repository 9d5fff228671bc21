----------------------------- MODULE DurableRun -----------------------------
(***************************************************************************)
(* What a durable run promises (pmi_core/workflow.py): results of steps    *)
(* are saved once, in the order of the steps and for good, and a result of *)
(* the run is all of the saved ones.  Attempts, executions that overlap,   *)
(* crashes and the queue are not seen.                                     *)
(***************************************************************************)
EXTENDS Naturals

CONSTANTS
    Anchors,   \* what the steps of an attempt may be counted from
    Length,    \* the number of steps of the run
    Values,    \* results of steps
    NoResult   \* the result of a run that has none yet

VARIABLES
    saved,     \* step key -> result
    done,      \* the progress shown
    result     \* the result of the run: its anchor and its points

Init ==
    /\ DOMAIN saved = {}
    /\ done = 0
    /\ result = NoResult

\* One more step is saved, the first of its anchor or the next one.
Save ==
    \E k \in DOMAIN saved' \ DOMAIN saved :
        /\ saved' = [x \in DOMAIN saved \cup {k} |->
                        IF x = k THEN saved'[k] ELSE saved[x]]
        /\ saved'[k] \in Values
        /\ k[1] \in Anchors
        /\ k[2] \in 1 .. Length
        /\ k[2] = 1 \/ <<k[1], k[2] - 1>> \in DOMAIN saved
        /\ done' = done + 1
        /\ UNCHANGED result

\* All steps of an anchor are saved, and the result is what they say.
Finish ==
    /\ result'.anchor \in Anchors
    /\ DOMAIN result'.points = 1 .. Length
    /\ \A i \in 1 .. Length :
          /\ <<result'.anchor, i>> \in DOMAIN saved
          /\ result'.points[i] = saved[<<result'.anchor, i>>]
    /\ UNCHANGED <<saved, done>>

Next == Save \/ Finish

rows == <<saved, done, result>>

Spec == Init /\ [][Next]_rows
=============================================================================
