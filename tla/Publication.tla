---------------------------- MODULE Publication ----------------------------
(***************************************************************************)
(* What concurrent scoring ticks promise of the tables they share: the     *)
(* outcome is that of ticks which run one at a time, each publishing its   *)
(* run, score and new evaluations in one step, or nothing.  A tick here    *)
(* has no statements, no uncommitted rows and no calls to an LLM.          *)
(***************************************************************************)
EXTENDS Naturals, FiniteSets

CONSTANTS Ticks, Yamls, Selections, Factors, Keys, Rows, Tier2, NoRow, None

VARIABLES
    defSha,     \* version -> text registered for it, or None
    current,    \* the versions in force
    evals,      \* the evaluation cache
    scores,
    runs        \* tick -> totals of the tick, or None

Init ==
    /\ \/ /\ \A v \in DOMAIN defSha : defSha[v] = None
          /\ current = {}
       \/ \E y \in Yamls :
             /\ \A v \in DOMAIN defSha :
                   defSha[v] = IF v = y.version THEN y.sha ELSE None
             /\ current = {y.version}
    /\ evals = [k \in Keys |-> NoRow]
    /\ scores = {}
    /\ runs = [t \in Ticks |-> None]

\* The tick's text is the one registered for its version, or the first one,
\* and then its version is the only one in force.
Defines(y) ==
    \/ /\ defSha[y.version] = y.sha
       /\ UNCHANGED <<defSha, current>>
    \/ /\ defSha[y.version] = None
       /\ defSha' = [defSha EXCEPT ![y.version] = y.sha]
       /\ current' = {y.version}

\* The keys that get a row in this step.
Added == {k \in Keys : evals'[k] # evals[k]}

\* Only free keys of the tick's own version get one.
Evaluates(t, y) ==
    /\ evals' \in [Keys -> Rows \cup {NoRow}]
    /\ IsFiniteSet(Added)
    /\ \A k \in Added :
          /\ evals[k] = NoRow
          /\ evals'[k] # NoRow
          /\ evals'[k].by = t
          /\ k[1] = y.version

\* One row for each pair of a selected market and a factor, each in the cache
\* by the time the score is, and of one model per factor where no answer was
\* escalated.
Explains(used, y) ==
    /\ \A k \in used : k \in Keys /\ k[1] = y.version /\ evals'[k] # NoRow
    /\ \E S \in Selections : {k[2] : k \in used} = S \X Factors
    /\ \A k, c \in used :
          /\ k[2] = c[2] => k = c
          /\ k[2][2] = c[2][2] /\ k[3] # Tier2 /\ c[3] # Tier2 => k[3] = c[3]

Scores(t, y) ==
    \E s \in scores' \ scores :
        /\ scores' = scores \cup {s}
        /\ s.by = t /\ s.version = y.version /\ s.sha = y.sha
        /\ Explains(s.used, y)

Publish(t) ==
    /\ runs[t] = None
    /\ \E y \in Yamls : Defines(y) /\ Evaluates(t, y) /\ Scores(t, y)
    /\ runs' = [runs EXCEPT ![t] =
                   [written |-> Cardinality(Added),
                    calls |-> Cardinality({k \in Added : evals'[k].src = "real"})]]

Next == \E t \in Ticks : Publish(t)

tables == <<defSha, current, evals, scores, runs>>

Spec == Init /\ [][Next]_tables
=============================================================================
