----------------------------- MODULE MCPipeline -----------------------------
(* Pipeline for TLC: two ticks with a call at a time each, or one alone     *)
(* with as many markets and calls as it takes to overrun its guard.         *)
EXTENDS Pipeline
CONSTANTS t1, t2, gpt, tier2
MCYamls == {[version |-> 1, sha |-> 1], [version |-> 1, sha |-> 2],
            [version |-> 2, sha |-> 1]}

VARIABLE crew \* the ticks that may start

CallsOf(t) == {p \in Pairs : task[t][p] \in InFlight}

Bounded ==
    /\ \A t \in Ticks \ crew : pc[t] = "idle"
    /\ crew = Ticks => \A t \in crew : /\ sel[t] \subseteq {1, 2}
                                       /\ Cardinality(CallsOf(t)) =< 1

MCInit == Init /\ crew \in {Ticks, {t1}}
MCNext == Next /\ UNCHANGED crew /\ Bounded'

\* A tick that Bounded keeps from one step always has another.
MCSpec ==
    /\ MCInit
    /\ [][MCNext]_<<vars, crew>>
    /\ \A t \in Ticks : WF_vars(TickStep(t))
=============================================================================
