---------------------------- MODULE MCBatchLane ----------------------------
EXTENDS BatchLane

\* One index of two pairs: a file and a tick may cross.
MCIndexOf == <<"war", "war">>

MCBudgets == {[batches |-> 2, ticks |-> 1, faults |-> 0],
              [batches |-> 1, ticks |-> 2, faults |-> 1]}
=============================================================================
