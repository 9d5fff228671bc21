------------------------------ MODULE MCJobQueue ------------------------------
(* Instances of JobQueue for TLC.                                          *)
EXTENDS JobQueue, TLC

CONSTANTS j1, j2, k1, p1, p2, w1, w2

MCJobs2 == {j1, j2}
MCJobs1 == {j1}
MCKeys == {k1}
MCNoKeys == {}
MCProducers2 == {p1, p2}
MCProducers1 == {p1}
MCWorkers1 == {w1}
MCWorkers2 == {w1, w2}

\* Rows, producers and workers are interchangeable.
Symmetry == Permutations(Jobs) \cup Permutations(Producers)
               \cup Permutations(Workers)
=============================================================================
