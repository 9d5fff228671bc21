------------------------------ MODULE MCWorkflow ------------------------------
EXTENDS Workflow, TLC
CONSTANTS x1, x2, v1, v2, none
MCExecutors == {x1, x2}
MCValues == {v1, v2}
Symmetry == Permutations(MCExecutors) \cup Permutations(MCValues)
=============================================================================
