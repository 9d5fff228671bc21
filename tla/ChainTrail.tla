----------------------------- MODULE ChainTrail -----------------------------
(***************************************************************************)
(* What audit_chain_events promises (models/audit_chain_event.py): an      *)
(* append-only trail of the chain's logs without holes.  Whatever the      *)
(* indexers do, the trail only grows, and a log is on it whenever a log of *)
(* the same or a later block is.                                           *)
(***************************************************************************)
EXTENDS Naturals

CONSTANTS
    Logs,       \* the logs to be kept, each with its block
    StartBlock  \* the first block of interest

VARIABLE trail

NoHoles(T) ==
    \A l \in Logs, m \in T : StartBlock <= l.block /\ l.block <= m.block => l \in T

Init == trail = {}

Extend ==
    /\ trail' \in SUBSET Logs
    /\ trail \subseteq trail'
    /\ NoHoles(trail')

Spec == Init /\ [][Extend]_trail
=============================================================================
