--------------------------- MODULE MCOrchestrator ---------------------------
(* Small instances of Orchestrator for TLC. *)
EXTENDS Orchestrator

CONSTANT t1

\* t1 is the least urgent task.
Urgency == [t \in Tasks |-> IF t = t1 THEN 5 ELSE 9]
=============================================================================
