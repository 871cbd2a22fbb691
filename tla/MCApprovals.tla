----------------------------- MODULE MCApprovals -----------------------------
(* Small instances of Approvals for TLC. *)
EXTENDS Approvals

CONSTANTS a1, a2, a3, a4, x, y, z

\* a1 asks for a task, a2 for a component action, a3 and a4 for a new ACL.
Kinds == [a \in Approval |-> CASE a = a1 -> "task" [] a = a2 -> "component" [] OTHER -> "acl"]

\* Both ACL diffs start from the ACL in force at the beginning.
FromX == [a \in Approval |-> x]
ToYZ == [a \in Approval |-> IF a = a4 THEN z ELSE y]
==============================================================================
