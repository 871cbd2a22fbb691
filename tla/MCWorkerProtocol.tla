--------------------------- MODULE MCWorkerProtocol ---------------------------
(* Small instances of WorkerProtocol for TLC. *)
EXTENDS WorkerProtocol, TLC

CONSTANTS n1, n2, t1, t2, t3, r1, r2, r3, f1, f2

Shell == [kind |-> "shell", to |-> f1]
RotateTo(f) == [kind |-> "rotate", to |-> f]

SameFp == [n \in Node |-> f1]
AllWorker == [t \in Task |-> "worker"]
AllShell == [t \in Task |-> Shell]
AllOnN1 == [t \in Task |-> n1]
RunsOnN1 == [r \in Run |-> n1]

\* Two nodes: two tasks for the first, one for the second.
SplitNodes == [t \in Task |-> IF t = t3 THEN n2 ELSE n1]
SplitRuns == [r \in Run |-> IF r = r3 THEN n2 ELSE n1]

\* A rotation task next to a shell task.
RotateFirst == [t \in Task |-> IF t = t1 THEN RotateTo(f2) ELSE Shell]

\* A worker task and an ssh task.
OneSsh == [t \in Task |-> IF t = t2 THEN "ssh" ELSE "worker"]

\* Runs of one node are interchangeable.
RunSymmetry == Permutations(Run)

Zero == {0}
==============================================================================
