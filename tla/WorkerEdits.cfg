\* One node, a worker task and an ssh task: operators confirm, revoke, rotate and re-save the node row
\* while two overlapping runs of worker.sh poll and report.
CONSTANTS
  n1 = n1 n2 = n2 t1 = t1 t2 = t2 t3 = t3 r1 = r1 r2 = r2 r3 = r3 f1 = f1 f2 = f2
  Node = {n1}
  Fingerprint = {f1, f2}
  FirstFp <- SameFp
  Operator = {op1}
  NoEdit = NoEdit
  Task = {t1, t2}
  NodeOf <- AllOnN1
  CommandOf <- AllShell
  ExecutorOf <- OneSsh
  LeaseTicks = 1
  OverdueCap = 0
  Run = {r1, r2}
  NoTask = NoTask
  RunOf <- RunsOnN1
  Beacon = {}
  ExecEnabled = {n1}
  Compatible = {n1}
  OlderThan <- Zero
SPECIFICATION Spec
INVARIANTS AtMostOnce ResultIsReal HeldOnce
SYMMETRY RunSymmetry
