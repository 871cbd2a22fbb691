\* Two tasks of one of two nodes, a run of worker.sh on each: crashes, lost messages
\* and hung commands allowed, fair timers and time.
CONSTANTS
  n1 = n1 n2 = n2 t1 = t1 t2 = t2 t3 = t3 r1 = r1 r2 = r2 r3 = r3 f1 = f1 f2 = f2
  Node = {n1, n2}
  Fingerprint = {f1}
  FirstFp <- SameFp
  Operator = {}
  NoEdit = NoEdit
  Task = {t1, t2}
  NodeOf <- SplitNodes
  CommandOf <- AllShell
  ExecutorOf <- AllWorker
  LeaseTicks = 1
  OverdueCap = 0
  Run = {r1, r3}
  NoTask = NoTask
  RunOf <- SplitRuns
  Beacon = {}
  ExecEnabled = {n1, n2}
  Compatible = {n1, n2}
  OlderThan <- Zero
SPECIFICATION FairSpec
PROPERTIES RunningEnds PendingServed
