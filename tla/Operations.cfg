\* Each operation on an instance of its own; see MCOperations for focus.
CONSTANTS
  p1 = p1 p2 = p2
  \* Approvals: one decider at a time, a task request and two ACL diffs, both from x to y.
  a1 = a1 a3 = a3 a4 = a4 x = x y = y z = y
  Approval = {a1, a3, a4}
  KindOf <- Kinds
  Decider = {d3}
  Cli = {d3}
  Matching = {a1, a3, a4}
  Text = {x, y}
  FirstAcl = x
  OldOf <- FromX
  NewOf <- ToYZ
  NoApproval = NoApproval
  WriteCap = 2
  \* Gateway: two gateway processes and one request.
  Request = {a1}
  Poller = {p1, p2}
  Sender = {}
  NoRequest = NoRequest
  CardCap = 2
  PressCap = 2
  DeathCap = 1
  \* SshExecutor: two commands on one task.
  Node = {n1}
  Fingerprint = {f1}
  FirstFp <- AnyFingerprint
  Operator = {op1}
  NoEdit = NoEdit
  Task = {t1}
  NodeOf <- AnyNode
  CommandOf <- ShellCommand
  ExecutorOf <- OverSsh
  LeaseTicks = 0
  OverdueCap = 0
  Runner = {p1, p2}
  NoSshTask = NoSshTask
  \* Components: a plain and a risky slot, two commands.
  Slot = {s1, s2}
  HostOf <- OneHost
  Risky = {s2}
  Monitored = {s1}
  Config = {k1}
  NoConfig = NoConfig
  Hand = {p1, p2}
  RunCap = 3
  \* Rollback: the upgraded and the saved master.env may name two database files.
  q1 = q1
  DbPath = {q1, q2}
  \* DocsSync: two hosts, two services of one slug, two commands.
  g1 = g1
  HostCount = 2
  ServiceCount = 2
  SlugOf <- OneSlug
  Writer = {p1, p2}
  SyncCap = 2
  \* Worktrees: two agents, two branches, two preparations, two scans.
  Job = {j1}
  Agent = {i1, i2}
  Base = {b1, b2}
  Preparer = {p1, p2}
  Scanner = {m1, m2}
  Nobody = Nobody
SPECIFICATION OpsSpec
INVARIANTS
  OperationsTypeOK
  DeliveredWasShown StillDecidable ForgottenWasTried
  SshBegunOnce SshResultIsLogged
  SlotsAreBacked WishesStand
  RunsOnOneVersion
  DocsAgree
  TreeHasOneAgent MissingMeansRemoved
PROPERTIES AclFresh DecisionsRefined
SYMMETRY Symmetry
\* Operations are followed until their bounds are reached.
CHECK_DEADLOCK FALSE
