CONSTANTS
  \* Enrolment: a join is sent twice with one token while the commands of two
  \* operators overlap.
  n1 = n1 n2 = n2 k1 = k1 f1 = f1 f2 = f2
  Node = {n1, n2}
  Fingerprint = {f1}
  FirstFp <- SameFp
  Operator = {op1, op2}
  NoEdit = NoEdit
  Token = {k1}
  TokenOf <- OneToken
  AutoConfirm = {n1}
  SameHost <- NoPairs
  \* Approvals: a CLI command and an API handler decide a task and a component
  \* request at once.
  a1 = a1 a2 = a2 a3 = a3 a4 = a4 x = x y = y z = z
  Approval = {a1, a2}
  KindOf <- Kinds
  Decider = {d1, d2}
  Cli = {d1}
  Matching = {a1, a2}
  Text = {x, y}
  FirstAcl = x
  OldOf <- FromX
  NewOf <- ToYZ
  NoApproval = NoApproval
  WriteCap = 2
  \* Orchestrator: two low-risk tasks, one more urgent, one worker, two ticks.
  t1 = t1
  NoOne = NoOne
  Tasks = {t1, t2}
  Workers = {w1}
  Tickers = {op1, op2}
  LowRisk = {t1, t2}
  Priority <- Urgency
  MaxRetries = 2
  AttemptCap = 3
  \* Monitoring: two heartbeats, one monitor command at a time; an event is fresh at once,
  \* stale after one unit of time and timed out after two.
  Watcher = {m1}
  FreshFor = 0
  StaleFor = 1
  ReportCap = 2
  WatchedFor = 2
  \* Backup: two runs within a second or in two.
  BackupCmd = {op1, op2}
  EndOfTime = 1
  Versions = 2
  \* Services: one service, two discoveries.
  Svc = {v1}
  SystemWord = {}
  Finding <- Findings
  Given <- Sayings
  Discoverer = {op1, op2}
SPECIFICATION RacesSpec
INVARIANTS
  NodeSpentItsToken LateJoinsRefused ManagedWasConfirmed
  ApprovedFirst ComponentOnce OneDecision
  LeasedIsHeld OneHolder RetriesBounded
  HealthyIsTrue
  RecordedIsRestorable
  CuratedStays
PROPERTIES
  OnlyStaleCopiesUnrevoke
  DecidedStays
  LeaseRunsItsTime
SYMMETRY RacesSymmetry
