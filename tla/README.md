# Verification project for hermes-managed-network

hermes-managed-network (HMN) is a control plane for a small fleet of machines: one
master with an SQLite database, a FastAPI server (`api.py`), a CLI (`hmn`, `cli.py`), a
Telegram gateway and a worker script (`assets/worker.sh`) that a timer starts on every
node.  This directory models it in TLA+, checks the models with TLC on small instances
and proves the main results with TLAPS for instances of any size.

Paths below are relative to `src/` of the repository, Python files to
`src/hermes_managed_network/`.

## 1. Inventory

| Component | State | Operations | Who else touches the state |
|---|---|---|---|
| Task store (`storage.py`) | `tasks` rows, their audit events | `create_task`, `claim_next_task`, `expire_stuck_tasks`, `complete_task`, `save_task` | API handlers, CLI, approval dispatch, ssh executor |
| Worker protocol (`api.py`, `assets/worker.sh`) | `node.env` on the node; nothing on the master | `heartbeat`, `next_task`, `rotate_fingerprint`, `task_result`; `run_once` | operators edit the node row it authenticates against |
| Watchdog | leases in `tasks` | `expire_stuck_tasks`, run by every poll and by `hmn task recover-stuck` | races with late results |
| Node inventory (`inventory.py`, `storage.py`) | `nodes` rows | confirm, revoke, rotate, network sync, tag update: all load the whole row and save the whole row | join handler, rotate handler |
| Join tokens and enrolment (`tokens.py`, `api.py`, `assets/join.sh`) | `join_tokens` rows | create, consume, expire, revoke; `join` with duplicate check and `auto_confirm` | operators |
| Approvals (`storage.py`, `api.py`, `web_console.py`, `approval_telegram_flow.py`) | `approval_requests`, component runs | request, approve, reject, dispatch of tasks and component actions | four kinds of deciders at once |
| ACL apply (`network_acl.py`) | the Headscale ACL file, the proposed file | plan, approve, apply, reload, verify | anybody who edits the files |
| SSH executor (`executor.py`, `cli.py`) | `tasks` rows of executor ssh | `task run --executor ssh --wait`, `ssh-run-next`, `run_ssh_task` | a second command, operators who revoke the node |
| Notifications and Telegram gateway (`approval_gateway.py`, `telegram_gateway.py`) | `notifications`, the cards in the chat, Telegram's update queue, the offset file | list, send, mark, fetch, callback, clear, store the offset | a second gateway, the older `telegram-gateway`, other deciders |
| Component registry (`components.py`, `cli.py`, `storage.py`) | `component_runs`, `node_components` | plan, apply, verify, uninstall, console run; dispatch after approval | approvals, commands on the same slot |
| Node health and monitoring (`cli.py`, `api.py`) | heartbeat events, `monitor_snapshots` | heartbeat event, `monitor run-once`, status views | heartbeats that arrive while a command reads them |
| Orchestrator queue (`orchestrator.py`) | `orchestrator_tasks`, `_workers`, `_assignments` | enqueue, register and update workers, tick | concurrent ticks |
| Orchestrator worktrees (`orchestrator.py`) | `orchestrator_worktrees`, git worktrees and branches | `prepare_agent_worktree`, `merge_queue` | agents and operators at the worktree |
| Backup (`cli.py`) | archives, manifests, rows of `component_runs` | `backup run`, `backup verify` | a second backup, the files themselves |
| Rollback (`cli.py`) | database, `master.env`, `config.yaml`, metadata, the service | `rollback` | - |
| Docs sync (`docs_sync.py`) | the documentation tree | `docs sync apply` | a second sync, operators at the tree |
| Services registry, discovery, Coolify (`service_discovery.py`, `coolify_provider.py`, `storage.py`) | `services` rows | `service add`, `service discover --apply`, imports, `service coolify-sync --apply` | each other |
| Deploy, migration, restore; uptime; onboarding, inspection; other providers; Windows and lite workers; sanitizing; console pages | - | plans, requests and text | - |

How the parts interact.  Everything meets in one SQLite file; there is no other shared
state on the master but a few files, and no lock beyond SQLite's.  `SQLiteStore.connect`
opens a connection per call and commits at the end of the `with` block.  Five operations
of the store start with `BEGIN IMMEDIATE` and are atomic (claim, expire, complete, and
the two approval dispatchers); *every other read-modify-write of the program is two or
more transactions*.  FastAPI runs the synchronous handlers on a thread pool, CLI commands
are separate processes and worker runs of one node may overlap (timer and manual start),
so all of them interleave between transactions.  That is where the hard behaviour is:
stale copies of rows, check-then-act, crashes between two transactions, lost replies
(`curl -f` under `set -e`, no retry), and leases against late results.  `PROJECT.json`
lists the hazards at their lines.

What makes each modelled component correct:

* task store and worker protocol: a command begins at most once; a recorded result is
  the node's own; a finished task stays finished; the audit log agrees with the table; a
  task of a dead worker does not stay `running`;
* ssh executor: the same for commands that do not overlap, and never an invented result;
* enrolment: every node has spent its token; a join that comes after its token was spent
  is refused, whatever is written over the token since; a node is managed
  only if it asked for auto-confirmation or an operator confirmed it;
* approvals: nothing happens without an approval; a component action happens once; what
  was decided is what was done and logged, unless one decision was saved over another; a
  decided request is never undecided again; an ACL diff is applied only to the ACL it was computed from;
* gateway: a request is announced at least once; a shown request stays decidable; no
  press is skipped;
* component registry: a slot points to a run that was carried out, and approved where
  at some time where that is needed; the desired state is what the changes amount to;
* monitoring: a node is called healthy only when it was;
* orchestrator: a task that is leased can be taken back when its lease runs out; it has
  one worker at a time; it is paused when its retries are used up and not before; a
  worktree belongs to one agent and is given up only when it is gone;
* backup and rollback: a recorded backup is on disk and agrees with its manifest; the
  control plane is never started on a mixture of two versions;
* docs sync and services: indexes name documents that are there; what an operator wrote
  is kept by discovery.

## 2. Modules

| Module | Models | State |
|---|---|---|
| `NodeRows` | the `nodes` table and the commands that edit a row: load, then save of the whole copy | `nodes`, `edit` (the copies in flight) |
| `TaskStore` (extends `NodeRows`) | the `tasks` table and the store's transactions on it | `tasks`, `trail` (audit events written inside those transactions), `announced` (the separate create event) |
| `TaskLifecycle` | what the control plane promises about a task, abstractly | `life`, `begun` |
| `WorkerProtocol` (extends `TaskStore`) | `worker.sh` runs and the API handlers they call, one action per transaction; operators, watchdog, clock | `run`, `env`, `beaten`, history `starts`, `outcome` |
| `SshExecutor` (extends `TaskStore`) | the ssh commands, one action per transaction | `runner`, `sshLog`, history `begun`, `shared` |
| `Enrollment` (extends `NodeRows`) | tokens and the join handler | `tokens`, `past`, `join`, `cmd`, history `confirmed`, `late` |
| `Approvals` | decisions, dispatchers, ACL apply | `approvals`, `effects`, `recorded`, `acl`, `proposal`, `decider`, `audited`, `ready`, history `everApproved`, `overwritten` |
| `DecisionLifecycle` | what the control plane promises about an approval request, abstractly: one ruling, acts only under an approval, one task or component action, a log of the ruling | `ruling`, `acts`, `log` |
| `Gateway` | outbox, chat, updates, gateway processes | `request`, `outbox`, `chat`, `updates`, `confirmed`, `offset`, `poller`, history `tried`, `deaths` |
| `Components` | component runs and slots | `runs`, `slots`, `asked`, `loaded`, `onManaged`, `hand`, history `allowed`, `ideal`, `raced` |
| `Monitoring` | heartbeat events, snapshots, the two liveness views | `clock`, `arriving`, `beats`, `snapshot`, `watch` |
| `Orchestrator` | the dispatch queue: tasks, worker rows, ticks with their bridge call, SQLite's write lock | `queue`, `status`, `attempts`, `workers`, `leases`, `tick`, `lock`, history `overlap` |
| `Worktrees` | worktrees, their records, the merge queue | `trees`, `branches`, `records`, `preparer`, `scanner`, history `granted`, `disturbed` |
| `Backup` | archives, manifests, recorded runs, verification | `second`, `source`, `archives`, `manifests`, `backupRuns`, `verdict`, `backupCmd`, history `clashed`, `tampered` |
| `Rollback` | the four files and the service | `saved`, `pathOf`, `files`, `db`, `service`, `rolling`, history `skipped` |
| `DocsSync` | the documentation tree, written file by file | `registry`, `docs`, `sync`, `linkedOut`, `syncs`, history `docsState` |
| `Services` | service rows with their classification and merging | `rows`, `discovery`, history `curated`, `unseen` |
| `MCWorkerProtocol`, `MCEnrollment`, `MCApprovals`, `MCOrchestrator` | small instances for TLC | |
| `MCStreak` | `MCOrchestrator` with a history of consecutive failures | `streak` |
| `MCRaces` | the instances of enrolment, approvals, orchestrator, monitoring, backup and services side by side | `focus` |
| `MCOperations` | small instances of approvals, gateway, ssh executor, components, rollback, documentation and worktrees side by side | `focus` |
| `WorkerProtocolProofs`, `EnrollmentProofs`, `ApprovalsProofs`, `GatewayProofs`, `OrchestratorProofs`, `SshExecutorProofs` | the theorems about one component each; `OrchestratorProofs` speaks of `MCStreak` too | |
| `OperationsProofs` | the theorems about `Backup`, `Rollback`, `Worktrees` and `DocsSync`, and about the composition `MCOperations` | |
| `RegistryProofs` | the theorems about `Components`, `Services` and `Monitoring` | |

`MCRaces` and `MCOperations` put components that share no row next to each other; a
behaviour picks one of them in `focus` and follows it while the others rest.  Their state
space is the sum, not the product, of the components' state spaces, and every property
speaks of one component.  Components that do interact are composed inside one module:
`WorkerProtocol` runs workers, operators and the watchdog on the shared task and node
rows; `SshExecutor` runs its commands and operators on the same rows; `Enrollment` runs
joins and operators on `NodeRows`; `Approvals` runs the deciders and both dispatchers.

### Correspondence to the code

*One action per transaction.*  `next_task` is `NextTaskAuth` (load_node and the checks),
`NextTaskSweep` (`expire_stuck_tasks`) and `NextTaskClaim` (`claim_next_task`);
`task_result` is `ResultAuth` and `ResultComplete`; `consume_token` is `ConsumeLoad` and
`ConsumeUse` or `ConsumeExpire`; `resolve_approval_request` is `ResolveLoad`,
`ResolveSave`, `ResolveAudit` and the inner `Dispatch`, after which its caller dispatches
once more.  The same holds of the newer modules, where a step is a transaction, the
writing of a file, or a call to Telegram, ssh or git.  Between two actions everybody else
may step, and the process may die (`FailRun`, `JoinDies`, `TokenCmdDies`, `AbandonEdit`,
`DeciderDies`, `RunnerDies`, `HandDies`, `Die`, `SyncDies`, `BackupDies`, ...).

*Runs.*  A run is an invocation of `worker.sh` together with the handler of its
outstanding request.  `LoseClient` lets the script vanish while the handler goes on, so a
task can be claimed for nobody; `FailRun` covers a lost request, an error status and a
killed script.

*Whole rows.*  `SaveEdit`, `RotateSave`, `JoinConfirm`, `ResolveSave`, `SaveRunning`,
`SetSlot` and `SaveDiscovered` write the copy they hold, other columns included, as
`save_node`, `save_approval_request`, `save_task`, `set_node_component` and
`save_service_record` do.  For approvals the copy carries `details.dispatched_task_id`.

*Ssh.*  `run_ssh_task` is `LoadSshTask`, `CheckSshNode`, `SaveRunning`, the ssh call
(`SshReturns` or `SshTimesOut`), `LogSsh` and `CompleteSsh`.  No step tests the status it
loaded, as in the code; `complete_task` does.

*Gateway.*  `poll_once` is `List`, then `SendCard`/`SendFails` and `Mark`/`MarkFails` per
notification, then `Fetch`, then `CallbackDecides`/`CallbackFails` and `Clear` per update,
then `WriteOffset`.  A call that raises may have taken effect (a lost answer); the loop
goes on, as the `except` clauses of the code do.  Telegram is the external part:
`getUpdates` with an offset forgets the updates before it.

*Components.*  A command is `Record` (the run), `LookAtSlot`, `SetSlot`; a change that
needs approval is `Record` and `AskApproval`, and `DispatchRun` does the rest in one
transaction.  Manifests are constants: only their risk is looked at.

*Monitoring.*  `MonitorBegins` takes the clock, `ReadSummary` and `ReadEvent` are the two
reads of the newest heartbeat, `SaveSnapshot` the insert.  The command line takes the
newest event by id, the console by `created_at`; a handler stamps an event before it
inserts it, so the two can differ.

*Ticks.*  `OrchestratorService.tick` is one connection but several steps: Python begins
the transaction at the first UPDATE.  A tick that expires a lease (`TickExpire`) holds the
write lock until it commits, over the bridge call; its own reads see what it wrote
(`SeenStatus`, `SeenLeases`), everybody else's do not until `Commit`.  A tick that expires
nothing takes the lock for its last writes only, so a second tick can pick the same task
meanwhile.  `TickDies` is a crash or SQLite's "database is locked", and undoes what was not
committed.  Assignments that expired are dropped: only the status view reads them.  The
CLI's tick passes no bridge adapter and always takes the first branch of `TickSend`;
callers of the service (today the tests) may pass one.  No operation of the code ends a
leased task other than by its timeout, so the model has none.

*Worktrees.*  `prepare_agent_worktree` is `Reuse`, or `LookUp`, `MakeTree` (which adopts a
valid worktree it finds) and `RecordTree`, whose key is the task; every way of raising is
`PreparerEnds`.  `merge_queue` is `StartScan`, `Examine` per worktree and `WriteScan`.

*Backup, rollback, docs.*  `backup run` is `HashEntries`, `Archive`, `HashArchive`,
`WriteManifest`, `RecordBackup`; `rollback` is `StopService`, four times `WriteTemporary` and
`RenameToTarget` (`_copy_file_atomically`), `StartService`; `docs sync apply` is
`BeginSync` (plan, checks) and one `WriteDoc` per file: the files still to be written are
a set, and `IsNext` takes them in the order of the code's list.

*Data.*  Commands are "shell" or "rotate to f"; exit codes are zero or nonzero; a
fingerprint is also the signing key, and a signature is represented by the key it was
made with; `created_at` is an ordinal; a lease is the number of ticks left.  The content
of a backup is a version number and its hash that number; a document is what it says about
services and hosts, a service record in `DocsSync` its host; in `Services` a text field, a
deploy path or a URL is represented by who wrote it, ports by their class.  Output texts, labels, bundles, addresses (except
through `SameHost`), risk and hash values are left out: no decision modelled here reads
them.  `Admitted` is shared by three handlers that make the same test.

*Left out inside the modelled parts.*  Audit events that are written in a transaction of
their own and read by nothing (node edits, joins, ACL applies, services); reload and verify
commands of the ACL apply, whose failure leaves the file in place; a tags approval, whose
dispatch is the `tags` edit of `NodeRows`; five of the seven index files of the
documentation, which repeat what the two modelled ones say.  `ready` in `Approvals` stands for
`task_dispatch_block_reason` and turns freely.

## 3. Runs

Every passing run has a mutant per property in `PROJECT.json`: a variant of one
definition (named `...Unchecked`, `...Over`, `...GivenUp`, ... next to it) that a plausible
slip in the code would amount to, and under which TLC finds the property violated.

| Run | Instance | Shows |
|---|---|---|
| `worker_rotation` | one node, a rotation task and a shell task, two overlapping runs, execution disabled | `SignatureFits`, `AuditMatchesRow`, `TerminalIsFinal`, and the refinement `LifecycleRefined` |
| `worker_edits` | one node, a worker task and an ssh task, two overlapping runs, one operator | `AtMostOnce`, `ResultIsReal`, `HeldOnce` |
| `worker_liveness` | two nodes with a run each, two tasks on one of them, fair | `RunningEnds`, `PendingServed` |
| `races` | enrolment: a join sent twice with one token, two operators | `NodeSpentItsToken`, `LateJoinsRefused`, `ManagedWasConfirmed`, `OnlyStaleCopiesUnrevoke` |
| | approvals: a task and a component request, a CLI and an API decider at once | `ApprovedFirst`, `ComponentOnce`, `DecidedStays`, `OneDecision` |
| | orchestrator: two low-risk tasks of different priority, one worker, two ticks | `LeasedIsHeld`, `OneHolder`, `RetriesBounded`, `LeaseRunsItsTime` |
| | monitoring: two heartbeats, one monitor command at a time | `HealthyIsTrue` |
| | backup: two commands, two seconds, two contents | `RecordedIsRestorable` |
| | services: one service, two discoveries, three kinds of findings, two registrations | `CuratedStays` |
| `operations` | approvals: a task request and two ACL diffs, one decider at a time, crashes and repetition | `AclFresh`, and the refinement `DecisionsRefined` |
| | gateway: one request, two gateways | `DeliveredWasShown`, `StillDecidable`, `ForgottenWasTried` |
| | ssh: one task, two commands, an operator | `SshBegunOnce`, `SshResultIsLogged` |
| | components: a plain and a risky slot of one node, two commands, any number of deciders | `SlotsAreBacked`, `WishesStand` |
| | rollback: up to two database paths, any set of saved files | `RunsOnOneVersion` |
| | docs: two hosts, two services that share a slug, two syncs | `DocsAgree` |
| | worktrees: one task, two agents, two base branches, two calls, two scans | `TreeHasOneAgent`, `MissingMeansRemoved` |
| | all seven | `OperationsTypeOK` |
| `gateway_live` | a gateway, an older sender and one request, fair | `OutboxDrains`, `PressesTried` |

The properties of the orchestrator need a word on `overlap`, which is set once two ticks
have run at once.  `LeasedIsHeld` holds regardless; the others say what ticks that never
overlap guarantee.  With overlap each of them fails in the code (without the `overlap`
condition they have counterexamples): two ticks lease one task, a stale expiry takes a
lease that has just begun, a task paused by one tick is leased by the other.  No document
promises anything for that case, so it is stated as the condition and not as a finding;
the timer starts a tick every 30 minutes, and nothing keeps an operator from starting
another one.  The histories `shared` (ssh), `raced` (components), `clashed` (backup),
`docsState` (docs), `unseen` (services) and `overwritten` (approvals) have the same role:
they name exactly the interleaving under which the code loses the property, and the
property says that nothing else does.  Such a property does not find that interleaving
again: the `note` of its hazard in `PROJECT.json` says so.

Runs that show a disagreement between code and documentation:

| Run | Violated | Interleaving |
|---|---|---|
| `token_twice` | `OneNodePerToken` | both joins run `ConsumeLoad` before either runs `ConsumeUse` |
| `revoked_back` | `RevokedIsFinal` | a sync (or tags, rotate, confirm) loads the row, a revoke commits, the first one saves its copy |
| `task_twice` | `TaskOnce` with two deciders | both load the pending row; the second save erases `dispatched_task_id`, and the second dispatch creates another task |
| `paused_early` | `PausedAfterConsecutive` (`MCStreak`) | dispatch fails, succeeds, its lease runs out, it fails again: `attempts` is never reset |
| `acl_swapped` | `AclAsApproved` | the proposed file changes between plan and apply; `new_sha256` is stored and never compared |
| `silent_warn` | `LivenessIsUniform` | a heartbeat reports a warning and no other follows: the console says offline after 900 seconds, the command line stale for ever |

### Known windows

Behaviours of the same kind that the models contain, or that were met while modelling, and
that have no run of their own because no document of the repository promises otherwise or
because they need no interleaving to be seen:

* a revocation between `ResultAuth` and `ResultComplete` does not stop the result
  (api.py:1519, docs/architecture.md:154);
* two joins of one machine with two tokens both pass the duplicate check (api.py:1385);
* a rejection loaded while the request was pending overwrites an approval whose task
  exists already, or a component change that took effect (docs/priority-plan.md:256): the
  request is in `overwritten`, the run in `allowed` although it is no longer approved; a
  crash between `ResolveSave` and
  `ResolveAudit` leaves a decision without an audit event (storage.py:1082);
* a worker that dies between `RotateSave` and the replacement of `node.env` is locked out
  until somebody edits the file (assets/worker.sh:224);
* a failing ACL reload leaves the new file in place (network_acl.py:66);
* with every node silent, or every worker in a command that hangs, nothing sweeps the
  leases (api.py:1489);
* an ssh task whose command timed out or died stays `running`: the watchdog looks at
  worker tasks only (storage.py:1628);
* `hmn` may die between creating a request and enqueueing its card: the request can be
  decided in the console only (cli.py:3314);
* a component change is dispatched although its node was revoked while it waited
  (storage.py:1137), and a crash after the run is recorded leaves the slot as it was
  (cli.py:4243);
* the latest "backup" is taken from plans too, so a verification after a plan fails whatever
  the backups are (cli.py:2760);
* the rename actions of a documentation plan are built from the first service of a renamed
  host only (docs_sync.py:122);
* the class of a service is kept in the metadata by its first save (storage.py:635), so
  what is added later never changes it; imports and the Coolify synchronisation replace a
  row an operator registered under the same id (coolify_provider.py:148);
* a tick that dies after the bridge took the task dispatches it again (orchestrator.py:628);
  an urgent task whose lease keeps running out starves the others, because nothing
  completes a task (orchestrator.py:602); a worktree recorded missing is never examined
  again and blocks its task (orchestrator.py:463);
* `hmn wake` leaves a usable token behind when the network key cannot be made (cli.py:1184);
* an approval of `docs sync` is recorded and decided but nothing dispatches it (cli.py:1850);
* `recover-stuck` with a negative `--older-than` expires leases that still run (cli.py:3353);
* a monitor command that reads two different heartbeats may call a healthy node critical or
  warn; of two overlapping commands the one that judged the older event may store last.

### Bounds

* One or two nodes, tasks and runs: every property speaks about pairs at most (two runs
  and one task, two joins and one token, two deciders and one approval), and the proofs
  cover every size of every modelled component.
* `LeaseTicks = 1` and `OverdueCap = 0` in the worker runs: a lease is running, just expired
  or overdue; longer leases add intermediate states with the same guards.  The ssh instance
  has no leases at all.
* `WriteCap = 2` stops an ACL from being rewritten for ever when the proposed file keeps
  changing; twice is enough to see a repeated application.
* `AttemptCap = 3` is one more than `MaxRetries = 2`: ticks that do not overlap never count
  that far (`RetriesBounded`), overlapping ones would count for ever.
* `CardCap = 2`, `PressCap = 2`, `DeathCap = 1`: a card can be sent twice, both buttons can be
  pressed, and a gateway can die once at any point.  Failed calls are not counted and may
  happen any number of times.
* `RunCap = 3` rows of component runs: an apply, an uninstall and a verification between
  them.  `SyncCap = 2`: one sync over another.
* `EndOfTime = 1` and `Versions = 2` in the backup instance: two runs in one second or in
  two, the files changing between any two steps.
* Monitoring: `FreshFor = 0`, `StaleFor = 1`, `WatchedFor = 2` are 300 and 900 seconds with
  nothing between the boundaries: an event is fresh, stale or timed out.  `ReportCap = 2`
  gives a verdict two different events to be put together from.
* Components: the two slots are on one node (`OneHost`), so revoking it takes both; slots of
  different nodes share nothing.  Services: an operator, Coolify or a list gives either
  ports, domains and monitoring or a URL, a deploy path and its paths (`Sayings`), so each
  field is once set and once left empty.
* `worker_liveness` has two tasks on one node: one waits behind the other (`PendingServed`).
* `effects` and, without overlap, `attempts` are bounded by the guards themselves.
* `CHECK_DEADLOCK FALSE` appears in `Operations.cfg` only: its operations are followed until
  a bound is reached.
* Symmetry is used for interchangeable runs, commands, operators and ticks, and not in the
  runs with liveness properties.

### Fairness

`FairSpec` of `WorkerProtocol` assumes that time passes; that a run does not stay for ever
where it is, except in a command (`MovesOn`: the timer of a node starts `worker.sh` again,
scripts and handlers make progress, or die); and that the network and the API do not fail a
run for ever: one whose timer keeps starting it is answered in the end, with a refusal or
with a claim (`Served`; a plain strong fairness of each request would assume more, since a
lost request disables the next one).  Nothing is assumed about a run that has a task in
hand: it may die every time, and its command may hang for ever, because `worker.sh` has no
timeout by default (assets/worker.sh:9) and the unit that `join.sh` installs has none
either (assets/join.sh:186).  A hung run keeps its node from polling, so both properties
name a run that does not hang (`ComesBack`: it is outside a command again and again).
`RunningEnds` needs one such run on *any* healthy node: its polls sweep the leases of all
nodes, also those of workers that are gone or hang.  `PendingServed` needs one on the node
the tasks are for.  `Healthy` is a node that stays managed with one fingerprint on both
sides; the sweep has no other driver in the code.

`GwFairSpec` of `Gateway` assumes that a gateway process keeps going (weak fairness of its
steps: systemd restarts the service and its loop never ends), that sending a card and
marking it delivered do not fail every time (strong fairness: a failure ends the attempt),
and that deaths are finitely many (`DeathCap`; a process that dies in every round delivers
nothing).  Callbacks need no such assumption: `PressesTried` says that a press is handed to
the API, not that the API accepts it.

## 4. Proofs

Every safety invariant and action property of the passing runs is a theorem, for all
values of the constants that satisfy the named assumptions of the modules: `NodeAttributes`,
`NoEditIsFresh`, `TaskAttributes`, `LeaseBounds`, `RunAttributes`, `NoSshTaskIsFresh`,
`JoinAttributes`, `ApprovalAttributes`, `GatewayParameters`, `OrchestratorAssumption`,
`ComponentParameters`, `ServicesParameters`, `MonitoringParameters`, `WorktreeParameters`,
`BackupParameters`, `DocsParameters`.  They say that attributes are functions of the right
type, that marks such as `NoTask` are fresh, and that bounds are numbers; TLC evaluates them
in the runs.

| Module | Theorems | Property of a run |
|---|---|---|
| `WorkerProtocolProofs` | `Invariance` (`IndInv`), `TypeCorrect`, `DispatchNeedsHeartbeat` | - |
| | `CommandsBeginAtMostOnce`, `ResultsAreReal`, `TasksAreHeldOnce`, `SignaturesFit`, `AuditIsFaithful` | `AtMostOnce`, `ResultIsReal`, `HeldOnce`, `SignatureFits`, `AuditMatchesRow` |
| | `FinishedRowsStay` | `TerminalIsFinal` |
| | `ImplementsLifecycle` | `LifecycleRefined` |
| `EnrollmentProofs` | `NodesSpentTheirToken`, `LateJoinsAreRefused`, `ManagedNodesWereConfirmed`, `OnlyStaleCopies` | `NodeSpentItsToken`, `LateJoinsRefused`, `ManagedWasConfirmed`, `OnlyStaleCopiesUnrevoke` |
| | `TokensAdmitOneNode` (under `UsesApart`), `RevocationsStand` (under `WritersApart`) | `OneNodePerToken`, `RevokedIsFinal` |
| `ApprovalsProofs` | `EffectsWereApproved`, `ComponentsAreRecordedOnce`, `DecidedStaysDecided` | `ApprovedFirst`, `ComponentOnce`, `DecidedStays` |
| | `DecisionsAreUnique` | `OneDecision` |
| | `TasksAreDispatchedOnce` (under `SavesApart`) | `TaskOnce` |
| | `ImplementsDecisions` (of `DecisionLifecycle`, under `SavesApart`) | `DecisionsRefined` |
| | `AclsAreFresh` (under `OneAclWriter`) | `AclFresh` |
| `GatewayProofs` | `DeliveredNotificationsWereShown`, `ShownRequestsAreDecidable`, `ForgottenPressesWereTried` | `DeliveredWasShown`, `StillDecidable`, `ForgottenWasTried` |
| `OrchestratorProofs` | `LeasedTasksAreHeld` | `LeasedIsHeld` |
| | `TasksHaveOneHolder`, `RetriesAreBounded`, `LeasesRunTheirTime` | `OneHolder`, `RetriesBounded`, `LeaseRunsItsTime` |
| | `PausedTasksFailedInARow` (under `SuccessComesFirst`, no overlap) | `PausedAfterConsecutive` |
| `SshExecutorProofs` | `SshIsBegunOnce`, `SshResultsAreLogged` | `SshBegunOnce`, `SshResultIsLogged` |
| | `SshImplementsLifecycle` (of `TaskLifecycle`, for tasks never shared) | - |
| `OperationsProofs` | `RecordedRunsAreRestorable`, `RollbackKeepsOneVersion` | `RecordedIsRestorable`, `RunsOnOneVersion` |
| | `TreesHaveOneAgent`, `MissingWasRemoved` | `TreeHasOneAgent`, `MissingMeansRemoved` |
| | `DocumentsAgree` | `DocsAgree` |
| | `OperationsTypeCorrect`, `OperationsSideBySide` | `OperationsTypeOK` |
| `RegistryProofs` | `SlotsHaveTheirRuns`, `WishesAreKept` | `SlotsAreBacked`, `WishesStand` |
| | `CuratedRowsStay`, `HealthyWasTrue` | `CuratedStays`, `HealthyIsTrue` |
| | `ViewsDifferOnSilentProblems` (under `InsertedInOrder`) | `LivenessIsUniform` |

Each component has besides a theorem that its inductive invariant holds
(`...Invariance`) and, the orchestrator excepted, one that its variables keep their types
(`...TypeCorrect`).  The arguments, each with one step per action:

*Worker protocol.*  `AtMostOnce` is not inductive: a run in "reply" could begin a command
that was begun before.  `IndInv` says what each row knows about its past (`RowConsistent`)
and how far each run is with the task it holds (`RunConsistent`): a run with a task is the
only one, its task has left the queue, and before "exec" the command was not begun.  A task
enters a run only through `claim_next_task`, which takes pending tasks; `RowConsistent`
says that a pending task was never begun, and nothing returns a task to "pending"
(`expire_stuck_tasks` fails it).  The result properties follow because a run reports
exactly `outcome`, which is written once.  The refinement uses `IndInv` to show that every
step is a step of the life cycle or a stutter.  `DispatchNeedsHeartbeat` says that a task
is handed out only to a node with a successful heartbeat that does more than beacon.

*Enrolment.*  `NodeSpentItsToken` is not inductive because a copy of a row could be saved
for a node that never joined.  `EnrolInv` adds `JoinConsistent` (a row exists only from
`register_pending_node` on, when the token is spent) and `EditConsistent` (a copy in flight
was loaded from a row that exists, says managed only if it was confirmed, and a confirm
was loaded from a row that is not revoked).  `LateJoinsRefused` needs that a spent token is
never made usable again, although three writers save rows they loaded before
(`SpentForGood`: every row in flight says used, revoked or expired), and that a late join
stays between its arrival and `consume_token` (`LateStopped`).

*Approvals.*  `ApprInv` says that a component action was recorded exactly as often as
`recorded` tells (`RunRecorded`), and what a decider between its read and its write holds
(`DeciderConsistent`); the effects then follow the approval that is read in the dispatch
transaction itself.  `SettledInv` says what else the code keeps with racing deciders, for
every request whose decision was not saved over another: effects only while it is
approved, one of them for a task, events that agree with the status; and that whoever is
between its save and its event, or its ACL check and write, finds the status it saved.
`DecisionsAreUnique` follows without a hypothesis.  `TaskOnce`, `DecisionsRefined` and
`AclFresh` are false when deciders race (run `task_twice` for the first), so their theorems
name the race that must not happen, and nothing more: `SavesApart` excludes two handlers
between the load and the save of *one request* and leaves everything else free,
`OneAclWriter` two dispatches between their check and their write of the ACL.  Then the
copy `ResolveSave` writes is still the row (`CopiesFit`), so that `dispatched_task_id`
survives, and the ACL is still the one that was compared (`AclUnmoved`).

*Gateway.*  What a gateway process holds between two calls (`Relies`): a card it is about
to mark was shown, all updates before the one in hand were tried, the offset it will store
lies right after the last update it fetched.  With `CardsConsistent` (buttons vanish only
when the request is decided), `RowsConsistent` and `PressesConsistent` this is inductive; the
lemma schema `Grows` carries it over every step of the other processes.

*Orchestrator.*  `LeasedIsHeld` is inductive once assignments are known to be records
(`Shaped`).  The point is `SeenIsHeld`: what a tick sees inside its transaction satisfies the
invariant too, because its expiries queue a task and take its assignments together; every
commit writes what was seen, plus at most one lease with its assignment, or one pause.
The other three hold while ticks have not overlapped.  `RowsInv` says how the tables fit
together whatever overlaps: the queue lists every task once, a tick that has picked a task
picked one that is there.  `TurnInv` adds, for ticks that took turns, that a task has at
most one assignment, only while it is leased, and is paused exactly when its attempts are
used up (`TablesAgree`), and that what a tick read before its lock is still so when it
writes (`TickUpToDate`).  Both need that `First` picks a queued task: `ORDER BY ... LIMIT 1`
has a first row because the queue is finite and `Precedes` orders it strictly, which is
`SomeTaskIsFirst`, proved with the set of more urgent tasks minimal under inclusion
(`FS_StrictSubsetOrderingWellFounded`, `WFMin`) where an induction would need an operator
as parameter.

*Ssh executor.*  A runner loads a row, saves it as running and completes it in three
transactions, and never looks at the status again.  `SshInv` says what it may rely on:
after its save the row has left "pending", and the exit code it reports was returned by ssh
and, from `LogSsh` on, logged (`RunnerConsistent`); a task for which ssh was begun never
returns to the queue (`BegunHasLeftQueue`); and a task that no two runners held is held by
one now, which has not begun it before its ssh call (`HeldByOne`).  `SshResultIsLogged`
needs no exclusion: `complete_task` takes the exit code its own runner logged.

The ssh executor shares the abstract specification of the worker protocol.  `LifeOf(T)` is
`TaskLifecycle` for a set `T` of tasks, read off `tasks[t].status` and `begun`, and
`SshImplementsLifecycle` says that `SshSpec` implements it for every `T` whose tasks no two
runners held at once (`[](T \cap shared = {})`), whatever runners do to the other tasks:
`InsertTask` is `Submit`, `SaveRunning` is `HandOut`, the return of ssh or its timeout is
`Begin`, `CompleteSsh` is `Succeed` or `GiveUp`, all else stutters.  The fact it needs
besides `SshInv` is `RowsFollow`: the row of such a task is pending until its runner saves
it and running from then on, because the runner that takes a task up alone stays alone.
Without the hypothesis it is false: the save of a second runner sets a finished row back to
running.  No run states it, the condition being on whole behaviours.

*Worktrees.*  `WtInv` adds that a worktree about to be recorded is valid unless somebody
disturbed it (`Intact`, `PreparerConsistent`) and that a scan holds only recorded tasks and
saw "missing" only of disturbed ones (`ScannerConsistent`).

*Backup.*  For a second whose names were taken once and whose files nobody touched
(`Unspoilt`), at most one command works under them (`Alone`), the files are as far as its step
says (`Progress`), the manifest fits the archive (`ManifestFits`), a recorded run has one
(`RunHasManifest`), and a failed verdict is about another second (`VerdictFits`).

*Rollback.*  `PutBackSoFar` says which targets hold the saved content after how many
copies, `RollingConsistent` that the command works on a stopped service unless it was told
to skip it, and on the path the running version uses.

*Docs sync.*  `DocsAgree` speaks of the moments when nobody writes.  `DocsInv` says what is
true while somebody does: a command has written the first files of its list (`Orderly`), so
while it writes an index all it names are still to come, and a document that an index names
is there or about to be written (`Promised`), unless a command died half way.  A command
that no other overlapped leaves the files as its plan says (`Fits`, where of the services
with one slug the last one written has the document: `WriteFits` uses the order of the
writes once more).  A write refused for leaving the root ends a command only after somebody
moved a directory while it was running, and then the tree was torn before (`docsState`).

*Components.*  `CompInv` relates the four places a change passes through: the row of a run,
the question that was asked about it, the hand of the command that will write the slot, and
the slot.  A run reaches a slot only after it was carried out, and a risky one only after
its approval was saved (`SlotBacked`).  The decision is two transactions (`LoadDecision`,
`SaveDecision`), so a rejection may be saved over an approval whose run was dispatched;
`allowed` remembers the approval, and the theorem says that a slot was allowed when it was
written, not that its request still reads approved.  For a slot nobody raced for, the row a
command is about to save is made from the slot as it is (`HandConsistent`), so that the slot
has the wish that the history `ideal` expects (`WishStands`).

*Services.*  `SvcInv` carries `CuratedStays` from rows to the plans of the discoveries in
flight: a plan made from a row keeps what the row had (`RowKeeps`, `PlanKeeps`), unless an
operator wrote after the plan was made (`unseen`).

*Monitoring.*  `MonInv` says of a verdict "ok", under way or stored, that it was given for an
event of the log that is good, compatible and, by the clock it read, fresh, and no older
than what the log had when the command began (`Founded`); a log that only grows cannot take
that away.

*The abstract approval queue.*  `DecisionLifecycle` knows three things about a request:
its ruling, what was done for it, and which rulings the log shows.  `DecisionsRefined` reads
them off the row's status, `effects` and `audited`.  `ImplementsDecisions` says that deciders
whose saves of one request do not overlap implement it: `ResolveSave` rules, `ResolveAudit` logs the ruling
that stands, a dispatcher acts under an approval, and all else stutters (`DecisionStep`, one
lemma per action that changes something).  That a task is acted on once is the part that
needs
`CopiesFit`; the rest follows from `SettledInv`.

*What the documentation promises.*  Six runs show that the code does not keep a promise.
For five of the promises a theorem says under which condition it is kept, for any number of
processes; the condition names the step that is missing in the code, and TLC finds
behaviours that meet it and do what the promise is about.

| Promise | Kept as long as | Theorem |
|---|---|---|
| `OneNodePerToken` | no two joins with one token are between its load and its save (`UsesApart`) | `TokensAdmitOneNode` |
| `RevokedIsFinal` | no two writers hold a copy of one node row (`WritersApart`) | `RevocationsStand` |
| `TaskOnce` | no two handlers are between load and save of one request (`SavesApart`) | `TasksAreDispatchedOnce` |
| `PausedAfterConsecutive` | ticks take turns and no dispatch succeeds for a task that failed before (`SuccessComesFirst`) | `PausedTasksFailedInARow` |
| `LivenessIsUniform` | heartbeats are inserted in order (`InsertedInOrder`), and no node is silent after it reported a problem | `ViewsDifferOnSilentProblems` |

`AclAsApproved` has no such theorem: it fails whenever the file was edited between plan and
apply, so a condition that excludes the edit would restate it; only a comparison of
`new_sha256` in the code excludes the case.

`ViewsDifferOnSilentProblems` is an equivalence: given the order, the two views disagree exactly about nodes
that fell silent after a problem.  `TokensAdmitOneNode` rests on what a token remembers: a
join whose token was consumed for it is the only one with that token past the test, because
the row it saved says used.  `RevocationsStand` needs that a copy in flight is the row
itself.  `PausedTasksFailedInARow` adds to `TurnInv` that the attempts of a task are at most
its failures in a row (`Counted`).

*The composition.*  In `MCOperations` each step is a step of the component in focus and
leaves the variables of the others alone (`StepOfOne`), so `OpsSpec` implies the
specification of each component (`OperationsSideBySide`); the types of all variables follow
(`OperationsTypeCorrect`).

Only model-checked: the liveness properties `RunningEnds`, `PendingServed`, `OutboxDrains`
and `PressesTried`, which are outside the prover, and one part of a type: that the worker of
a lease is a worker rests on `SelectSeq` and so on an induction over a sequence, and the
proofs leave the worker of a tick open (`TickRow`).

## 5. Not modelled

* Deploy, migration and restore (`deploy.py`, `migration.py`, `restore.py`), onboarding,
  inspection and playbooks, uptime and Kuma assets: they compute plans, checks and texts from
  their arguments and write at most one row that nothing reads back.
* Windows and lite workers: `worker-windows.ps1` sends the requests of `worker.sh`,
  `worker-lite.sh` only heartbeats (a `Beacon` node of `WorkerProtocol`).
* Platform, GitHub Actions, config and network providers: requests for external services
  and wrappers around the `headscale` command; what they do to node rows is in `NodeRows`.
* Sanitizing and redaction; manifest, card and page rendering; parsers of command output,
  reduced in `Services` to what they find; read-only views of the console, the API and the
  CLI, but for the two liveness views in `Monitoring`.
* Upgrades: `Rollback` begins with what an upgrade by the installer has left.

What could follow: a liveness run that shows the starvation of orchestrator tasks.
