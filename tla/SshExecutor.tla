----------------------------- MODULE SshExecutor -----------------------------
(***************************************************************************)
(* Tasks that the control plane executes itself over ssh: hmn task run     *)
(* --executor ssh --wait and hmn task ssh-run-next (run_ssh_task).  There  *)
(* is no claim and no lease: a runner loads the row, checks the node,      *)
(* writes the whole row back as running, runs ssh, logs the outcome and    *)
(* reports it to complete_task, each in a transaction of its own.          *)
(***************************************************************************)
EXTENDS TaskStore

CONSTANTS
  Runner,   \* concurrent hmn commands that execute ssh tasks
  NoSshTask \* a runner at rest

ASSUME NoSshTaskIsFresh == NoSshTask \notin Task

VARIABLES
  runner,  \* the state of each command
  sshLog,  \* per task, the outcomes of its ssh_execute audit events
  begun,   \* history: how often ssh was started for a task
  shared   \* history: the tasks two runners held at once

sshVars == <<taskVars, nodeVars, runner, sshLog, begun, shared>>

RunnerState == [pc   : {"idle", "load", "node", "save", "ssh", "log", "complete"},
                on   : Task \cup {NoSshTask},
                copy : TaskRow,
                code : ExitCode]
Resting == [pc |-> "idle", on |-> NoSshTask, copy |-> NoRow, code |-> "none"]

SshTypeOK ==
  /\ TaskStoreTypeOK /\ NodeRowsTypeOK
  /\ runner \in [Runner -> RunnerState]
  /\ sshLog \in [Task -> SUBSET {"zero", "nonzero"}]
  /\ begun \in [Task -> Nat] /\ shared \subseteq Task

SshInit ==
  /\ TaskStoreInit
  /\ nodes = [n \in Node |-> [status |-> "managed", fingerprint |-> FirstFp[n]]]
  /\ edit = [o \in Operator |-> NoEdit]
  /\ runner = [r \in Runner |-> Resting]
  /\ sshLog = [t \in Task |-> {}] /\ begun = [t \in Task |-> 0] /\ shared = {}
------------------------------------------------------------------------------
Managed(t) == nodes[NodeOf[t]].status = "managed"
RunnerAt(r, pc) == runner[r].pc = pc
OnTask(r) == runner[r].on
Put(r, state) == runner' = [runner EXCEPT ![r] = state]
Proceed(r, pc) == Put(r, [runner[r] EXCEPT !.pc = pc])

TakeUp(r, t) ==
  /\ Put(r, [Resting EXCEPT !.pc = "load", !.on = t])
  /\ shared' = IF \E q \in Runner \ {r} : OnTask(q) = t THEN shared \cup {t} ELSE shared

\* task run --executor ssh: for later, or with --wait to be executed at once.
CreateSshTask(t) ==
  /\ Managed(t) /\ InsertTask(t)
  /\ UNCHANGED <<trail, announced, nodeVars, runner, sshLog, begun, shared>>

CreateAndRun(r, t) ==
  /\ RunnerAt(r, "idle") /\ Managed(t) /\ InsertTask(t) /\ TakeUp(r, t)
  /\ UNCHANGED <<trail, announced, nodeVars, sshLog, begun>>

\* Slip: running tasks are listed too, as if theirs were a runner that died.
CandidatesUnfinished == {t \in Task : tasks[t].status \in {"pending", "running"}}

\* ssh-run-next: the pending ssh tasks of one listing, the oldest first.
Candidates == {t \in Task : ExecutorOf[t] = "ssh" /\ tasks[t].status = "pending"}

RunNext(r) ==
  /\ RunnerAt(r, "idle")
  /\ \E t \in Oldest(Candidates) : TakeUp(r, t)
  /\ UNCHANGED <<taskVars, nodeVars, sshLog, begun>>

\* load_task: nothing tests the status of the row.
LoadSshTask(r) ==
  /\ RunnerAt(r, "load")
  /\ Put(r, [runner[r] EXCEPT !.pc = "node", !.copy = tasks[OnTask(r)]])
  /\ UNCHANGED <<taskVars, nodeVars, sshLog, begun, shared>>

\* The node must be managed (and have an address: ssh_target_details_for_node).
CheckSshNode(r) ==
  /\ RunnerAt(r, "node")
  /\ IF Managed(OnTask(r)) THEN Proceed(r, "save") ELSE Put(r, Resting)
  /\ UNCHANGED <<taskVars, nodeVars, sshLog, begun, shared>>

\* save_task of the loaded copy: every column is overwritten.
SaveRunning(r) ==
  /\ RunnerAt(r, "save")
  /\ tasks' = [tasks EXCEPT ![OnTask(r)] = [runner[r].copy EXCEPT !.status = "running"]]
  /\ Proceed(r, "ssh")
  /\ UNCHANGED <<trail, announced, nodeVars, sshLog, begun, shared>>

\* subprocess.run returns an exit code ...
SshReturns(r, code) ==
  /\ RunnerAt(r, "ssh")
  /\ Put(r, [runner[r] EXCEPT !.pc = "log", !.code = code])
  /\ begun' = [begun EXCEPT ![OnTask(r)] = @ + 1]
  /\ UNCHANGED <<taskVars, nodeVars, sshLog, shared>>

\* Slip: a timeout is reported like an exit code.
SshTimesOutReported(r) ==
  /\ RunnerAt(r, "ssh")
  /\ Put(r, [runner[r] EXCEPT !.pc = "complete", !.code = "nonzero"])
  /\ begun' = [begun EXCEPT ![OnTask(r)] = @ + 1]
  /\ UNCHANGED <<taskVars, nodeVars, sshLog, shared>>

\* ... or raises TimeoutExpired, which nobody catches: the row stays running.
\* A runner that dies while ssh runs looks the same.
SshTimesOut(r) ==
  /\ RunnerAt(r, "ssh")
  /\ Put(r, Resting)
  /\ begun' = [begun EXCEPT ![OnTask(r)] = @ + 1]
  /\ UNCHANGED <<taskVars, nodeVars, sshLog, shared>>

\* record_audit "ssh_execute", with the reason found by classify_ssh_failure.
LogSsh(r) ==
  /\ RunnerAt(r, "log")
  /\ sshLog' = [sshLog EXCEPT ![OnTask(r)] = @ \cup {runner[r].code}]
  /\ Proceed(r, "complete")
  /\ UNCHANGED <<taskVars, nodeVars, begun, shared>>

\* complete_task leaves a row alone that is no longer running.
CompleteSsh(r) ==
  /\ RunnerAt(r, "complete")
  /\ IF CanComplete(OnTask(r)) THEN CompleteTask(OnTask(r), runner[r].code)
                               ELSE UNCHANGED <<tasks, trail>>
  /\ Put(r, Resting)
  /\ UNCHANGED <<announced, nodeVars, sshLog, begun, shared>>

RunnerDies(r) ==
  /\ ~RunnerAt(r, "idle") /\ Put(r, Resting)
  /\ UNCHANGED <<taskVars, nodeVars, sshLog, begun, shared>>

RunnerStep(r) ==
  \/ RunNext(r) \/ LoadSshTask(r) \/ CheckSshNode(r) \/ SaveRunning(r)
  \/ SshTimesOut(r) \/ LogSsh(r) \/ CompleteSsh(r) \/ RunnerDies(r)
  \/ \E t \in Task : CreateAndRun(r, t)
  \/ \E code \in {"zero", "nonzero"} : SshReturns(r, code)

SshNext ==
  \/ \E r \in Runner : RunnerStep(r)
  \/ \E t \in Task : CreateSshTask(t)
  \/ \E t \in Task : AnnounceTask(t) /\ UNCHANGED <<nodeVars, runner, sshLog, begun, shared>>
  \/ \E o \in Operator : OperatorStep(o) /\ UNCHANGED <<taskVars, runner, sshLog, begun, shared>>

SshSpec == SshInit /\ [][SshNext]_sshVars
------------------------------------------------------------------------------
(* Properties *)

\* Runners that do not overlap on a task start ssh for it once, wherever they
\* die: the row is running before ssh starts, and only pending rows are listed.
SshBegunOnce == \A t \in Task : t \notin shared => begun[t] <= 1

\* Whatever runners overlap, time out or die, a finished row carries an exit code
\* that ssh returned and that is in the audit log: stale whole-row saves can set
\* a row back to running, but never invent a result.
SshResultIsLogged ==
  \A t \in Task : Terminal(t) => begun[t] > 0 /\ tasks[t].exit \in sshLog[t]
==============================================================================
