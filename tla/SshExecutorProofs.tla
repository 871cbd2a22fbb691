--------------------------- MODULE SshExecutorProofs ---------------------------
(***************************************************************************)
(* Tasks over ssh, for any number of tasks and runners.  run_ssh_task has  *)
(* no claim: SshInv says what a runner knows of a row between the          *)
(* transactions that load it, save it as running and complete it.          *)
(* A task no two runners held follows TaskLifecycle, as worker tasks do.   *)
(***************************************************************************)
EXTENDS SshExecutor, FiniteSetTheorems, TLAPS

\* The tasks runners hold, and how far a runner is with its task: after its save the row
\* is no longer pending, and what it reports was returned by ssh and is logged.
RunnerConsistent(r) ==
  /\ RunnerAt(r, "idle") <=> OnTask(r) = NoSshTask
  /\ ~RunnerAt(r, "idle") => Exists(OnTask(r))
  /\ runner[r].pc \in {"ssh", "log", "complete"} => tasks[OnTask(r)].status # "pending"
  /\ runner[r].pc \in {"log", "complete"} => /\ begun[OnTask(r)] > 0
                                             /\ runner[r].code \in {"zero", "nonzero"}
  /\ RunnerAt(r, "complete") => runner[r].code \in sshLog[OnTask(r)]

\* A task that is not begun again: nothing puts a row back to pending.
BegunHasLeftQueue(t) == begun[t] > 0 => tasks[t].status \notin {"absent", "pending"}

\* A task no two runners held: one holds it at most, and has not begun it before.
HeldByOne(t) ==
  t \notin shared =>
    /\ begun[t] <= 1
    /\ \A r \in Runner : OnTask(r) = t =>
         /\ \A q \in Runner \ {r} : OnTask(q) # t
         /\ runner[r].pc \in {"load", "node", "save", "ssh"} => begun[t] = 0

SshInv ==
  /\ SshTypeOK
  /\ SshResultIsLogged
  /\ \A r \in Runner : RunnerConsistent(r)
  /\ \A t \in Task : BegunHasLeftQueue(t) /\ HeldByOne(t)
------------------------------------------------------------------------------
(* Types *)

Stage == {"idle", "load", "node", "save", "ssh", "log", "complete"}

LEMMA NoRowIsARow == NoRow \in TaskRow
BY DEF NoRow, TaskRow, TaskStatus, TerminalStatus, ExitCode, FailureReason

LEMMA RestingIsAState == Resting \in RunnerState
BY NoRowIsARow DEF Resting, RunnerState, ExitCode

LEMMA MovedRunner ==
  ASSUME NEW s \in RunnerState, NEW pc \in Stage
  PROVE  [s EXCEPT !.pc = pc] \in RunnerState
BY Zenon DEF RunnerState, Stage

LEMMA LoadedRunner ==
  ASSUME NEW s \in RunnerState, NEW row \in TaskRow
  PROVE  [s EXCEPT !.pc = "node", !.copy = row] \in RunnerState
BY Zenon DEF RunnerState

LEMMA ReturnedRunner ==
  ASSUME NEW s \in RunnerState, NEW code \in ExitCode
  PROVE  [s EXCEPT !.pc = "log", !.code = code] \in RunnerState
BY Zenon DEF RunnerState

\* The new states by field.
LEMMA RunnerFields ==
  ASSUME NEW s \in RunnerState
  PROVE  /\ \A pc : LET m == [s EXCEPT !.pc = pc]
                    IN m.pc = pc /\ m.on = s.on /\ m.code = s.code
         /\ \A row : LET m == [s EXCEPT !.pc = "node", !.copy = row]
                     IN m.pc = "node" /\ m.on = s.on
         /\ \A code : LET m == [s EXCEPT !.pc = "log", !.code = code]
                      IN m.pc = "log" /\ m.on = s.on /\ m.code = code
BY DEF RunnerState

LEMMA TakenUpRunner ==
  ASSUME NEW t \in Task
  PROVE  LET m == [Resting EXCEPT !.pc = "load", !.on = t]
         IN m \in RunnerState /\ m.pc = "load" /\ m.on = t
BY NoRowIsARow DEF Resting, RunnerState, ExitCode

\* A row that is completed keeps its shape and has the reported exit code.
LEMMA CompletedType ==
  ASSUME NEW row \in TaskRow, NEW code \in ExitCode
  PROVE  /\ CompletedRow(row, code) \in TaskRow
         /\ CompletedRow(row, code).status \in TerminalStatus
         /\ CompletedRow(row, code).exit = code
<1> USE DEF TaskRow, TaskStatus, TerminalStatus, FailureReason
<1> QED BY DEF CompletedRow

LEMMA InsertedType ==
  ASSUME tasks \in [Task -> TaskRow], NEW t \in Task, InsertTask(t)
  PROVE  /\ tasks' \in [Task -> TaskRow]
         /\ tasks[t].status = "absent" /\ tasks'[t].status = "pending"
         /\ \A u \in Task \ {t} : tasks'[u] = tasks[u]
<1> DEFINE row == [NoRow EXCEPT !.status = "pending", !.created = CreatedNow]
<1>1. IsFiniteSet({u \in Task : Exists(u)})
  BY TaskAttributes, FS_Subset
<1>2. CreatedNow \in Nat
  BY <1>1, FS_CardinalityType DEF CreatedNow
<1>3. row \in TaskRow /\ row.status = "pending"
  BY <1>2, NoRowIsARow DEF TaskRow, TaskStatus
<1>4. tasks' = [tasks EXCEPT ![t] = row] /\ tasks[t].status = "absent"
  BY DEF InsertTask, Exists
<1> HIDE DEF row
<1> QED BY <1>3, <1>4

\* An operator's edit leaves well-typed rows and edits.
LEMMA EditTypes ==
  ASSUME NodeRowsTypeOK, NEW o \in Operator, OperatorStep(o)
  PROVE  NodeRowsTypeOK'
<1> USE DEF NodeRowsTypeOK
<1>1. ASSUME NEW op \in EditOp, NEW n \in Node, NEW f \in Fingerprint, LoadForEdit(o, op, n, f)
      PROVE  NodeRowsTypeOK'
  BY <1>1 DEF LoadForEdit, Edit
<1>2. CASE SaveEdit(o)
  <2>1. edit[o] \in Edit
    BY <1>2 DEF SaveEdit
  <2>2. EditedRow(edit[o]) \in NodeRow
    BY <2>1 DEF EditedRow, Edit, NodeRow, NodeStatus
  <2> QED BY <1>2, <2>1, <2>2 DEF SaveEdit
<1>3. CASE AbandonEdit(o)
  BY <1>3 DEF AbandonEdit
<1> QED BY <1>1, <1>2, <1>3, NodeAttributes DEF OperatorStep, EditOp

LEMMA SshInitHolds == SshInit => SshInv
<1> SUFFICES ASSUME SshInit PROVE SshInv
  OBVIOUS
<1> USE DEF SshInit, TaskStoreInit
<1>1. SshTypeOK
  <2>1. NodeRowsTypeOK
    BY NodeAttributes DEF NodeRowsTypeOK, NodeRow, NodeStatus
  <2>2. TaskStoreTypeOK
    BY NoRowIsARow DEF TaskStoreTypeOK
  <2> QED BY <2>1, <2>2, RestingIsAState DEF SshTypeOK
<1>2. SshResultIsLogged
  BY DEF SshResultIsLogged, Terminal, TerminalStatus, NoRow
<1>3. \A r \in Runner : RunnerConsistent(r)
  BY DEF RunnerConsistent, RunnerAt, OnTask, Resting
<1>4. \A t \in Task : BegunHasLeftQueue(t) /\ HeldByOne(t)
  BY NoSshTaskIsFresh DEF BegunHasLeftQueue, HeldByOne, OnTask, Resting
<1> QED BY <1>1, <1>2, <1>3, <1>4 DEF SshInv
------------------------------------------------------------------------------
(* Steps *)

\* A runner that does not move while rows and the log only go forward.
LEMMA OthersStayConsistent ==
  ASSUME SshInv, NEW q \in Runner, UNCHANGED runner[q],
         \A t \in Task : Exists(t) => Exists(t)',
         \A t \in Task : tasks[t].status # "pending" /\ Exists(t) => tasks'[t].status # "pending",
         \A t \in Task : begun[t] > 0 => begun'[t] > 0,
         \A t \in Task : sshLog[t] \subseteq sshLog'[t]
  PROVE  RunnerConsistent(q)'
<1>1. RunnerConsistent(q) /\ runner'[q] = runner[q] /\ OnTask(q) \in Task \cup {NoSshTask}
  BY DEF SshInv, SshTypeOK, RunnerState, OnTask
<1>2. CASE RunnerAt(q, "idle")
  BY <1>1, <1>2 DEF RunnerConsistent, RunnerAt, OnTask
<1>3. CASE ~RunnerAt(q, "idle")
  <2>1. OnTask(q) \in Task /\ Exists(OnTask(q))
    BY <1>1, <1>3 DEF RunnerConsistent
  <2> QED BY <1>1, <1>3, <2>1 DEF RunnerConsistent, RunnerAt, OnTask
<1> QED BY <1>2, <1>3

\* A step of one runner that starts no ssh: rows only move forward, the log only grows,
\* and the runner goes on with the task it has, or rests.
LEMMA RunnerGoesOn ==
  ASSUME SshInv, NEW r \in Runner,
         SshTypeOK', SshResultIsLogged',
         \A t \in Task : Exists(t) => Exists(t)',
         \A t \in Task : tasks[t].status # "pending" /\ Exists(t) => tasks'[t].status # "pending",
         \A t \in Task : sshLog[t] \subseteq sshLog'[t],
         UNCHANGED <<begun, shared>>,
         \A q \in Runner \ {r} : runner'[q] = runner[q],
         OnTask(r)' \in {OnTask(r), NoSshTask},
         runner'[r].pc \in {"load", "node", "save", "ssh"}
           => runner[r].pc \in {"load", "node", "save", "ssh"},
         RunnerConsistent(r)'
  PROVE  SshInv'
<1>1. ASSUME NEW q \in Runner \ {r} PROVE RunnerConsistent(q)'
  BY <1>1, OthersStayConsistent
<1>2. ASSUME NEW t \in Task PROVE BegunHasLeftQueue(t)'
  BY DEF SshInv, BegunHasLeftQueue, Exists
<1>3. ASSUME NEW t \in Task PROVE HeldByOne(t)'
  <2>1. HeldByOne(t) /\ t # NoSshTask
    BY NoSshTaskIsFresh DEF SshInv
  <2>2. \A q \in Runner : OnTask(q)' = t => OnTask(q) = t
    BY <2>1 DEF OnTask
  <2>3. \A q \in Runner : runner'[q].pc \in {"load", "node", "save", "ssh"}
                            => runner[q].pc \in {"load", "node", "save", "ssh"}
    OBVIOUS
  <2> QED BY <2>1, <2>2, <2>3 DEF HeldByOne
<1>4. \A q \in Runner : RunnerConsistent(q)'
  BY <1>1
<1> QED BY <1>2, <1>3, <1>4 DEF SshInv

\* What the steps below read of the invariant.
LEMMA RunnerFacts ==
  ASSUME SshInv, NEW r \in Runner
  PROVE  /\ runner[r] \in RunnerState /\ runner \in [Runner -> RunnerState]
         /\ tasks \in [Task -> TaskRow] /\ sshLog \in [Task -> SUBSET {"zero", "nonzero"}]
         /\ RunnerConsistent(r)
         /\ ~RunnerAt(r, "idle") => OnTask(r) \in Task
<1>1. runner[r] \in RunnerState /\ RunnerConsistent(r)
  BY DEF SshInv, SshTypeOK
<1>2. ~RunnerAt(r, "idle") => OnTask(r) \in Task
  BY <1>1 DEF RunnerConsistent, RunnerState, OnTask
<1> QED BY <1>1, <1>2 DEF SshInv, SshTypeOK, TaskStoreTypeOK

\* The steps that write no row and start no ssh.
LEMMA QuietStep ==
  ASSUME SshInv, NEW r \in Runner, NEW s \in RunnerState, Put(r, s),
         UNCHANGED <<taskVars, nodeVars, begun, shared>>,
         sshLog' \in [Task -> SUBSET {"zero", "nonzero"}],
         \A t \in Task : sshLog[t] \subseteq sshLog'[t],
         s.on \in {OnTask(r), NoSshTask},
         s.pc \in {"load", "node", "save", "ssh"} => runner[r].pc \in {"load", "node", "save", "ssh"},
         RunnerConsistent(r)'
  PROVE  SshInv'
<1>1. runner \in [Runner -> RunnerState]
  BY RunnerFacts
<1>2. runner' \in [Runner -> RunnerState] /\ runner'[r] = s
      /\ \A q \in Runner \ {r} : runner'[q] = runner[q]
  BY <1>1 DEF Put
<1>3. SshTypeOK'
  BY <1>2 DEF SshInv, SshTypeOK, TaskStoreTypeOK, NodeRowsTypeOK, taskVars, nodeVars
<1>4. SshResultIsLogged'
  BY DEF SshInv, SshResultIsLogged, Terminal, taskVars
<1>5. UNCHANGED <<tasks, begun, shared>>
  BY DEF taskVars
<1>6. OnTask(r)' \in {OnTask(r), NoSshTask}
  BY <1>2 DEF OnTask
<1> QED BY <1>2, <1>3, <1>4, <1>5, <1>6, RunnerGoesOn DEF Exists

LEMMA RunnerRests ==
  ASSUME SshInv, NEW r \in Runner, Put(r, Resting),
         UNCHANGED <<taskVars, nodeVars, sshLog, begun, shared>>
  PROVE  SshInv'
<1>1. Resting.pc = "idle" /\ Resting.on = NoSshTask
  BY DEF Resting
<1>2. runner'[r] = Resting
  BY RunnerFacts DEF Put
<1>3. RunnerConsistent(r)'
  BY <1>1, <1>2 DEF RunnerConsistent, RunnerAt, OnTask
<1> HIDE DEF Resting
<1>4. sshLog' \in [Task -> SUBSET {"zero", "nonzero"}] /\ \A t \in Task : sshLog[t] \subseteq sshLog'[t]
  BY RunnerFacts
<1> QED BY <1>1, <1>3, <1>4, RestingIsAState, QuietStep

LEMMA LoadKeeps ==
  ASSUME SshInv, NEW r \in Runner, LoadSshTask(r)
  PROVE  SshInv'
<1> DEFINE s == [runner[r] EXCEPT !.pc = "node", !.copy = tasks[OnTask(r)]]
<1>1. Put(r, s) /\ UNCHANGED <<taskVars, nodeVars, sshLog, begun, shared>> /\ runner[r].pc = "load"
  BY DEF LoadSshTask, RunnerAt
<1>2. OnTask(r) \in Task
  BY <1>1, RunnerFacts DEF RunnerAt
<1>3. s \in RunnerState /\ s.pc = "node" /\ s.on = OnTask(r)
  <2>1. runner[r] \in RunnerState /\ tasks[OnTask(r)] \in TaskRow
    BY <1>2, RunnerFacts
  <2>2. s \in RunnerState
    BY <2>1, LoadedRunner
  <2> QED BY <2>1, <2>2, RunnerFields DEF OnTask
<1> HIDE DEF s
<1>4. runner'[r] = s
  BY <1>1, RunnerFacts DEF Put
<1>5. RunnerConsistent(r)'
  BY <1>1, <1>3, <1>4, RunnerFacts, NoSshTaskIsFresh DEF RunnerConsistent, RunnerAt, OnTask, Exists, taskVars
<1>6. sshLog' \in [Task -> SUBSET {"zero", "nonzero"}] /\ \A t \in Task : sshLog[t] \subseteq sshLog'[t]
  BY <1>1, RunnerFacts
<1> QED BY <1>1, <1>3, <1>5, <1>6, QuietStep

LEMMA CheckKeeps ==
  ASSUME SshInv, NEW r \in Runner, CheckSshNode(r)
  PROVE  SshInv'
<1> DEFINE s == [runner[r] EXCEPT !.pc = "save"]
<1>1. /\ Put(r, s) \/ Put(r, Resting)
      /\ UNCHANGED <<taskVars, nodeVars, sshLog, begun, shared>> /\ runner[r].pc = "node"
  BY DEF CheckSshNode, RunnerAt, Proceed
<1>2. OnTask(r) \in Task
  BY <1>1, RunnerFacts DEF RunnerAt
<1>3. s \in RunnerState /\ s.pc = "save" /\ s.on = OnTask(r)
  <2>1. runner[r] \in RunnerState
    BY RunnerFacts
  <2>2. s \in RunnerState
    BY <2>1, MovedRunner DEF Stage
  <2> HIDE DEF RunnerState
  <2> QED BY <2>1, <2>2, RunnerFields DEF OnTask
<1> HIDE DEF s
<1>4. CASE Put(r, s)
  <2>1. runner'[r] = s
    BY <1>4, RunnerFacts DEF Put
  <2>2. RunnerConsistent(r)'
    BY <1>1, <1>3, <2>1, RunnerFacts DEF RunnerConsistent, RunnerAt, OnTask, Exists, taskVars
  <2>3. sshLog' \in [Task -> SUBSET {"zero", "nonzero"}] /\ \A t \in Task : sshLog[t] \subseteq sshLog'[t]
    BY <1>1, RunnerFacts
  <2> QED BY <1>1, <1>3, <1>4, <2>2, <2>3, QuietStep
<1> QED BY <1>1, <1>4, RunnerRests

LEMMA LogKeeps ==
  ASSUME SshInv, NEW r \in Runner, LogSsh(r)
  PROVE  SshInv'
<1> DEFINE s == [runner[r] EXCEPT !.pc = "complete"]
<1>1. /\ Put(r, s) /\ runner[r].pc = "log"
      /\ sshLog' = [sshLog EXCEPT ![OnTask(r)] = @ \cup {runner[r].code}]
      /\ UNCHANGED <<taskVars, nodeVars, begun, shared>>
  BY DEF LogSsh, RunnerAt, Proceed
<1>2. OnTask(r) \in Task /\ runner[r].code \in {"zero", "nonzero"}
  BY <1>1, RunnerFacts DEF RunnerAt, RunnerConsistent
<1>3. s \in RunnerState /\ s.pc = "complete" /\ s.on = OnTask(r) /\ s.code = runner[r].code
  <2>1. runner[r] \in RunnerState
    BY RunnerFacts
  <2>2. s \in RunnerState
    BY <2>1, MovedRunner DEF Stage
  <2> HIDE DEF RunnerState
  <2> QED BY <2>1, <2>2, RunnerFields DEF OnTask
<1> HIDE DEF s
<1>4. runner'[r] = s
  BY <1>1, RunnerFacts DEF Put
<1>5. runner[r].code \in sshLog'[OnTask(r)]
  BY <1>1, <1>2, RunnerFacts
<1>6. RunnerConsistent(r)'
  BY <1>1, <1>2, <1>3, <1>4, <1>5, RunnerFacts
     DEF RunnerConsistent, RunnerAt, OnTask, Exists, taskVars
<1>7. sshLog' \in [Task -> SUBSET {"zero", "nonzero"}] /\ \A t \in Task : sshLog[t] \subseteq sshLog'[t]
  BY <1>1, <1>2, RunnerFacts
<1> QED BY <1>1, <1>3, <1>6, <1>7, QuietStep

\* save_task of the copy: whatever the row was, it is running now.
LEMMA SaveRunningKeeps ==
  ASSUME SshInv, NEW r \in Runner, SaveRunning(r)
  PROVE  SshInv'
<1> DEFINE s   == [runner[r] EXCEPT !.pc = "ssh"]
           row == [runner[r].copy EXCEPT !.status = "running"]
           t   == OnTask(r)
<1>1. /\ Put(r, s) /\ runner[r].pc = "save" /\ tasks' = [tasks EXCEPT ![t] = row]
      /\ UNCHANGED <<trail, announced, nodeVars, sshLog, begun, shared>>
  BY DEF SaveRunning, RunnerAt, Proceed
<1>2. t \in Task /\ runner[r] \in RunnerState /\ RunnerConsistent(r)
  BY <1>1, RunnerFacts DEF RunnerAt
<1>3. row \in TaskRow /\ row.status = "running"
  <2>1. runner[r].copy \in TaskRow
    BY <1>2 DEF RunnerState
  <2>2. "running" \in TaskStatus
    BY DEF TaskStatus
  <2> QED BY <2>1, <2>2 DEF TaskRow
<1>4. s \in RunnerState
  BY <1>2, MovedRunner DEF Stage
<1>5. s.pc = "ssh" /\ s.on = t
  BY <1>2, <1>4, RunnerFields DEF OnTask
<1> HIDE DEF s, row
<1>6. /\ runner' \in [Runner -> RunnerState] /\ runner'[r] = s
      /\ \A q \in Runner \ {r} : runner'[q] = runner[q]
  BY <1>1, <1>4, RunnerFacts DEF Put
<1>7. /\ tasks' \in [Task -> TaskRow] /\ tasks'[t] = row
      /\ \A u \in Task \ {t} : tasks'[u] = tasks[u]
  BY <1>1, <1>2, <1>3, RunnerFacts
<1> HIDE DEF t
<1>8. SshTypeOK'
  BY <1>1, <1>6, <1>7 DEF SshInv, SshTypeOK, TaskStoreTypeOK, NodeRowsTypeOK, nodeVars
<1>9. SshResultIsLogged'
  BY <1>1, <1>3, <1>7 DEF SshInv, SshResultIsLogged, Terminal, TerminalStatus
<1>10. RunnerConsistent(r)'
  BY <1>1, <1>2, <1>3, <1>5, <1>6, <1>7, NoSshTaskIsFresh DEF RunnerConsistent, RunnerAt, OnTask, Exists, t
<1>11. /\ \A u \in Task : Exists(u) => Exists(u)'
       /\ \A u \in Task : tasks[u].status # "pending" /\ Exists(u) => tasks'[u].status # "pending"
       /\ \A u \in Task : sshLog[u] \subseteq sshLog'[u]
  BY <1>1, <1>3, <1>7 DEF Exists
<1>12. OnTask(r)' \in {OnTask(r), NoSshTask}
  BY <1>5, <1>6 DEF OnTask, t
<1>13. runner[r].pc \in {"load", "node", "save", "ssh"} /\ UNCHANGED <<begun, shared>>
  BY <1>1
<1> QED BY <1>6, <1>8, <1>9, <1>10, <1>11, <1>12, <1>13, RunnerGoesOn

\* complete_task: the exit code it stores was logged by the runner.
LEMMA CompleteKeeps ==
  ASSUME SshInv, NEW r \in Runner, CompleteSsh(r)
  PROVE  SshInv'
<1> DEFINE t == OnTask(r)
<1>1. /\ Put(r, Resting) /\ runner[r].pc = "complete"
      /\ UNCHANGED <<announced, nodeVars, sshLog, begun, shared>>
  BY DEF CompleteSsh, RunnerAt
<1>2. t \in Task /\ RunnerConsistent(r)
  BY <1>1, RunnerFacts DEF RunnerAt
<1>3. /\ runner[r].code \in {"zero", "nonzero"} /\ runner[r].code \in sshLog[t]
      /\ begun[t] > 0
  BY <1>1, <1>2 DEF RunnerConsistent, RunnerAt
<1>4. CASE ~CanComplete(t)
  BY <1>1, <1>4, RunnerRests DEF CompleteSsh, taskVars
<1>5. CASE CanComplete(t)
  <2> DEFINE row == CompletedRow(tasks[t], runner[r].code)
  <2>1. CompleteTask(t, runner[r].code)
    BY <1>5 DEF CompleteSsh
  <2>2. tasks[t] \in TaskRow /\ runner[r].code \in ExitCode
    BY <1>2, <1>3, RunnerFacts DEF ExitCode
  <2>3. row \in TaskRow /\ row.status \in TerminalStatus /\ row.exit = runner[r].code
    BY <2>2, CompletedType
  <2>4. tasks' = [tasks EXCEPT ![t] = row]
    BY <2>1 DEF CompleteTask
  <2> HIDE DEF row
  <2>5. /\ tasks' \in [Task -> TaskRow] /\ tasks'[t] = row
        /\ \A u \in Task \ {t} : tasks'[u] = tasks[u]
    BY <1>2, <2>3, <2>4, RunnerFacts
  <2>6. trail' \in [Task -> Seq(AuditAction)]
    <3>1. trail \in [Task -> Seq(AuditAction)]
      BY DEF SshInv, SshTypeOK, TaskStoreTypeOK
    <3> DEFINE event == IF runner[r].code = "zero" THEN "result/succeeded" ELSE "result/failed"
    <3>2. event \in AuditAction /\ trail' = [trail EXCEPT ![t] = Append(@, event)]
      BY <2>1 DEF AuditAction, CompleteTask
    <3> HIDE DEF event
    <3>3. Append(trail[t], event) \in Seq(AuditAction)
      BY <1>2, <3>1, <3>2
    <3> QED BY <3>1, <3>2, <3>3
  <2> HIDE DEF t
  <2>7. runner'[r] = Resting /\ \A q \in Runner \ {r} : runner'[q] = runner[q]
    BY <1>1, RunnerFacts DEF Put
  <2>8. Resting.pc = "idle" /\ Resting.on = NoSshTask
    BY DEF Resting
  <2>9. SshTypeOK'
    <3>1. runner' \in [Runner -> RunnerState]
      BY <1>1, RestingIsAState, RunnerFacts DEF Put
    <3> QED BY <1>1, <2>5, <2>6, <3>1
            DEF SshInv, SshTypeOK, TaskStoreTypeOK, NodeRowsTypeOK, nodeVars
  <2>10. SshResultIsLogged'
    BY <1>1, <1>3, <2>3, <2>5 DEF SshInv, SshResultIsLogged, Terminal
  <2>11. RunnerConsistent(r)'
    BY <2>7, <2>8 DEF RunnerConsistent, RunnerAt, OnTask
  <2>12. /\ \A u \in Task : Exists(u) => Exists(u)'
         /\ \A u \in Task : tasks[u].status # "pending" /\ Exists(u) => tasks'[u].status # "pending"
         /\ \A u \in Task : sshLog[u] \subseteq sshLog'[u]
    BY <1>1, <2>3, <2>5 DEF Exists, TerminalStatus
  <2>13. OnTask(r)' = NoSshTask /\ runner'[r].pc = "idle" /\ UNCHANGED <<begun, shared>>
    BY <1>1, <2>7, <2>8 DEF OnTask
  <2> QED BY <2>7, <2>9, <2>10, <2>11, <2>12, <2>13, RunnerGoesOn
<1> QED BY <1>4, <1>5

\* ssh was started: for a task nobody had begun, unless two runners held it.
LEMMA BegunKeeps ==
  ASSUME SshInv, NEW r \in Runner, NEW s \in RunnerState, Put(r, s), RunnerAt(r, "ssh"),
         begun' = [begun EXCEPT ![OnTask(r)] = @ + 1],
         UNCHANGED <<taskVars, nodeVars, sshLog, shared>>,
         \/ s.pc = "log" /\ s.on = OnTask(r) /\ s.code \in {"zero", "nonzero"}
         \/ s.pc = "idle" /\ s.on = NoSshTask
  PROVE  SshInv'
<1> DEFINE t == OnTask(r)
<1>1. t \in Task /\ RunnerConsistent(r) /\ runner[r].pc = "ssh"
  BY RunnerFacts DEF RunnerAt
<1>2. tasks[t].status \notin {"absent", "pending"}
  BY <1>1 DEF RunnerConsistent, RunnerAt, Exists
<1>3. /\ runner' \in [Runner -> RunnerState] /\ runner'[r] = s
      /\ \A q \in Runner \ {r} : runner'[q] = runner[q]
  BY RunnerFacts DEF Put
<1>4. begun \in [Task -> Nat]
  BY DEF SshInv, SshTypeOK
<1>5. /\ begun' \in [Task -> Nat] /\ begun'[t] = begun[t] + 1
      /\ \A u \in Task \ {t} : begun'[u] = begun[u]
  BY <1>1, <1>4
<1>6. \A u \in Task : begun[u] > 0 => begun'[u] > 0
  BY <1>1, <1>4, <1>5
<1> HIDE DEF t
<1>7. SshTypeOK'
  BY <1>3, <1>5 DEF SshInv, SshTypeOK, TaskStoreTypeOK, NodeRowsTypeOK, taskVars, nodeVars
<1>8. SshResultIsLogged'
  BY <1>6 DEF SshInv, SshResultIsLogged, Terminal, taskVars
<1>9. ASSUME NEW q \in Runner PROVE RunnerConsistent(q)'
  <2>1. CASE q = r
    <3>1. begun'[t] > 0
      BY <1>1, <1>4, <1>5
    <3> QED BY <1>1, <1>2, <1>3, <2>1, <3>1, NoSshTaskIsFresh
            DEF RunnerConsistent, RunnerAt, OnTask, Exists, taskVars, t
  <2>2. CASE q # r
    BY <1>3, <1>6, <2>2, OthersStayConsistent DEF Exists, taskVars
  <2> QED BY <2>1, <2>2
<1>10. ASSUME NEW u \in Task PROVE BegunHasLeftQueue(u)'
  BY <1>2, <1>5 DEF SshInv, BegunHasLeftQueue, taskVars
<1>11. ASSUME NEW u \in Task PROVE HeldByOne(u)'
  <2>1. HeldByOne(u) /\ u # NoSshTask
    BY NoSshTaskIsFresh DEF SshInv
  <2>2. \A q \in Runner : OnTask(q)' = u => OnTask(q) = u
    BY <1>3, <2>1 DEF OnTask
  <2>3. CASE u # t
    <3>1. begun'[u] = begun[u]
      BY <1>5, <2>3
    <3>2. \A q \in Runner : OnTask(q)' = u => runner'[q] = runner[q]
      BY <1>3, <2>1, <2>3 DEF OnTask, t
    <3> QED BY <2>1, <2>2, <3>1, <3>2 DEF HeldByOne
  <2>4. CASE u = t
    <3> SUFFICES ASSUME u \notin shared PROVE HeldByOne(u)'
      BY DEF HeldByOne
    <3>1. /\ begun[u] = 0
          /\ \A q \in Runner \ {r} : OnTask(q) # u
      BY <1>1, <2>1, <2>4 DEF HeldByOne, t
    <3>2. begun'[u] = 1
      BY <1>5, <2>4, <3>1
    <3>3. \A q \in Runner : OnTask(q)' = u => q = r /\ runner'[q].pc = "log"
      BY <1>3, <2>1, <2>2, <3>1 DEF OnTask
    <3>4. \A q \in Runner : OnTask(q)' = u =>
            /\ \A p \in Runner \ {q} : OnTask(p)' # u
            /\ runner'[q].pc \notin {"load", "node", "save", "ssh"}
      BY <3>3
    <3> QED BY <3>2, <3>4 DEF HeldByOne
  <2> QED BY <2>3, <2>4
<1> QED BY <1>7, <1>8, <1>9, <1>10, <1>11 DEF SshInv

LEMMA ReturnKeeps ==
  ASSUME SshInv, NEW r \in Runner, NEW code \in {"zero", "nonzero"}, SshReturns(r, code)
  PROVE  SshInv'
<1> DEFINE s == [runner[r] EXCEPT !.pc = "log", !.code = code]
<1>1. runner[r] \in RunnerState /\ code \in ExitCode
  BY RunnerFacts DEF ExitCode
<1>2. s \in RunnerState
  BY <1>1, ReturnedRunner
<1>3. s.pc = "log" /\ s.on = OnTask(r) /\ s.code = code
  BY <1>1, <1>2, RunnerFields DEF OnTask
<1>4. /\ Put(r, s) /\ RunnerAt(r, "ssh") /\ begun' = [begun EXCEPT ![OnTask(r)] = @ + 1]
      /\ UNCHANGED <<taskVars, nodeVars, sshLog, shared>>
  BY DEF SshReturns
<1> HIDE DEF s
<1> QED BY <1>2, <1>3, <1>4, BegunKeeps

LEMMA TimeoutKeeps ==
  ASSUME SshInv, NEW r \in Runner, SshTimesOut(r)
  PROVE  SshInv'
<1>1. /\ Put(r, Resting) /\ RunnerAt(r, "ssh") /\ begun' = [begun EXCEPT ![OnTask(r)] = @ + 1]
      /\ UNCHANGED <<taskVars, nodeVars, sshLog, shared>>
  BY DEF SshTimesOut
<1>2. Resting.pc = "idle" /\ Resting.on = NoSshTask
  BY DEF Resting
<1> HIDE DEF Resting
<1> QED BY <1>1, <1>2, RestingIsAState, BegunKeeps

\* A runner takes up a task that waits: if nobody else holds it, nobody has begun it.
LEMMA TakeUpKeeps ==
  ASSUME SshInv, NEW r \in Runner, NEW t \in Task, RunnerAt(r, "idle"), TakeUp(r, t),
         TaskStoreTypeOK', SshResultIsLogged', Exists(t)', begun[t] = 0,
         \A u \in Task : Exists(u) => Exists(u)',
         \A u \in Task : tasks[u].status # "pending" /\ Exists(u) => tasks'[u].status # "pending",
         UNCHANGED <<nodeVars, sshLog, begun>>
  PROVE  SshInv'
<1> DEFINE s == [Resting EXCEPT !.pc = "load", !.on = t]
<1>1. s \in RunnerState /\ s.pc = "load" /\ s.on = t
  BY TakenUpRunner
<1>2. Put(r, s) /\ (\E q \in Runner \ {r} : OnTask(q) = t) => shared' = shared \cup {t}
  BY DEF TakeUp
<1>3. ~(\E q \in Runner \ {r} : OnTask(q) = t) => shared' = shared
  BY DEF TakeUp
<1>4. Put(r, s)
  BY DEF TakeUp
<1> HIDE DEF s
<1>5. /\ runner' \in [Runner -> RunnerState] /\ runner'[r] = s
      /\ \A q \in Runner \ {r} : runner'[q] = runner[q]
  BY <1>1, <1>4, RunnerFacts DEF Put
<1>6. /\ shared' \subseteq Task /\ shared \subseteq shared'
      /\ t \notin shared' => \A q \in Runner \ {r} : OnTask(q) # t
  BY <1>2, <1>3, <1>4 DEF SshInv, SshTypeOK
<1>7. SshTypeOK'
  BY <1>5, <1>6 DEF SshInv, SshTypeOK, NodeRowsTypeOK, nodeVars
<1>8. ASSUME NEW q \in Runner PROVE RunnerConsistent(q)'
  <2>1. CASE q = r
    BY <1>1, <1>5, <2>1, NoSshTaskIsFresh DEF RunnerConsistent, RunnerAt, OnTask
  <2>2. CASE q # r
    BY <1>5, <2>2, OthersStayConsistent
  <2> QED BY <2>1, <2>2
<1>9. ASSUME NEW u \in Task PROVE BegunHasLeftQueue(u)'
  BY DEF SshInv, BegunHasLeftQueue, Exists
<1>10. ASSUME NEW u \in Task PROVE HeldByOne(u)'
  <2>1. HeldByOne(u)
    BY DEF SshInv
  <2>2. CASE u # t
    <3>1. \A q \in Runner : OnTask(q)' = u => OnTask(q) = u /\ runner'[q] = runner[q]
      BY <1>1, <1>5, <2>2 DEF OnTask
    <3> QED BY <1>6, <2>1, <3>1 DEF HeldByOne
  <2>3. CASE u = t
    <3> SUFFICES ASSUME t \notin shared' PROVE HeldByOne(t)'
      BY <2>3 DEF HeldByOne
    <3>1. \A q \in Runner : OnTask(q)' = t => q = r
      BY <1>5, <1>6 DEF OnTask
    <3>2. begun'[t] = 0
      OBVIOUS
    <3> QED BY <3>1, <3>2 DEF HeldByOne
  <2> QED BY <2>2, <2>3
<1> QED BY <1>7, <1>8, <1>9, <1>10 DEF SshInv

\* create_task: the new row is pending and nobody has begun it.
LEMMA InsertFacts ==
  ASSUME SshInv, NEW t \in Task, InsertTask(t), UNCHANGED <<trail, announced, sshLog, begun>>
  PROVE  /\ TaskStoreTypeOK' /\ SshResultIsLogged' /\ Exists(t)' /\ begun[t] = 0
         /\ \A u \in Task : Exists(u) => Exists(u)'
         /\ \A u \in Task : tasks[u].status # "pending" /\ Exists(u) => tasks'[u].status # "pending"
<1>1. tasks \in [Task -> TaskRow] /\ begun \in [Task -> Nat]
  BY DEF SshInv, SshTypeOK, TaskStoreTypeOK
<1>2. /\ tasks' \in [Task -> TaskRow]
      /\ tasks[t].status = "absent" /\ tasks'[t].status = "pending"
      /\ \A u \in Task \ {t} : tasks'[u] = tasks[u]
  BY <1>1, InsertedType
<1>3. TaskStoreTypeOK'
  BY <1>2 DEF SshInv, SshTypeOK, TaskStoreTypeOK
<1>4. SshResultIsLogged'
  BY <1>2 DEF SshInv, SshResultIsLogged, Terminal, TerminalStatus
<1>5. begun[t] = 0
  BY <1>1, <1>2 DEF SshInv, BegunHasLeftQueue
<1> QED BY <1>2, <1>3, <1>4, <1>5 DEF Exists

LEMMA CreateAndRunKeeps ==
  ASSUME SshInv, NEW r \in Runner, NEW t \in Task, CreateAndRun(r, t)
  PROVE  SshInv'
<1>1. /\ RunnerAt(r, "idle") /\ InsertTask(t) /\ TakeUp(r, t)
      /\ UNCHANGED <<trail, announced, nodeVars, sshLog, begun>>
  BY DEF CreateAndRun
<1>2. /\ TaskStoreTypeOK' /\ SshResultIsLogged' /\ Exists(t)' /\ begun[t] = 0
      /\ \A u \in Task : Exists(u) => Exists(u)'
      /\ \A u \in Task : tasks[u].status # "pending" /\ Exists(u) => tasks'[u].status # "pending"
  BY <1>1, InsertFacts
<1> QED BY <1>1, <1>2, TakeUpKeeps

\* ssh-run-next: a pending row has not been begun.
LEMMA RunNextKeeps ==
  ASSUME SshInv, NEW r \in Runner, RunNext(r)
  PROVE  SshInv'
<1>1. PICK t \in Task : tasks[t].status = "pending" /\ TakeUp(r, t)
  BY DEF RunNext, Oldest, Candidates
<1>2. RunnerAt(r, "idle") /\ UNCHANGED <<taskVars, nodeVars, sshLog, begun>>
  BY DEF RunNext
<1>3. begun[t] = 0
  BY <1>1 DEF SshInv, SshTypeOK, BegunHasLeftQueue
<1>4. TaskStoreTypeOK' /\ SshResultIsLogged'
  BY <1>2 DEF SshInv, SshTypeOK, TaskStoreTypeOK, SshResultIsLogged, Terminal, taskVars
<1>5. UNCHANGED tasks
  BY <1>2 DEF taskVars
<1> QED BY <1>1, <1>2, <1>3, <1>4, <1>5, TakeUpKeeps DEF Exists

\* Whoever else writes: no runner moves, rows only come into being.
LEMMA SshOthersKeep ==
  ASSUME SshInv, TaskStoreTypeOK', NodeRowsTypeOK', SshResultIsLogged',
         \A u \in Task : Exists(u) => Exists(u)',
         \A u \in Task : tasks[u].status # "pending" /\ Exists(u) => tasks'[u].status # "pending",
         UNCHANGED <<runner, sshLog, begun, shared>>
  PROVE  SshInv'
<1>1. SshTypeOK'
  BY DEF SshInv, SshTypeOK
<1>2. ASSUME NEW q \in Runner PROVE RunnerConsistent(q)'
  BY OthersStayConsistent
<1>3. ASSUME NEW t \in Task PROVE BegunHasLeftQueue(t)'
  BY DEF SshInv, BegunHasLeftQueue, Exists
<1>4. ASSUME NEW t \in Task PROVE HeldByOne(t)'
  BY DEF SshInv, HeldByOne, OnTask
<1> QED BY <1>1, <1>2, <1>3, <1>4 DEF SshInv

LEMMA SshStutter == SshInv /\ UNCHANGED sshVars => SshInv'
<1> SUFFICES ASSUME SshInv, UNCHANGED sshVars PROVE SshInv'
  OBVIOUS
<1>1. UNCHANGED <<taskVars, nodeVars, runner, sshLog, begun, shared>>
  BY DEF sshVars
<1>2. TaskStoreTypeOK' /\ NodeRowsTypeOK' /\ SshResultIsLogged' /\ UNCHANGED tasks
  BY <1>1 DEF SshInv, SshTypeOK, TaskStoreTypeOK, NodeRowsTypeOK, SshResultIsLogged, Terminal,
              taskVars, nodeVars
<1> QED BY <1>1, <1>2, SshOthersKeep DEF Exists

LEMMA SshNextKeeps == SshInv /\ SshNext => SshInv'
<1> SUFFICES ASSUME SshInv, SshNext PROVE SshInv'
  OBVIOUS
<1>1. ASSUME NEW r \in Runner, RunnerStep(r) PROVE SshInv'
  <2>1. CASE RunNext(r)
    BY <2>1, RunNextKeeps
  <2>2. CASE LoadSshTask(r)
    BY <2>2, LoadKeeps
  <2>3. CASE CheckSshNode(r)
    BY <2>3, CheckKeeps
  <2>4. CASE SaveRunning(r)
    BY <2>4, SaveRunningKeeps
  <2>5. CASE SshTimesOut(r)
    BY <2>5, TimeoutKeeps
  <2>6. CASE LogSsh(r)
    BY <2>6, LogKeeps
  <2>7. CASE CompleteSsh(r)
    BY <2>7, CompleteKeeps
  <2>8. CASE RunnerDies(r)
    BY <2>8, RunnerRests DEF RunnerDies
  <2>9. CASE \E t \in Task : CreateAndRun(r, t)
    BY <2>9, CreateAndRunKeeps
  <2>10. CASE \E code \in {"zero", "nonzero"} : SshReturns(r, code)
    BY <2>10, ReturnKeeps
  <2> QED BY <1>1, <2>1, <2>2, <2>3, <2>4, <2>5, <2>6, <2>7, <2>8, <2>9, <2>10 DEF RunnerStep
<1>2. ASSUME NEW t \in Task, CreateSshTask(t) PROVE SshInv'
  <2>1. InsertTask(t) /\ UNCHANGED <<trail, announced, nodeVars, runner, sshLog, begun, shared>>
    BY <1>2 DEF CreateSshTask
  <2>2. /\ TaskStoreTypeOK' /\ SshResultIsLogged'
        /\ \A u \in Task : Exists(u) => Exists(u)'
        /\ \A u \in Task : tasks[u].status # "pending" /\ Exists(u) => tasks'[u].status # "pending"
    BY <2>1, InsertFacts
  <2>3. NodeRowsTypeOK'
    BY <2>1 DEF SshInv, SshTypeOK, NodeRowsTypeOK, nodeVars
  <2> QED BY <2>1, <2>2, <2>3, SshOthersKeep
<1>3. ASSUME NEW t \in Task, AnnounceTask(t), UNCHANGED <<nodeVars, runner, sshLog, begun, shared>>
      PROVE  SshInv'
  <2>1. TaskStoreTypeOK' /\ UNCHANGED tasks
    BY <1>3 DEF AnnounceTask, SshInv, SshTypeOK, TaskStoreTypeOK
  <2>2. NodeRowsTypeOK' /\ SshResultIsLogged'
    BY <1>3, <2>1 DEF SshInv, SshTypeOK, NodeRowsTypeOK, SshResultIsLogged, Terminal, nodeVars
  <2> QED BY <1>3, <2>1, <2>2, SshOthersKeep DEF Exists
<1>4. ASSUME NEW o \in Operator, OperatorStep(o), UNCHANGED <<taskVars, runner, sshLog, begun, shared>>
      PROVE  SshInv'
  <2>1. NodeRowsTypeOK'
    BY <1>4, EditTypes DEF SshInv, SshTypeOK
  <2>2. TaskStoreTypeOK' /\ SshResultIsLogged' /\ UNCHANGED tasks
    BY <1>4 DEF SshInv, SshTypeOK, TaskStoreTypeOK, SshResultIsLogged, Terminal, taskVars
  <2> QED BY <1>4, <2>1, <2>2, SshOthersKeep DEF Exists
<1> QED BY <1>1, <1>2, <1>3, <1>4 DEF SshNext
------------------------------------------------------------------------------
(* Tasks that no two runners held follow the abstract life cycle. *)

\* The life of the tasks in T as TaskLifecycle tells it.
LifeOf(T) == INSTANCE TaskLifecycle
  WITH Task <- T, life <- [t \in T |-> tasks[t].status], begun <- [t \in T |-> begun[t]]

\* Without a second holder the row of a task says how far its runner is: it is pending
\* until the runner's save and running from then on.
RowFollows(t) ==
  t \notin shared =>
    \A r \in Runner : OnTask(r) = t =>
      /\ runner[r].pc \in {"load", "node", "save"} => tasks[t].status = "pending"
      /\ runner[r].pc \in {"ssh", "log", "complete"} => tasks[t].status = "running"

RowsFollow == \A t \in Task : RowFollows(t)

\* A runner writes the row of its own task only, and goes on with it, rests or takes one up.
LEMMA RunnerStepFrame ==
  ASSUME SshInv, NEW r \in Runner, RunnerStep(r)
  PROVE  /\ shared \subseteq shared'
         /\ \A q \in Runner \ {r} : runner'[q] = runner[q]
         /\ \A t \in Task : OnTask(r) # t /\ OnTask(r)' # t =>
                              tasks'[t] = tasks[t] /\ begun'[t] = begun[t]
<1>1. /\ runner \in [Runner -> RunnerState]
      /\ tasks \in [Task -> TaskRow] /\ begun \in [Task -> Nat]
  BY DEF SshInv, SshTypeOK, TaskStoreTypeOK
<1>2. ASSUME NEW t \in Task, CreateAndRun(r, t)
      PROVE  /\ shared \subseteq shared' /\ OnTask(r)' = t /\ UNCHANGED begun
             /\ \A q \in Runner \ {r} : runner'[q] = runner[q]
             /\ \A u \in Task \ {t} : tasks'[u] = tasks[u]
  BY <1>1, <1>2, TakenUpRunner DEF CreateAndRun, InsertTask, TakeUp, Put, OnTask
<1>3. CASE \/ LoadSshTask(r) \/ CheckSshNode(r) \/ LogSsh(r) \/ RunnerDies(r)
  BY <1>1, <1>3 DEF LoadSshTask, CheckSshNode, LogSsh, RunnerDies, Proceed, Put, taskVars
<1>4. CASE RunNext(r)
  BY <1>1, <1>4 DEF RunNext, TakeUp, Put, taskVars
<1>5. CASE SaveRunning(r)
  BY <1>1, <1>5 DEF SaveRunning, Proceed, Put
<1>6. CASE SshTimesOut(r) \/ \E code \in {"zero", "nonzero"} : SshReturns(r, code)
  BY <1>1, <1>6 DEF SshTimesOut, SshReturns, Put, taskVars
<1>7. CASE CompleteSsh(r)
  BY <1>1, <1>7 DEF CompleteSsh, CompleteTask, Put
<1> QED BY <1>2, <1>3, <1>4, <1>5, <1>6, <1>7 DEF RunnerStep

\* A task a runner takes up is shared unless nobody else is on it.
LEMMA TakenUpAlone ==
  ASSUME SshInv, NEW r \in Runner, NEW t \in Task, TakeUp(r, t)
  PROVE  /\ OnTask(r)' = t /\ runner'[r].pc = "load"
         /\ t \notin shared' => \A q \in Runner \ {r} : OnTask(q) # t
BY TakenUpRunner DEF SshInv, SshTypeOK, TakeUp, Put, OnTask

\* What the runner that moves knows of its row afterwards.
LEMMA MoverFollows ==
  ASSUME SshInv, RowsFollow, NEW r \in Runner, RunnerStep(r), NEW t \in Task,
         t \notin shared', OnTask(r)' = t
  PROVE  /\ runner'[r].pc \in {"load", "node", "save"} => tasks'[t].status = "pending"
         /\ runner'[r].pc \in {"ssh", "log", "complete"} => tasks'[t].status = "running"
<1>0. /\ runner[r] \in RunnerState /\ runner \in [Runner -> RunnerState]
      /\ tasks \in [Task -> TaskRow] /\ RunnerConsistent(r) /\ t # NoSshTask
  BY RunnerFacts, NoSshTaskIsFresh
<1>1. t \notin shared
  BY RunnerStepFrame
<1>2. OnTask(r) = t =>
        /\ runner[r].pc \in {"load", "node", "save"} => tasks[t].status = "pending"
        /\ runner[r].pc \in {"ssh", "log", "complete"} => tasks[t].status = "running"
  BY <1>1 DEF RowsFollow, RowFollows
<1>3. ASSUME NEW u \in Task, CreateAndRun(r, u)
      PROVE  runner'[r].pc = "load" /\ tasks'[t].status = "pending"
  <2>1. t = u /\ runner'[r].pc = "load"
    BY <1>3, TakenUpAlone DEF CreateAndRun
  <2> QED BY <1>0, <1>3, <2>1, InsertedType DEF CreateAndRun
<1>4. ASSUME RunNext(r)
      PROVE  runner'[r].pc = "load" /\ tasks'[t].status = "pending"
  <2>1. PICK u \in Task : tasks[u].status = "pending" /\ TakeUp(r, u)
    BY <1>4 DEF RunNext, Oldest, Candidates
  <2>2. u = t /\ runner'[r].pc = "load"
    BY <2>1, TakenUpAlone
  <2> QED BY <1>4, <2>1, <2>2 DEF RunNext, taskVars
<1>5. CASE LoadSshTask(r)
  <2>1. runner'[r].pc = "node" /\ OnTask(r) = t /\ UNCHANGED tasks
    BY <1>0, <1>5, RunnerFields DEF LoadSshTask, Put, OnTask, taskVars
  <2> QED BY <1>2, <1>5, <2>1 DEF LoadSshTask, RunnerAt
<1>6. CASE CheckSshNode(r)
  <2>1. ~Put(r, Resting)
    BY <1>0 DEF Put, OnTask, Resting
  <2>2. Proceed(r, "save") /\ RunnerAt(r, "node") /\ UNCHANGED tasks
    BY <1>6, <2>1 DEF CheckSshNode, taskVars
  <2>3. runner'[r].pc = "save" /\ OnTask(r) = t
    BY <1>0, <2>2, RunnerFields DEF Proceed, Put, OnTask
  <2> QED BY <1>2, <2>2, <2>3 DEF RunnerAt
<1>7. CASE SaveRunning(r)
  <2>1. runner'[r].pc = "ssh" /\ OnTask(r) = t
    BY <1>0, <1>7, RunnerFields DEF SaveRunning, Proceed, Put, OnTask
  <2>2. runner[r].copy \in TaskRow
    BY <1>0 DEF RunnerState
  <2>3. tasks'[t].status = "running"
    BY <1>0, <1>7, <2>1, <2>2 DEF SaveRunning, TaskRow
  <2> QED BY <2>1, <2>3
<1>8. CASE \E code \in {"zero", "nonzero"} : SshReturns(r, code)
  <2>1. runner'[r].pc = "log" /\ OnTask(r) = t /\ RunnerAt(r, "ssh") /\ UNCHANGED tasks
    BY <1>0, <1>8, RunnerFields DEF SshReturns, Put, OnTask, taskVars
  <2> QED BY <1>2, <2>1 DEF RunnerAt
<1>9. CASE LogSsh(r)
  <2>1. runner'[r].pc = "complete" /\ OnTask(r) = t /\ RunnerAt(r, "log") /\ UNCHANGED tasks
    BY <1>0, <1>9, RunnerFields DEF LogSsh, Proceed, Put, OnTask, taskVars
  <2> QED BY <1>2, <2>1 DEF RunnerAt
<1>10. CASE SshTimesOut(r) \/ CompleteSsh(r) \/ RunnerDies(r)
  BY <1>0, <1>10 DEF SshTimesOut, CompleteSsh, RunnerDies, Put, OnTask, Resting
<1> QED BY <1>3, <1>4, <1>5, <1>6, <1>7, <1>8, <1>9, <1>10 DEF RunnerStep

\* No runner moves, and no row that exists changes.
LEMMA OthersFollow ==
  ASSUME SshInv, RowsFollow, UNCHANGED <<runner, shared>>,
         \A t \in Task : Exists(t) => tasks'[t] = tasks[t]
  PROVE  RowsFollow'
<1> SUFFICES ASSUME NEW t \in Task, t \notin shared, NEW r \in Runner, OnTask(r) = t
             PROVE  /\ runner[r].pc \in {"load", "node", "save"} => tasks'[t].status = "pending"
                    /\ runner[r].pc \in {"ssh", "log", "complete"} => tasks'[t].status = "running"
  BY DEF RowsFollow, RowFollows, OnTask
<1>1. ~RunnerAt(r, "idle")
  BY RunnerFacts, NoSshTaskIsFresh DEF RunnerConsistent
<1>2. Exists(t)
  BY <1>1, RunnerFacts DEF RunnerConsistent
<1> QED BY <1>2 DEF RowsFollow, RowFollows

\* create_task leaves every row alone that is there.
LEMMA InsertSpares ==
  ASSUME SshInv, NEW t \in Task, InsertTask(t)
  PROVE  /\ tasks[t].status = "absent" /\ tasks'[t].status = "pending"
         /\ \A u \in Task \ {t} : tasks'[u] = tasks[u]
         /\ \A u \in Task : Exists(u) => tasks'[u] = tasks[u]
<1>1. tasks \in [Task -> TaskRow]
  BY DEF SshInv, SshTypeOK, TaskStoreTypeOK
<1> QED BY <1>1, InsertedType DEF Exists

LEMMA RowsFollowStep == SshInv /\ RowsFollow /\ [SshNext]_sshVars => RowsFollow'
<1> SUFFICES ASSUME SshInv, RowsFollow, [SshNext]_sshVars PROVE RowsFollow'
  OBVIOUS
<1>1. ASSUME NEW r \in Runner, RunnerStep(r) PROVE RowsFollow'
  <2> SUFFICES ASSUME NEW t \in Task, t \notin shared', NEW q \in Runner, OnTask(q)' = t
               PROVE  /\ runner'[q].pc \in {"load", "node", "save"} => tasks'[t].status = "pending"
                      /\ runner'[q].pc \in {"ssh", "log", "complete"} => tasks'[t].status = "running"
    BY DEF RowsFollow, RowFollows, OnTask
  <2>1. CASE q = r
    BY <1>1, <2>1, MoverFollows
  <2>2. CASE q # r
    <3>1. runner'[q] = runner[q] /\ OnTask(q) = t /\ t \notin shared
      BY <1>1, <2>2, RunnerStepFrame DEF OnTask
    <3>2. OnTask(r) # t
      BY <2>2, <3>1 DEF SshInv, HeldByOne
    <3>3. HeldByOne(t)'
      BY <1>1, SshNextKeeps DEF SshNext, SshInv
    <3>4. OnTask(r)' # t
      BY <2>2, <3>3 DEF HeldByOne, OnTask
    <3> QED BY <1>1, <3>1, <3>2, <3>4, RunnerStepFrame DEF RowsFollow, RowFollows
  <2> QED BY <2>1, <2>2
<1>2. ASSUME NEW t \in Task, CreateSshTask(t) PROVE RowsFollow'
  BY <1>2, InsertSpares, OthersFollow DEF CreateSshTask
<1>3. ASSUME NEW t \in Task, AnnounceTask(t), UNCHANGED <<nodeVars, runner, sshLog, begun, shared>>
      PROVE  RowsFollow'
  BY <1>3, OthersFollow DEF AnnounceTask
<1>4. ASSUME NEW o \in Operator, OperatorStep(o), UNCHANGED <<taskVars, runner, sshLog, begun, shared>>
      PROVE  RowsFollow'
  BY <1>4, OthersFollow DEF taskVars
<1>5. CASE UNCHANGED sshVars
  BY <1>5, OthersFollow DEF sshVars, taskVars
<1> QED BY <1>1, <1>2, <1>3, <1>4, <1>5 DEF SshNext
\* A step that changes neither rows nor begun leaves the life of every task as it is.
LEMMA AloneStutters ==
  ASSUME NEW T \in SUBSET Task,
         \A t \in T : tasks'[t].status = tasks[t].status /\ begun'[t] = begun[t]
  PROVE  UNCHANGED LifeOf(T)!lifeVars
BY DEF LifeOf!lifeVars

\* Each step of a runner on a task nobody else holds is a step of the life cycle:
\* the insert submits, the save hands out, ssh begins, complete_task judges.
LEMMA RunnerStepIsLife ==
  ASSUME SshInv, RowsFollow, NEW r \in Runner, RunnerStep(r),
         NEW T \in SUBSET Task, T \cap shared' = {}
  PROVE  LifeOf(T)!LifeNext \/ UNCHANGED LifeOf(T)!lifeVars
<1>0. /\ runner[r] \in RunnerState /\ runner \in [Runner -> RunnerState]
      /\ tasks \in [Task -> TaskRow] /\ begun \in [Task -> Nat] /\ RunnerConsistent(r)
      /\ ~RunnerAt(r, "idle") => OnTask(r) \in Task
  BY RunnerFacts DEF SshInv, SshTypeOK
<1>1. \A t \in T : t \notin shared /\ t \notin shared'
  BY RunnerStepFrame
<1>2. ASSUME NEW t \in Task, CreateAndRun(r, t)
      PROVE  LifeOf(T)!LifeNext \/ UNCHANGED LifeOf(T)!lifeVars
  <2>1. /\ tasks[t].status = "absent" /\ tasks'[t].status = "pending" /\ UNCHANGED begun
        /\ \A u \in Task \ {t} : tasks'[u] = tasks[u]
    BY <1>2, InsertSpares DEF CreateAndRun
  <2>2. CASE t \in T
    <3>1. LifeOf(T)!Submit(t)
      BY <2>1, <2>2 DEF LifeOf!Submit
    <3> QED BY <2>2, <3>1 DEF LifeOf!LifeNext
  <2>3. CASE t \notin T
    BY <2>1, <2>3, AloneStutters
  <2> QED BY <2>2, <2>3
<1>3. CASE RunNext(r) \/ LoadSshTask(r) \/ CheckSshNode(r) \/ LogSsh(r) \/ RunnerDies(r)
  <2>1. UNCHANGED <<tasks, begun>>
    BY <1>3 DEF RunNext, LoadSshTask, CheckSshNode, LogSsh, RunnerDies, taskVars
  <2> QED BY <2>1, AloneStutters
<1>4. CASE SaveRunning(r)
  <2>0. PICK t \in Task : t = OnTask(r)
    BY <1>0, <1>4 DEF SaveRunning, RunnerAt
  <2>1. runner[r].copy \in TaskRow
    BY <1>0 DEF RunnerState
  <2>2. /\ tasks'[t].status = "running" /\ UNCHANGED begun
        /\ \A u \in Task \ {t} : tasks'[u] = tasks[u]
    BY <1>0, <1>4, <2>0, <2>1 DEF SaveRunning, TaskRow
  <2>3. CASE t \in T
    <3>1. tasks[t].status = "pending"
      BY <1>1, <1>4, <2>0, <2>3 DEF RowsFollow, RowFollows, SaveRunning, RunnerAt
    <3>2. LifeOf(T)!HandOut(t)
      BY <2>2, <2>3, <3>1 DEF LifeOf!HandOut
    <3> QED BY <2>3, <3>2 DEF LifeOf!LifeNext
  <2>4. CASE t \notin T
    BY <2>2, <2>4, AloneStutters
  <2> QED BY <2>3, <2>4
<1>5. CASE SshTimesOut(r) \/ \E code \in {"zero", "nonzero"} : SshReturns(r, code)
  <2>0. PICK t \in Task : t = OnTask(r)
    BY <1>0, <1>5 DEF SshTimesOut, SshReturns, RunnerAt
  <2>1. /\ RunnerAt(r, "ssh") /\ UNCHANGED tasks /\ begun' = [begun EXCEPT ![t] = @ + 1]
    BY <1>5, <2>0 DEF SshTimesOut, SshReturns, taskVars
  <2>2. CASE t \in T
    <3>1. tasks[t].status = "running" /\ begun[t] = 0
      BY <1>1, <2>0, <2>1, <2>2 DEF RowsFollow, RowFollows, RunnerAt, SshInv, HeldByOne
    <3>2. begun' = [begun EXCEPT ![t] = 1]
      BY <1>0, <2>1, <3>1
    <3>3. LifeOf(T)!Begin(t)
      BY <1>0, <2>1, <2>2, <3>1, <3>2 DEF LifeOf!Begin
    <3> QED BY <2>2, <3>3 DEF LifeOf!LifeNext
  <2>3. CASE t \notin T
    BY <1>0, <2>1, <2>3, AloneStutters
  <2> QED BY <2>2, <2>3
<1>6. CASE CompleteSsh(r)
  <2>0. PICK t \in Task : t = OnTask(r)
    BY <1>0, <1>6 DEF CompleteSsh, RunnerAt
  <2>1. UNCHANGED begun /\ (UNCHANGED tasks \/ CompleteTask(t, runner[r].code))
    BY <1>6, <2>0 DEF CompleteSsh
  <2>2. CASE UNCHANGED tasks
    BY <2>1, <2>2, AloneStutters
  <2>3. CASE CompleteTask(t, runner[r].code)
    <3>1. \A u \in Task \ {t} : tasks'[u] = tasks[u]
      BY <1>0, <2>3 DEF CompleteTask
    <3>2. tasks'[t].status = IF runner[r].code = "zero" THEN "succeeded" ELSE "failed"
      BY <1>0, <2>3 DEF CompleteTask, CompletedRow, TaskRow
    <3>3. CASE t \in T
      <4>1. tasks[t].status = "running"
        BY <1>1, <1>6, <2>0, <3>3 DEF RowsFollow, RowFollows, CompleteSsh, RunnerAt
      <4>2. begun[t] = 1
        <5>1. begun[t] > 0
          BY <1>0, <1>6, <2>0 DEF RunnerConsistent, CompleteSsh, RunnerAt
        <5>2. begun[t] <= 1
          BY <1>1, <3>3 DEF SshInv, HeldByOne
        <5> QED BY <1>0, <5>1, <5>2
      <4>3. CASE runner[r].code = "zero"
        <5>1. LifeOf(T)!Succeed(t)
          BY <2>1, <3>1, <3>2, <3>3, <4>1, <4>2, <4>3 DEF LifeOf!Succeed
        <5> QED BY <3>3, <5>1 DEF LifeOf!LifeNext
      <4>4. CASE runner[r].code # "zero"
        <5>1. LifeOf(T)!GiveUp({t})
          BY <2>1, <3>1, <3>2, <3>3, <4>1, <4>4 DEF LifeOf!GiveUp
        <5> QED BY <3>3, <5>1 DEF LifeOf!LifeNext
      <4> QED BY <4>3, <4>4
    <3>4. CASE t \notin T
      BY <2>1, <3>1, <3>4, AloneStutters
    <3> QED BY <3>3, <3>4
  <2> QED BY <2>1, <2>2, <2>3
<1> QED BY <1>2, <1>3, <1>4, <1>5, <1>6 DEF RunnerStep

LEMMA AloneInit ==
  ASSUME NEW T \in SUBSET Task, SshInit
  PROVE  LifeOf(T)!LifeInit
BY DEF LifeOf!LifeInit, SshInit, TaskStoreInit, NoRow

LEMMA SshStepIsLife ==
  ASSUME NEW T \in SUBSET Task, SshInv, RowsFollow, [SshNext]_sshVars, T \cap shared' = {}
  PROVE  [LifeOf(T)!LifeNext]_(LifeOf(T)!lifeVars)
<1>1. ASSUME NEW r \in Runner, RunnerStep(r)
      PROVE  LifeOf(T)!LifeNext \/ UNCHANGED LifeOf(T)!lifeVars
  BY <1>1, RunnerStepIsLife
<1>2. ASSUME NEW t \in Task, CreateSshTask(t)
      PROVE  LifeOf(T)!LifeNext \/ UNCHANGED LifeOf(T)!lifeVars
  <2>1. /\ tasks[t].status = "absent" /\ tasks'[t].status = "pending" /\ UNCHANGED begun
        /\ \A u \in Task \ {t} : tasks'[u] = tasks[u]
    BY <1>2, InsertSpares DEF CreateSshTask
  <2>2. CASE t \in T
    <3>1. LifeOf(T)!Submit(t)
      BY <2>1, <2>2 DEF LifeOf!Submit
    <3> QED BY <2>2, <3>1 DEF LifeOf!LifeNext
  <2>3. CASE t \notin T
    BY <2>1, <2>3, AloneStutters
  <2> QED BY <2>2, <2>3
<1>3. CASE \/ \E t \in Task : AnnounceTask(t) /\ UNCHANGED <<nodeVars, runner, sshLog, begun, shared>>
           \/ \E o \in Operator : OperatorStep(o) /\ UNCHANGED <<taskVars, runner, sshLog, begun, shared>>
           \/ UNCHANGED sshVars
  <2>1. UNCHANGED <<tasks, begun>>
    BY <1>3 DEF AnnounceTask, taskVars, sshVars
  <2> QED BY <2>1, AloneStutters
<1> QED BY <1>1, <1>2, <1>3 DEF SshNext
------------------------------------------------------------------------------
(* Theorems *)

\* What runners know of the rows between their transactions holds for any number of tasks
\* and of runners, wherever they overlap, time out or die (run_ssh_task).
THEOREM SshInvariance == SshSpec => []SshInv
<1>1. SshInv /\ [SshNext]_sshVars => SshInv'
  BY SshNextKeeps, SshStutter
<1> QED BY <1>1, SshInitHolds, PTL DEF SshSpec

\* Rows, runners, node edits and the log keep their types.
THEOREM SshTypeCorrect == SshSpec => []SshTypeOK
BY SshInvariance, PTL DEF SshInv

\* The row of a task tells how far its only runner is (run_ssh_task saves it as running
\* before it starts ssh, complete_task reads it again).
LEMMA RowsFollowAlways == SshSpec => []RowsFollow
<1>1. SshInit => RowsFollow
  BY NoSshTaskIsFresh DEF SshInit, RowsFollow, RowFollows, OnTask, Resting
<1> QED BY <1>1, RowsFollowStep, SshInvariance, PTL DEF SshSpec

\* run_ssh_task has no claim: ssh is started once for a task no two runners held.
THEOREM SshIsBegunOnce == SshSpec => []SshBegunOnce
<1>1. SshInv => SshBegunOnce
  BY DEF SshInv, HeldByOne, SshBegunOnce
<1> QED BY <1>1, SshInvariance, PTL

\* A finished row carries an exit code ssh returned and the audit log has (complete_task
\* after record_audit "ssh_execute").
THEOREM SshResultsAreLogged == SshSpec => []SshResultIsLogged
BY SshInvariance, PTL DEF SshInv
\* run_ssh_task follows the life cycle the worker protocol implements, for any set of tasks
\* no two runners held at once, whatever happens to the others: submitted, handed out, begun
\* and judged once at most, and a success only after ssh was begun.
THEOREM SshImplementsLifecycle ==
  ASSUME NEW CONSTANT T \in SUBSET Task
  PROVE  SshSpec /\ [](T \cap shared = {}) => LifeOf(T)!LifeSpec
<1>1. SshInit => LifeOf(T)!LifeInit
  BY AloneInit
<1>2. SshInv /\ RowsFollow /\ [SshNext]_sshVars /\ (T \cap shared = {})'
        => [LifeOf(T)!LifeNext]_(LifeOf(T)!lifeVars)
  BY SshStepIsLife
<1> QED BY <1>1, <1>2, SshInvariance, RowsFollowAlways, PTL DEF SshSpec, LifeOf!LifeSpec
==============================================================================
