------------------------------ MODULE TaskStore ------------------------------
(***************************************************************************)
(* The tasks table of the control plane and the operations of SQLiteStore  *)
(* on it (storage.py).  Every operation here runs inside one BEGIN         *)
(* IMMEDIATE transaction of the code (or is a single INSERT), so each one  *)
(* is one step.  The callers, which split their work over several          *)
(* transactions, are modelled by the modules that extend this one.         *)
(*                                                                         *)
(* A task id is minted by create_task together with its node, command and  *)
(* executor, none of which is ever updated afterwards: they are constant   *)
(* functions of the id.  Time is relative: instead of an absolute          *)
(* lease_expires_at a row keeps the ticks left on its lease, which Tick    *)
(* counts down (below zero once the lease is overdue).                     *)
(***************************************************************************)
EXTENDS NodeRows, FiniteSets, Sequences

CONSTANTS
  Task,        \* task ids
  NodeOf,      \* the node a task is created for
  CommandOf,   \* the command a task is created with
  ExecutorOf,  \* "worker" or "ssh"
  LeaseTicks,  \* lease_seconds of claim_next_task, in ticks
  OverdueCap   \* bound: ticks an expired lease is followed past zero

\* A shell command, or the built-in "hmn:rotate-fingerprint <new>".
Command == [kind : {"shell", "rotate"}, to : Fingerprint]

ASSUME TaskAttributes ==
  /\ NodeOf \in [Task -> Node]
  /\ CommandOf \in [Task -> Command]
  /\ ExecutorOf \in [Task -> {"worker", "ssh"}]
  /\ IsFiniteSet(Task)

ASSUME LeaseBounds == LeaseTicks \in Nat /\ OverdueCap \in Nat

VARIABLES
  tasks,     \* the tasks table
  trail,     \* per task, the audit events written inside its transactions
  announced  \* the tasks whose separate "create" audit event is written

taskVars == <<tasks, trail, announced>>

TerminalStatus == {"succeeded", "failed"}
TaskStatus == {"absent", "pending", "running"} \cup TerminalStatus
ExitCode == {"none", "zero", "nonzero"}
FailureReason == {"", "worker_lease_expired", "exit_code_nonzero"}
AuditAction == {"dispatch", "watchdog/expire", "result/succeeded", "result/failed"}

\* A row of the tasks table.  lease is NULL in the code exactly while
\* attempts = 0: both columns are written by claim_next_task only.
TaskRow == [status   : TaskStatus,
            created  : Nat,
            attempts : Nat,
            lease    : Int,
            exit     : ExitCode,
            reason   : FailureReason]

NoRow == [status |-> "absent", created |-> 0, attempts |-> 0, lease |-> 0,
          exit |-> "none", reason |-> ""]

Exists(t) == tasks[t].status # "absent"
Terminal(t) == tasks[t].status \in TerminalStatus

TaskStoreTypeOK ==
  /\ tasks \in [Task -> TaskRow]
  /\ trail \in [Task -> Seq(AuditAction)]
  /\ announced \subseteq Task

TaskStoreInit ==
  /\ tasks = [t \in Task |-> NoRow]
  /\ trail = [t \in Task |-> <<>>]
  /\ announced = {}
------------------------------------------------------------------------------
\* created_at of the next row: rows are numbered in the order of created_at.
CreatedNow == Cardinality({t \in Task : Exists(t)})

\* The INSERT of create_task (save_task of a fresh id).
InsertTask(t) ==
  /\ ~Exists(t)
  /\ tasks' = [tasks EXCEPT ![t] = [NoRow EXCEPT !.status = "pending",
                                                 !.created = CreatedNow]]

\* record_audit of create_task: a transaction of its own after the INSERT.
AnnounceTask(t) ==
  /\ Exists(t) /\ t \notin announced
  /\ announced' = announced \cup {t}
  /\ UNCHANGED <<tasks, trail>>

\* Slip: the executor is not part of the WHERE clause.
ClaimableAnyExecutor(n, executor) ==
  {t \in Task : NodeOf[t] = n /\ tasks[t].status = "pending"}

\* Slip: a node works on one task at a time, and one that failed still counts
\* as the task it is at.
ClaimableOneAtATime(n, executor) ==
  {t \in Task : /\ NodeOf[t] = n
                /\ ExecutorOf[t] = executor
                /\ tasks[t].status = "pending"
                /\ \A u \in Task : NodeOf[u] = n =>
                     tasks[u].status \notin {"running", "failed"}}

\* SELECT ... WHERE node_id = ? AND executor = ? AND status = 'pending'
Claimable(n, executor) ==
  {t \in Task : /\ NodeOf[t] = n
                /\ ExecutorOf[t] = executor
                /\ tasks[t].status = "pending"}

\* ... ORDER BY created_at LIMIT 1
Oldest(S) == {t \in S : \A u \in S : tasks[t].created <= tasks[u].created}

\* The row claim_next_task writes.
ClaimedRow(row) ==
  [row EXCEPT !.status = "running",
              !.attempts = @ + 1,
              !.lease = LeaseTicks]

\* claim_next_task once a row is selected: the UPDATE and its audit event.
ClaimTask(t) ==
  /\ tasks' = [tasks EXCEPT ![t] = ClaimedRow(@)]
  /\ trail' = [trail EXCEPT ![t] = Append(@, "dispatch")]

\* The rows expire_stuck_tasks selects when a lease must be at least
\* `overdue` ticks past its end.
Stuck(overdue) ==
  {t \in Task : /\ tasks[t].status = "running"
                /\ ExecutorOf[t] = "worker"
                /\ tasks[t].attempts > 0
                /\ tasks[t].lease <= -overdue}

\* Slip: an expired task goes back to the queue.
ExpiredRowRequeued(row) ==
  [row EXCEPT !.status = "pending", !.reason = "worker_lease_expired"]

\* The lease ran out: the task failed.
ExpiredRow(row) ==
  [row EXCEPT !.status = "failed", !.reason = "worker_lease_expired"]

\* Slip: the audit event is forgotten.
ExpireStuckTasksUnlogged(overdue) ==
  /\ tasks' = [t \in Task |-> IF t \in Stuck(overdue)
                              THEN ExpiredRow(tasks[t]) ELSE tasks[t]]
  /\ UNCHANGED trail

\* expire_stuck_tasks: all selected rows in one transaction.
ExpireStuckTasks(overdue) ==
  /\ tasks' = [t \in Task |-> IF t \in Stuck(overdue)
                              THEN ExpiredRow(tasks[t]) ELSE tasks[t]]
  /\ trail' = [t \in Task |-> IF t \in Stuck(overdue)
                              THEN Append(trail[t], "watchdog/expire") ELSE trail[t]]

\* Slip: any reported exit code counts as success.
CompletedRowAnyCode(row, code) ==
  [row EXCEPT !.status = "succeeded", !.exit = code, !.reason = ""]

\* The row complete_task writes.
CompletedRow(row, code) ==
  [row EXCEPT !.status = IF code = "zero" THEN "succeeded" ELSE "failed",
              !.exit = code,
              !.reason = IF code = "zero" THEN "" ELSE "exit_code_nonzero"]

\* Slip: a result is accepted for every known task.
CanCompleteAlways(t) == Exists(t)

\* complete_task's test: any row that is not running is left alone.
CanComplete(t) == tasks[t].status = "running"

CompleteTask(t, code) ==
  /\ tasks' = [tasks EXCEPT ![t] = CompletedRow(@, code)]
  /\ trail' = [trail EXCEPT ![t] = Append(@, IF code = "zero" THEN "result/succeeded"
                                                              ELSE "result/failed")]
------------------------------------------------------------------------------
\* A lease counts down while its task runs; OverdueCap bounds the model.
AgedRow(row) ==
  IF row.status = "running" /\ row.attempts > 0 /\ row.lease > -OverdueCap
  THEN [row EXCEPT !.lease = @ - 1] ELSE row

AgeLeases ==
  /\ \E t \in Task : AgedRow(tasks[t]) # tasks[t]
  /\ tasks' = [t \in Task |-> AgedRow(tasks[t])]
  /\ UNCHANGED <<trail, announced>>
==============================================================================
