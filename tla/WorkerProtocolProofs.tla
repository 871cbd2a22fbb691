------------------------ MODULE WorkerProtocolProofs ------------------------
(***************************************************************************)
(* Proofs about WorkerProtocol, for any sets of nodes, tasks, runs,        *)
(* operators and fingerprints: type correctness, then the inductive        *)
(* invariant IndInv, from which the safety properties and the refinement   *)
(* of TaskLifecycle follow.                                                *)
(***************************************************************************)
EXTENDS WorkerProtocol, FiniteSetTheorems, TLAPS

\* The created_at ordinal is a natural number.
LEMMA CreatedNowType == CreatedNow \in Nat
  <1>1. IsFiniteSet({t \in Task : Exists(t)})
    BY TaskAttributes, FS_Subset
  <1> QED BY <1>1, FS_CardinalityType DEF CreatedNow

\* The idle state of a run and an untouched row have their types.
LEMMA IdleTypes ==
  /\ \A r \in Run : IdleRun(r) \in RunState
  /\ NoRow \in TaskRow
  BY RunAttributes, NodeAttributes
     DEF IdleRun, RunState, RunPc, ExitCode, NodeRow, NodeStatus, NoRow, TaskRow,
         TaskStatus, TerminalStatus, FailureReason

\* Claiming, expiring, completing and ageing a row give a row.
LEMMA RowTypes ==
  ASSUME NEW row \in TaskRow, NEW code \in ExitCode
  PROVE  /\ ClaimedRow(row) \in TaskRow /\ ExpiredRow(row) \in TaskRow
         /\ CompletedRow(row, code) \in TaskRow /\ AgedRow(row) \in TaskRow
  <1>a. row.attempts + 1 \in Nat
    BY DEF TaskRow
  <1>b. row.lease - 1 \in Int
    BY DEF TaskRow
  <1>c. LeaseTicks \in Int
    BY LeaseBounds
  <1> USE DEF TaskRow, TaskStatus, TerminalStatus, FailureReason, ExitCode
  <1>1. ClaimedRow(row) \in TaskRow
    BY <1>a, <1>c DEF ClaimedRow
  <1>2. ExpiredRow(row) \in TaskRow
    BY DEF ExpiredRow
  <1>3. CompletedRow(row, code) \in TaskRow
    BY DEF CompletedRow
  <1>4. AgedRow(row) \in TaskRow
    BY <1>b DEF AgedRow
  <1> QED BY <1>1, <1>2, <1>3, <1>4

\* An operator's edit leaves well-typed rows and edits.
LEMMA EditTypes ==
  ASSUME NodeRowsTypeOK, NEW o \in Operator, OperatorStep(o)
  PROVE  NodeRowsTypeOK'
  <1> USE DEF NodeRowsTypeOK
  <1>1. ASSUME NEW op \in EditOp, NEW n \in Node, NEW f \in Fingerprint,
               LoadForEdit(o, op, n, f)
        PROVE  NodeRowsTypeOK'
    BY <1>1 DEF LoadForEdit, Edit
  <1>2. CASE SaveEdit(o)
    <2>1. edit[o] \in Edit
      BY <1>2 DEF SaveEdit
    <2>2. EditedRow(edit[o]) \in NodeRow
      BY <2>1 DEF EditedRow, Edit, NodeRow, NodeStatus
    <2> QED BY <1>2, <2>1, <2>2 DEF SaveEdit
  <1>3. CASE AbandonEdit(o)
    BY <1>3 DEF AbandonEdit
  <1> QED BY <1>1, <1>2, <1>3, NodeAttributes DEF OperatorStep, EditOp

\* Every operation of the task store leaves well-typed tables.
LEMMA StoreTypes ==
  ASSUME TypeOK
  PROVE  /\ \A t \in Task : InsertTask(t) => tasks' \in [Task -> TaskRow]
         /\ \A t \in Task : ClaimTask(t) =>
              tasks' \in [Task -> TaskRow] /\ trail' \in [Task -> Seq(AuditAction)]
         /\ \A k \in Nat : ExpireStuckTasks(k) =>
              tasks' \in [Task -> TaskRow] /\ trail' \in [Task -> Seq(AuditAction)]
         /\ \A t \in Task, code \in ExitCode : CompleteTask(t, code) =>
              tasks' \in [Task -> TaskRow] /\ trail' \in [Task -> Seq(AuditAction)]
         /\ AgeLeases => tasks' \in [Task -> TaskRow]
  <1> USE DEF TypeOK, TaskStoreTypeOK
  <1>1. ASSUME NEW t \in Task, InsertTask(t)
        PROVE  tasks' \in [Task -> TaskRow]
    <2>1. NoRow \in TaskRow /\ CreatedNow \in Nat
      BY IdleTypes, CreatedNowType
    <2>2. [NoRow EXCEPT !.status = "pending", !.created = CreatedNow] \in TaskRow
      BY <2>1 DEF TaskRow, TaskStatus
    <2> QED BY <1>1, <2>2 DEF InsertTask
  <1>2. ASSUME NEW t \in Task, ClaimTask(t)
        PROVE  tasks' \in [Task -> TaskRow] /\ trail' \in [Task -> Seq(AuditAction)]
    <2>1. ClaimedRow(tasks[t]) \in TaskRow
      BY RowTypes DEF ExitCode
    <2>2. "dispatch" \in AuditAction
      BY DEF AuditAction
    <2> QED BY <1>2, <2>1, <2>2 DEF ClaimTask
  <1>3. ASSUME NEW k \in Nat, ExpireStuckTasks(k)
        PROVE  tasks' \in [Task -> TaskRow] /\ trail' \in [Task -> Seq(AuditAction)]
    <2>1. \A t \in Task : ExpiredRow(tasks[t]) \in TaskRow
      BY RowTypes DEF ExitCode
    <2>2. "watchdog/expire" \in AuditAction
      BY DEF AuditAction
    <2> QED BY <1>3, <2>1, <2>2 DEF ExpireStuckTasks
  <1>4. ASSUME NEW t \in Task, NEW code \in ExitCode, CompleteTask(t, code)
        PROVE  tasks' \in [Task -> TaskRow] /\ trail' \in [Task -> Seq(AuditAction)]
    <2>1. CompletedRow(tasks[t], code) \in TaskRow
      BY RowTypes
    <2>2. "result/succeeded" \in AuditAction /\ "result/failed" \in AuditAction
      BY DEF AuditAction
    <2> QED BY <1>4, <2>1, <2>2 DEF CompleteTask
  <1>5. ASSUME AgeLeases
        PROVE  tasks' \in [Task -> TaskRow]
    <2>1. \A t \in Task : AgedRow(tasks[t]) \in TaskRow
      BY RowTypes DEF ExitCode
    <2> QED BY <1>5, <2>1 DEF AgeLeases
  <1> QED BY <1>1, <1>2, <1>3, <1>4, <1>5

\* A run moved to a state is well typed.
LEMMA RunTypes ==
  ASSUME TypeOK, NEW r \in Run
  PROVE  /\ \A state \in RunState : Move(r, state) => run' \in [Run -> RunState]
         /\ \A state \in RunState : ReplyWith(r, state) => run' \in [Run -> RunState]
         /\ EndRun(r) => run' \in [Run -> RunState]
  BY IdleTypes DEF TypeOK, Move, EndRun, ReplyWith

\* The program counters by name.
LEMMA Pcs ==
  /\ RunPc = {"idle", "beat", "auth", "rotload", "submit", "sweep", "claim", "rotsave",
              "complete", "reply", "exec", "rotenv"}
  BY DEF RunPc, Sent, Serving, Local

LEMMA Codes == "none" \in ExitCode /\ "zero" \in ExitCode /\ "nonzero" \in ExitCode
  BY DEF ExitCode

\* A run stays well typed when it moves on, with what the step has found out.
LEMMA Moved ==
  ASSUME NEW s \in RunState, NEW pc \in RunPc
  PROVE  [s EXCEPT !.pc = pc] \in RunState
  BY Zenon DEF RunState

LEMMA MovedWithKey ==
  ASSUME NEW s \in RunState, NEW pc \in RunPc, NEW f \in Fingerprint
  PROVE  /\ [s EXCEPT !.pc = pc, !.fp = f] \in RunState
         /\ [s EXCEPT !.pc = pc, !.sig = f] \in RunState
  BY Zenon DEF RunState

LEMMA MovedWithCode ==
  ASSUME NEW s \in RunState, NEW pc \in RunPc, NEW code \in ExitCode
  PROVE  [s EXCEPT !.pc = pc, !.report = code] \in RunState
  BY Zenon DEF RunState

LEMMA MovedWithCodeAndKey ==
  ASSUME NEW s \in RunState, NEW pc \in RunPc, NEW code \in ExitCode, NEW f \in Fingerprint
  PROVE  [s EXCEPT !.pc = pc, !.report = code, !.fp = f] \in RunState
  BY Zenon DEF RunState

LEMMA MovedWithRow ==
  ASSUME NEW s \in RunState, NEW pc \in RunPc, NEW row \in NodeRow
  PROVE  [s EXCEPT !.pc = pc, !.copy = row] \in RunState
  BY Zenon DEF RunState
------------------------------------------------------------------------------
\* A run past the claim has a task in hand.
LEMMA HoldingTask ==
  ASSUME IndInv, NEW r \in Run, run[r].pc \in Holding
  PROVE  run[r].held \in Task
  BY DEF IndInv, RunConsistent, TypeOK, RunState

\* Each step keeps TypeOK.  (TypeOK alone is not inductive: a run that rotates
\* or reports must have a task in hand, which RunConsistent says.)
LEMMA TypeStep == IndInv /\ [Next]_vars => TypeOK'
  <1> SUFFICES ASSUME IndInv, [Next]_vars PROVE TypeOK'
    OBVIOUS
  <1>h. TypeOK
    BY DEF IndInv
  <1>t. /\ run \in [Run -> RunState] /\ env \in [Node -> Fingerprint]
        /\ beaten \subseteq Node /\ starts \in [Task -> Nat]
        /\ outcome \in [Task -> ExitCode] /\ RunOf \in [Run -> Node]
        /\ nodes \in [Node -> NodeRow]
    BY <1>h, RunAttributes DEF TypeOK, NodeRowsTypeOK
  <1>1. ASSUME NEW r \in Run, StartRun(r) PROVE TypeOK'
    <2>1. [run[r] EXCEPT !.pc = "beat", !.fp = env[RunOf[r]]] \in RunState
      BY <1>t, Pcs, MovedWithKey
    <2>2. run' \in [Run -> RunState]
      BY <1>1, <1>h, <2>1, RunTypes DEF StartRun
    <2> QED BY <1>1, <1>h, <2>2 DEF StartRun, TypeOK, NodeRowsTypeOK, TaskStoreTypeOK
  <1>2. ASSUME NEW r \in Run, Heartbeat(r) PROVE TypeOK'
    <2>1. [run[r] EXCEPT !.pc = "auth"] \in RunState
      BY <1>t DEF RunState, RunPc, Sent
    <2>2. run' \in [Run -> RunState]
      BY <1>2, <1>h, <2>1, RunTypes DEF Heartbeat
    <2> QED BY <1>2, <1>h, <2>2, <1>t DEF Heartbeat, TypeOK, NodeRowsTypeOK, TaskStoreTypeOK
  <1>3. ASSUME NEW r \in Run, NextTaskAuth(r) PROVE TypeOK'
    <2>1. run' \in [Run -> RunState]
      <3>1. nodes[RunOf[r]].fingerprint \in Fingerprint
        BY <1>t DEF NodeRow
      <3>2. [run[r] EXCEPT !.pc = "sweep", !.sig = nodes[RunOf[r]].fingerprint] \in RunState
        BY <1>t, <3>1, Pcs, MovedWithKey
      <3> QED BY <1>3, <1>h, <3>2, RunTypes DEF NextTaskAuth
    <2> QED BY <1>3, <1>h, <2>1 DEF NextTaskAuth, TypeOK, NodeRowsTypeOK, TaskStoreTypeOK
  <1>4. ASSUME NEW r \in Run, NextTaskSweep(r) PROVE TypeOK'
    <2>1. run' \in [Run -> RunState]
      <3>1. [run[r] EXCEPT !.pc = "claim"] \in RunState
        BY <1>t, Pcs, Moved
      <3> QED BY <1>4, <1>h, <3>1, RunTypes DEF NextTaskSweep, Goto
    <2>2. tasks' \in [Task -> TaskRow] /\ trail' \in [Task -> Seq(AuditAction)]
      BY <1>4, <1>h, StoreTypes DEF NextTaskSweep
    <2> QED BY <1>4, <1>h, <2>1, <2>2 DEF NextTaskSweep, TypeOK, NodeRowsTypeOK, TaskStoreTypeOK
  <1>5. ASSUME NEW r \in Run, NextTaskClaim(r) PROVE TypeOK'
    <2>1. CASE \E t \in Offer(r) :
                 /\ ClaimTask(t)
                 /\ ReplyWith(r, [run[r] EXCEPT !.pc = "reply", !.held = t])
      <3>1. PICK t \in Task :
                 /\ ClaimTask(t)
                 /\ ReplyWith(r, [run[r] EXCEPT !.pc = "reply", !.held = t])
        BY <2>1 DEF Offer, Oldest, Claimable
      <3>2. [run[r] EXCEPT !.pc = "reply", !.held = t] \in RunState
        BY <1>t DEF RunState, RunPc, Local
      <3>3. run' \in [Run -> RunState]
        BY <3>1, <1>h, <3>2, RunTypes
      <3>4. tasks' \in [Task -> TaskRow] /\ trail' \in [Task -> Seq(AuditAction)]
        BY <3>1, <1>h, StoreTypes
      <3> QED BY <1>5, <1>h, <3>3, <3>4 DEF NextTaskClaim, TypeOK, NodeRowsTypeOK, TaskStoreTypeOK
    <2>2. CASE EndRun(r) /\ UNCHANGED <<tasks, trail>>
      BY <1>5, <1>h, <2>2, RunTypes DEF NextTaskClaim, TypeOK, NodeRowsTypeOK, TaskStoreTypeOK
    <2> QED BY <1>5, <2>1, <2>2 DEF NextTaskClaim
  <1>6. ASSUME NEW r \in Run, Receive(r) PROVE TypeOK'
    <2>1. run' \in [Run -> RunState]
      <3>1. [run[r] EXCEPT !.pc = "submit", !.report = "nonzero"] \in RunState
        BY <1>t, Codes, Pcs, MovedWithCode
      <3>2. [run[r] EXCEPT !.pc = "rotload"] \in RunState /\ [run[r] EXCEPT !.pc = "exec"] \in RunState
        BY <1>t, Pcs, Moved
      <3> QED BY <1>6, <1>h, <3>1, <3>2, RunTypes DEF Receive, Goto
    <2>2. starts' \in [Task -> Nat]
      BY <1>6, <1>t DEF Receive
    <2>3. outcome' \in [Task -> ExitCode]
      BY <1>6, <1>h, <1>t DEF Receive, ExitCode
    <2> QED BY <1>6, <1>h, <2>1, <2>2, <2>3 DEF Receive, TypeOK, NodeRowsTypeOK, TaskStoreTypeOK
  <1>7. ASSUME NEW r \in Run, RotateLoad(r) PROVE TypeOK'
    <2>1. run' \in [Run -> RunState]
      <3>1. [run[r] EXCEPT !.pc = "rotsave", !.copy = nodes[RunOf[r]]] \in RunState
        BY <1>t, Pcs, MovedWithRow
      <3> QED BY <1>7, <1>h, <3>1, RunTypes DEF RotateLoad
    <2> QED BY <1>7, <1>h, <2>1 DEF RotateLoad, TypeOK, NodeRowsTypeOK, TaskStoreTypeOK
  <1>8. ASSUME NEW r \in Run, RotateSave(r) PROVE TypeOK'
    <2>0. run[r].held \in Task
      BY <1>8, HoldingTask DEF RotateSave, Holding
    <2>1. CommandOf[run[r].held].to \in Fingerprint
      BY <2>0, TaskAttributes DEF Command
    <2>2. run[r].copy \in NodeRow
      BY <1>t DEF RunState
    <2>3. nodes' \in [Node -> NodeRow]
      BY <1>8, <1>t, <2>1, <2>2 DEF RotateSave, NodeRow
    <2>4. [run[r] EXCEPT !.pc = "rotenv"] \in RunState
      BY <1>t DEF RunState, RunPc, Local
    <2>5. run' \in [Run -> RunState]
      BY <1>8, <1>h, <2>4, RunTypes DEF RotateSave
    <2> QED BY <1>8, <1>h, <2>3, <2>5 DEF RotateSave, TypeOK, NodeRowsTypeOK, TaskStoreTypeOK
  <1>9. ASSUME NEW r \in Run, RotateEnv(r) PROVE TypeOK'
    <2>0. run[r].held \in Task
      BY <1>9, HoldingTask DEF RotateEnv, Holding
    <2>1. CommandOf[run[r].held].to \in Fingerprint
      BY <2>0, TaskAttributes DEF Command
    <2>2. run' \in [Run -> RunState]
      <3>1. [run[r] EXCEPT !.pc = "submit", !.report = "zero",
                           !.fp = CommandOf[run[r].held].to] \in RunState
        <4>1. ASSUME NEW f \in Fingerprint
              PROVE  [run[r] EXCEPT !.pc = "submit", !.report = "zero", !.fp = f] \in RunState
          BY <1>t, Codes, Pcs, MovedWithCodeAndKey
        <4> QED BY <2>1, <4>1
      <3> QED BY <1>9, <1>h, <3>1, RunTypes DEF RotateEnv
    <2>3. env' \in [Node -> Fingerprint] /\ outcome' \in [Task -> ExitCode]
      BY <1>9, <1>h, <1>t, <2>1 DEF RotateEnv, ExitCode
    <2> QED BY <1>9, <1>h, <2>2, <2>3 DEF RotateEnv, TypeOK, NodeRowsTypeOK, TaskStoreTypeOK
  <1>10. ASSUME NEW r \in Run, NEW code \in {"zero", "nonzero"}, FinishCommand(r, code)
         PROVE  TypeOK'
    <2>1. run' \in [Run -> RunState]
      <3>1. [run[r] EXCEPT !.pc = "submit", !.report = code] \in RunState
        BY <1>t, <1>10, Codes, Pcs, MovedWithCode
      <3> QED BY <1>10, <1>h, <3>1, RunTypes DEF FinishCommand
    <2>2. outcome' \in [Task -> ExitCode]
      BY <1>10, <1>h, <1>t DEF FinishCommand, ExitCode
    <2> QED BY <1>10, <1>h, <2>1, <2>2 DEF FinishCommand, TypeOK, NodeRowsTypeOK, TaskStoreTypeOK
  <1>11. ASSUME NEW r \in Run, ResultAuth(r) PROVE TypeOK'
    <2>1. run' \in [Run -> RunState]
      <3>1. [run[r] EXCEPT !.pc = "complete"] \in RunState
        BY <1>t, Pcs, Moved
      <3> QED BY <1>11, <1>h, <3>1, RunTypes DEF ResultAuth, Goto
    <2> QED BY <1>11, <1>h, <2>1 DEF ResultAuth, TypeOK, NodeRowsTypeOK, TaskStoreTypeOK
  <1>12. ASSUME NEW r \in Run, ResultComplete(r) PROVE TypeOK'
    <2>0. run[r].held \in Task
      BY <1>12, HoldingTask DEF ResultComplete, Holding
    <2>1. run' \in [Run -> RunState]
      BY <1>12, <1>h, RunTypes DEF ResultComplete
    <2>2. run[r].report \in ExitCode
      BY <1>t DEF RunState
    <2>3. tasks' \in [Task -> TaskRow] /\ trail' \in [Task -> Seq(AuditAction)]
      BY <1>12, <1>h, <2>0, <2>2, StoreTypes DEF ResultComplete, TypeOK, TaskStoreTypeOK
    <2> QED BY <1>12, <1>h, <2>1, <2>3 DEF ResultComplete, TypeOK, NodeRowsTypeOK, TaskStoreTypeOK
  <1>13. ASSUME NEW r \in Run, FailRun(r) \/ LoseClient(r) PROVE TypeOK'
    <2>1. run' \in [Run -> RunState]
      <3>1. [run[r] EXCEPT !.alive = FALSE] \in RunState
        BY <1>t DEF RunState
      <3> QED BY <1>13, <1>h, <3>1, RunTypes DEF FailRun, LoseClient
    <2> QED BY <1>13, <1>h, <2>1 DEF FailRun, LoseClient, TypeOK, NodeRowsTypeOK, TaskStoreTypeOK
  <1>14. ASSUME NEW t \in Task, CreateTask(t) PROVE TypeOK'
    <2>1. tasks' \in [Task -> TaskRow]
      BY <1>14, <1>h, StoreTypes DEF CreateTask
    <2> QED BY <1>14, <1>h, <2>1 DEF CreateTask, TypeOK, NodeRowsTypeOK, TaskStoreTypeOK
  <1>15. ASSUME NEW t \in Task, RecordCreate(t) PROVE TypeOK'
    BY <1>15, <1>h DEF RecordCreate, AnnounceTask, TypeOK, NodeRowsTypeOK, TaskStoreTypeOK
  <1>16. ASSUME NEW k \in OlderThan, RecoverStuck(k) PROVE TypeOK'
    <2>1. k \in Nat
      BY RunAttributes
    <2>2. tasks' \in [Task -> TaskRow] /\ trail' \in [Task -> Seq(AuditAction)]
      BY <1>16, <1>h, <2>1, StoreTypes DEF RecoverStuck
    <2> QED BY <1>16, <1>h, <2>2 DEF RecoverStuck, TypeOK, NodeRowsTypeOK, TaskStoreTypeOK
  <1>17. CASE EditNodes
    <2>1. NodeRowsTypeOK'
      BY <1>17, <1>h, EditTypes DEF EditNodes, TypeOK
    <2> QED BY <1>17, <1>h, <2>1 DEF EditNodes, TypeOK, TaskStoreTypeOK
  <1>18. CASE Tick
    <2>1. tasks' \in [Task -> TaskRow]
      BY <1>18, <1>h, StoreTypes DEF Tick
    <2> QED BY <1>18, <1>h, <2>1 DEF Tick, AgeLeases, TypeOK, NodeRowsTypeOK, TaskStoreTypeOK
  <1>19. CASE UNCHANGED vars
    BY <1>19, <1>h DEF vars, TypeOK, NodeRowsTypeOK, TaskStoreTypeOK
  <1> QED
    BY <1>1, <1>2, <1>3, <1>4, <1>5, <1>6, <1>7, <1>8, <1>9, <1>10, <1>11, <1>12, <1>13,
       <1>14, <1>15, <1>16, <1>17, <1>18, <1>19 DEF Next, RunStep
------------------------------------------------------------------------------
\* The status of a task that was handed out never goes back.
HandedOutStays ==
  \A t \in Task : tasks[t].status \notin {"absent", "pending"} =>
                    tasks'[t].status \notin {"absent", "pending"}

\* Steps that do not touch what a row records keep the rows and the audit log.
LEMMA RowFrame ==
  ASSUME IndInv, UNCHANGED <<tasks, starts, outcome>>, beaten \subseteq beaten'
  PROVE  \A t \in Task : RowConsistent(t)'
  BY DEF IndInv, RowConsistent

LEMMA AuditFrame ==
  ASSUME IndInv, UNCHANGED <<tasks, trail, announced>>
  PROVE  AuditMatchesRow'
  BY DEF IndInv, AuditMatchesRow, TrailOf, Exists

\* A step of run r may change the history of the task r holds, and r may take a
\* task nobody holds: the other runs stay consistent.
LEMMA OthersFrame ==
  ASSUME IndInv, NEW r \in Run, NEW state \in RunState, Move(r, state),
         beaten \subseteq beaten', HandedOutStays,
         \A t \in Task : t # run[r].held =>
            starts'[t] = starts[t] /\ outcome'[t] = outcome[t],
         \/ state.held = NoTask
         \/ state.held = run[r].held
         \/ \A s \in Run : run[s].held # state.held
  PROVE  \A s \in Run : s # r => RunConsistent(s)'
  <1> SUFFICES ASSUME NEW s \in Run, s # r PROVE RunConsistent(s)'
    OBVIOUS
  <1>1. run \in [Run -> RunState]
    BY DEF IndInv, TypeOK
  <1>2. run'[s] = run[s] /\ run'[r] = state /\ \A q \in Run : q # r => run'[q] = run[q]
    BY <1>1 DEF Move
  <1>3. RunConsistent(s) /\ RunConsistent(r)
    BY DEF IndInv
  <1>4. run[s].held \in Task \cup {NoTask}
    BY <1>1 DEF RunState
  <1>5. run[s].held # NoTask => run[r].held # run[s].held
    BY <1>3 DEF RunConsistent
  <1>6. run[s].held # NoTask => state.held # run[s].held
    BY <1>5
  <1>7. run[s].held # NoTask =>
          /\ starts'[run[s].held] = starts[run[s].held]
          /\ outcome'[run[s].held] = outcome[run[s].held]
          /\ tasks'[run[s].held].status \notin {"absent", "pending"}
    BY <1>3, <1>4, <1>5 DEF RunConsistent, HandedOutStays
  <1>8. run[s].held # NoTask => \A q \in Run : run'[q].held = run[s].held => q = s
    BY <1>2, <1>3, <1>6 DEF RunConsistent
  <1> QED BY <1>2, <1>3, <1>7, <1>8 DEF RunConsistent, Holding

\* Steps that move no run and begin no command keep every run consistent.
LEMMA RunsFrame ==
  ASSUME IndInv, UNCHANGED <<run, starts, outcome, beaten>>, HandedOutStays
  PROVE  \A s \in Run : RunConsistent(s)'
  <1> SUFFICES ASSUME NEW s \in Run PROVE RunConsistent(s)'
    OBVIOUS
  <1>1. RunConsistent(s) /\ run[s].held \in Task \cup {NoTask}
    BY DEF IndInv, TypeOK, RunState
  <1> QED BY <1>1 DEF RunConsistent, HandedOutStays, Holding
------------------------------------------------------------------------------
\* expire_stuck_tasks, whoever calls it, keeps rows and audit log consistent.
LEMMA SweepKeeps ==
  ASSUME IndInv, NEW k \in Nat, ExpireStuckTasks(k),
         UNCHANGED <<announced, starts, outcome, beaten>>
  PROVE  /\ HandedOutStays
         /\ \A t \in Task : RowConsistent(t)'
         /\ AuditMatchesRow'
  <1>1. tasks \in [Task -> TaskRow] /\ trail \in [Task -> Seq(AuditAction)] /\ announced \subseteq Task
    BY DEF IndInv, TypeOK, TaskStoreTypeOK
  <1>2. ASSUME NEW t \in Task, t \in Stuck(k)
        PROVE  /\ tasks[t].status = "running"
               /\ tasks'[t] = ExpiredRow(tasks[t])
               /\ tasks'[t].status = "failed" /\ tasks'[t].reason = "worker_lease_expired"
               /\ tasks'[t].exit = tasks[t].exit
               /\ trail'[t] = Append(trail[t], "watchdog/expire")
    BY <1>1, <1>2 DEF ExpireStuckTasks, Stuck, ExpiredRow, TaskRow
  <1>3. ASSUME NEW t \in Task, t \notin Stuck(k)
        PROVE  tasks'[t] = tasks[t] /\ trail'[t] = trail[t]
    BY <1>3 DEF ExpireStuckTasks
  <1>4. ASSUME NEW t \in Task PROVE RowConsistent(t)'
    <2>1. RowConsistent(t)
      BY DEF IndInv
    <2> QED BY <2>1, <1>2, <1>3 DEF RowConsistent
  <1>5. ASSUME NEW t \in Task PROVE trail'[t] = TrailOf(tasks[t])'
    <2>1. trail[t] = TrailOf(tasks[t])
      BY DEF IndInv, AuditMatchesRow
    <2>2. CASE t \in Stuck(k)
      <3>1. trail[t] = <<"dispatch">>
        BY <2>1, <2>2, <1>2 DEF TrailOf
      <3>2. trail'[t] = <<"dispatch", "watchdog/expire">>
        BY SMTT(30), <3>1, <2>2, <1>2
      <3> QED BY <3>2, <2>2, <1>2 DEF TrailOf
    <2>3. CASE t \notin Stuck(k)
      BY <2>1, <2>3, <1>3 DEF TrailOf
    <2> QED BY <2>2, <2>3
  <1>6. \A t \in announced' : Exists(t)'
    BY <1>1, <1>2, <1>3 DEF IndInv, AuditMatchesRow, Exists
  <1> QED BY <1>2, <1>3, <1>4, <1>5, <1>6 DEF AuditMatchesRow, HandedOutStays

\* claim_next_task hands out a pending worker task of a node that has beaten.
LEMMA ClaimKeeps ==
  ASSUME IndInv, NEW t \in Task, ClaimTask(t), tasks[t].status = "pending",
         ExecutorOf[t] = "worker", NodeOf[t] \in beaten \ Beacon,
         UNCHANGED <<announced, starts, outcome, beaten>>
  PROVE  /\ HandedOutStays
         /\ tasks'[t].status = "running"
         /\ \A u \in Task : RowConsistent(u)'
         /\ AuditMatchesRow'
  <1>1. tasks \in [Task -> TaskRow] /\ trail \in [Task -> Seq(AuditAction)] /\ announced \subseteq Task
    BY DEF IndInv, TypeOK, TaskStoreTypeOK
  <1>2. /\ tasks'[t].status = "running" /\ tasks'[t].exit = tasks[t].exit
        /\ trail'[t] = Append(trail[t], "dispatch")
    BY <1>1 DEF ClaimTask, ClaimedRow, TaskRow
  <1>3. \A u \in Task : u # t => tasks'[u] = tasks[u] /\ trail'[u] = trail[u]
    BY <1>1 DEF ClaimTask
  <1>4. ASSUME NEW u \in Task PROVE RowConsistent(u)'
    <2>1. RowConsistent(u)
      BY DEF IndInv
    <2>2. CASE u = t
      BY <2>1, <2>2, <1>2 DEF RowConsistent
    <2>3. CASE u # t
      BY <2>1, <2>3, <1>3 DEF RowConsistent
    <2> QED BY <2>2, <2>3
  <1>5. ASSUME NEW u \in Task PROVE trail'[u] = TrailOf(tasks[u])'
    <2>1. trail[u] = TrailOf(tasks[u])
      BY DEF IndInv, AuditMatchesRow
    <2>2. CASE u = t
      <3>1. trail[t] = <<>>
        BY <2>1, <2>2 DEF TrailOf
      <3>2. trail'[t] = <<"dispatch">>
        BY <3>1, <1>2
      <3> QED BY <3>2, <2>2, <1>2 DEF TrailOf
    <2>3. CASE u # t
      BY <2>1, <2>3, <1>3 DEF TrailOf
    <2> QED BY <2>2, <2>3
  <1>6. \A u \in announced' : Exists(u)'
    BY <1>1, <1>2, <1>3 DEF IndInv, AuditMatchesRow, Exists
  <1> QED BY <1>2, <1>3, <1>4, <1>5, <1>6 DEF AuditMatchesRow, HandedOutStays

\* complete_task records the outcome of a running task.
LEMMA CompleteKeeps ==
  ASSUME IndInv, NEW t \in Task, tasks[t].status = "running",
         outcome[t] # "none", CompleteTask(t, outcome[t]),
         UNCHANGED <<announced, starts, outcome, beaten>>
  PROVE  /\ HandedOutStays
         /\ \A u \in Task : RowConsistent(u)'
         /\ AuditMatchesRow'
  <1>1. tasks \in [Task -> TaskRow] /\ trail \in [Task -> Seq(AuditAction)] /\ announced \subseteq Task
    BY DEF IndInv, TypeOK, TaskStoreTypeOK
  <1>2. /\ tasks'[t].exit = outcome[t]
        /\ outcome[t] = "zero" => /\ tasks'[t].status = "succeeded"
                                  /\ trail'[t] = Append(trail[t], "result/succeeded")
        /\ outcome[t] # "zero" => /\ tasks'[t].status = "failed"
                                  /\ tasks'[t].reason = "exit_code_nonzero"
                                  /\ trail'[t] = Append(trail[t], "result/failed")
    BY <1>1 DEF CompleteTask, CompletedRow, TaskRow
  <1>3. \A u \in Task : u # t => tasks'[u] = tasks[u] /\ trail'[u] = trail[u]
    BY <1>1 DEF CompleteTask
  <1>4. ASSUME NEW u \in Task PROVE RowConsistent(u)'
    <2>1. RowConsistent(u)
      BY DEF IndInv
    <2>2. CASE u = t
      BY <2>1, <2>2, <1>2 DEF RowConsistent
    <2>3. CASE u # t
      BY <2>1, <2>3, <1>3 DEF RowConsistent
    <2> QED BY <2>2, <2>3
  <1>5. ASSUME NEW u \in Task PROVE trail'[u] = TrailOf(tasks[u])'
    <2>1. trail[u] = TrailOf(tasks[u])
      BY DEF IndInv, AuditMatchesRow
    <2>2. CASE u = t
      <3>1. trail[t] = <<"dispatch">>
        BY <2>1, <2>2 DEF TrailOf
      <3>2. CASE outcome[t] = "zero"
        <4>1. trail'[t] = <<"dispatch", "result/succeeded">>
          BY <3>1, <3>2, <1>2
        <4> QED BY <4>1, <3>2, <2>2, <1>2 DEF TrailOf
      <3>3. CASE outcome[t] # "zero"
        <4>1. trail'[t] = <<"dispatch", "result/failed">>
          BY <3>1, <3>3, <1>2
        <4> QED BY <4>1, <3>3, <2>2, <1>2 DEF TrailOf
      <3> QED BY <3>2, <3>3
    <2>3. CASE u # t
      BY <2>1, <2>3, <1>3 DEF TrailOf
    <2> QED BY <2>2, <2>3
  <1>6. \A u \in announced' : Exists(u)'
    BY <1>1, <1>2, <1>3 DEF IndInv, AuditMatchesRow, Exists
  <1> QED BY <1>2, <1>3, <1>4, <1>5, <1>6 DEF AuditMatchesRow, HandedOutStays

\* create_task inserts a fresh row, Tick only counts leases down.
LEMMA InsertKeeps ==
  ASSUME IndInv, NEW t \in Task, InsertTask(t),
         UNCHANGED <<trail, announced, starts, outcome, beaten>>
  PROVE  /\ HandedOutStays
         /\ \A u \in Task : RowConsistent(u)'
         /\ AuditMatchesRow'
  <1>1. tasks \in [Task -> TaskRow] /\ announced \subseteq Task
    BY DEF IndInv, TypeOK, TaskStoreTypeOK
  <1>2. /\ tasks[t].status = "absent" /\ tasks'[t].status = "pending"
        /\ tasks'[t].attempts = 0 /\ tasks'[t].exit = "none"
    BY <1>1 DEF InsertTask, Exists, NoRow
  <1>3. \A u \in Task : u # t => tasks'[u] = tasks[u]
    BY <1>1 DEF InsertTask
  <1>4. ASSUME NEW u \in Task PROVE RowConsistent(u)' /\ trail'[u] = TrailOf(tasks[u])'
    <2>1. RowConsistent(u) /\ trail[u] = TrailOf(tasks[u])
      BY DEF IndInv, AuditMatchesRow
    <2>2. CASE u = t
      BY <2>1, <2>2, <1>2 DEF RowConsistent, TrailOf
    <2>3. CASE u # t
      BY <2>1, <2>3, <1>3 DEF RowConsistent, TrailOf
    <2> QED BY <2>2, <2>3
  <1>5. \A u \in announced' : Exists(u)'
    BY <1>1, <1>2, <1>3 DEF IndInv, AuditMatchesRow, Exists
  <1> QED BY <1>2, <1>3, <1>4, <1>5 DEF AuditMatchesRow, HandedOutStays

LEMMA AgeKeeps ==
  ASSUME IndInv, AgeLeases, UNCHANGED <<starts, outcome, beaten>>
  PROVE  /\ HandedOutStays
         /\ \A u \in Task : RowConsistent(u)'
         /\ AuditMatchesRow'
  <1>1. tasks \in [Task -> TaskRow] /\ announced \subseteq Task
    BY DEF IndInv, TypeOK, TaskStoreTypeOK
  <1>2. ASSUME NEW t \in Task
        PROVE  /\ tasks'[t].status = tasks[t].status /\ tasks'[t].attempts = tasks[t].attempts
               /\ tasks'[t].exit = tasks[t].exit /\ tasks'[t].reason = tasks[t].reason
    BY <1>1 DEF AgeLeases, AgedRow, TaskRow
  <1>3. ASSUME NEW u \in Task PROVE RowConsistent(u)' /\ trail'[u] = TrailOf(tasks[u])'
    <2>1. RowConsistent(u) /\ trail[u] = TrailOf(tasks[u])
      BY DEF IndInv, AuditMatchesRow
    <2> QED BY <2>1, <1>2 DEF RowConsistent, TrailOf, AgeLeases
  <1>4. \A u \in announced' : Exists(u)'
    BY <1>1, <1>2 DEF IndInv, AuditMatchesRow, Exists, AgeLeases
  <1> QED BY <1>2, <1>3, <1>4 DEF AuditMatchesRow, HandedOutStays
------------------------------------------------------------------------------
\* Ending a run keeps every run consistent: the idle state asks nothing.
LEMMA EndRunKeeps ==
  ASSUME IndInv, NEW r \in Run, EndRun(r), beaten \subseteq beaten', HandedOutStays,
         UNCHANGED <<starts, outcome>>
  PROVE  \A s \in Run : RunConsistent(s)'
  <1>1. run \in [Run -> RunState] /\ IdleRun(r) \in RunState /\ NoTask \notin Task
    BY IdleTypes, RunAttributes DEF IndInv, TypeOK
  <1>2. IdleRun(r).held = NoTask /\ IdleRun(r).pc = "idle"
    BY DEF IdleRun
  <1>3. \A s \in Run : s # r => RunConsistent(s)'
    BY <1>1, <1>2, OthersFrame DEF EndRun
  <1>4. run'[r] = IdleRun(r)
    BY <1>1 DEF EndRun, Move
  <1>5. RunConsistent(r)'
    BY <1>2, <1>4 DEF RunConsistent, Holding
  <1> QED BY <1>3, <1>5

\* A run that stays with the task it holds, or with none, only has to answer for
\* its own new state.
LEMMA MoveKeeps ==
  ASSUME IndInv, NEW r \in Run, NEW state \in RunState, Move(r, state),
         state.held = run[r].held, beaten \subseteq beaten', UNCHANGED tasks,
         \A t \in Task : t # run[r].held =>
            starts'[t] = starts[t] /\ outcome'[t] = outcome[t]
  PROVE  /\ \A s \in Run : s # r => RunConsistent(s)'
         /\ run'[r] = state
         /\ run[r].held # NoTask =>
              /\ NodeOf[state.held] = RunOf[r] /\ ExecutorOf[state.held] = "worker"
              /\ tasks'[state.held].status \notin {"absent", "pending"}
              /\ \A s \in Run : run'[s].held = state.held => s = r
  <1>1. run \in [Run -> RunState]
    BY DEF IndInv, TypeOK
  <1>2. HandedOutStays
    BY DEF HandedOutStays
  <1>3. \A s \in Run : s # r => RunConsistent(s)'
    BY <1>2, OthersFrame
  <1>4. run'[r] = state /\ \A s \in Run : s # r => run'[s] = run[s]
    BY <1>1 DEF Move
  <1>5. RunConsistent(r)
    BY DEF IndInv
  <1> QED BY <1>3, <1>4, <1>5 DEF RunConsistent

\* A run goes on with the task t it holds: rows and log stay as they are, and
\* what is left to show is that its new state fits what it did to t's history.
LEMMA HoldKeeps ==
  ASSUME IndInv, TypeOK', NEW r \in Run, NEW t \in Task, NEW state \in RunState,
         run[r].held = t, state.held = t, Move(r, state), state.pc \in Holding,
         UNCHANGED <<tasks, trail, announced, beaten>>,
         \A u \in Task : u # t => starts'[u] = starts[u] /\ outcome'[u] = outcome[u],
         outcome[t] = "none" \/ outcome'[t] = outcome[t],
         starts'[t] \in {0, 1}, outcome'[t] = "zero" => starts'[t] = 1,
         state.pc = "reply" =>
           starts'[t] = 0 /\ outcome'[t] = "none" /\ state.sig = state.fp,
         state.pc \in {"exec", "rotload", "rotsave", "rotenv"} =>
           starts'[t] = 1 /\ outcome'[t] = "none",
         state.pc \in {"submit", "complete"} =>
           state.report = outcome'[t] /\ state.report # "none"
  PROVE  IndInv'
  <1>0. t # NoTask
    BY RunAttributes
  <1>1. /\ \A s \in Run : s # r => RunConsistent(s)'
        /\ run'[r] = state
        /\ NodeOf[t] = RunOf[r] /\ ExecutorOf[t] = "worker"
        /\ tasks'[t].status \notin {"absent", "pending"}
        /\ \A s \in Run : run'[s].held = t => s = r
    BY <1>0, MoveKeeps
  <1>2. RunConsistent(r)'
    BY <1>0, <1>1 DEF RunConsistent, Holding
  <1>3. RowConsistent(t)'
    <2>1. RowConsistent(t)
      BY DEF IndInv
    <2> QED BY <1>1, <2>1 DEF RowConsistent
  <1>4. ASSUME NEW u \in Task, u # t PROVE RowConsistent(u)'
    BY <1>4 DEF IndInv, RowConsistent
  <1>5. AuditMatchesRow'
    BY AuditFrame
  <1> QED BY <1>1, <1>2, <1>3, <1>4, <1>5 DEF IndInv

\* The steps of worker.sh and its handlers keep IndInv.
LEMMA RunStepKeeps ==
  ASSUME IndInv, NEW r \in Run, StartRun(r) \/ RunStep(r) \/ FailRun(r) \/ LoseClient(r), TypeOK'
  PROVE  IndInv'
  <1>a. TypeOK /\ RunConsistent(r) /\ run \in [Run -> RunState]
    BY DEF IndInv, TypeOK
  <1>b. run'[r] \in RunState
    BY DEF TypeOK
  <1>s. run[r] \in RunState
    BY <1>a
  <1>c. ASSUME UNCHANGED <<tasks, starts, outcome, trail, announced>>, beaten \subseteq beaten',
               \A s \in Run : RunConsistent(s)'
        PROVE  IndInv'
    BY <1>c, RowFrame, AuditFrame DEF IndInv
  <1>d. ASSUME EndRun(r), UNCHANGED <<tasks, starts, outcome, trail, announced>>,
               beaten \subseteq beaten'
        PROVE  IndInv'
    <2>1. HandedOutStays
      BY <1>d DEF HandedOutStays
    <2> QED BY <1>c, <1>d, <2>1, EndRunKeeps
  <1>1. CASE StartRun(r)
    <2> DEFINE state == [run[r] EXCEPT !.pc = "beat", !.fp = env[RunOf[r]]]
    <2>1. state.pc = "beat" /\ state.held = run[r].held /\ Move(r, state)
      BY <1>1, <1>s DEF StartRun, RunState
    <2>2. run'[r] = state
      BY <1>1, <1>a DEF StartRun, Move
    <2>3. run[r].held = NoTask
      BY <1>1, <1>a DEF StartRun, RunConsistent, Holding
    <2>4. UNCHANGED <<tasks, starts, outcome, trail, announced, beaten>>
      BY <1>1 DEF StartRun
    <2> HIDE DEF state
    <2>5. \A s \in Run : s # r => RunConsistent(s)'
      BY <2>1, <2>2, <2>4, <1>b, MoveKeeps
    <2>6. RunConsistent(r)'
      BY <2>1, <2>2, <2>3 DEF RunConsistent, Holding
    <2> QED BY <1>c, <2>4, <2>5, <2>6
  <1>2. CASE Heartbeat(r)
    <2>1. CASE EndRun(r)
      BY <1>2, <2>1, <1>d DEF Heartbeat
    <2>2. CASE Move(r, [run[r] EXCEPT !.pc = "auth"]) /\ RunOf[r] \notin Beacon
               /\ beaten' = beaten \cup ({RunOf[r]} \cap Compatible)
      <3> DEFINE state == [run[r] EXCEPT !.pc = "auth"]
      <3>1. state.pc = "auth" /\ state.held = run[r].held /\ Move(r, state)
        BY <2>2, <1>s DEF RunState
      <3>2. run'[r] = state
        BY <3>1, <1>a DEF Move
      <3>3. run[r].held = NoTask
        BY <1>2, <1>a DEF Heartbeat, RunConsistent, Holding
      <3>4. UNCHANGED <<tasks, starts, outcome, trail, announced>> /\ beaten \subseteq beaten'
        BY <1>2, <2>2 DEF Heartbeat
      <3> HIDE DEF state
      <3>5. \A s \in Run : s # r => RunConsistent(s)'
        BY <3>1, <3>2, <3>4, <1>b, MoveKeeps
      <3>6. RunConsistent(r)'
        BY <3>1, <3>2, <3>3, <2>2 DEF RunConsistent, Holding
      <3> QED BY <1>c, <3>4, <3>5, <3>6
    <2> QED BY <1>2, <2>1, <2>2 DEF Heartbeat, ReplyWith, EndRun
  <1>3. CASE NextTaskAuth(r)
    <2>1. CASE EndRun(r)
      BY <1>3, <2>1, <1>d DEF NextTaskAuth
    <2>2. CASE /\ Admitted(r) /\ RunOf[r] \in Compatible
               /\ Move(r, [run[r] EXCEPT !.pc = "sweep", !.sig = nodes[RunOf[r]].fingerprint])
      <3> DEFINE state == [run[r] EXCEPT !.pc = "sweep", !.sig = nodes[RunOf[r]].fingerprint]
      <3>1. /\ state.pc = "sweep" /\ state.held = run[r].held /\ Move(r, state)
            /\ state.sig = state.fp
        BY <2>2, <1>s DEF RunState, Admitted
      <3>2. run'[r] = state
        BY <3>1, <1>a DEF Move
      <3>3. run[r].held = NoTask /\ RunOf[r] \in beaten \ Beacon
        BY <1>3, <2>2, <1>a DEF NextTaskAuth, RunConsistent, Holding
      <3>4. UNCHANGED <<tasks, starts, outcome, trail, announced, beaten>>
        BY <1>3 DEF NextTaskAuth
      <3> HIDE DEF state
      <3>5. \A s \in Run : s # r => RunConsistent(s)'
        BY <3>1, <3>2, <3>4, <1>b, MoveKeeps
      <3>6. RunConsistent(r)'
        BY <3>1, <3>2, <3>3, <3>4 DEF RunConsistent, Holding
      <3> QED BY <1>c, <3>4, <3>5, <3>6
    <2> QED BY <1>3, <2>1, <2>2 DEF NextTaskAuth
  <1>4. CASE NextTaskSweep(r)
    <2> DEFINE state == [run[r] EXCEPT !.pc = "claim"]
    <2>1. /\ state.pc = "claim" /\ state.held = run[r].held /\ Move(r, state)
          /\ state.sig = run[r].sig /\ state.fp = run[r].fp
      BY <1>4, <1>s DEF RunState, NextTaskSweep, Goto
    <2>2. run'[r] = state
      BY <2>1, <1>a DEF Move
    <2>3. /\ run[r].held = NoTask /\ RunOf[r] \in beaten \ Beacon /\ run[r].sig = run[r].fp
      BY <1>4, <1>a DEF NextTaskSweep, RunConsistent, Holding
    <2>4. UNCHANGED <<starts, outcome, announced, beaten>> /\ ExpireStuckTasks(0)
      BY <1>4 DEF NextTaskSweep
    <2> HIDE DEF state
    <2>5. HandedOutStays /\ (\A t \in Task : RowConsistent(t)') /\ AuditMatchesRow'
      BY <2>4, SweepKeeps
    <2>6. \A s \in Run : s # r => RunConsistent(s)'
      BY <2>1, <2>2, <2>4, <2>5, <1>b, OthersFrame
    <2>7. RunConsistent(r)'
      BY <2>1, <2>2, <2>3, <2>4 DEF RunConsistent, Holding
    <2> QED BY <2>5, <2>6, <2>7 DEF IndInv
  <1>5. CASE NextTaskClaim(r)
    <2>1. CASE EndRun(r) /\ UNCHANGED <<tasks, trail>>
      BY <1>5, <2>1, <1>d DEF NextTaskClaim
    <2>2. ASSUME NEW t \in Offer(r), ClaimTask(t),
                 ReplyWith(r, [run[r] EXCEPT !.pc = "reply", !.held = t])
          PROVE  IndInv'
      <3>1. /\ t \in Task /\ NodeOf[t] = RunOf[r] /\ ExecutorOf[t] = "worker"
            /\ tasks[t].status = "pending"
        BY DEF Offer, Oldest, Claimable
      <3>2. /\ run[r].held = NoTask /\ RunOf[r] \in beaten \ Beacon /\ run[r].sig = run[r].fp
        BY <1>5, <1>a DEF NextTaskClaim, RunConsistent, Holding
      <3>3. UNCHANGED <<starts, outcome, announced, beaten>>
        BY <1>5 DEF NextTaskClaim
      <3>4. /\ HandedOutStays /\ tasks'[t].status = "running"
            /\ (\A u \in Task : RowConsistent(u)') /\ AuditMatchesRow'
        BY <2>2, <3>1, <3>2, <3>3, ClaimKeeps
      <3>5. \A s \in Run : run[s].held # t
        BY <3>1, RunAttributes DEF IndInv, RunConsistent
      <3>6. CASE run[r].alive
        <4> DEFINE state == [run[r] EXCEPT !.pc = "reply", !.held = t]
        <4>1. /\ state.pc = "reply" /\ state.held = t /\ Move(r, state)
              /\ state.sig = run[r].sig /\ state.fp = run[r].fp
          BY <2>2, <3>6, <1>s DEF RunState, ReplyWith
        <4>2. run'[r] = state /\ \A s \in Run : s # r => run'[s] = run[s]
          BY <4>1, <1>a DEF Move
        <4> HIDE DEF state
        <4>3. \A s \in Run : s # r => RunConsistent(s)'
          BY <4>1, <4>2, <3>3, <3>4, <3>5, <1>b, OthersFrame
        <4>4. \A s \in Run : run'[s].held = t => s = r
          BY <4>2, <3>5
        <4>5. starts[t] = 0 /\ outcome[t] = "none"
          BY <3>1 DEF IndInv, RowConsistent
        <4>6. RunConsistent(r)'
          BY <4>1, <4>2, <4>4, <4>5, <3>1, <3>2, <3>3, <3>4, RunAttributes DEF RunConsistent, Holding
        <4> QED BY <4>3, <4>6, <3>4 DEF IndInv
      <3>7. CASE ~run[r].alive
        <4>1. EndRun(r)
          BY <2>2, <3>7 DEF ReplyWith, EndRun
        <4> QED BY <4>1, <3>3, <3>4, EndRunKeeps DEF IndInv
      <3> QED BY <3>6, <3>7
    <2> QED BY <1>5, <2>1, <2>2 DEF NextTaskClaim
  <1>e. ASSUME run[r].pc \in Holding
        PROVE  run[r].held \in Task
    BY <1>e, HoldingTask
  <1>f. starts \in [Task -> Nat] /\ outcome \in [Task -> ExitCode]
    BY <1>a DEF TypeOK
  <1>6. CASE Receive(r)
    <2>0. PICK t \in Task : t = run[r].held
      BY <1>6, <1>e DEF Receive, Holding
    <2>1. starts[t] = 0 /\ outcome[t] = "none" /\ run[r].sig = run[r].fp
      BY <1>6, <1>a, <2>0 DEF Receive, RunConsistent
    <2>2. UNCHANGED <<tasks, trail, announced, beaten>>
      BY <1>6 DEF Receive
    <2>3. CASE \E pc \in {"rotload", "exec"} : Goto(r, pc) /\ UNCHANGED outcome
                 /\ starts' = [starts EXCEPT ![t] = @ + 1]
      <3>1. PICK pc \in {"rotload", "exec"} : Goto(r, pc)
        BY <2>3
      <3> DEFINE state == [run[r] EXCEPT !.pc = pc]
      <3>2. state.pc = pc /\ state.held = t /\ Move(r, state)
        BY <3>1, <2>0, <1>s DEF RunState, Goto
      <3>3. run'[r] = state
        BY <3>2, <1>a DEF Move
      <3> HIDE DEF state
      <3>4. starts'[t] = 1 /\ outcome'[t] = "none"
        BY <2>3, <2>1, <1>f
      <3>5. \A u \in Task : u # t => starts'[u] = starts[u] /\ outcome'[u] = outcome[u]
        BY <2>3, <1>f
      <3> QED BY <3>1, <3>2, <3>3, <3>4, <3>5, <2>0, <2>1, <2>2, <1>b, HoldKeeps DEF Holding
    <2>4. CASE /\ Move(r, [run[r] EXCEPT !.pc = "submit", !.report = "nonzero"])
               /\ outcome' = [outcome EXCEPT ![t] = "nonzero"] /\ UNCHANGED starts
      <3> DEFINE state == [run[r] EXCEPT !.pc = "submit", !.report = "nonzero"]
      <3>2. state.pc = "submit" /\ state.held = t /\ state.report = "nonzero" /\ Move(r, state)
        BY <2>4, <2>0, <1>s DEF RunState
      <3>3. run'[r] = state
        BY <3>2, <1>a DEF Move
      <3> HIDE DEF state
      <3>4. starts'[t] = 0 /\ outcome'[t] = "nonzero"
        BY <2>4, <2>1, <1>f
      <3>5. \A u \in Task : u # t => starts'[u] = starts[u] /\ outcome'[u] = outcome[u]
        BY <2>4, <1>f
      <3> QED BY <3>2, <3>3, <3>4, <3>5, <2>0, <2>1, <2>2, <1>b, HoldKeeps DEF Holding
    <2> QED BY <1>6, <2>0, <2>3, <2>4 DEF Receive
  <1>7. ASSUME NEW code \in {"zero", "nonzero"}, FinishCommand(r, code) PROVE IndInv'
    <2>0. PICK t \in Task : t = run[r].held
      BY <1>7, <1>e DEF FinishCommand, Holding
    <2>1. starts[t] = 1 /\ outcome[t] = "none"
      BY <1>7, <1>a, <2>0 DEF FinishCommand, RunConsistent
    <2> DEFINE state == [run[r] EXCEPT !.pc = "submit", !.report = code]
    <2>2. state.pc = "submit" /\ state.held = t /\ state.report = code /\ Move(r, state)
      BY <1>7, <2>0, <1>s DEF RunState, FinishCommand
    <2>3. run'[r] = state
      BY <2>2, <1>a DEF Move
    <2> HIDE DEF state
    <2>4. starts'[t] = 1 /\ outcome'[t] = code
      BY <1>7, <2>0, <2>1, <1>f DEF FinishCommand
    <2>5. \A u \in Task : u # t => starts'[u] = starts[u] /\ outcome'[u] = outcome[u]
      BY <1>7, <2>0, <1>f DEF FinishCommand
    <2>6. UNCHANGED <<tasks, trail, announced, beaten>>
      BY <1>7 DEF FinishCommand
    <2> QED BY <1>7, <2>0, <2>1, <2>2, <2>3, <2>4, <2>5, <2>6, <1>b, HoldKeeps DEF Holding
  <1>8. CASE RotateLoad(r)
    <2>0. PICK t \in Task : t = run[r].held
      BY <1>8, <1>e DEF RotateLoad, Holding
    <2>1. starts[t] = 1 /\ outcome[t] = "none"
      BY <1>8, <1>a, <2>0 DEF RotateLoad, RunConsistent
    <2>2. UNCHANGED <<tasks, trail, announced, beaten, starts, outcome>>
      BY <1>8 DEF RotateLoad
    <2>3. CASE EndRun(r)
      BY <2>2, <2>3, <1>d
    <2>4. CASE Move(r, [run[r] EXCEPT !.pc = "rotsave", !.copy = nodes[RunOf[r]]])
      <3> DEFINE state == [run[r] EXCEPT !.pc = "rotsave", !.copy = nodes[RunOf[r]]]
      <3>1. state.pc = "rotsave" /\ state.held = t /\ Move(r, state)
        BY <2>4, <2>0, <1>s DEF RunState
      <3>2. run'[r] = state
        BY <3>1, <1>a DEF Move
      <3> HIDE DEF state
      <3> QED BY <3>1, <3>2, <2>0, <2>1, <2>2, <1>b, HoldKeeps DEF Holding
    <2> QED BY <1>8, <2>3, <2>4 DEF RotateLoad
  <1>9. CASE RotateSave(r)
    <2>0. PICK t \in Task : t = run[r].held
      BY <1>9, <1>e DEF RotateSave, Holding
    <2>1. starts[t] = 1 /\ outcome[t] = "none"
      BY <1>9, <1>a, <2>0 DEF RotateSave, RunConsistent
    <2>2. UNCHANGED <<tasks, trail, announced, beaten, starts, outcome>>
      BY <1>9 DEF RotateSave
    <2>3. CASE EndRun(r)
      BY <2>2, <2>3, <1>d
    <2>4. CASE Move(r, [run[r] EXCEPT !.pc = "rotenv"])
      <3> DEFINE state == [run[r] EXCEPT !.pc = "rotenv"]
      <3>1. state.pc = "rotenv" /\ state.held = t /\ Move(r, state)
        BY <2>4, <2>0, <1>s DEF RunState
      <3>2. run'[r] = state
        BY <3>1, <1>a DEF Move
      <3> HIDE DEF state
      <3> QED BY <3>1, <3>2, <2>0, <2>1, <2>2, <1>b, HoldKeeps DEF Holding
    <2> QED BY <1>9, <2>3, <2>4 DEF RotateSave, ReplyWith, EndRun
  <1>10. CASE RotateEnv(r)
    <2>0. PICK t \in Task : t = run[r].held
      BY <1>10, <1>e DEF RotateEnv, Holding
    <2>1. starts[t] = 1 /\ outcome[t] = "none"
      BY <1>10, <1>a, <2>0 DEF RotateEnv, RunConsistent
    <2> DEFINE state == [run[r] EXCEPT !.pc = "submit", !.report = "zero",
                                       !.fp = CommandOf[run[r].held].to]
    <2>2. state.pc = "submit" /\ state.held = t /\ state.report = "zero" /\ Move(r, state)
      BY <1>10, <2>0, <1>s DEF RunState, RotateEnv
    <2>3. run'[r] = state
      BY <2>2, <1>a DEF Move
    <2> HIDE DEF state
    <2>4. starts'[t] = 1 /\ outcome'[t] = "zero"
      BY <1>10, <2>0, <2>1, <1>f DEF RotateEnv
    <2>5. \A u \in Task : u # t => starts'[u] = starts[u] /\ outcome'[u] = outcome[u]
      BY <1>10, <2>0, <1>f DEF RotateEnv
    <2>6. UNCHANGED <<tasks, trail, announced, beaten>>
      BY <1>10 DEF RotateEnv
    <2> QED BY <2>0, <2>1, <2>2, <2>3, <2>4, <2>5, <2>6, <1>b, HoldKeeps DEF Holding
  <1>g. ASSUME run[r].pc = "submit" \/ run[r].pc = "complete"
        PROVE  /\ run[r].held \in Task /\ run[r].report = outcome[run[r].held]
               /\ outcome[run[r].held] # "none" /\ starts[run[r].held] \in {0, 1}
               /\ outcome[run[r].held] = "zero" => starts[run[r].held] = 1
    <2>0. PICK t \in Task : t = run[r].held
      BY <1>g, <1>e DEF Holding
    <2>1. run[r].report = outcome[t] /\ outcome[t] # "none"
      BY <1>g, <2>0, <1>a DEF RunConsistent
    <2>2. starts[t] \in {0, 1} /\ (outcome[t] = "zero" => starts[t] = 1)
      BY <1>f DEF IndInv, RowConsistent
    <2> QED BY <2>0, <2>1, <2>2
  <1>11. CASE ResultAuth(r)
    <2>1. UNCHANGED <<tasks, trail, announced, beaten, starts, outcome>>
      BY <1>11 DEF ResultAuth
    <2>2. CASE EndRun(r)
      BY <2>1, <2>2, <1>d
    <2>3. CASE Move(r, [run[r] EXCEPT !.pc = "complete"])
      <3>0. PICK t \in Task : /\ t = run[r].held /\ run[r].report = outcome[t]
                              /\ outcome[t] # "none" /\ starts[t] \in {0, 1}
                              /\ outcome[t] = "zero" => starts[t] = 1
        <4>1. run[r].pc = "submit"
          BY <1>11 DEF ResultAuth
        <4> QED BY <4>1, <1>g
      <3> DEFINE state == [run[r] EXCEPT !.pc = "complete"]
      <3>1. /\ state.pc = "complete" /\ state.held = t /\ Move(r, state)
            /\ state.report = run[r].report
        BY <2>3, <3>0, <1>s DEF RunState
      <3>2. run'[r] = state
        BY <3>1, <1>a DEF Move
      <3> HIDE DEF state
      <3> QED BY <3>0, <3>1, <3>2, <2>1, <1>b, HoldKeeps DEF Holding
    <2> QED BY <1>11, <2>2, <2>3 DEF ResultAuth, Goto
  <1>12. CASE ResultComplete(r)
    <2>1. EndRun(r) /\ UNCHANGED <<announced, beaten, starts, outcome>>
      BY <1>12 DEF ResultComplete
    <2>2. CASE UNCHANGED <<tasks, trail>>
      BY <2>1, <2>2, <1>d
    <2>3. CASE CanComplete(run[r].held) /\ CompleteTask(run[r].held, run[r].report)
      <3>0. PICK t \in Task : /\ t = run[r].held /\ run[r].report = outcome[t]
                              /\ outcome[t] # "none"
        <4>1. run[r].pc = "complete"
          BY <1>12 DEF ResultComplete
        <4> QED BY <4>1, <1>g
      <3>1. /\ HandedOutStays /\ (\A u \in Task : RowConsistent(u)') /\ AuditMatchesRow'
        BY <2>1, <2>3, <3>0, CompleteKeeps DEF CanComplete
      <3>2. \A s \in Run : RunConsistent(s)'
        BY <2>1, <3>1, EndRunKeeps
      <3> QED BY <3>1, <3>2 DEF IndInv
    <2> QED BY <1>12, <2>2, <2>3 DEF ResultComplete
  <1>13. CASE FailRun(r)
    BY <1>13, <1>d DEF FailRun
  <1>14. CASE LoseClient(r)
    <2> DEFINE state == [run[r] EXCEPT !.alive = FALSE]
    <2>1. /\ state.pc = run[r].pc /\ state.held = run[r].held /\ Move(r, state)
          /\ state.sig = run[r].sig /\ state.fp = run[r].fp /\ state.report = run[r].report
      BY <1>14, <1>s DEF RunState, LoseClient
    <2>2. UNCHANGED <<tasks, starts, outcome, trail, announced, beaten>>
      BY <1>14 DEF LoseClient
    <2> HIDE DEF state
    <2>3. run'[r] = state
      BY <2>1, <1>a DEF Move
    <2>4. /\ \A s \in Run : s # r => RunConsistent(s)'
          /\ run[r].held # NoTask => \A s \in Run : run'[s].held = state.held => s = r
      BY <2>1, <2>2, <2>3, <1>b, MoveKeeps
    <2>5. RunConsistent(r)'
      BY <2>1, <2>2, <2>3, <2>4, <1>a DEF RunConsistent, Holding
    <2> QED BY <1>c, <2>2, <2>4, <2>5
  <1> QED
    BY <1>1, <1>2, <1>3, <1>4, <1>5, <1>6, <1>7, <1>8, <1>9, <1>10, <1>11, <1>12, <1>13,
       <1>14 DEF RunStep
------------------------------------------------------------------------------
\* A fresh installation satisfies the invariant.
LEMMA IndInit == Init => IndInv
  <1> SUFFICES ASSUME Init PROVE IndInv
    OBVIOUS
  <1>1. PICK joined \in [Node -> {"pending", "managed"}] :
          nodes = [n \in Node |-> [status |-> joined[n], fingerprint |-> FirstFp[n]]]
    BY DEF Init
  <1>2. NodeRowsTypeOK
    BY <1>1, NodeAttributes DEF Init, NodeRowsTypeOK, NodeRow, NodeStatus
  <1>3. tasks = [t \in Task |-> NoRow] /\ trail = [t \in Task |-> <<>>] /\ announced = {}
    BY DEF Init, TaskStoreInit
  <1>4. TaskStoreTypeOK
    BY <1>3, IdleTypes DEF TaskStoreTypeOK
  <1>5. run = [r \in Run |-> IdleRun(r)] /\ run \in [Run -> RunState]
    BY IdleTypes DEF Init
  <1>6. starts = [t \in Task |-> 0] /\ outcome = [t \in Task |-> "none"]
    BY DEF Init
  <1>7. TypeOK
    BY <1>2, <1>4, <1>5, <1>6, NodeAttributes, Codes DEF Init, TypeOK
  <1>8. ASSUME NEW t \in Task PROVE RowConsistent(t) /\ trail[t] = TrailOf(tasks[t])
    <2>1. /\ tasks[t].status = "absent" /\ tasks[t].attempts = 0 /\ tasks[t].exit = "none"
          /\ trail[t] = <<>> /\ starts[t] = 0 /\ outcome[t] = "none"
      BY <1>3, <1>6 DEF NoRow
    <2>2. RowConsistent(t)
      BY <2>1 DEF RowConsistent
    <2>3. trail[t] = TrailOf(tasks[t])
      BY <2>1 DEF TrailOf
    <2> QED BY <2>2, <2>3
  <1>9. ASSUME NEW r \in Run PROVE RunConsistent(r)
    <2>1. run[r].pc = "idle" /\ run[r].held = NoTask
      BY <1>5 DEF IdleRun
    <2> QED BY <2>1 DEF RunConsistent, Holding
  <1> QED BY <1>3, <1>7, <1>8, <1>9 DEF IndInv, AuditMatchesRow

\* Every step keeps it.
LEMMA IndStep == IndInv /\ [Next]_vars => IndInv'
  <1> SUFFICES ASSUME IndInv, [Next]_vars PROVE IndInv'
    OBVIOUS
  <1>a. TypeOK'
    BY TypeStep
  <1>1. ASSUME NEW r \in Run, StartRun(r) \/ RunStep(r) \/ FailRun(r) \/ LoseClient(r)
        PROVE  IndInv'
    BY <1>1, <1>a, RunStepKeeps
  <1>2. ASSUME NEW t \in Task, CreateTask(t) PROVE IndInv'
    <2>1. HandedOutStays /\ (\A u \in Task : RowConsistent(u)') /\ AuditMatchesRow'
      BY <1>2, InsertKeeps DEF CreateTask
    <2>2. \A s \in Run : RunConsistent(s)'
      BY <1>2, <2>1, RunsFrame DEF CreateTask
    <2> QED BY <1>a, <2>1, <2>2 DEF IndInv
  <1>3. ASSUME NEW t \in Task, RecordCreate(t) PROVE IndInv'
    <2>1. HandedOutStays /\ UNCHANGED <<tasks, trail, run, starts, outcome, beaten>>
      BY <1>3 DEF RecordCreate, AnnounceTask, HandedOutStays
    <2>2. (\A u \in Task : RowConsistent(u)') /\ (\A s \in Run : RunConsistent(s)')
      BY <2>1, RowFrame, RunsFrame
    <2>3. AuditMatchesRow'
      BY <1>3, <2>1 DEF IndInv, RecordCreate, AnnounceTask, AuditMatchesRow, TrailOf, Exists
    <2> QED BY <1>a, <2>2, <2>3 DEF IndInv
  <1>4. ASSUME NEW k \in OlderThan, RecoverStuck(k) PROVE IndInv'
    <2>0. k \in Nat
      BY RunAttributes
    <2>1. HandedOutStays /\ (\A u \in Task : RowConsistent(u)') /\ AuditMatchesRow'
      BY <1>4, <2>0, SweepKeeps DEF RecoverStuck
    <2>2. \A s \in Run : RunConsistent(s)'
      BY <1>4, <2>1, RunsFrame DEF RecoverStuck
    <2> QED BY <1>a, <2>1, <2>2 DEF IndInv
  <1>5. CASE EditNodes \/ UNCHANGED vars
    <2>1. HandedOutStays /\ UNCHANGED <<tasks, trail, announced, run, starts, outcome, beaten>>
      BY <1>5 DEF EditNodes, vars, HandedOutStays
    <2>2. (\A u \in Task : RowConsistent(u)') /\ (\A s \in Run : RunConsistent(s)')
      BY <2>1, RowFrame, RunsFrame
    <2> QED BY <1>a, <2>1, <2>2, AuditFrame DEF IndInv
  <1>6. CASE Tick
    <2>1. HandedOutStays /\ (\A u \in Task : RowConsistent(u)') /\ AuditMatchesRow'
      BY <1>6, AgeKeeps DEF Tick
    <2>2. \A s \in Run : RunConsistent(s)'
      BY <1>6, <2>1, RunsFrame DEF Tick
    <2> QED BY <1>a, <2>1, <2>2 DEF IndInv
  <1> QED BY <1>1, <1>2, <1>3, <1>4, <1>5, <1>6 DEF Next

\* The inductive invariant holds in every reachable state.
THEOREM Invariance == Spec => []IndInv
  BY IndInit, IndStep, PTL DEF Spec

\* Type correctness of the whole protocol: tables, requests in flight, node.env.
THEOREM TypeCorrect == Spec => []TypeOK
  <1>1. IndInv => TypeOK
    BY DEF IndInv
  <1> QED BY <1>1, Invariance, PTL

\* No interleaving of polls, crashes, lost replies, sweeps and edits makes the
\* nodes begin the command of a task twice.
THEOREM CommandsBeginAtMostOnce == Spec => []AtMostOnce
  <1>1. IndInv => AtMostOnce
    BY DEF IndInv, RowConsistent, AtMostOnce
  <1> QED BY <1>1, Invariance, PTL

\* A recorded exit code is the one the node came to; "succeeded" means begun.
THEOREM ResultsAreReal == Spec => []ResultIsReal
  <1>1. IndInv => ResultIsReal
    <2> SUFFICES ASSUME IndInv, NEW t \in Task
                 PROVE  /\ tasks[t].exit # "none" => tasks[t].exit = outcome[t]
                        /\ tasks[t].status = "succeeded" =>
                             tasks[t].exit = "zero" /\ starts[t] = 1
      BY DEF ResultIsReal
    <2>1. RowConsistent(t)
      BY DEF IndInv
    <2> QED BY <2>1 DEF RowConsistent
  <1> QED BY <1>1, Invariance, PTL

\* A task is in the hands of one run, on its own node, and out of the queue.
THEOREM TasksAreHeldOnce == Spec => []HeldOnce
  <1>1. IndInv => HeldOnce
    BY DEF IndInv, RunConsistent, HeldOnce
  <1> QED BY <1>1, Invariance, PTL

\* worker.sh never refuses a genuine reply of next_task.
THEOREM SignaturesFit == Spec => []SignatureFits
  <1>1. IndInv => SignatureFits
    BY DEF IndInv, RunConsistent, SignatureFits
  <1> QED BY <1>1, Invariance, PTL

\* Rows and transactional audit events tell the same story.
THEOREM AuditIsFaithful == Spec => []AuditMatchesRow
  <1>1. IndInv => AuditMatchesRow
    BY DEF IndInv
  <1> QED BY <1>1, Invariance, PTL

\* Only nodes with a successful heartbeat, and no beacons, are handed a task.
THEOREM DispatchNeedsHeartbeat == Spec => []DispatchAfterHeartbeat
  <1>1. IndInv => DispatchAfterHeartbeat
    <2> SUFFICES ASSUME IndInv, NEW t \in Task, tasks[t].attempts > 0
                 PROVE  NodeOf[t] \in beaten \ Beacon
      BY DEF DispatchAfterHeartbeat
    <2>1. RowConsistent(t)
      BY DEF IndInv
    <2>2. tasks[t].status \in {"absent", "pending"} => tasks[t].attempts = 0
      BY <2>1 DEF RowConsistent
    <2>3. tasks[t].status \notin {"absent", "pending"}
      BY <2>2
    <2> QED BY <2>1, <2>3 DEF RowConsistent
  <1> QED BY <1>1, Invariance, PTL
------------------------------------------------------------------------------
\* A sweep, a claim, a result, an insertion and the passing of time leave the
\* finished rows alone.
LEMMA StoreKeepsTerminal ==
  ASSUME TypeOK, NEW u \in Task, Terminal(u)
  PROVE  /\ \A t \in Task : InsertTask(t) => tasks'[u] = tasks[u]
         /\ \A t \in Task : tasks[t].status = "pending" /\ ClaimTask(t) => tasks'[u] = tasks[u]
         /\ \A k \in Nat : ExpireStuckTasks(k) => tasks'[u] = tasks[u]
         /\ \A t \in Task, code \in ExitCode :
              CanComplete(t) /\ CompleteTask(t, code) => tasks'[u] = tasks[u]
         /\ AgeLeases => tasks'[u] = tasks[u]
  <1>0. tasks \in [Task -> TaskRow]
    BY DEF TypeOK, TaskStoreTypeOK
  <1>1. tasks[u].status = "succeeded" \/ tasks[u].status = "failed"
    BY DEF Terminal, TerminalStatus
  <1>2. \A t \in Task : InsertTask(t) => tasks'[u] = tasks[u]
    BY <1>0, <1>1 DEF InsertTask, Exists
  <1>3. \A t \in Task : tasks[t].status = "pending" /\ ClaimTask(t) => tasks'[u] = tasks[u]
    BY <1>0, <1>1 DEF ClaimTask
  <1>4. \A k \in Nat : ExpireStuckTasks(k) => tasks'[u] = tasks[u]
    BY <1>1 DEF ExpireStuckTasks, Stuck
  <1>5. \A t \in Task, code \in ExitCode :
          CanComplete(t) /\ CompleteTask(t, code) => tasks'[u] = tasks[u]
    BY <1>0, <1>1 DEF CompleteTask, CanComplete
  <1>6. AgeLeases => tasks'[u] = tasks[u]
    BY <1>1 DEF AgeLeases, AgedRow
  <1> QED BY <1>2, <1>3, <1>4, <1>5, <1>6

\* A late or repeated result, a sweep or a claim never rewrites a finished task.
THEOREM FinishedRowsStay == Spec => TerminalIsFinal
  <1>1. IndInv /\ [Next]_vars => [\A t \in Task : Terminal(t) => tasks'[t] = tasks[t]]_vars
    <2> SUFFICES ASSUME IndInv, [Next]_vars, NEW u \in Task, Terminal(u)
                 PROVE  tasks'[u] = tasks[u]
      OBVIOUS
    <2>0. TypeOK /\ run \in [Run -> RunState]
      BY DEF IndInv, TypeOK
    <2>1. CASE tasks' = tasks
      BY <2>1
    <2>2. ASSUME NEW r \in Run, NextTaskSweep(r) PROVE tasks'[u] = tasks[u]
      BY <2>0, <2>2, StoreKeepsTerminal DEF NextTaskSweep
    <2>3. ASSUME NEW r \in Run, NextTaskClaim(r) PROVE tasks'[u] = tasks[u]
      <3>1. CASE \E t \in Offer(r) : ClaimTask(t)
        <4>1. PICK t \in Task : tasks[t].status = "pending" /\ ClaimTask(t)
          BY <3>1 DEF Offer, Oldest, Claimable
        <4> QED BY <2>0, <4>1, StoreKeepsTerminal
      <3> QED BY <2>3, <3>1 DEF NextTaskClaim
    <2>4. ASSUME NEW r \in Run, ResultComplete(r) PROVE tasks'[u] = tasks[u]
      <3>1. run[r].held \in Task
        BY <2>4, HoldingTask DEF ResultComplete, Holding
      <3>2. run[r].report \in ExitCode
        BY <2>0 DEF RunState
      <3> QED BY <2>0, <2>4, <3>1, <3>2, StoreKeepsTerminal DEF ResultComplete
    <2>5. ASSUME NEW t \in Task, CreateTask(t) PROVE tasks'[u] = tasks[u]
      BY <2>0, <2>5, StoreKeepsTerminal DEF CreateTask
    <2>6. ASSUME NEW k \in OlderThan, RecoverStuck(k) PROVE tasks'[u] = tasks[u]
      <3>1. k \in Nat
        BY RunAttributes
      <3> QED BY <2>0, <2>6, <3>1, StoreKeepsTerminal DEF RecoverStuck
    <2>7. CASE Tick
      BY <2>0, <2>7, StoreKeepsTerminal DEF Tick
    <2>8. ASSUME NEW r \in Run, \/ StartRun(r) \/ Heartbeat(r) \/ NextTaskAuth(r)
                                \/ Receive(r) \/ RotateLoad(r) \/ RotateSave(r)
                                \/ RotateEnv(r) \/ ResultAuth(r) \/ FailRun(r) \/ LoseClient(r)
                                \/ \E code \in {"zero", "nonzero"} : FinishCommand(r, code)
          PROVE  tasks' = tasks
      BY <2>8 DEF StartRun, Heartbeat, NextTaskAuth, Receive, RotateLoad, RotateSave, RotateEnv,
                  ResultAuth, FailRun, LoseClient, FinishCommand
    <2>9. ASSUME \/ EditNodes
                 \/ \E t \in Task : RecordCreate(t)
                 \/ UNCHANGED vars
          PROVE  tasks' = tasks
      BY <2>9 DEF EditNodes, RecordCreate, AnnounceTask, vars
    <2> QED BY <2>1, <2>2, <2>3, <2>4, <2>5, <2>6, <2>7, <2>8, <2>9 DEF Next, RunStep
  <1> QED BY <1>1, Invariance, PTL DEF Spec, TerminalIsFinal
------------------------------------------------------------------------------
\* A step that changes neither a status nor what was begun is no step of the
\* life cycle.
LEMMA LifeStutter ==
  ASSUME UNCHANGED starts, \A t \in Task : tasks'[t].status = tasks[t].status
  PROVE  UNCHANGED Lifecycle!lifeVars
  BY DEF Lifecycle!lifeVars

\* A sweep gives up on the stuck tasks, all of which are running.
LEMMA LifeSweep ==
  ASSUME TypeOK, NEW k \in Nat, ExpireStuckTasks(k), UNCHANGED starts
  PROVE  Lifecycle!LifeNext
  <1>0. tasks \in [Task -> TaskRow]
    BY DEF TypeOK, TaskStoreTypeOK
  <1>1. PICK S \in SUBSET Task : S = Stuck(k)
    BY DEF Stuck
  <1>2. \A t \in Task : tasks'[t].status = IF t \in S THEN "failed" ELSE tasks[t].status
    BY <1>0, <1>1 DEF ExpireStuckTasks, ExpiredRow, TaskRow
  <1>3. \A t \in S : t \in Task /\ tasks[t].status = "running"
    BY <1>1 DEF Stuck
  <1>4. Lifecycle!GiveUp(S)
    BY <1>2, <1>3 DEF Lifecycle!GiveUp
  <1> QED BY <1>4 DEF Lifecycle!LifeNext

\* Every step of the protocol is a step of the life cycle or leaves it alone.
LEMMA LifeStep == IndInv /\ [Next]_vars => [Lifecycle!LifeNext]_(Lifecycle!lifeVars)
  <1> SUFFICES ASSUME IndInv, [Next]_vars
               PROVE  Lifecycle!LifeNext \/ UNCHANGED Lifecycle!lifeVars
    OBVIOUS
  <1>0. /\ TypeOK /\ run \in [Run -> RunState] /\ tasks \in [Task -> TaskRow]
        /\ starts \in [Task -> Nat]
    BY DEF IndInv, TypeOK, TaskStoreTypeOK
  <1>1. CASE UNCHANGED <<tasks, starts>>
    BY <1>1, LifeStutter
  <1>2. ASSUME NEW r \in Run, NextTaskSweep(r) PROVE Lifecycle!LifeNext
    BY <1>0, <1>2, LifeSweep DEF NextTaskSweep
  <1>3. ASSUME NEW k \in OlderThan, RecoverStuck(k) PROVE Lifecycle!LifeNext
    <2>1. k \in Nat
      BY RunAttributes
    <2> QED BY <1>0, <1>3, <2>1, LifeSweep DEF RecoverStuck
  <1>4. ASSUME NEW r \in Run, NextTaskClaim(r), ~UNCHANGED tasks PROVE Lifecycle!LifeNext
    <2>1. PICK t \in Task : tasks[t].status = "pending" /\ ClaimTask(t)
      BY <1>4 DEF NextTaskClaim, Offer, Oldest, Claimable
    <2>2. tasks'[t].status = "running" /\ \A u \in Task : u # t => tasks'[u] = tasks[u]
      BY <1>0, <2>1 DEF ClaimTask, ClaimedRow, TaskRow
    <2>3. UNCHANGED starts
      BY <1>4 DEF NextTaskClaim
    <2>4. Lifecycle!HandOut(t)
      BY <2>1, <2>2, <2>3 DEF Lifecycle!HandOut
    <2> QED BY <2>4 DEF Lifecycle!LifeNext
  <1>5. ASSUME NEW r \in Run, Receive(r), ~UNCHANGED starts PROVE Lifecycle!LifeNext
    <2>0. PICK t \in Task : t = run[r].held
      BY <1>5, HoldingTask DEF Receive, Holding
    <2>1. starts[t] = 0 /\ outcome[t] = "none" /\ tasks[t].status \notin {"absent", "pending"}
      BY <1>5, <2>0, RunAttributes DEF Receive, IndInv, RunConsistent
    <2>2. tasks[t].status # "succeeded"
      BY <2>1 DEF IndInv, RowConsistent
    <2>3. tasks[t].status \in {"running", "failed"}
      BY <1>0, <2>1, <2>2 DEF TaskRow, TaskStatus, TerminalStatus
    <2>4. starts' = [starts EXCEPT ![t] = @ + 1] /\ UNCHANGED tasks
      BY <1>5, <2>0 DEF Receive
    <2>5. starts' = [starts EXCEPT ![t] = 1]
      BY <1>0, <2>1, <2>4
    <2>6. Lifecycle!Begin(t)
      BY <2>1, <2>3, <2>4, <2>5 DEF Lifecycle!Begin
    <2> QED BY <2>6 DEF Lifecycle!LifeNext
  <1>6. ASSUME NEW r \in Run, ResultComplete(r), ~UNCHANGED tasks PROVE Lifecycle!LifeNext
    <2>0. PICK t \in Task : t = run[r].held
      BY <1>6, HoldingTask DEF ResultComplete, Holding
    <2>1. CanComplete(t) /\ CompleteTask(t, run[r].report) /\ UNCHANGED starts
      BY <1>6, <2>0 DEF ResultComplete
    <2>2. run[r].report = outcome[t]
      BY <1>6, <2>0, RunAttributes DEF ResultComplete, IndInv, RunConsistent
    <2>3. tasks[t].status = "running" /\ \A u \in Task : u # t => tasks'[u] = tasks[u]
      BY <1>0, <2>1 DEF CanComplete, CompleteTask
    <2>4. tasks'[t].status = IF outcome[t] = "zero" THEN "succeeded" ELSE "failed"
      BY <1>0, <2>1, <2>2 DEF CompleteTask, CompletedRow, TaskRow
    <2>5. CASE outcome[t] = "zero"
      <3>1. starts[t] = 1
        BY <2>5 DEF IndInv, RowConsistent
      <3>2. Lifecycle!Succeed(t)
        BY <2>1, <2>3, <2>4, <2>5, <3>1 DEF Lifecycle!Succeed
      <3> QED BY <3>2 DEF Lifecycle!LifeNext
    <2>6. CASE outcome[t] # "zero"
      <3>1. Lifecycle!GiveUp({t})
        BY <2>1, <2>3, <2>4, <2>6 DEF Lifecycle!GiveUp
      <3> QED BY <3>1 DEF Lifecycle!LifeNext
    <2> QED BY <2>5, <2>6
  <1>7. ASSUME NEW t \in Task, CreateTask(t) PROVE Lifecycle!LifeNext
    <2>1. /\ tasks[t].status = "absent" /\ tasks'[t].status = "pending" /\ UNCHANGED starts
          /\ \A u \in Task : u # t => tasks'[u] = tasks[u]
      BY <1>0, <1>7 DEF CreateTask, InsertTask, Exists, NoRow
    <2>2. Lifecycle!Submit(t)
      BY <2>1 DEF Lifecycle!Submit
    <2> QED BY <2>2 DEF Lifecycle!LifeNext
  <1>8. ASSUME Tick PROVE UNCHANGED Lifecycle!lifeVars
    <2>1. \A t \in Task : tasks'[t].status = tasks[t].status
      BY <1>0, <1>8 DEF Tick, AgeLeases, AgedRow, TaskRow
    <2>2. UNCHANGED starts
      BY <1>8 DEF Tick
    <2> QED BY <2>1, <2>2, LifeStutter
  <1>9. ASSUME NEW r \in Run, \/ StartRun(r) \/ Heartbeat(r) \/ NextTaskAuth(r)
                              \/ RotateLoad(r) \/ RotateSave(r) \/ RotateEnv(r)
                              \/ ResultAuth(r) \/ FailRun(r) \/ LoseClient(r)
                              \/ \E code \in {"zero", "nonzero"} : FinishCommand(r, code)
        PROVE  UNCHANGED <<tasks, starts>>
    BY <1>9 DEF StartRun, Heartbeat, NextTaskAuth, RotateLoad, RotateSave, RotateEnv,
                ResultAuth, FailRun, LoseClient, FinishCommand
  <1>10. ASSUME NEW r \in Run
         PROVE  /\ NextTaskClaim(r) \/ ResultComplete(r) => UNCHANGED starts
                /\ Receive(r) => UNCHANGED tasks
    BY DEF NextTaskClaim, ResultComplete, Receive
  <1>11. ASSUME EditNodes \/ (\E t \in Task : RecordCreate(t)) \/ UNCHANGED vars
         PROVE  UNCHANGED <<tasks, starts>>
    BY <1>11 DEF EditNodes, RecordCreate, AnnounceTask, vars
  <1> QED
    BY <1>1, <1>2, <1>3, <1>4, <1>5, <1>6, <1>7, <1>8, <1>9, <1>10, <1>11 DEF Next, RunStep

\* The protocol of worker.sh, API, watchdog and operators implements the abstract
\* life cycle of a task: submitted, handed out, begun and judged at most once each.
THEOREM ImplementsLifecycle == Spec => LifecycleRefined
  <1>1. Init => Lifecycle!LifeInit
    <2> SUFFICES ASSUME Init PROVE Lifecycle!LifeInit
      OBVIOUS
    <2>1. \A t \in Task : tasks[t].status = "absent"
      BY DEF Init, TaskStoreInit, NoRow
    <2>2. starts = [t \in Task |-> 0]
      BY DEF Init
    <2> QED BY <2>1, <2>2 DEF Lifecycle!LifeInit
  <1> QED BY <1>1, LifeStep, Invariance, PTL DEF Spec, LifecycleRefined, Lifecycle!LifeSpec
==============================================================================
