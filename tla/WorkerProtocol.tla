---------------------------- MODULE WorkerProtocol ----------------------------
(***************************************************************************)
(* How a worker task gets from the tasks table to a node and its result    *)
(* back: invocations of worker.sh on the nodes, the API handlers they call *)
(* (heartbeat, next_task, rotate_fingerprint, task_result in api.py), the  *)
(* watchdog, and the operators that edit node rows meanwhile.              *)
(*                                                                         *)
(* A run is one invocation of worker.sh together with the handler of the   *)
(* request it has outstanding.  Every transaction of a handler is a step   *)
(* of its own, so handlers, watchdog and operators interleave between      *)
(* them.  worker.sh runs under set -e with curl -f and no retry: a lost    *)
(* request, an error status or a lost response ends the run.  A client     *)
(* that dies while its request is being served leaves the handler running. *)
(***************************************************************************)
EXTENDS TaskStore

CONSTANTS
  Run,          \* concurrent invocations of worker.sh
  NoTask,       \* a run that holds no task
  RunOf,        \* the node a run executes on
  Beacon,       \* nodes installed as beacon-only
  ExecEnabled,  \* nodes with HMN_ENABLE_EXEC=1
  Compatible,   \* nodes whose worker speaks the master's protocol version
  OlderThan     \* the --older-than values given to recover-stuck, in ticks

ASSUME RunAttributes ==
  /\ RunOf \in [Run -> Node]
  /\ NoTask \notin Task
  /\ Beacon \subseteq Node /\ ExecEnabled \subseteq Node /\ Compatible \subseteq Node
  /\ OlderThan \subseteq Nat

VARIABLES
  run,      \* the state of each run
  env,      \* per node, the fingerprint in node.env
  beaten,   \* the nodes with an "ok" heartbeat event in the audit log
  starts,   \* history: per task, how often a node began its command
  outcome   \* history: per task, the exit code its node came to

vars == <<nodes, edit, tasks, trail, announced, run, env, beaten, starts, outcome>>

\* A request that has not reached its handler's first transaction.
Sent == {"beat", "auth", "rotload", "submit"}
\* A handler between two of its transactions.
Serving == {"sweep", "claim", "rotsave", "complete"}
\* The script itself is at work.
Local == {"reply", "exec", "rotenv"}
RunPc == {"idle"} \cup Sent \cup Serving \cup Local

RunState == [pc     : RunPc,
             alive  : BOOLEAN,               \* the client still waits
             fp     : Fingerprint,           \* HERMES_NODE_FINGERPRINT
             sig    : Fingerprint,           \* key the reply is signed with
             held   : Task \cup {NoTask},
             report : ExitCode,
             copy   : NodeRow]               \* row loaded by the rotate handler

IdleRun(r) ==
  [pc |-> "idle", alive |-> TRUE, fp |-> FirstFp[RunOf[r]],
   sig |-> FirstFp[RunOf[r]], held |-> NoTask, report |-> "none",
   copy |-> [status |-> "absent", fingerprint |-> FirstFp[RunOf[r]]]]

\* One type invariant for the whole protocol.
TypeOK ==
  /\ NodeRowsTypeOK
  /\ TaskStoreTypeOK
  /\ run \in [Run -> RunState]
  /\ env \in [Node -> Fingerprint]
  /\ beaten \subseteq Node
  /\ starts \in [Task -> Nat]
  /\ outcome \in [Task -> ExitCode]

Init ==
  /\ \E joined \in [Node -> {"pending", "managed"}] :
       nodes = [n \in Node |-> [status |-> joined[n], fingerprint |-> FirstFp[n]]]
  /\ edit = [o \in Operator |-> NoEdit]
  /\ TaskStoreInit
  /\ run = [r \in Run |-> IdleRun(r)]
  /\ env = FirstFp
  /\ beaten = {}
  /\ starts = [t \in Task |-> 0]
  /\ outcome = [t \in Task |-> "none"]
------------------------------------------------------------------------------
\* Moving a run.  A handler whose client is gone ends with its reply undelivered.
Move(r, state) == run' = [run EXCEPT ![r] = state]
Goto(r, pc) == Move(r, [run[r] EXCEPT !.pc = pc])
EndRun(r) == Move(r, IdleRun(r))
ReplyWith(r, state) == Move(r, IF run[r].alive THEN state ELSE IdleRun(r))

\* The test that heartbeat, next_task and task_result share: the node is
\* managed and the caller presents its fingerprint.
Admitted(r) ==
  /\ nodes[RunOf[r]].status = "managed"
  /\ nodes[RunOf[r]].fingerprint = run[r].fp

\* worker.sh starts: it sources node.env and sends its heartbeat.
StartRun(r) ==
  /\ run[r].pc = "idle"
  /\ Move(r, [run[r] EXCEPT !.pc = "beat", !.fp = env[RunOf[r]]])
  /\ UNCHANGED <<nodes, edit, tasks, trail, announced, env, beaten, starts, outcome>>

\* heartbeat: the event's outcome is "ok" only for a compatible worker.  The
\* run goes on to poll unless the node is beacon-only.
Heartbeat(r) ==
  /\ run[r].pc = "beat"
  /\ \/ /\ Admitted(r)
        /\ beaten' = beaten \cup ({RunOf[r]} \cap Compatible)
        /\ IF RunOf[r] \in Beacon THEN EndRun(r)
           ELSE ReplyWith(r, [run[r] EXCEPT !.pc = "auth"])
     \/ ~Admitted(r) /\ EndRun(r) /\ UNCHANGED beaten
  /\ UNCHANGED <<nodes, edit, tasks, trail, announced, env, starts, outcome>>

\* next_task, first transaction: load_node and the checks on it.  The copy
\* loaded here is the one whose fingerprint signs the reply.
NextTaskAuth(r) ==
  /\ run[r].pc = "auth"
  /\ \/ /\ Admitted(r) /\ RunOf[r] \in Compatible
        /\ Move(r, [run[r] EXCEPT !.pc = "sweep",
                                  !.sig = nodes[RunOf[r]].fingerprint])
     \/ ~(Admitted(r) /\ RunOf[r] \in Compatible) /\ EndRun(r)
  /\ UNCHANGED <<nodes, edit, tasks, trail, announced, env, beaten, starts, outcome>>

\* Slip: polling does not sweep.
NextTaskNoSweep(r) ==
  /\ run[r].pc = "sweep"
  /\ Goto(r, "claim")
  /\ UNCHANGED <<nodes, edit, tasks, trail, announced, env, beaten, starts, outcome>>

\* next_task, second transaction: expire_stuck_tasks of every node.
NextTaskSweep(r) ==
  /\ run[r].pc = "sweep"
  /\ ExpireStuckTasks(0)
  /\ Goto(r, "claim")
  /\ UNCHANGED <<nodes, edit, announced, env, beaten, starts, outcome>>

\* The tasks claim_next_task may hand to this node: it reads the node's status
\* again, inside the claiming transaction.
Offer(r) ==
  IF nodes[RunOf[r]].status = "managed"
  THEN Oldest(Claimable(RunOf[r], "worker")) ELSE {}

\* Slip: the reply is signed with the row as it is after the claim.
NextTaskClaimResigned(r) ==
  /\ run[r].pc = "claim"
  /\ \/ \E t \in Offer(r) :
          /\ ClaimTask(t)
          /\ ReplyWith(r, [run[r] EXCEPT !.pc = "reply", !.held = t,
                                         !.sig = nodes[RunOf[r]].fingerprint])
     \/ Offer(r) = {} /\ EndRun(r) /\ UNCHANGED <<tasks, trail>>
  /\ UNCHANGED <<nodes, edit, announced, env, beaten, starts, outcome>>

\* next_task, third transaction: claim_next_task.
NextTaskClaim(r) ==
  /\ run[r].pc = "claim"
  /\ \/ \E t \in Offer(r) :
          /\ ClaimTask(t)
          /\ ReplyWith(r, [run[r] EXCEPT !.pc = "reply", !.held = t])
     \/ Offer(r) = {} /\ EndRun(r) /\ UNCHANGED <<tasks, trail>>
  /\ UNCHANGED <<nodes, edit, announced, env, beaten, starts, outcome>>

\* run_once with a task in hand: a bad signature or disabled execution is
\* reported as a failure, otherwise the node begins the command.
Receive(r) ==
  LET t == run[r].held IN
  /\ run[r].pc = "reply"
  /\ \/ /\ run[r].sig # run[r].fp
        /\ Move(r, [run[r] EXCEPT !.pc = "submit", !.report = "nonzero"])
        /\ outcome' = [outcome EXCEPT ![t] = "nonzero"]
        /\ UNCHANGED starts
     \/ /\ run[r].sig = run[r].fp /\ CommandOf[t].kind = "rotate"
        /\ Goto(r, "rotload")
        /\ starts' = [starts EXCEPT ![t] = @ + 1]
        /\ UNCHANGED outcome
     \/ /\ run[r].sig = run[r].fp /\ CommandOf[t].kind = "shell"
        /\ RunOf[r] \notin ExecEnabled
        /\ Move(r, [run[r] EXCEPT !.pc = "submit", !.report = "nonzero"])
        /\ outcome' = [outcome EXCEPT ![t] = "nonzero"]
        /\ UNCHANGED starts
     \/ /\ run[r].sig = run[r].fp /\ CommandOf[t].kind = "shell"
        /\ RunOf[r] \in ExecEnabled
        /\ Goto(r, "exec")
        /\ starts' = [starts EXCEPT ![t] = @ + 1]
        /\ UNCHANGED outcome
  /\ UNCHANGED <<nodes, edit, tasks, trail, announced, env, beaten>>

\* The command ends, by itself or by HMN_TASK_TIMEOUT_SEC; its exit code is
\* sent to task_result.  The timeout is off by default and the unit that runs
\* the script is oneshot, so a command may also hang for ever and keep its node
\* from polling.
FinishCommand(r, code) ==
  /\ run[r].pc = "exec"
  /\ Move(r, [run[r] EXCEPT !.pc = "submit", !.report = code])
  /\ outcome' = [outcome EXCEPT ![run[r].held] = code]
  /\ UNCHANGED <<nodes, edit, tasks, trail, announced, env, beaten, starts>>

\* rotate_fingerprint: load_node and the comparison with the presented
\* fingerprint, made twice in the code with the same row and outcome.  The
\* node's status is not looked at.
RotateLoad(r) ==
  /\ run[r].pc = "rotload"
  /\ \/ /\ nodes[RunOf[r]].fingerprint = run[r].fp
        /\ Move(r, [run[r] EXCEPT !.pc = "rotsave", !.copy = nodes[RunOf[r]]])
     \/ nodes[RunOf[r]].fingerprint # run[r].fp /\ EndRun(r)
  /\ UNCHANGED <<nodes, edit, tasks, trail, announced, env, beaten, starts, outcome>>

\* rotate_node_fingerprint: save_node of the loaded copy with the new value.
RotateSave(r) ==
  LET new == CommandOf[run[r].held].to IN
  /\ run[r].pc = "rotsave"
  /\ nodes' = [nodes EXCEPT ![RunOf[r]] = [run[r].copy EXCEPT !.fingerprint = new]]
  /\ ReplyWith(r, [run[r] EXCEPT !.pc = "rotenv"])
  /\ UNCHANGED <<edit, tasks, trail, announced, env, beaten, starts, outcome>>

\* rotate_fingerprint_from_task after the API call: write_fingerprint_env
\* replaces node.env, the script adopts the new value and reports success.
RotateEnv(r) ==
  LET new == CommandOf[run[r].held].to IN
  /\ run[r].pc = "rotenv"
  /\ env' = [env EXCEPT ![RunOf[r]] = new]
  /\ Move(r, [run[r] EXCEPT !.pc = "submit", !.report = "zero", !.fp = new])
  /\ outcome' = [outcome EXCEPT ![run[r].held] = "zero"]
  /\ UNCHANGED <<nodes, edit, tasks, trail, announced, beaten, starts>>

\* task_result: load_task, load_node and the checks.
ResultAuth(r) ==
  /\ run[r].pc = "submit"
  /\ \/ Admitted(r) /\ Goto(r, "complete")
     \/ ~Admitted(r) /\ EndRun(r)
  /\ UNCHANGED <<nodes, edit, tasks, trail, announced, env, beaten, starts, outcome>>

\* task_result: complete_task, or 409 when the task is no longer running.
ResultComplete(r) ==
  LET t == run[r].held IN
  /\ run[r].pc = "complete"
  /\ \/ CanComplete(t) /\ CompleteTask(t, run[r].report)
     \/ ~CanComplete(t) /\ UNCHANGED <<tasks, trail>>
  /\ EndRun(r)
  /\ UNCHANGED <<nodes, edit, announced, env, beaten, starts, outcome>>

\* The request is lost, the handler fails (a locked database, a restart of the
\* API) or the script is killed while it works on its own.
FailRun(r) ==
  /\ run[r].pc # "idle"
  /\ EndRun(r)
  /\ UNCHANGED <<nodes, edit, tasks, trail, announced, env, beaten, starts, outcome>>

\* The script dies or loses its connection while the handler goes on.
LoseClient(r) ==
  /\ run[r].pc \in Sent \cup Serving
  /\ run[r].alive
  /\ Move(r, [run[r] EXCEPT !.alive = FALSE])
  /\ UNCHANGED <<nodes, edit, tasks, trail, announced, env, beaten, starts, outcome>>
------------------------------------------------------------------------------
\* hmn task run of a low or medium risk task.  An explicit --node is not
\* required to be managed.
CreateTask(t) ==
  /\ nodes[NodeOf[t]].status # "absent"
  /\ InsertTask(t)
  /\ UNCHANGED <<nodes, edit, trail, announced, run, env, beaten, starts, outcome>>

RecordCreate(t) ==
  /\ AnnounceTask(t)
  /\ UNCHANGED <<nodes, edit, run, env, beaten, starts, outcome>>

\* hmn task recover-stuck --older-than k.
RecoverStuck(k) ==
  /\ Stuck(k) # {}
  /\ ExpireStuckTasks(k)
  /\ UNCHANGED <<nodes, edit, announced, run, env, beaten, starts, outcome>>

\* The operators' commands on node rows.
EditNodes ==
  /\ \E o \in Operator : OperatorStep(o)
  /\ UNCHANGED <<tasks, trail, announced, run, env, beaten, starts, outcome>>

\* Time passes.
Tick ==
  /\ AgeLeases
  /\ UNCHANGED <<nodes, edit, run, env, beaten, starts, outcome>>

RunStep(r) ==
  \/ Heartbeat(r) \/ NextTaskAuth(r) \/ NextTaskSweep(r) \/ NextTaskClaim(r)
  \/ Receive(r) \/ RotateLoad(r) \/ RotateSave(r) \/ RotateEnv(r)
  \/ \E code \in {"zero", "nonzero"} : FinishCommand(r, code)
  \/ ResultAuth(r) \/ ResultComplete(r)

Next ==
  \/ \E r \in Run : StartRun(r) \/ RunStep(r) \/ FailRun(r) \/ LoseClient(r)
  \/ \E t \in Task : CreateTask(t) \/ RecordCreate(t)
  \/ \E k \in OlderThan : RecoverStuck(k)
  \/ EditNodes
  \/ Tick

Spec == Init /\ [][Next]_vars
------------------------------------------------------------------------------
(* Properties *)

\* Concurrent polls, crashed workers, lost replies and the watchdog never make
\* the nodes begin a task's command twice (claim_next_task is atomic and
\* expire_stuck_tasks never returns a task to the queue).
AtMostOnce == \A t \in Task : starts[t] <= 1

\* What the tasks table says about a result is what happened on the node: a
\* recorded exit code is the one the node's own command came to, and a task is
\* "succeeded" only if its command was begun there.
ResultIsReal ==
  \A t \in Task :
    /\ tasks[t].exit # "none" => tasks[t].exit = outcome[t]
    /\ tasks[t].status = "succeeded" => tasks[t].exit = "zero" /\ starts[t] = 1

\* A task is worked on by one run at a time, on the node it was created for,
\* and never when it belongs to the ssh executor; it has left the queue.
HeldOnce ==
  \A r \in Run : run[r].held # NoTask =>
    /\ NodeOf[run[r].held] = RunOf[r]
    /\ ExecutorOf[run[r].held] = "worker"
    /\ tasks[run[r].held].status \notin {"absent", "pending"}
    /\ \A s \in Run : run[s].held = run[r].held => s = r

\* next_task signs with the row it authenticated the caller against, so
\* worker.sh never rejects a genuine reply, however the fingerprint is rotated
\* while the handler runs.
SignatureFits ==
  \A r \in Run : run[r].pc = "reply" => run[r].sig = run[r].fp

\* The audit events of a task that its status and failure reason imply.
TrailOf(row) ==
  CASE row.status \in {"absent", "pending"} -> <<>>
    [] row.status = "running" -> <<"dispatch">>
    [] row.status = "succeeded" -> <<"dispatch", "result/succeeded">>
    [] row.status = "failed" /\ row.reason = "exit_code_nonzero" ->
         <<"dispatch", "result/failed">>
    [] OTHER -> <<"dispatch", "watchdog/expire">>

\* The audit log tells the same story as the tasks table: dispatch, result and
\* expiry events are written with the row they are about, each exactly once,
\* and no event mentions a task before its row exists.
AuditMatchesRow ==
  /\ \A t \in Task : trail[t] = TrailOf(tasks[t])
  /\ \A t \in announced : Exists(t)

\* A task reaches only nodes the console calls formally managed: its node has
\* had a successful heartbeat (_formal_node_status), since worker.sh does not
\* poll after a refused or incompatible heartbeat.
DispatchAfterHeartbeat ==
  \A t \in Task : tasks[t].attempts > 0 => NodeOf[t] \in beaten \ Beacon

\* complete_task and expire_stuck_tasks leave a finished task alone: a late or
\* duplicate result never overwrites a terminal row.
TerminalIsFinal ==
  [][\A t \in Task : Terminal(t) => tasks'[t] = tasks[t]]_vars

\* The tasks table and the commands begun on the nodes implement TaskLifecycle.
Lifecycle == INSTANCE TaskLifecycle
  WITH life <- [t \in Task |-> tasks[t].status], begun <- starts

\* Hand-out, execution and verdict of every task follow the abstract life cycle.
LifecycleRefined == Lifecycle!LifeSpec
------------------------------------------------------------------------------
(* The inductive invariant behind the safety properties. *)

\* The states in which a run has a task in hand.
Holding == {"reply", "exec", "rotload", "rotsave", "rotenv", "submit", "complete"}

\* What the row of a task says about its past.
RowConsistent(t) ==
  /\ tasks[t].status \in {"absent", "pending"} =>
       /\ tasks[t].attempts = 0 /\ tasks[t].exit = "none"
       /\ starts[t] = 0 /\ outcome[t] = "none"
  /\ tasks[t].status \notin {"absent", "pending"} =>
       ExecutorOf[t] = "worker" /\ NodeOf[t] \in beaten \ Beacon
  /\ tasks[t].status = "running" => tasks[t].exit = "none"
  /\ tasks[t].status = "succeeded" => tasks[t].exit = "zero"
  /\ tasks[t].status = "failed" =>
       tasks[t].reason \in {"worker_lease_expired", "exit_code_nonzero"}
  /\ tasks[t].exit # "none" => tasks[t].exit = outcome[t]
  /\ starts[t] <= 1
  /\ outcome[t] = "zero" => starts[t] = 1

\* How far a run is with the task it holds.
RunConsistent(r) ==
  LET t == run[r].held IN
  /\ run[r].pc \notin Holding <=> t = NoTask
  /\ t # NoTask =>
       /\ NodeOf[t] = RunOf[r] /\ ExecutorOf[t] = "worker"
       /\ tasks[t].status \notin {"absent", "pending"}
       /\ \A s \in Run : run[s].held = t => s = r
  /\ run[r].pc = "reply" => starts[t] = 0 /\ outcome[t] = "none"
  /\ run[r].pc \in {"exec", "rotload", "rotsave", "rotenv"} =>
       starts[t] = 1 /\ outcome[t] = "none"
  /\ run[r].pc \in {"submit", "complete"} =>
       run[r].report = outcome[t] /\ run[r].report # "none"
  /\ run[r].pc \in {"sweep", "claim", "reply"} => run[r].sig = run[r].fp
  /\ run[r].pc = "auth" =>
       RunOf[r] \notin Beacon /\ (RunOf[r] \in Compatible => RunOf[r] \in beaten)
  /\ run[r].pc \in {"sweep", "claim"} => RunOf[r] \in beaten \ Beacon

\* The strengthening that every step preserves: rows, runs and audit log agree
\* about how far each task has come.
IndInv ==
  /\ TypeOK
  /\ \A t \in Task : RowConsistent(t)
  /\ \A r \in Run : RunConsistent(r)
  /\ AuditMatchesRow
------------------------------------------------------------------------------
(* Liveness.  Time passes; a node's timer keeps starting worker.sh; a script  *)
(* and a handler make progress, except that nothing ends a command which      *)
(* hangs; and the network does not fail forever: a run that sends its         *)
(* heartbeat and its poll again and again is served again and again (the      *)
(* answer to the poll may still be lost).                                     *)

\* A run does not stay where it is for ever, unless a command hangs: this is
\* weak fairness of StartRun and of every step of RunStep but FinishCommand,
\* one of which is enabled in each of these states.
MovesOn(r) == \A pc \in RunPc \ {"exec"} : []<>(run[r].pc # pc)

\* The requests of a run come to their end: one of them is refused, or the
\* claim is made.
Served(r) ==
  \/ run[r].alive /\ Heartbeat(r) /\ run'[r].pc = "idle"
  \/ NextTaskAuth(r) /\ run'[r].pc = "idle"
  \/ NextTaskClaim(r)

Fairness ==
  /\ WF_vars(Tick)
  /\ \A r \in Run :
       /\ MovesOn(r)
       /\ []<>(run[r].pc = "beat") => []<><<Served(r)>>_vars

FairSpec == Spec /\ Fairness

\* The node is managed, its worker polls, and both sides know one fingerprint.
Healthy(n) ==
  /\ nodes[n].status = "managed" /\ nodes[n].fingerprint = env[n]
  /\ n \in Compatible \ Beacon /\ \E r \in Run : RunOf[r] = n

\* The run does not hang: it is found outside a command again and again.
ComesBack(r) == []<>(run[r].pc # "exec")

\* As long as the worker of any one node comes back to poll, no worker task
\* stays "running" for ever, on that node or another, whatever became of its
\* worker and however long its command hangs: next_task sweeps the leases of
\* all nodes, and in the end nothing runs.
RunningEnds ==
  (\E r \in Run : <>[]Healthy(RunOf[r]) /\ ComesBack(r)) =>
    <>[](\A t \in Task : tasks[t].status # "running")

\* The worker tasks of a node whose worker comes back to poll all get their
\* verdict, whatever waits before them and however the tasks before them end:
\* claim_next_task always finds the next one.
PendingServed ==
  \A n \in Node :
    <>[]Healthy(n) /\ (\E r \in Run : RunOf[r] = n /\ ComesBack(r)) =>
      <>[](\A t \in Task : NodeOf[t] = n /\ ExecutorOf[t] = "worker" =>
             tasks[t].status \notin {"pending", "running"})
==============================================================================
