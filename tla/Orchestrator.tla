---------------------------- MODULE Orchestrator ----------------------------
(***************************************************************************)
(* The dispatch queue of orchestrator.py: tasks and workers are rows of     *)
(* SQLite, and a timer runs `hmn orchestrator tick`, which recovers overdue *)
(* leases, picks one task and one worker, sends the task over the bridge    *)
(* and records a lease or a failed attempt.                                 *)
(*                                                                          *)
(* A tick is one connection, but not one transaction: Python begins a       *)
(* transaction at the first UPDATE.  A tick that found an overdue lease      *)
(* holds the write lock from there to its commit, the bridge call included; *)
(* any other tick reads without a lock and locks for its last writes only.  *)
(* What a tick has written is seen by itself alone until it commits.        *)
(***************************************************************************)
EXTENDS Integers, FiniteSets, Sequences, SequencesExt

CONSTANTS
  Tasks, Workers, Tickers,
  LowRisk,      \* the tasks enqueued with risk "low"
  Priority,     \* the priority each task is enqueued with
  MaxRetries,   \* max_retries of tick
  AttemptCap,   \* bound: no attempt is counted past it (only overlapping ticks get there)
  NoOne         \* no worker, and nobody holding the write lock

ASSUME OrchestratorAssumption ==
  /\ LowRisk \subseteq Tasks
  /\ Priority \in [Tasks -> Nat]
  /\ MaxRetries \in Nat \ {0}
  /\ AttemptCap \in Nat /\ AttemptCap >= MaxRetries
  /\ NoOne \notin Workers \cup Tickers

VARIABLES
  queue,        \* the tasks of orchestrator_tasks, oldest first
  status,       \* their status column
  attempts,     \* their attempts column
  workers,      \* the rows of orchestrator_workers, latest update first
  leases,       \* the rows of orchestrator_assignments that are "leased"
  tick,         \* the ticks that are running
  lock,         \* the tick that holds SQLite's write lock
  overlap       \* history: two ticks have been running at once

queueRows == <<queue, status, attempts>>
vars == <<queue, status, attempts, workers, leases, tick, lock, overlap>>

\* An assignment row; `nth` tells rows of one task and worker apart, `overdue` says
\* that leased_at is more than lease_timeout_seconds ago.  A row that became "expired"
\* is read by the status view alone and is not kept.
Lease == [task : Tasks, worker : Workers, nth : 1..Cardinality(Tickers), overdue : BOOLEAN]

IdleTick == [pc |-> "idle", due |-> {}, task |-> NoOne, tried |-> 0, worker |-> NoOne]

Init ==
  /\ queue = <<>>
  /\ status = [t \in Tasks |-> "absent"]
  /\ attempts = [t \in Tasks |-> 0]
  /\ workers = <<>>
  /\ leases = {}
  /\ tick = [k \in Tickers |-> IdleTick]
  /\ lock = NoOne
  /\ overlap = FALSE

----------------------------------------------------------------------------
(* Operators of the CLI.  An insert or update waits for the write lock. *)

Enqueue(t) ==
  /\ lock = NoOne
  /\ status[t] = "absent"
  /\ queue' = Append(queue, t)
  /\ status' = [status EXCEPT ![t] = "queued"]
  /\ UNCHANGED <<attempts, workers, leases, tick, lock, overlap>>

\* register_worker and update_worker leave a row with the given status and with a
\* transport that is given, kept or (update_worker reads it before it locks) out of
\* date; what matters of the two columns is whether tick may choose the worker.
SetWorker(w, available) ==
  /\ lock = NoOne
  /\ workers' = <<[id |-> w, available |-> available]>>
                  \o SelectSeq(workers, LAMBDA row : row.id # w)
  /\ UNCHANGED <<queueRows, leases, tick, lock, overlap>>

\* Time passes: leased_at of an assignment falls behind the timeout.
LeaseAges(a) ==
  /\ a \in leases /\ ~a.overdue
  /\ leases' = (leases \ {a}) \cup {[a EXCEPT !.overdue = TRUE]}
  /\ UNCHANGED <<queueRows, workers, tick, lock, overlap>>

----------------------------------------------------------------------------
(* The tick *)

\* The tables as tick k sees them: with its own expiries once it has written them.
Expiring(k) == IF lock = k THEN tick[k].due ELSE {}
\* Slip: the assignments of an overdue task expire, the task is not queued again.
SeenStatusKept(k) == status
SeenStatus(k) == [t \in Tasks |-> IF t \in Expiring(k) THEN "queued" ELSE status[t]]
\* Slip: the task is queued again, its assignments do not expire.
SeenLeasesKept(k) == leases
SeenLeases(k) == {a \in leases : a.task \notin Expiring(k)}

\* ORDER BY priority DESC, created_at ASC LIMIT 1
Queued(k) == {t \in LowRisk : SeenStatus(k)[t] = "queued"}
Precedes(t, u) ==
  \/ Priority[t] > Priority[u]
  \/ /\ Priority[t] = Priority[u]
     /\ \E i, j \in DOMAIN queue : i < j /\ queue[i] = t /\ queue[j] = u
First(k) == CHOOSE t \in Queued(k) : \A u \in Queued(k) \ {t} : Precedes(t, u)

\* A tick commits what it wrote and ends.
Commit(k, newStatus, newLeases) ==
  /\ status' = newStatus
  /\ leases' = newLeases
  /\ lock' = IF lock = k THEN NoOne ELSE lock
  /\ tick' = [tick EXCEPT ![k] = IdleTick]

\* Whether k can write: it holds the lock, or takes it now.
CanWrite(k) == lock \in {NoOne, k}

\* Slip: the age of a lease is not compared with the timeout.
TickScanAnyAge(k) ==
  /\ tick[k].pc = "idle"
  /\ LET due == {a.task : a \in {b \in leases : status[b.task] = "leased"}}
     IN tick' = [tick EXCEPT ![k] =
                   [@ EXCEPT !.pc = IF due = {} THEN "pick" ELSE "expire", !.due = due]]
  /\ overlap' = (overlap \/ \E j \in Tickers \ {k} : tick[j].pc # "idle")
  /\ UNCHANGED <<queueRows, workers, leases, lock>>

\* The SELECT of the leased rows, with the clock read just before it.
TickScan(k) ==
  /\ tick[k].pc = "idle"
  /\ LET due == {a.task : a \in {b \in leases : b.overdue /\ status[b.task] = "leased"}}
     IN tick' = [tick EXCEPT ![k] =
                   [@ EXCEPT !.pc = IF due = {} THEN "pick" ELSE "expire", !.due = due]]
  /\ overlap' = (overlap \/ \E j \in Tickers \ {k} : tick[j].pc # "idle")
  /\ UNCHANGED <<queueRows, workers, leases, lock>>

\* The UPDATEs of the rows found overdue, whatever has become of them since.
TickExpire(k) ==
  /\ tick[k].pc = "expire"
  /\ lock = NoOne
  /\ lock' = k
  /\ tick' = [tick EXCEPT ![k].pc = "pick"]
  /\ UNCHANGED <<queueRows, workers, leases, overlap>>

TickPick(k) ==
  /\ tick[k].pc = "pick"
  /\ \/ /\ Queued(k) = {}
        /\ Commit(k, SeenStatus(k), SeenLeases(k))
     \/ /\ Queued(k) # {}
        /\ tick' = [tick EXCEPT ![k] = [@ EXCEPT !.pc = "worker", !.task = First(k),
                                                 !.tried = attempts[First(k)]]]
        /\ UNCHANGED <<status, leases, lock>>
  /\ UNCHANGED <<queue, attempts, workers, overlap>>

TickWorker(k) ==
  LET able == SelectSeq(workers, LAMBDA row : row.available)
  IN /\ tick[k].pc = "worker"
     /\ \/ /\ able = <<>>
           /\ Commit(k, SeenStatus(k), SeenLeases(k))
        \/ /\ able # <<>>
           /\ tick' = [tick EXCEPT ![k] = [@ EXCEPT !.pc = "send", !.worker = able[1].id]]
           /\ UNCHANGED <<status, leases, lock>>
     /\ UNCHANGED <<queue, attempts, workers, overlap>>

\* bridge_adapter.dispatch; a tick without an adapter takes the first branch.
TickSend(k) ==
  /\ tick[k].pc = "send"
  /\ \E answer \in {"sent", "failed"} : tick' = [tick EXCEPT ![k].pc = answer]
  /\ UNCHANGED <<queueRows, workers, leases, lock, overlap>>

\* A dispatched task becomes "leased", with a new assignment.
TickLease(k) ==
  LET t == tick[k].task
      w == tick[k].worker
      nth == CHOOSE n \in 1..Cardinality(Tickers) :
               ~\E a \in SeenLeases(k) : a.task = t /\ a.worker = w /\ a.nth = n
  IN /\ tick[k].pc = "sent"
     /\ CanWrite(k)
     /\ Commit(k, [SeenStatus(k) EXCEPT ![t] = "leased"],
               SeenLeases(k) \cup {[task |-> t, worker |-> w, nth |-> nth, overdue |-> FALSE]})
     /\ UNCHANGED <<queue, attempts, workers, overlap>>

\* Slip: the last retry is compared with > instead of >=.
TickFailedOnceMore(k) ==
  LET t == tick[k].task
      tried == tick[k].tried + 1
  IN /\ tick[k].pc = "failed"
     /\ CanWrite(k)
     /\ tried <= AttemptCap
     /\ attempts' = [attempts EXCEPT ![t] = tried]
     /\ Commit(k, IF tried > MaxRetries THEN [SeenStatus(k) EXCEPT ![t] = "paused"]
                                         ELSE SeenStatus(k),
               SeenLeases(k))
     /\ UNCHANGED <<queue, workers, overlap>>

\* A failed dispatch is counted from the attempts read by TickPick; the last one
\* allowed pauses the task.
TickFailed(k) ==
  LET t == tick[k].task
      tried == tick[k].tried + 1
  IN /\ tick[k].pc = "failed"
     /\ CanWrite(k)
     /\ tried <= AttemptCap
     /\ attempts' = [attempts EXCEPT ![t] = tried]
     /\ Commit(k, IF tried >= MaxRetries THEN [SeenStatus(k) EXCEPT ![t] = "paused"]
                                         ELSE SeenStatus(k),
               SeenLeases(k))
     /\ UNCHANGED <<queue, workers, overlap>>

\* The process dies, or SQLite gives up waiting for the lock: what it wrote is undone.
TickDies(k) ==
  /\ tick[k].pc # "idle"
  /\ tick' = [tick EXCEPT ![k] = IdleTick]
  /\ lock' = IF lock = k THEN NoOne ELSE lock
  /\ UNCHANGED <<queueRows, workers, leases, overlap>>

TickStep(k) ==
  \/ TickScan(k) \/ TickExpire(k) \/ TickPick(k) \/ TickWorker(k)
  \/ TickSend(k) \/ TickLease(k) \/ TickFailed(k)

Next ==
  \/ \E t \in Tasks : Enqueue(t)
  \/ \E w \in Workers, available \in BOOLEAN : SetWorker(w, available)
  \/ \E a \in leases : LeaseAges(a)
  \/ \E k \in Tickers : TickStep(k) \/ TickDies(k)

Spec == Init /\ [][Next]_vars

----------------------------------------------------------------------------
(* Properties *)

TypeOK ==
  /\ queue \in SeqOf(Tasks, Cardinality(Tasks))
  /\ status \in [Tasks -> {"absent", "queued", "leased", "paused"}]
  /\ attempts \in [Tasks -> Nat]
  /\ \A i \in DOMAIN workers : workers[i] \in [id : Workers, available : BOOLEAN]
  /\ leases \subseteq Lease
  /\ tick \in [Tickers -> [pc : {"idle", "expire", "pick", "worker", "send", "sent", "failed"},
                           due : SUBSET Tasks, task : Tasks \cup {NoOne}, tried : Nat,
                           worker : Workers \cup {NoOne}]]
  /\ lock \in Tickers \cup {NoOne}
  /\ overlap \in BOOLEAN

LeasesOf(t) == {a \in leases : a.task = t}

\* However ticks interleave and die, a task that is "leased" has a leased assignment:
\* the recovery of tick joins the two tables, so without one it would be leased for
\* ever (orchestrator.py:574-597).
LeasedIsHeld == \A t \in Tasks : status[t] = "leased" => LeasesOf(t) # {}

\* While ticks do not overlap, a task is handed to one worker at a time, and a live
\* assignment belongs to a task that is leased: the lease is taken back before the task
\* is dispatched again (orchestrator.py:574-604).
OneHolder ==
  ~overlap => \A t \in Tasks : /\ Cardinality(LeasesOf(t)) <= 1
                               /\ LeasesOf(t) # {} => status[t] = "leased"

\* While ticks do not overlap, attempts counts the failures up to max_retries, and the
\* task is paused exactly when they are used up, also when ticks die half way
\* (orchestrator.py:627-684).
RetriesBounded ==
  ~overlap => \A t \in Tasks : /\ attempts[t] <= MaxRetries
                               /\ status[t] = "paused" <=> attempts[t] = MaxRetries

\* While ticks do not overlap, a lease that still runs is not taken away from its
\* worker, and a paused task stays paused (orchestrator.py:585-602).
LeaseRunsItsTime ==
  [][~overlap' => /\ \A a \in leases : ~a.overdue =>
                       \E b \in leases' : [b EXCEPT !.overdue = FALSE] = a
                  /\ \A t \in Tasks : status[t] = "paused" => status'[t] = "paused"]_vars
=============================================================================
