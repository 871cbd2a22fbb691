------------------------- MODULE OrchestratorProofs -------------------------
(* What is proved about Orchestrator for any set of tasks, workers and ticks. *)
EXTENDS MCStreak, FiniteSetTheorems, TLAPS

\* An assignment is a record with the four columns that are modelled.
Shaped == \A a \in leases : \E t, w, n, o :
            a = [task |-> t, worker |-> w, nth |-> n, overdue |-> o]

HeldInv == Shaped /\ LeasedIsHeld

\* What a tick sees is as consistent as what is committed: its expiries queue a task
\* and take its assignments together.
LEMMA SeenIsHeld ==
  ASSUME HeldInv, NEW k, NEW u \in Tasks, SeenStatus(k)[u] = "leased"
  PROVE  \E a \in SeenLeases(k) : a.task = u
<1>1. u \notin Expiring(k) /\ status[u] = "leased"
  BY DEF SeenStatus
<1>2. PICK a \in leases : a.task = u
  BY <1>1 DEF HeldInv, LeasedIsHeld, LeasesOf
<1> QED
  BY <1>1, <1>2 DEF SeenLeases

\* A tick that commits what it has seen and nothing else keeps the invariant.
LEMMA CommitSeen ==
  ASSUME HeldInv, NEW k, Commit(k, SeenStatus(k), SeenLeases(k))
  PROVE  HeldInv'
<1>1. Shaped'
  BY DEF HeldInv, Shaped, Commit, SeenLeases
<1>2. ASSUME NEW u \in Tasks, status'[u] = "leased"
      PROVE  LeasesOf(u)' # {}
  <2>1. PICK a \in SeenLeases(k) : a.task = u
    BY <1>2, SeenIsHeld DEF Commit
  <2> QED
    BY <2>1 DEF Commit, LeasesOf
<1> QED
  BY <1>1, <1>2 DEF HeldInv, LeasedIsHeld

\* A lease that ages stays an assignment of its task.
LEMMA AgingKeeps ==
  ASSUME HeldInv, NEW a \in leases, LeaseAges(a)
  PROVE  HeldInv'
<1>1. PICK t, w, n, o : a = [task |-> t, worker |-> w, nth |-> n, overdue |-> o]
  BY DEF HeldInv, Shaped
<1> DEFINE old == [task |-> t, worker |-> w, nth |-> n, overdue |-> TRUE]
<1>2. leases' = (leases \ {a}) \cup {old} /\ status' = status
  BY <1>1 DEF LeaseAges, queueRows
<1>3. Shaped'
  BY <1>2 DEF HeldInv, Shaped
<1>4. ASSUME NEW u \in Tasks, status[u] = "leased"
      PROVE  \E b \in leases' : b.task = u
  <2>1. PICK b \in leases : b.task = u
    BY <1>4 DEF HeldInv, LeasedIsHeld, LeasesOf
  <2>2. CASE b = a
    <3>1. old.task = u
      BY <2>1, <2>2, <1>1
    <3>2. old \in leases'
      BY <1>2
    <3> HIDE DEF old
    <3> QED
      BY <3>1, <3>2
  <2>3. CASE b # a
    BY <2>1, <2>3, <1>2
  <2> QED
    BY <2>2, <2>3
<1> QED
  BY <1>2, <1>3, <1>4 DEF HeldInv, LeasedIsHeld, LeasesOf

\* The new lease comes with the new status, and both with the tick's expiries.
LEMMA LeaseKeeps ==
  ASSUME HeldInv, NEW k, TickLease(k)
  PROVE  HeldInv'
<1> DEFINE t == tick[k].task
           w == tick[k].worker
<1>1. PICK n : Commit(k, [SeenStatus(k) EXCEPT ![t] = "leased"],
                      SeenLeases(k) \cup {[task |-> t, worker |-> w, nth |-> n,
                                           overdue |-> FALSE]})
  BY DEF TickLease
<1>2. Shaped'
  BY <1>1 DEF HeldInv, Shaped, Commit, SeenLeases
<1>3. ASSUME NEW u \in Tasks, status'[u] = "leased"
      PROVE  LeasesOf(u)' # {}
  <2>1. CASE u = t
    <3> DEFINE new == [task |-> t, worker |-> w, nth |-> n, overdue |-> FALSE]
    <3>1. new \in leases'
      BY <1>1 DEF Commit
    <3>2. new.task = u
      BY <2>1
    <3> HIDE DEF new
    <3> QED
      BY <3>1, <3>2 DEF LeasesOf
  <2>2. CASE u # t
    <3>1. SeenStatus(k)[u] = "leased"
      BY <1>1, <1>3, <2>2 DEF Commit, SeenStatus
    <3>2. PICK a \in SeenLeases(k) : a.task = u
      BY <3>1, SeenIsHeld
    <3> QED
      BY <1>1, <3>2 DEF Commit, LeasesOf
  <2> QED
    BY <2>1, <2>2
<1> QED
  BY <1>2, <1>3 DEF HeldInv, LeasedIsHeld

\* A failed dispatch leases nothing: the task is paused or left as it was seen.
LEMMA FailureKeeps ==
  ASSUME HeldInv, NEW k, TickFailed(k)
  PROVE  HeldInv'
<1> DEFINE t == tick[k].task
<1>1. CASE Commit(k, SeenStatus(k), SeenLeases(k))
  BY <1>1, CommitSeen
<1>2. CASE Commit(k, [SeenStatus(k) EXCEPT ![t] = "paused"], SeenLeases(k))
  <2>1. Shaped'
    BY <1>2 DEF HeldInv, Shaped, Commit, SeenLeases
  <2>2. ASSUME NEW u \in Tasks, status'[u] = "leased"
        PROVE  LeasesOf(u)' # {}
    <3>1. SeenStatus(k)[u] = "leased"
      BY <1>2, <2>2 DEF Commit, SeenStatus
    <3>2. PICK a \in SeenLeases(k) : a.task = u
      BY <3>1, SeenIsHeld
    <3> QED
      BY <1>2, <3>2 DEF Commit, LeasesOf
  <2> QED
    BY <2>1, <2>2 DEF HeldInv, LeasedIsHeld
<1> QED
  BY <1>1, <1>2 DEF TickFailed

\* Steps that write neither table keep the invariant.
LEMMA UntouchedKeeps ==
  ASSUME HeldInv, UNCHANGED <<status, leases>>
  PROVE  HeldInv'
BY DEF HeldInv, Shaped, LeasedIsHeld, LeasesOf

LEMMA StepKeeps ==
  ASSUME HeldInv, [Next]_vars
  PROVE  HeldInv'
<1>1. ASSUME NEW t \in Tasks, Enqueue(t) PROVE HeldInv'
  <2>1. Shaped'
    BY <1>1 DEF HeldInv, Shaped, Enqueue
  <2>2. \A u \in Tasks : status'[u] = "leased" => status[u] = "leased"
    <3>1. status' = [status EXCEPT ![t] = "queued"]
      BY <1>1 DEF Enqueue
    <3> QED
      BY <3>1
  <2> QED
    BY <1>1, <2>1, <2>2 DEF HeldInv, LeasedIsHeld, LeasesOf, Enqueue
<1>2. ASSUME NEW w, NEW available, SetWorker(w, available) PROVE HeldInv'
  BY <1>2, UntouchedKeeps DEF SetWorker, queueRows
<1>3. ASSUME NEW a \in leases, LeaseAges(a) PROVE HeldInv'
  BY <1>3, AgingKeeps
<1>4. ASSUME NEW k, TickScan(k) \/ TickExpire(k) \/ TickSend(k) \/ TickDies(k)
      PROVE  HeldInv'
  BY <1>4, UntouchedKeeps DEF TickScan, TickExpire, TickSend, TickDies, queueRows
<1>5. ASSUME NEW k, TickPick(k) \/ TickWorker(k) PROVE HeldInv'
  BY <1>5, UntouchedKeeps, CommitSeen DEF TickPick, TickWorker
<1>6. ASSUME NEW k, TickLease(k) PROVE HeldInv'
  BY <1>6, LeaseKeeps
<1>7. ASSUME NEW k, TickFailed(k) PROVE HeldInv'
  BY <1>7, FailureKeeps
<1>8. CASE UNCHANGED vars
  BY <1>8, UntouchedKeeps DEF vars
<1> QED
  BY <1>1, <1>2, <1>3, <1>4, <1>5, <1>6, <1>7, <1>8 DEF Next, TickStep

\* However many ticks overlap, read stale rows, or die, a leased task has an assignment
\* by which a later tick can take it back (orchestrator.py:574-597).
THEOREM LeasedTasksAreHeld == Spec => []LeasedIsHeld
<1>1. Init => HeldInv
  BY DEF Init, HeldInv, Shaped, LeasedIsHeld
<1>2. HeldInv /\ [Next]_vars => HeldInv'
  BY StepKeeps
<1>3. HeldInv => LeasedIsHeld
  BY DEF HeldInv
<1> QED
  BY <1>1, <1>2, <1>3, PTL DEF Spec
-----------------------------------------------------------------------------
(***************************************************************************)
(* Ticks that do not overlap.  RowsInv holds however ticks run: the queue  *)
(* lists every task once, and who holds the write lock is past its scan.   *)
(* TurnInv is about ticks that take turns: what a tick read before its     *)
(* lock is still so when it writes.                                        *)
(***************************************************************************)
Chosen == {"worker", "send", "sent", "failed"}  \* a tick that has picked its task
TickRow(w) == [pc : {"idle", "expire", "pick"} \cup Chosen, due : SUBSET Tasks,
               task : Tasks \cup {NoOne}, tried : Nat, worker : {w}]

ProperLease(a) == \E w, n :
                    a \in [task : Tasks, worker : {w}, nth : {n}, overdue : BOOLEAN]

QueueListsTasks ==
  /\ queue \in Seq(Tasks)
  /\ \A i, j \in DOMAIN queue : queue[i] = queue[j] => i = j
  /\ \A t \in Tasks : status[t] # "absent" <=> \E i \in DOMAIN queue : queue[i] = t

TickConsistent(k) ==
  /\ \E w : tick[k] \in TickRow(w)
  /\ tick[k].pc \in Chosen => tick[k].task \in Tasks /\ status[tick[k].task] # "absent"
  /\ \A t \in tick[k].due : status[t] # "absent"

LockConsistent == lock = NoOne \/ (lock \in Tickers /\ tick[lock].pc \notin {"idle", "expire"})

RowsInv ==
  /\ QueueListsTasks
  /\ status \in [Tasks -> {"absent", "queued", "leased", "paused"}]
  /\ attempts \in [Tasks -> Nat]
  /\ \A a \in leases : ProperLease(a)
  /\ DOMAIN tick = Tickers /\ \A k \in Tickers : TickConsistent(k)
  /\ LockConsistent
  /\ overlap \in BOOLEAN

\* The tables: a task has at most one assignment, has one only while it is leased,
\* and is paused when its attempts are used up.
TablesAgree ==
  /\ \A a, b \in leases : a.task = b.task => a = b
  /\ \A a \in leases : status[a.task] = "leased"
  /\ \A t \in Tasks : attempts[t] <= MaxRetries /\ (status[t] = "paused" <=> attempts[t] = MaxRetries)

OneAtWork == \A j, k \in Tickers : j # k => tick[j].pc = "idle" \/ tick[k].pc = "idle"

\* What a tick found overdue is still leased and overdue, and the task it picked is
\* still queued with the attempts it read.
TickUpToDate(k) ==
  /\ tick[k].pc = "expire" \/ lock = k
       => \A t \in tick[k].due : status[t] = "leased" /\ \A a \in LeasesOf(t) : a.overdue
  /\ tick[k].pc \in Chosen => /\ SeenStatus(k)[tick[k].task] = "queued"
                              /\ tick[k].tried = attempts[tick[k].task]

TurnInv == ~overlap => TablesAgree /\ OneAtWork /\ \A k \in Tickers : TickUpToDate(k)
-----------------------------------------------------------------------------
(* The choice of a task. *)

\* The tasks of S that are more urgent than t.
Before(S, t) == {u \in S : Precedes(u, t)}

\* A queue that lists every task once puts any two of them in an order.
LEMMA QueueIsAnOrder ==
  ASSUME QueueListsTasks, NEW t \in Tasks, NEW u \in Tasks,
         status[t] # "absent", status[u] # "absent"
  PROVE  /\ ~Precedes(t, t)
         /\ t # u => Precedes(t, u) \/ Precedes(u, t)
         /\ \A v \in Tasks : status[v] # "absent" /\ Precedes(v, u) /\ Precedes(u, t)
                               => Precedes(v, t)
<1>1. /\ DOMAIN queue \subseteq Nat
      /\ \A v \in Tasks : Priority[v] \in Nat
  BY OrchestratorAssumption DEF QueueListsTasks
<1>2. ~Precedes(t, t)
  BY <1>1 DEF QueueListsTasks, Precedes
<1>3. ASSUME t # u PROVE Precedes(t, u) \/ Precedes(u, t)
  <2>1. PICK i, j \in DOMAIN queue : queue[i] = t /\ queue[j] = u
    BY DEF QueueListsTasks
  <2>2. i < j \/ j < i
    BY <1>1, <1>3, <2>1
  <2> QED BY <1>1, <2>1, <2>2 DEF Precedes
<1>4. ASSUME NEW v \in Tasks, Precedes(v, u), Precedes(u, t)
      PROVE  Precedes(v, t)
  <2>1. CASE Priority[v] > Priority[u] \/ Priority[u] > Priority[t]
    BY <1>1, <1>4, <2>1 DEF Precedes
  <2>2. CASE Priority[v] = Priority[u] /\ Priority[u] = Priority[t]
    <3>1. PICK i, j \in DOMAIN queue : i < j /\ queue[i] = v /\ queue[j] = u
      BY <1>1, <1>4, <2>2 DEF Precedes
    <3>2. PICK l, m \in DOMAIN queue : l < m /\ queue[l] = u /\ queue[m] = t
      BY <1>1, <1>4, <2>2 DEF Precedes
    <3>3. j = l
      BY <3>1, <3>2 DEF QueueListsTasks
    <3>4. i < m
      BY <1>1, <3>1, <3>2, <3>3
    <3> QED BY <2>2, <3>1, <3>2, <3>4 DEF Precedes
  <2> QED BY <1>1, <1>4, <2>1, <2>2 DEF Precedes
<1> QED BY <1>2, <1>3, <1>4

\* There is a first one among any tasks of the queue: the set of those before it is
\* minimal among such sets.
LEMMA SomeTaskIsFirst ==
  ASSUME QueueListsTasks, NEW S \in SUBSET Tasks, S # {},
         \A t \in S : status[t] # "absent"
  PROVE  \E t \in S : \A u \in S \ {t} : Precedes(t, u)
<1>1. IsFiniteSet(S)
  <2> DEFINE All == {queue[i] : i \in 1..Len(queue)}
  <2>1. queue \in [1..Len(queue) -> Tasks] /\ Len(queue) \in Nat
    BY DEF QueueListsTasks
  <2>2. queue \in Surjection(1..Len(queue), All)
    BY <2>1 DEF Surjection
  <2>3. IsFiniteSet(1..Len(queue))
    BY <2>1, FS_Interval
  <2>4. IsFiniteSet(All)
    BY <2>2, <2>3, FS_Surjection
  <2>5. S \subseteq All
    BY <2>1 DEF QueueListsTasks
  <2> QED BY <2>4, <2>5, FS_Subset
<1> DEFINE R == StrictSubsetOrdering(S)
           All == {Before(S, t) : t \in S}
<1>2. IsWellFoundedOn(R, SUBSET S)
  BY <1>1, FS_StrictSubsetOrderingWellFounded, FS_FiniteSubsetsOfFinite
<1>3. All \subseteq SUBSET S /\ All # {}
  BY DEF Before
<1>4. PICK X \in All : \A Y \in All : <<Y, X>> \notin R
  <2> HIDE DEF R, All
  <2> QED BY <1>2, <1>3, WFMin
<1>5. PICK t \in S : X = Before(S, t)
  BY <1>4
<1>6. ASSUME NEW u \in S \ {t} PROVE Precedes(t, u)
  <2>1. SUFFICES ASSUME ~Precedes(t, u) PROVE FALSE
    OBVIOUS
  <2>2. Precedes(u, t) /\ ~Precedes(u, u)
    BY <2>1, QueueIsAnOrder
  <2>3. Before(S, u) \subseteq Before(S, t)
    BY <2>2, QueueIsAnOrder DEF Before
  <2>4. u \in Before(S, t) /\ u \notin Before(S, u)
    BY <2>2 DEF Before
  <2>5. Before(S, u) \in SUBSET S /\ Before(S, t) \in SUBSET S
    BY DEF Before
  <2>6. <<Before(S, u), Before(S, t)>> \in R
    <3>1. Before(S, u) # Before(S, t)
      BY <2>4
    <3> HIDE DEF Before
    <3> QED BY <2>3, <2>5, <3>1 DEF StrictSubsetOrdering
  <2>7. Before(S, u) \in All
    OBVIOUS
  <2> QED BY <1>4, <1>5, <2>6, <2>7
<1> QED BY <1>6

\* The task that a tick picks is one of those it sees queued.
LEMMA FirstIsQueued ==
  ASSUME RowsInv, NEW k \in Tickers, Queued(k) # {}
  PROVE  /\ First(k) \in Tasks
         /\ SeenStatus(k)[First(k)] = "queued"
<1>1. Queued(k) \in SUBSET Tasks
  BY OrchestratorAssumption DEF Queued
<1>2. \A t \in Queued(k) : status[t] # "absent"
  BY <1>1 DEF Queued, SeenStatus, Expiring, RowsInv, TickConsistent
<1>3. \E t \in Queued(k) : \A u \in Queued(k) \ {t} : Precedes(t, u)
  BY <1>1, <1>2, SomeTaskIsFirst DEF RowsInv
<1>4. First(k) \in Queued(k)
  <2> HIDE DEF Queued
  <2> QED BY <1>3 DEF First
<1> QED BY <1>1, <1>4 DEF Queued
-----------------------------------------------------------------------------
(* RowsInv is inductive. *)

LEMMA TickFields ==
  ASSUME NEW w, NEW r \in TickRow(w)
  PROVE  \A q \in {"idle", "expire", "pick"} \cup Chosen :
           LET s == [r EXCEPT !.pc = q]
           IN s \in TickRow(w) /\ s.pc = q /\ s.due = r.due /\ s.task = r.task /\ s.tried = r.tried
BY DEF TickRow

LEMMA IdleIsATick == IdleTick \in TickRow(NoOne)
BY DEF IdleTick, TickRow

LEMMA SeenRows ==
  ASSUME RowsInv, NEW k \in Tickers
  PROVE  /\ SeenStatus(k) \in [Tasks -> {"absent", "queued", "leased", "paused"}]
         /\ \A t \in Tasks : SeenStatus(k)[t] # "absent" <=> status[t] # "absent"
         /\ \A a \in SeenLeases(k) : a \in leases
BY DEF RowsInv, SeenStatus, SeenLeases, Expiring, TickConsistent

\* A tick moves on without writing a table.
LEMMA TickMoves ==
  ASSUME RowsInv, NEW k \in Tickers, NEW w, NEW r \in TickRow(w), tick' = [tick EXCEPT ![k] = r],
         r.pc \in Chosen => r.task \in Tasks /\ status[r.task] # "absent",
         \A t \in r.due : status[t] # "absent",
         UNCHANGED <<queueRows, leases>>, overlap' \in BOOLEAN, LockConsistent'
  PROVE  RowsInv'
<1>1. /\ DOMAIN tick' = Tickers /\ tick'[k] = r
      /\ \A j \in Tickers \ {k} : tick'[j] = tick[j]
  BY DEF RowsInv
<1>2. ASSUME NEW j \in Tickers PROVE TickConsistent(j)'
  <2>1. CASE j = k
    BY <1>1, <2>1 DEF TickConsistent, queueRows
  <2>2. CASE j # k
    <3>1. TickConsistent(j) /\ tick'[j] = tick[j] /\ status' = status
      BY <1>1, <2>2 DEF RowsInv, queueRows
    <3> QED BY <3>1 DEF TickConsistent
  <2> QED BY <2>1, <2>2
<1> QED BY <1>1, <1>2 DEF RowsInv, QueueListsTasks, ProperLease, queueRows

\* A tick that commits rows of the right kind is idle again and has let the lock go.
LEMMA CommitRows ==
  ASSUME RowsInv, NEW k \in Tickers, tick[k].pc # "idle", NEW st, NEW lv, Commit(k, st, lv),
         st \in [Tasks -> {"absent", "queued", "leased", "paused"}],
         \A t \in Tasks : st[t] # "absent" <=> status[t] # "absent",
         \A a \in lv : ProperLease(a),
         attempts' \in [Tasks -> Nat], UNCHANGED <<queue, overlap>>
  PROVE  RowsInv'
<1>1. /\ DOMAIN tick' = Tickers /\ tick'[k] = IdleTick
      /\ \A j \in Tickers \ {k} : tick'[j] = tick[j]
  BY DEF RowsInv, Commit
<1>2. ASSUME NEW j \in Tickers PROVE TickConsistent(j)'
  <2>1. CASE j = k
    <3>1. tick'[j] \in TickRow(NoOne) /\ tick'[j].pc = "idle" /\ tick'[j].due = {}
      BY <1>1, <2>1, IdleIsATick DEF IdleTick
    <3> QED BY <3>1 DEF TickConsistent, Chosen
  <2>2. CASE j # k
    <3>1. TickConsistent(j) /\ tick'[j] = tick[j]
      BY <1>1, <2>2 DEF RowsInv
    <3>2. tick[j].due \subseteq Tasks
      BY <3>1 DEF TickConsistent, TickRow
    <3> QED BY <3>1, <3>2 DEF TickConsistent, Commit
  <2> QED BY <2>1, <2>2
<1>3. LockConsistent'
  BY <1>1 DEF RowsInv, LockConsistent, Commit
<1>4. QueueListsTasks'
  BY DEF RowsInv, QueueListsTasks, Commit
<1>5. \A a \in leases' : ProperLease(a)
  BY DEF Commit
<1> QED BY <1>1, <1>2, <1>3, <1>4, <1>5 DEF RowsInv, Commit, ProperLease

LEMMA CommitSeenRows ==
  ASSUME RowsInv, NEW k \in Tickers, tick[k].pc # "idle",
         Commit(k, SeenStatus(k), SeenLeases(k)),
         attempts' \in [Tasks -> Nat], UNCHANGED <<queue, overlap>>
  PROVE  RowsInv'
BY SeenRows, CommitRows DEF RowsInv

LEMMA ScanRows ==
  ASSUME RowsInv, NEW k \in Tickers, TickScan(k)
  PROVE  RowsInv'
<1> DEFINE due == {a.task : a \in {b \in leases : b.overdue /\ status[b.task] = "leased"}}
           r == [tick[k] EXCEPT !.pc = IF due = {} THEN "pick" ELSE "expire", !.due = due]
<1>1. PICK w : tick[k] \in TickRow(w)
  BY DEF RowsInv, TickConsistent
<1>2. due \in SUBSET Tasks /\ \A t \in due : status[t] # "absent"
  <2>1. ASSUME NEW a \in leases PROVE a.task \in Tasks
    BY DEF RowsInv, ProperLease
  <2> QED BY <2>1
<1>3. tick' = [tick EXCEPT ![k] = r] /\ UNCHANGED <<queueRows, leases, lock>> /\ tick[k].pc = "idle"
  BY DEF TickScan
<1>4. overlap' \in BOOLEAN
  BY DEF TickScan, RowsInv
<1> HIDE DEF due
<1>5. r \in TickRow(w) /\ r.pc \notin Chosen /\ r.due = due
  BY <1>1, <1>2 DEF TickRow, Chosen
<1> HIDE DEF r
<1>6. LockConsistent'
  BY <1>3 DEF RowsInv, LockConsistent
<1> QED BY <1>2, <1>3, <1>4, <1>5, <1>6, TickMoves

LEMMA ExpireRows ==
  ASSUME RowsInv, NEW k \in Tickers, TickExpire(k)
  PROVE  RowsInv'
<1> DEFINE r == [tick[k] EXCEPT !.pc = "pick"]
<1>1. PICK w : tick[k] \in TickRow(w)
  BY DEF RowsInv, TickConsistent
<1>2. r \in TickRow(w) /\ r.pc = "pick" /\ r.due = tick[k].due
  BY <1>1, TickFields
<1>3. /\ tick' = [tick EXCEPT ![k] = r] /\ lock' = k
      /\ UNCHANGED <<queueRows, leases, overlap>>
  BY DEF TickExpire
<1> HIDE DEF r
<1>4. LockConsistent'
  BY <1>2, <1>3 DEF RowsInv, LockConsistent
<1> QED BY <1>2, <1>3, <1>4, TickMoves DEF RowsInv, TickConsistent, Chosen

LEMMA PickRows ==
  ASSUME RowsInv, NEW k \in Tickers, TickPick(k)
  PROVE  RowsInv'
<1>1. CASE Commit(k, SeenStatus(k), SeenLeases(k))
  BY <1>1, CommitSeenRows DEF TickPick, RowsInv
<1>2. CASE ~Commit(k, SeenStatus(k), SeenLeases(k))
  <2> DEFINE t == First(k)
             r == [tick[k] EXCEPT !.pc = "worker", !.task = t, !.tried = attempts[t]]
  <2>1. PICK w : tick[k] \in TickRow(w)
    BY DEF RowsInv, TickConsistent
  <2>2. /\ Queued(k) # {} /\ tick' = [tick EXCEPT ![k] = r] /\ tick[k].pc = "pick"
        /\ UNCHANGED <<queueRows, leases, lock, overlap>>
    BY <1>2 DEF TickPick, queueRows
  <2>3. t \in Tasks /\ attempts[t] \in Nat /\ status[t] # "absent"
    BY <2>2, FirstIsQueued, SeenRows DEF RowsInv
  <2> HIDE DEF t
  <2>4. r \in TickRow(w) /\ r.pc = "worker" /\ r.task = t /\ r.due = tick[k].due
    BY <2>1, <2>3 DEF TickRow, Chosen
  <2> HIDE DEF r
  <2>5. LockConsistent'
    BY <2>2, <2>4 DEF RowsInv, LockConsistent
  <2> QED BY <2>2, <2>3, <2>4, <2>5, TickMoves DEF RowsInv, TickConsistent
<1> QED BY <1>1, <1>2

LEMMA WorkerRows ==
  ASSUME RowsInv, NEW k \in Tickers, TickWorker(k)
  PROVE  RowsInv'
<1>1. CASE Commit(k, SeenStatus(k), SeenLeases(k))
  BY <1>1, CommitSeenRows DEF TickWorker, RowsInv
<1>2. CASE ~Commit(k, SeenStatus(k), SeenLeases(k))
  <2>1. PICK v : tick[k] \in TickRow(v)
    BY DEF RowsInv, TickConsistent
  <2>2. PICK w : /\ tick' = [tick EXCEPT ![k] = [@ EXCEPT !.pc = "send", !.worker = w]]
                 /\ tick[k].pc = "worker" /\ UNCHANGED <<queueRows, leases, lock, overlap>>
    BY <1>2 DEF TickWorker, queueRows
  <2> DEFINE r == [tick[k] EXCEPT !.pc = "send", !.worker = w]
  <2>3. r \in TickRow(w) /\ r.pc = "send" /\ r.task = tick[k].task /\ r.due = tick[k].due
    BY <2>1 DEF TickRow, Chosen
  <2>4. tick' = [tick EXCEPT ![k] = r]
    BY <2>2
  <2> HIDE DEF r
  <2>5. LockConsistent'
    BY <2>2, <2>3, <2>4 DEF RowsInv, LockConsistent
  <2>6. /\ r.task \in Tasks /\ status[r.task] # "absent"
        /\ \A t \in r.due : status[t] # "absent"
    BY <2>2, <2>3 DEF RowsInv, TickConsistent, Chosen
  <2>7. overlap' \in BOOLEAN
    BY <2>2 DEF RowsInv
  <2> QED BY <2>2, <2>3, <2>4, <2>5, <2>6, <2>7, TickMoves
<1> QED BY <1>1, <1>2

LEMMA SendRows ==
  ASSUME RowsInv, NEW k \in Tickers, TickSend(k)
  PROVE  RowsInv'
<1>1. PICK answer \in {"sent", "failed"} : tick' = [tick EXCEPT ![k].pc = answer]
  BY DEF TickSend
<1> DEFINE r == [tick[k] EXCEPT !.pc = answer]
<1>2. PICK w : tick[k] \in TickRow(w)
  BY DEF RowsInv, TickConsistent
<1>3. /\ r \in TickRow(w) /\ r.pc = answer /\ r.due = tick[k].due /\ r.task = tick[k].task
  <2>1. answer \in {"idle", "expire", "pick"} \cup Chosen
    BY DEF Chosen
  <2> QED BY <1>2, <2>1, TickFields
<1>4. /\ tick' = [tick EXCEPT ![k] = r] /\ tick[k].pc = "send"
      /\ UNCHANGED <<queueRows, leases, lock, overlap>>
  BY <1>1 DEF TickSend
<1> HIDE DEF r
<1>5. LockConsistent'
  BY <1>3, <1>4 DEF RowsInv, LockConsistent
<1> QED BY <1>3, <1>4, <1>5, TickMoves DEF RowsInv, TickConsistent, Chosen

LEMMA NewIsProper ==
  ASSUME NEW t \in Tasks, NEW w, NEW n
  PROVE  ProperLease([task |-> t, worker |-> w, nth |-> n, overdue |-> FALSE])
<1>1. [task |-> t, worker |-> w, nth |-> n, overdue |-> FALSE]
        \in [task : Tasks, worker : {w}, nth : {n}, overdue : BOOLEAN]
  OBVIOUS
<1> QED BY <1>1 DEF ProperLease

\* A lease that ages differs in `overdue` alone.
LEMMA AgedLease ==
  ASSUME NEW a, ProperLease(a)
  PROVE  LET old == [a EXCEPT !.overdue = TRUE]
         IN /\ ProperLease(old) /\ old.task = a.task /\ old.overdue
            /\ ~a.overdue => [a EXCEPT !.overdue = FALSE] = a /\ [old EXCEPT !.overdue = FALSE] = a
<1> DEFINE old == [a EXCEPT !.overdue = TRUE]
<1>1. PICK w, n : a \in [task : Tasks, worker : {w}, nth : {n}, overdue : BOOLEAN]
  BY DEF ProperLease
<1>2. /\ old \in [task : Tasks, worker : {w}, nth : {n}, overdue : BOOLEAN]
      /\ old.task = a.task /\ old.overdue
  BY <1>1
<1>3. ~a.overdue => [a EXCEPT !.overdue = FALSE] = a /\ [old EXCEPT !.overdue = FALSE] = a
  BY <1>1
<1>4. ProperLease(old)
  BY <1>2 DEF ProperLease
<1> QED BY <1>2, <1>3, <1>4

LEMMA LeaseRows ==
  ASSUME RowsInv, NEW k \in Tickers, TickLease(k)
  PROVE  RowsInv'
<1> DEFINE t == tick[k].task
           w == tick[k].worker
<1>1. PICK n : Commit(k, [SeenStatus(k) EXCEPT ![t] = "leased"],
                      SeenLeases(k) \cup {[task |-> t, worker |-> w, nth |-> n,
                                           overdue |-> FALSE]})
  BY DEF TickLease
<1> DEFINE new == [task |-> t, worker |-> w, nth |-> n, overdue |-> FALSE]
           st == [SeenStatus(k) EXCEPT ![t] = "leased"]
           lv == SeenLeases(k) \cup {new}
<1>2. t \in Tasks /\ status[t] # "absent"
  BY DEF TickLease, RowsInv, TickConsistent, Chosen
<1>3. st \in [Tasks -> {"absent", "queued", "leased", "paused"}]
  BY SeenRows
<1>4. \A u \in Tasks : st[u] # "absent" <=> status[u] # "absent"
  BY <1>2, SeenRows
<1>5. ProperLease(new)
  BY <1>2, NewIsProper
<1>6. \A a \in lv : ProperLease(a)
  BY <1>5, SeenRows DEF RowsInv
<1>7. /\ Commit(k, st, lv) /\ UNCHANGED <<queue, overlap>> /\ attempts' \in [Tasks -> Nat]
      /\ tick[k].pc # "idle"
  BY <1>1 DEF TickLease, RowsInv
<1> HIDE DEF st, lv, t
<1> QED BY <1>3, <1>4, <1>6, <1>7, CommitRows

LEMMA FailedRows ==
  ASSUME RowsInv, NEW k \in Tickers, TickFailed(k)
  PROVE  RowsInv'
<1> DEFINE t == tick[k].task
           paused == [SeenStatus(k) EXCEPT ![t] = "paused"]
<1>1. /\ t \in Tasks /\ status[t] # "absent" /\ tick[k].tried \in Nat
  BY DEF TickFailed, RowsInv, TickConsistent, TickRow, Chosen
<1>2. /\ attempts' \in [Tasks -> Nat] /\ UNCHANGED <<queue, overlap>> /\ tick[k].pc # "idle"
  BY <1>1 DEF TickFailed, RowsInv
<1>3. \/ Commit(k, SeenStatus(k), SeenLeases(k))
      \/ Commit(k, paused, SeenLeases(k))
  BY DEF TickFailed
<1>4. paused \in [Tasks -> {"absent", "queued", "leased", "paused"}]
  BY SeenRows
<1>5. \A u \in Tasks : paused[u] # "absent" <=> status[u] # "absent"
  BY <1>1, SeenRows
<1>6. \A a \in SeenLeases(k) : ProperLease(a)
  BY SeenRows DEF RowsInv
<1> HIDE DEF paused
<1> QED BY <1>2, <1>3, <1>4, <1>5, <1>6, CommitSeenRows, CommitRows

LEMMA DiesRows ==
  ASSUME RowsInv, NEW k \in Tickers, TickDies(k)
  PROVE  RowsInv'
<1>1. /\ tick' = [tick EXCEPT ![k] = IdleTick] /\ IdleTick.pc = "idle" /\ IdleTick.due = {}
      /\ UNCHANGED <<queueRows, leases, overlap>>
  BY DEF TickDies, IdleTick
<1>2. LockConsistent'
  BY DEF RowsInv, LockConsistent, TickDies
<1> HIDE DEF IdleTick
<1> QED BY <1>1, <1>2, IdleIsATick, TickMoves DEF RowsInv, Chosen

LEMMA EnqueueRows ==
  ASSUME RowsInv, NEW t \in Tasks, Enqueue(t)
  PROVE  RowsInv'
<1>1. /\ status' = [status EXCEPT ![t] = "queued"] /\ queue' = Append(queue, t)
      /\ status[t] = "absent"
      /\ UNCHANGED <<attempts, workers, leases, tick, lock, overlap>>
  BY DEF Enqueue
<1>2. /\ status' \in [Tasks -> {"absent", "queued", "leased", "paused"}]
      /\ \A u \in Tasks : status'[u] # "absent" <=> (status[u] # "absent" \/ u = t)
  BY <1>1 DEF RowsInv
<1>3. QueueListsTasks'
  <2>1. /\ queue \in Seq(Tasks)
        /\ \A i, j \in DOMAIN queue : queue[i] = queue[j] => i = j
        /\ \A u \in Tasks : status[u] # "absent" <=> \E i \in DOMAIN queue : queue[i] = u
    BY DEF RowsInv, QueueListsTasks
  <2>2. /\ queue' \in Seq(Tasks) /\ Len(queue') = Len(queue) + 1
        /\ DOMAIN queue' = 1..(Len(queue) + 1) /\ DOMAIN queue = 1..Len(queue)
        /\ Len(queue) \in Nat /\ queue'[Len(queue) + 1] = t
        /\ \A i \in 1..Len(queue) : queue'[i] = queue[i]
    BY <1>1, <2>1
  <2>3. \A i \in DOMAIN queue : queue[i] # t
    BY <1>1, <2>1
  <2>4. \A i, j \in DOMAIN queue' : queue'[i] = queue'[j] => i = j
    BY <2>1, <2>2, <2>3
  <2>5. ASSUME NEW u \in Tasks
        PROVE  status'[u] # "absent" <=> \E i \in DOMAIN queue' : queue'[i] = u
    <3>1. CASE u = t
      BY <1>2, <2>2, <3>1
    <3>2. CASE u # t
      BY <1>2, <2>1, <2>2, <3>2
    <3> QED BY <3>1, <3>2
  <2> QED BY <2>2, <2>4, <2>5 DEF QueueListsTasks
<1>4. ASSUME NEW j \in Tickers PROVE TickConsistent(j)'
  <2>1. TickConsistent(j) /\ tick[j].due \subseteq Tasks
    BY DEF RowsInv, TickConsistent, TickRow
  <2> QED BY <1>1, <1>2, <2>1 DEF TickConsistent
<1> QED BY <1>1, <1>2, <1>3, <1>4 DEF RowsInv, LockConsistent, ProperLease

LEMMA AgesRows ==
  ASSUME RowsInv, NEW a \in leases, LeaseAges(a)
  PROVE  RowsInv'
<1> DEFINE old == [a EXCEPT !.overdue = TRUE]
<1>1. ProperLease(a)
  BY DEF RowsInv
<1>2. leases' = (leases \ {a}) \cup {old} /\ UNCHANGED <<queueRows, workers, tick, lock, overlap>>
  BY DEF LeaseAges
<1>3. ProperLease(old)
  BY <1>1, AgedLease
<1> HIDE DEF old
<1>4. \A b \in leases' : ProperLease(b)
  BY <1>2, <1>3 DEF RowsInv
<1> QED BY <1>2, <1>4 DEF RowsInv, QueueListsTasks, TickConsistent, LockConsistent, queueRows, ProperLease

LEMMA RowsStep ==
  ASSUME RowsInv, [Next]_vars
  PROVE  RowsInv'
<1>1. CASE UNCHANGED <<queueRows, leases, tick, lock, overlap>>
  BY <1>1 DEF RowsInv, QueueListsTasks, TickConsistent, LockConsistent, queueRows, ProperLease
<1>2. CASE \E k \in Tickers : TickStep(k) \/ TickDies(k)
  BY <1>2, ScanRows, ExpireRows, PickRows, WorkerRows, SendRows, LeaseRows, FailedRows, DiesRows
     DEF TickStep
<1> QED BY <1>1, <1>2, EnqueueRows, AgesRows DEF Next, vars, queueRows, SetWorker

LEMMA RowsInit == Init => RowsInv
<1> SUFFICES ASSUME Init PROVE RowsInv
  OBVIOUS
<1>1. QueueListsTasks
  BY DEF Init, QueueListsTasks
<1>2. ASSUME NEW k \in Tickers PROVE TickConsistent(k)
  <2>1. tick[k] = IdleTick /\ IdleTick.pc = "idle" /\ IdleTick.due = {}
    BY DEF Init, IdleTick
  <2> QED BY <2>1, IdleIsATick DEF TickConsistent, Chosen
<1> QED BY <1>1, <1>2 DEF Init, RowsInv, LockConsistent
-----------------------------------------------------------------------------
(* Ticks that take turns. *)

\* What a tick sees at its turn: a lease that runs, the leases of leased tasks only,
\* the paused tasks as they are, and no used up task in the queue.
LEMMA SeenAtItsTurn ==
  ASSUME RowsInv, TablesAgree, NEW k \in Tickers, tick[k].pc # "idle", TickUpToDate(k)
  PROVE  /\ \A a \in SeenLeases(k) : SeenStatus(k)[a.task] = "leased"
         /\ \A a \in leases : ~a.overdue => a \in SeenLeases(k)
         /\ \A t \in Tasks : SeenStatus(k)[t] = "paused" <=> status[t] = "paused"
         /\ \A t \in Tasks : SeenStatus(k)[t] = "queued" =>
              /\ \A a \in SeenLeases(k) : a.task # t
              /\ attempts[t] < MaxRetries
<1>1. /\ \A a \in leases : a.task \in Tasks
      /\ \A t \in Expiring(k) : status[t] = "leased" /\ \A a \in LeasesOf(t) : a.overdue
  BY DEF RowsInv, ProperLease, Expiring, TickUpToDate
<1>2. \A a \in SeenLeases(k) : SeenStatus(k)[a.task] = "leased"
  BY <1>1 DEF TablesAgree, SeenStatus, SeenLeases
<1>3. \A a \in leases : ~a.overdue => a \in SeenLeases(k)
  BY <1>1 DEF SeenLeases, LeasesOf
<1>4. \A t \in Tasks : SeenStatus(k)[t] = "paused" <=> status[t] = "paused"
  BY <1>1 DEF SeenStatus
<1>5. ASSUME NEW t \in Tasks, SeenStatus(k)[t] = "queued"
      PROVE  /\ \A a \in SeenLeases(k) : a.task # t
             /\ attempts[t] < MaxRetries
  <2>1. attempts[t] \in Nat /\ MaxRetries \in Nat
    BY OrchestratorAssumption DEF RowsInv
  <2>2. status[t] # "paused"
    BY <1>4, <1>5
  <2> QED BY <1>2, <1>5, <2>1, <2>2 DEF TablesAgree
<1> QED BY <1>2, <1>3, <1>4, <1>5

\* When the only tick at work ends, all ticks are idle and the lock is free.
LEMMA LastTickEnds ==
  ASSUME RowsInv, OneAtWork, NEW k \in Tickers, tick[k].pc # "idle",
         tick' = [tick EXCEPT ![k] = IdleTick], lock' = IF lock = k THEN NoOne ELSE lock
  PROVE  OneAtWork' /\ \A j \in Tickers : TickUpToDate(j)'
<1>1. \A j \in Tickers : tick'[j].pc = "idle"
  BY DEF RowsInv, OneAtWork, IdleTick
<1>2. lock' = NoOne
  BY DEF RowsInv, OneAtWork, LockConsistent
<1> QED BY <1>1, <1>2, OrchestratorAssumption DEF OneAtWork, TickUpToDate, Chosen

\* A tick that goes on alone: what it holds is up to date, the others rest.
LEMMA TickGoesOn ==
  ASSUME RowsInv, OneAtWork, TablesAgree, NEW k \in Tickers, NEW r, tick' = [tick EXCEPT ![k] = r],
         \A j \in Tickers \ {k} : tick[j].pc = "idle",
         UNCHANGED <<queueRows, leases>>, lock' \in {lock, k},
         r.pc = "expire" \/ lock' = k
           => \A t \in r.due : status[t] = "leased" /\ \A a \in LeasesOf(t) : a.overdue,
         r.pc \in Chosen => /\ SeenStatus(k)'[r.task] = "queued"
                            /\ r.tried = attempts[r.task]
  PROVE  TablesAgree' /\ OneAtWork' /\ \A j \in Tickers : TickUpToDate(j)'
<1>1. /\ tick'[k] = r
      /\ \A j \in Tickers \ {k} : tick'[j] = tick[j]
  BY DEF RowsInv
<1>2. TablesAgree'
  BY DEF TablesAgree, queueRows
<1>3. OneAtWork'
  BY <1>1 DEF OneAtWork
<1>4. \A j \in Tickers \ {k} : lock # j
  BY OrchestratorAssumption DEF RowsInv, LockConsistent
<1>5. ASSUME NEW j \in Tickers PROVE TickUpToDate(j)'
  <2>1. CASE j = k
    BY <1>1, <2>1 DEF TickUpToDate, LeasesOf, queueRows
  <2>2. CASE j # k
    BY <1>1, <1>4, <2>2 DEF TickUpToDate, Chosen
  <2> QED BY <2>1, <2>2
<1> QED BY <1>2, <1>3, <1>5

\* The scan of a tick that is alone finds leases that are overdue.
LEMMA ScanTurn ==
  ASSUME RowsInv, TablesAgree, OneAtWork, NEW k \in Tickers, TickScan(k), ~overlap'
  PROVE  TablesAgree' /\ OneAtWork' /\ \A j \in Tickers : TickUpToDate(j)'
<1> DEFINE due == {a.task : a \in {b \in leases : b.overdue /\ status[b.task] = "leased"}}
           r == [tick[k] EXCEPT !.pc = IF due = {} THEN "pick" ELSE "expire", !.due = due]
<1>1. PICK w : tick[k] \in TickRow(w)
  BY DEF RowsInv, TickConsistent
<1>2. /\ tick' = [tick EXCEPT ![k] = r] /\ UNCHANGED <<queueRows, leases, lock>> /\ tick[k].pc = "idle"
      /\ \A j \in Tickers \ {k} : tick[j].pc = "idle"
  BY DEF TickScan
<1>3. \A t \in due : status[t] = "leased" /\ \A a \in LeasesOf(t) : a.overdue
  BY DEF TablesAgree, LeasesOf
<1>4. lock # k
  BY <1>2, OrchestratorAssumption DEF RowsInv, LockConsistent
<1> HIDE DEF due
<1>5. r.pc \in {"pick", "expire"} /\ r.due = due
  BY <1>1 DEF TickRow
<1> HIDE DEF r
<1> QED BY <1>2, <1>3, <1>4, <1>5, TickGoesOn DEF Chosen

\* Taking the lock, asking for a worker and sending leave the tables alone.
LEMMA StepTurn ==
  ASSUME RowsInv, TablesAgree, OneAtWork, NEW k \in Tickers, TickUpToDate(k),
         NEW r, tick' = [tick EXCEPT ![k] = r], tick[k].pc # "idle",
         UNCHANGED <<queueRows, leases>>,
         r.due = tick[k].due,
         \/ tick[k].pc = "expire" /\ r.pc = "pick" /\ lock' = k
         \/ /\ tick[k].pc \in Chosen /\ r.pc \in Chosen /\ lock' = lock
            /\ r.task = tick[k].task /\ r.tried = tick[k].tried
  PROVE  TablesAgree' /\ OneAtWork' /\ \A j \in Tickers : TickUpToDate(j)'
<1>1. \A j \in Tickers \ {k} : tick[j].pc = "idle"
  BY DEF OneAtWork
<1>2. tick'[k] = r
  BY DEF RowsInv
<1>3. CASE tick[k].pc = "expire" /\ r.pc = "pick" /\ lock' = k
  <2>1. \A t \in r.due : status[t] = "leased" /\ \A a \in LeasesOf(t) : a.overdue
    BY <1>3 DEF TickUpToDate
  <2> QED BY <1>1, <1>3, <2>1, TickGoesOn DEF Chosen
<1>4. CASE /\ tick[k].pc \in Chosen /\ r.pc \in Chosen /\ lock' = lock
           /\ r.task = tick[k].task /\ r.tried = tick[k].tried
  <2>1. SeenStatus(k)' = SeenStatus(k)
    BY <1>2, <1>4 DEF SeenStatus, Expiring, queueRows
  <2>2. SeenStatus(k)[r.task] = "queued" /\ r.tried = attempts[r.task]
    BY <1>4 DEF TickUpToDate
  <2>3. r.pc # "expire"
    BY <1>4 DEF Chosen
  <2>4. lock' = k => \A t \in r.due : status[t] = "leased" /\ \A a \in LeasesOf(t) : a.overdue
    BY <1>4 DEF TickUpToDate
  <2> QED BY <1>1, <1>4, <2>1, <2>2, <2>3, <2>4, TickGoesOn
<1> QED BY <1>3, <1>4

\* A tick whose commit keeps the tables in agreement ends its turn.
LEMMA CommitTurn ==
  ASSUME RowsInv, TablesAgree, OneAtWork, NEW k \in Tickers, tick[k].pc # "idle", TickUpToDate(k),
         Commit(k, SeenStatus(k), SeenLeases(k)), UNCHANGED attempts
  PROVE  TablesAgree' /\ OneAtWork' /\ \A j \in Tickers : TickUpToDate(j)'
<1>1. TablesAgree'
  BY SeenAtItsTurn, SeenRows DEF TablesAgree, Commit
<1> QED BY <1>1, LastTickEnds DEF Commit

LEMMA PickTurn ==
  ASSUME RowsInv, TablesAgree, OneAtWork, NEW k \in Tickers, TickUpToDate(k), TickPick(k)
  PROVE  TablesAgree' /\ OneAtWork' /\ \A j \in Tickers : TickUpToDate(j)'
<1>1. CASE Commit(k, SeenStatus(k), SeenLeases(k))
  BY <1>1, CommitTurn DEF TickPick
<1>2. CASE ~Commit(k, SeenStatus(k), SeenLeases(k))
  <2> DEFINE t == First(k)
             r == [tick[k] EXCEPT !.pc = "worker", !.task = t, !.tried = attempts[t]]
  <2>1. PICK w : tick[k] \in TickRow(w)
    BY DEF RowsInv, TickConsistent
  <2>2. /\ Queued(k) # {} /\ tick' = [tick EXCEPT ![k] = r] /\ tick[k].pc = "pick"
        /\ UNCHANGED <<queueRows, leases, lock, overlap>>
    BY <1>2 DEF TickPick, queueRows
  <2>3. SeenStatus(k)[t] = "queued"
    BY <2>2, FirstIsQueued
  <2>4. \A j \in Tickers \ {k} : tick[j].pc = "idle"
    BY <2>2 DEF OneAtWork
  <2> HIDE DEF t
  <2>5. r.pc = "worker" /\ r.task = t /\ r.due = tick[k].due /\ r.tried = attempts[t]
    BY <2>1 DEF TickRow
  <2> HIDE DEF r
  <2>6. tick'[k] = r
    BY <2>2 DEF RowsInv
  <2>7. SeenStatus(k)' = SeenStatus(k)
    BY <2>2, <2>5, <2>6 DEF SeenStatus, Expiring, queueRows
  <2>8. lock' = k => \A u \in r.due : status[u] = "leased" /\ \A a \in LeasesOf(u) : a.overdue
    BY <2>2, <2>5 DEF TickUpToDate
  <2> QED BY <2>2, <2>3, <2>4, <2>5, <2>7, <2>8, TickGoesOn
<1> QED BY <1>1, <1>2

LEMMA MovesTurn ==
  ASSUME RowsInv, TablesAgree, OneAtWork, NEW k \in Tickers, TickUpToDate(k),
         TickExpire(k) \/ TickWorker(k) \/ TickSend(k)
  PROVE  TablesAgree' /\ OneAtWork' /\ \A j \in Tickers : TickUpToDate(j)'
<1>1. PICK v : tick[k] \in TickRow(v)
  BY DEF RowsInv, TickConsistent
<1>2. CASE TickExpire(k)
  <2> DEFINE r == [tick[k] EXCEPT !.pc = "pick"]
  <2>1. r.pc = "pick" /\ r.due = tick[k].due
    BY <1>1, TickFields
  <2>2. /\ tick' = [tick EXCEPT ![k] = r] /\ UNCHANGED <<queueRows, leases>> /\ lock' = k
        /\ tick[k].pc = "expire"
    BY <1>2 DEF TickExpire
  <2> HIDE DEF r
  <2> QED BY <2>1, <2>2, StepTurn
<1>3. CASE TickSend(k)
  <2>1. PICK answer \in {"sent", "failed"} : tick' = [tick EXCEPT ![k].pc = answer]
    BY <1>3 DEF TickSend
  <2> DEFINE r == [tick[k] EXCEPT !.pc = answer]
  <2>2. answer \in {"idle", "expire", "pick"} \cup Chosen /\ answer \in Chosen
    BY DEF Chosen
  <2>3. r.pc = answer /\ r.due = tick[k].due /\ r.task = tick[k].task /\ r.tried = tick[k].tried
    BY <1>1, <2>2, TickFields
  <2>4. /\ tick' = [tick EXCEPT ![k] = r] /\ UNCHANGED <<queueRows, leases, lock>>
        /\ tick[k].pc = "send"
    BY <1>3, <2>1 DEF TickSend
  <2>5. tick[k].pc \in Chosen
    BY <2>4 DEF Chosen
  <2> HIDE DEF r
  <2> QED BY <2>2, <2>3, <2>4, <2>5, StepTurn
<1>4. CASE TickWorker(k) /\ Commit(k, SeenStatus(k), SeenLeases(k))
  BY <1>4, CommitTurn DEF TickWorker
<1>5. CASE TickWorker(k) /\ ~Commit(k, SeenStatus(k), SeenLeases(k))
  <2>1. PICK w : /\ tick' = [tick EXCEPT ![k] = [@ EXCEPT !.pc = "send", !.worker = w]]
                 /\ tick[k].pc = "worker" /\ UNCHANGED <<queueRows, leases, lock>>
    BY <1>5 DEF TickWorker, queueRows
  <2> DEFINE r == [tick[k] EXCEPT !.pc = "send", !.worker = w]
  <2>2. r.pc = "send" /\ r.task = tick[k].task /\ r.due = tick[k].due /\ r.tried = tick[k].tried
    BY <1>1 DEF TickRow
  <2>3. tick' = [tick EXCEPT ![k] = r]
    BY <2>1
  <2> HIDE DEF r
  <2> QED BY <2>1, <2>2, <2>3, StepTurn DEF Chosen
<1> QED BY <1>2, <1>3, <1>4, <1>5

\* A new lease is the only one of its task: the one that expired is gone.
LEMMA LeaseTurn ==
  ASSUME RowsInv, TablesAgree, OneAtWork, NEW k \in Tickers, TickUpToDate(k), TickLease(k)
  PROVE  TablesAgree' /\ OneAtWork' /\ \A j \in Tickers : TickUpToDate(j)'
<1> DEFINE t == tick[k].task
           w == tick[k].worker
<1>1. PICK n : Commit(k, [SeenStatus(k) EXCEPT ![t] = "leased"],
                      SeenLeases(k) \cup {[task |-> t, worker |-> w, nth |-> n,
                                           overdue |-> FALSE]})
  BY DEF TickLease
<1> DEFINE new == [task |-> t, worker |-> w, nth |-> n, overdue |-> FALSE]
<1>2. /\ t \in Tasks /\ SeenStatus(k)[t] = "queued" /\ tick[k].pc # "idle"
  BY DEF TickLease, RowsInv, TickConsistent, TickUpToDate, Chosen
<1>3. /\ status' = [SeenStatus(k) EXCEPT ![t] = "leased"]
      /\ leases' = SeenLeases(k) \cup {new} /\ UNCHANGED attempts
  BY <1>1 DEF TickLease, Commit
<1>4. new.task = t
  OBVIOUS
<1> HIDE DEF new, t
<1>5. \A a \in SeenLeases(k) : a.task # t /\ a \in leases /\ SeenStatus(k)[a.task] = "leased"
  BY <1>2, SeenAtItsTurn, SeenRows
<1>6. \A a, b \in leases' : a.task = b.task => a = b
  BY <1>3, <1>4, <1>5 DEF TablesAgree
<1>7. \A a \in leases' : a.task \in Tasks
  BY <1>2, <1>3, <1>4, <1>5 DEF RowsInv, ProperLease
<1>8. \A a \in leases' : status'[a.task] = "leased"
  BY <1>3, <1>4, <1>5, <1>7, SeenRows
<1>9. ASSUME NEW u \in Tasks
      PROVE  attempts'[u] <= MaxRetries /\ (status'[u] = "paused" <=> attempts'[u] = MaxRetries)
  <2>1. attempts[u] <= MaxRetries /\ (SeenStatus(k)[u] = "paused" <=> attempts[u] = MaxRetries)
    BY <1>2, SeenAtItsTurn DEF TablesAgree
  <2>2. CASE u = t
    BY <1>2, <1>3, <2>1, <2>2, SeenRows
  <2>3. CASE u # t
    BY <1>3, <2>1, <2>3, SeenRows
  <2> QED BY <2>2, <2>3
<1> QED BY <1>1, <1>2, <1>6, <1>8, <1>9, LastTickEnds DEF TablesAgree, Commit

\* A failure is counted, and the last one pauses the task.
LEMMA FailedTurn ==
  ASSUME RowsInv, TablesAgree, OneAtWork, NEW k \in Tickers, TickUpToDate(k), TickFailed(k)
  PROVE  TablesAgree' /\ OneAtWork' /\ \A j \in Tickers : TickUpToDate(j)'
<1> DEFINE t == tick[k].task
<1>1. /\ t \in Tasks /\ SeenStatus(k)[t] = "queued" /\ tick[k].pc # "idle"
      /\ tick[k].tried = attempts[t] /\ attempts[t] \in Nat /\ MaxRetries \in Nat
  BY OrchestratorAssumption DEF TickFailed, RowsInv, TickConsistent, TickUpToDate, Chosen
<1>2. /\ attempts' = [attempts EXCEPT ![t] = attempts[t] + 1]
      /\ leases' = SeenLeases(k)
      /\ status' = IF attempts[t] + 1 >= MaxRetries THEN [SeenStatus(k) EXCEPT ![t] = "paused"]
                                                    ELSE SeenStatus(k)
  BY <1>1 DEF TickFailed, Commit
<1>3. /\ tick' = [tick EXCEPT ![k] = IdleTick] /\ lock' = IF lock = k THEN NoOne ELSE lock
  BY DEF TickFailed, Commit
<1> HIDE DEF t
<1>4. /\ \A a \in SeenLeases(k) : a.task # t /\ a \in leases /\ SeenStatus(k)[a.task] = "leased"
      /\ attempts[t] < MaxRetries
  BY <1>1, SeenAtItsTurn, SeenRows
<1>5. \A a \in leases' : a.task \in Tasks
  BY <1>2, <1>4 DEF RowsInv, ProperLease
<1>6. \A a \in leases' : status'[a.task] = "leased"
  BY <1>2, <1>4, <1>5, SeenRows
<1>7. ASSUME NEW u \in Tasks
      PROVE  attempts'[u] <= MaxRetries /\ (status'[u] = "paused" <=> attempts'[u] = MaxRetries)
  <2>1. /\ attempts[u] <= MaxRetries /\ (SeenStatus(k)[u] = "paused" <=> attempts[u] = MaxRetries)
        /\ attempts \in [Tasks -> Nat]
    BY <1>1, SeenAtItsTurn DEF TablesAgree, RowsInv
  <2>2. CASE u = t
    BY <1>1, <1>2, <1>4, <2>1, <2>2, SeenRows
  <2>3. CASE u # t
    BY <1>2, <2>1, <2>3, SeenRows
  <2> QED BY <2>2, <2>3
<1>8. \A a, b \in leases' : a.task = b.task => a = b
  BY <1>2, <1>4 DEF TablesAgree
<1> QED BY <1>1, <1>3, <1>6, <1>7, <1>8, LastTickEnds DEF TablesAgree

\* A new task was in no lease and nobody's choice.
LEMMA EnqueueTurn ==
  ASSUME RowsInv, TablesAgree, OneAtWork, \A j \in Tickers : TickUpToDate(j),
         NEW t \in Tasks, Enqueue(t)
  PROVE  TablesAgree' /\ OneAtWork' /\ \A j \in Tickers : TickUpToDate(j)'
<1>1. /\ status' = [status EXCEPT ![t] = "queued"] /\ status[t] = "absent"
      /\ UNCHANGED <<attempts, leases, tick, lock>>
      /\ lock = NoOne
  BY DEF Enqueue
<1>2. \A u \in Tasks : status'[u] = IF u = t THEN "queued" ELSE status[u]
  BY <1>1 DEF RowsInv
<1>3. \A a \in leases : a.task \in Tasks /\ a.task # t
  BY <1>1 DEF RowsInv, ProperLease, TablesAgree
<1>4. TablesAgree'
  BY <1>1, <1>2, <1>3 DEF TablesAgree
<1>5. OneAtWork'
  BY <1>1 DEF OneAtWork
<1>6. ASSUME NEW j \in Tickers PROVE TickUpToDate(j)'
  <2>1. lock # j
    BY <1>1, OrchestratorAssumption
  <2>2. tick[j].pc \in Chosen => tick[j].task \in Tasks /\ status[tick[j].task] # "absent"
    BY DEF RowsInv, TickConsistent
  <2>3. tick[j].due \subseteq Tasks
    BY DEF RowsInv, TickConsistent, TickRow
  <2>4. TickUpToDate(j)
    OBVIOUS
  <2>5. \A u \in tick'[j].due : status[u] = "leased" => status'[u] = "leased"
    BY <1>1, <1>2, <2>3
  <2>6. tick[j].pc \in Chosen => SeenStatus(j)[tick[j].task] = status[tick[j].task]
    BY <2>1, <2>2 DEF SeenStatus, Expiring
  <2>7. tick[j].pc \in Chosen => SeenStatus(j)'[tick[j].task] = status'[tick[j].task]
    BY <1>1, <2>1, <2>2 DEF SeenStatus, Expiring
  <2>8. tick[j].pc \in Chosen => status'[tick[j].task] = "queued"
    BY <1>2, <2>2, <2>4, <2>6 DEF TickUpToDate
  <2> QED BY <1>1, <2>1, <2>4, <2>5, <2>7, <2>8 DEF TickUpToDate, LeasesOf
<1> QED BY <1>4, <1>5, <1>6

\* A lease that ages is still the lease of its task.
LEMMA AgesTurn ==
  ASSUME RowsInv, TablesAgree, OneAtWork, \A j \in Tickers : TickUpToDate(j),
         NEW a \in leases, LeaseAges(a)
  PROVE  /\ TablesAgree' /\ OneAtWork' /\ \A j \in Tickers : TickUpToDate(j)'
         /\ \A b \in leases : ~b.overdue => \E c \in leases' : [c EXCEPT !.overdue = FALSE] = b
<1> DEFINE old == [a EXCEPT !.overdue = TRUE]
<1>1. ProperLease(a) /\ ~a.overdue
  BY DEF RowsInv, LeaseAges
<1>2. leases' = (leases \ {a}) \cup {old} /\ UNCHANGED <<queueRows, workers, tick, lock, overlap>>
  BY DEF LeaseAges
<1>3. old.task = a.task /\ old.overdue
  BY <1>1, AgedLease
<1>4. [old EXCEPT !.overdue = FALSE] = a
  BY <1>1, AgedLease
<1> HIDE DEF old
<1>5. TablesAgree'
  BY <1>2, <1>3 DEF TablesAgree, queueRows
<1>6. OneAtWork'
  BY <1>2 DEF OneAtWork
<1>7. ASSUME NEW j \in Tickers PROVE TickUpToDate(j)'
  <2>1. SeenStatus(j)' = SeenStatus(j)
    BY <1>2 DEF SeenStatus, Expiring, queueRows
  <2>2. TickUpToDate(j)
    OBVIOUS
  <2> QED BY <1>2, <1>3, <2>1, <2>2 DEF TickUpToDate, LeasesOf, queueRows
<1>8. ASSUME NEW b \in leases, ~b.overdue
      PROVE  \E c \in leases' : [c EXCEPT !.overdue = FALSE] = b
  <2>1. CASE b = a
    BY <1>2, <1>4, <2>1
  <2>2. CASE b # a
    <3>1. [b EXCEPT !.overdue = FALSE] = b
      BY <1>8, AgedLease DEF RowsInv
    <3> QED BY <1>2, <2>2, <3>1
  <2> QED BY <2>1, <2>2
<1> QED BY <1>5, <1>6, <1>7, <1>8

\* Workers are registered and updated without looking at the other tables.
LEMMA OthersTurn ==
  ASSUME TablesAgree, OneAtWork, \A j \in Tickers : TickUpToDate(j),
         UNCHANGED <<queueRows, leases, tick, lock>>
  PROVE  TablesAgree' /\ OneAtWork' /\ \A j \in Tickers : TickUpToDate(j)'
BY DEF TablesAgree, OneAtWork, TickUpToDate, SeenStatus, Expiring, LeasesOf, queueRows

LEMMA TurnStep ==
  ASSUME RowsInv, TurnInv, [Next]_vars
  PROVE  TurnInv'
<1> SUFFICES ASSUME ~overlap'
             PROVE  TablesAgree' /\ OneAtWork' /\ \A j \in Tickers : TickUpToDate(j)'
  BY DEF TurnInv
<1>1. ~overlap
  BY DEF Next, TickStep, Enqueue, SetWorker, LeaseAges, TickScan, TickExpire, TickPick, TickWorker,
         TickSend, TickLease, TickFailed, TickDies, vars
<1>2. TablesAgree /\ OneAtWork /\ \A j \in Tickers : TickUpToDate(j)
  BY <1>1 DEF TurnInv
<1>3. CASE UNCHANGED <<queueRows, leases, tick, lock>>
  BY <1>2, <1>3, OthersTurn
<1>4. ASSUME NEW k \in Tickers, TickStep(k)
      PROVE  TablesAgree' /\ OneAtWork' /\ \A j \in Tickers : TickUpToDate(j)'
  BY <1>2, <1>4, ScanTurn, MovesTurn, PickTurn, LeaseTurn, FailedTurn DEF TickStep
<1>5. ASSUME NEW k \in Tickers, TickDies(k)
      PROVE  TablesAgree' /\ OneAtWork' /\ \A j \in Tickers : TickUpToDate(j)'
  <2>1. TablesAgree'
    BY <1>2, <1>5 DEF TickDies, TablesAgree, queueRows
  <2> QED BY <1>2, <1>5, <2>1, LastTickEnds DEF TickDies
<1> QED BY <1>2, <1>3, <1>4, <1>5, EnqueueTurn, AgesTurn DEF Next, SetWorker, vars, queueRows

LEMMA TurnInit == Init => TurnInv
BY OrchestratorAssumption
   DEF Init, TurnInv, TablesAgree, OneAtWork, TickUpToDate, IdleTick, Chosen

\* The tables of the queue agree, and ticks that did not overlap act on what is in them.
THEOREM TurnInvariance == Spec => [](RowsInv /\ TurnInv)
BY RowsInit, RowsStep, TurnInit, TurnStep, PTL DEF Spec

\* As long as no tick starts while another runs, the lease of a task is taken back
\* before the task is handed out again, whatever ticks die and however time passes
\* (orchestrator.py:574-604).
THEOREM TasksHaveOneHolder == Spec => []OneHolder
<1>1. RowsInv /\ TurnInv => OneHolder
  <2> SUFFICES ASSUME RowsInv, TurnInv, ~overlap, NEW t \in Tasks
               PROVE  /\ Cardinality(LeasesOf(t)) <= 1
                      /\ LeasesOf(t) # {} => status[t] = "leased"
    BY DEF OneHolder
  <2>1. CASE LeasesOf(t) = {}
    BY <2>1, FS_EmptySet
  <2>2. CASE LeasesOf(t) # {}
    <3>1. PICK a \in leases : a.task = t
      BY <2>2 DEF LeasesOf
    <3>2. LeasesOf(t) = {a} /\ status[t] = "leased"
      BY <3>1 DEF TurnInv, TablesAgree, LeasesOf
    <3>3. Cardinality({a}) = 1
      BY FS_Singleton
    <3>4. Cardinality(LeasesOf(t)) = 1
      BY <3>2, <3>3
    <3> QED BY <3>2, <3>4
  <2> QED BY <2>1, <2>2
<1> QED BY <1>1, TurnInvariance, PTL

\* As long as ticks take turns, a task is tried max_retries times and paused by the
\* last failure: the attempts a tick read are still those of the row when it writes
\* (orchestrator.py:627-684).
THEOREM RetriesAreBounded == Spec => []RetriesBounded
<1>1. RowsInv /\ TurnInv => RetriesBounded
  BY DEF TurnInv, TablesAgree, RetriesBounded
<1> QED BY <1>1, TurnInvariance, PTL

\* As long as ticks take turns, an assignment leaves the table only when its time was
\* up, and no tick queues a paused task again (orchestrator.py:585-602).
THEOREM LeasesRunTheirTime == Spec => LeaseRunsItsTime
<1> DEFINE A == ~overlap' => /\ \A a \in leases : ~a.overdue =>
                                  \E b \in leases' : [b EXCEPT !.overdue = FALSE] = a
                             /\ \A t \in Tasks : status[t] = "paused" => status'[t] = "paused"
<1>1. ASSUME RowsInv, TurnInv, Next PROVE A
  <2> SUFFICES ASSUME ~overlap'
               PROVE  /\ \A a \in leases : ~a.overdue =>
                           \E b \in leases' : [b EXCEPT !.overdue = FALSE] = a
                      /\ \A t \in Tasks : status[t] = "paused" => status'[t] = "paused"
    OBVIOUS
  <2>1. ~overlap
    BY <1>1 DEF Next, TickStep, Enqueue, SetWorker, LeaseAges, TickScan, TickExpire, TickPick,
           TickWorker, TickSend, TickLease, TickFailed, TickDies
  <2>2. TablesAgree /\ OneAtWork /\ \A j \in Tickers : TickUpToDate(j)
    BY <1>1, <2>1 DEF TurnInv
  <2>3. \A a \in leases : ~a.overdue => [a EXCEPT !.overdue = FALSE] = a
    BY <1>1, AgedLease DEF RowsInv
  <2>4. CASE UNCHANGED <<status, leases>>
    BY <2>3, <2>4
  <2>5. CASE \E t \in Tasks : Enqueue(t)
    <3>1. PICK t \in Tasks : Enqueue(t)
      BY <2>5
    <3>2. \A u \in Tasks : status[u] = "paused" => status'[u] = "paused"
      BY <1>1, <3>1 DEF Enqueue, RowsInv
    <3>3. leases' = leases
      BY <3>1 DEF Enqueue
    <3> QED BY <2>3, <3>2, <3>3
  <2>6. CASE \E a \in leases : LeaseAges(a)
    <3>1. \A t \in Tasks : status'[t] = status[t]
      BY <2>6 DEF LeaseAges, queueRows
    <3> QED BY <1>1, <2>2, <2>6, <3>1, AgesTurn
  <2>7. ASSUME NEW k \in Tickers, NEW st, NEW lv, Commit(k, st, lv), tick[k].pc # "idle",
               SeenLeases(k) \subseteq lv,
               \A t \in Tasks : SeenStatus(k)[t] = "paused" => st[t] = "paused"
        PROVE  A
    <3>1. /\ \A a \in leases : ~a.overdue => a \in SeenLeases(k)
          /\ \A t \in Tasks : SeenStatus(k)[t] = "paused" <=> status[t] = "paused"
      BY <1>1, <2>2, <2>7, SeenAtItsTurn
    <3>2. leases' = lv /\ status' = st
      BY <2>7 DEF Commit
    <3> QED BY <2>3, <2>7, <3>1, <3>2
  <2>8. CASE \E k \in Tickers : TickPick(k) \/ TickWorker(k)
    BY <2>4, <2>7, <2>8 DEF TickPick, TickWorker
  <2>9. ASSUME NEW k \in Tickers, TickLease(k) PROVE A
    <3> DEFINE t == tick[k].task
               st == [SeenStatus(k) EXCEPT ![t] = "leased"]
    <3>1. PICK new : Commit(k, st, SeenLeases(k) \cup {new})
      BY <2>9 DEF TickLease
    <3>2. t \in Tasks /\ SeenStatus(k)[t] = "queued" /\ tick[k].pc # "idle"
      BY <1>1, <2>2, <2>9 DEF TickLease, RowsInv, TickConsistent, TickUpToDate, Chosen
    <3>3. \A u \in Tasks : SeenStatus(k)[u] = "paused" => st[u] = "paused"
      BY <1>1, <3>2, SeenRows
    <3> HIDE DEF st, A
    <3> QED BY <2>7, <3>1, <3>2, <3>3
  <2>10. ASSUME NEW k \in Tickers, TickFailed(k) PROVE A
    <3> DEFINE st == [SeenStatus(k) EXCEPT ![tick[k].task] = "paused"]
    <3>1. Commit(k, SeenStatus(k), SeenLeases(k)) \/ Commit(k, st, SeenLeases(k))
      BY <2>10 DEF TickFailed
    <3>2. \A u \in Tasks : SeenStatus(k)[u] = "paused" => st[u] = "paused"
      BY <1>1, SeenRows
    <3>3. tick[k].pc # "idle"
      BY <2>10 DEF TickFailed
    <3> HIDE DEF st, A
    <3> QED BY <2>7, <3>1, <3>2, <3>3
  <2> QED BY <1>1, <2>4, <2>5, <2>6, <2>8, <2>9, <2>10
          DEF Next, TickStep, SetWorker, TickScan, TickExpire, TickSend, TickDies, queueRows
<1>2. ASSUME RowsInv, TurnInv, UNCHANGED vars PROVE [A]_vars
  BY <1>2
<1>3. RowsInv /\ TurnInv /\ [Next]_vars => [A]_vars
  BY <1>1, <1>2
<1> QED BY <1>3, TurnInvariance, PTL DEF Spec, LeaseRunsItsTime
-----------------------------------------------------------------------------
(***************************************************************************)
(* PausedAfterConsecutive is not what the code ensures (PausedEarly.cfg):  *)
(* no dispatch that succeeds sets attempts back to zero.  The failures     *)
(* that are counted are consecutive exactly as long as none is followed by *)
(* a success; that ticks take turns is needed besides, since the failure   *)
(* of one tick may be counted after the success of another.                *)
(***************************************************************************)

\* No task is dispatched successfully after a failure was counted for it.
SuccessComesFirst ==
  \A k \in Tickers : tick[k].pc = "sent" => tick[k].tried = 0

\* Failures are counted when they are written, so attempts is never ahead of the streak,
\* and one behind it while a failure waits for the lock (or died with its tick).
Counted ==
  /\ streak \in [Tasks -> Nat]
  /\ ~overlap => /\ \A t \in Tasks : attempts[t] <= streak[t]
                 /\ \A k \in Tickers : tick[k].pc = "failed" => tick[k].tried < streak[tick[k].task]

LEMMA CountedInit == StreakInit => Counted
BY DEF StreakInit, Init, Counted, IdleTick

\* The bridge answers one tick at a time, and its answer is the only step that reaches
\* "sent" or "failed".
LEMMA AnswerOfOne ==
  ASSUME RowsInv, [Next]_vars, NEW k \in Tickers,
         tick'[k].pc \in {"sent", "failed"}, tick'[k] # tick[k]
  PROVE  /\ TickSend(k) /\ tick[k].pc = "send"
         /\ tick'[k].task = tick[k].task /\ tick'[k].tried = tick[k].tried
<1>1. DOMAIN tick = Tickers /\ \A j \in Tickers : \E w : tick[j] \in TickRow(w)
  BY DEF RowsInv, TickConsistent
<1>2. ASSUME NEW j \in Tickers, TickSend(j)
      PROVE  /\ j = k /\ tick[k].pc = "send"
             /\ tick'[k].task = tick[k].task /\ tick'[k].tried = tick[k].tried
  BY <1>1, <1>2 DEF TickSend, TickRow
<1>3. ASSUME NEW j \in Tickers, TickScan(j) PROVE FALSE
  <2> DEFINE due == {a.task : a \in {b \in leases : b.overdue /\ status[b.task] = "leased"}}
             r == [tick[j] EXCEPT !.pc = IF due = {} THEN "pick" ELSE "expire", !.due = due]
  <2>1. tick' = [tick EXCEPT ![j] = r]
    BY <1>3 DEF TickScan
  <2> HIDE DEF due
  <2>2. r.pc \in {"pick", "expire"}
    BY <1>1 DEF TickRow
  <2> HIDE DEF r
  <2> QED BY <1>1, <2>1, <2>2
<1>4. ASSUME NEW j \in Tickers, TickExpire(j) PROVE FALSE
  BY <1>1, <1>4 DEF TickExpire, TickRow
<1>5. ASSUME NEW j \in Tickers, tick' = [tick EXCEPT ![j] = IdleTick] PROVE FALSE
  BY <1>1, <1>5 DEF IdleTick
<1>6. ASSUME NEW j \in Tickers, TickPick(j) PROVE FALSE
  <2> DEFINE r == [tick[j] EXCEPT !.pc = "worker", !.task = First(j), !.tried = attempts[First(j)]]
  <2>1. tick' = [tick EXCEPT ![j] = r]
    BY <1>5, <1>6 DEF TickPick, Commit
  <2>2. r.pc = "worker"
    BY <1>1 DEF TickRow
  <2> HIDE DEF r
  <2> QED BY <1>1, <2>1, <2>2
<1>7. ASSUME NEW j \in Tickers, TickWorker(j) PROVE FALSE
  <2> DEFINE able == SelectSeq(workers, LAMBDA row : row.available)
             r == [tick[j] EXCEPT !.pc = "send", !.worker = able[1].id]
  <2>1. tick' = [tick EXCEPT ![j] = r]
    BY <1>5, <1>7 DEF TickWorker, Commit
  <2> HIDE DEF able
  <2>2. r.pc = "send"
    BY <1>1 DEF TickRow
  <2> HIDE DEF r
  <2> QED BY <1>1, <2>1, <2>2
<1>8. ASSUME NEW j \in Tickers, TickLease(j) \/ TickFailed(j) \/ TickDies(j) PROVE FALSE
  BY <1>5, <1>8 DEF TickLease, TickFailed, TickDies, Commit
<1>9. ~UNCHANGED tick
  OBVIOUS
<1> QED BY <1>2, <1>3, <1>4, <1>6, <1>7, <1>8, <1>9
        DEF Next, TickStep, Enqueue, SetWorker, LeaseAges, vars

\* What an answer does to the streaks: that of its task starts again or grows.
LEMMA AnswerCounts ==
  ASSUME RowsInv, Counted, StreakNext, NEW k \in Tickers, TickSend(k)
  PROVE  \E answer \in {"sent", "failed"} :
           /\ tick'[k].pc = answer
           /\ \A j \in Tickers \ {k} : tick'[j] = tick[j]
           /\ tick'[k].task = tick[k].task /\ tick'[k].tried = tick[k].tried
           /\ \A t \in Tasks :
                streak'[t] = IF t # tick[k].task THEN streak[t]
                             ELSE IF answer = "sent" THEN 0 ELSE streak[t] + 1
<1>1. DOMAIN tick = Tickers /\ \E w : tick[k] \in TickRow(w)
  BY DEF RowsInv, TickConsistent
<1>2. PICK answer \in {"sent", "failed"} : tick' = [tick EXCEPT ![k].pc = answer]
  BY DEF TickSend
<1>3. /\ tick'[k].pc = answer /\ tick[k].pc = "send"
      /\ \A j \in Tickers \ {k} : tick'[j] = tick[j]
      /\ tick'[k].task = tick[k].task /\ tick'[k].tried = tick[k].tried
  BY <1>1, <1>2 DEF TickSend, TickRow
<1>4. ASSUME NEW t \in Tasks, NEW a \in {"sent", "failed"}
      PROVE  Answers(t, a) <=> t = tick[k].task /\ a = answer
  BY <1>3, <1>4 DEF Answers
<1>5. ASSUME NEW t \in Tasks
      PROVE  streak'[t] = IF t # tick[k].task THEN streak[t]
                          ELSE IF answer = "sent" THEN 0 ELSE streak[t] + 1
  <2>1. streak'[t] = CASE Answers(t, "sent")   -> 0
                       [] Answers(t, "failed") -> streak[t] + 1
                       [] OTHER                -> streak[t]
    BY DEF StreakNext
  <2>2. ~(Answers(t, "sent") /\ Answers(t, "failed"))
    BY <1>4
  <2> QED BY <1>4, <2>1, <2>2
<1> QED BY <1>2, <1>3, <1>5

\* Without an answer the streaks stay, and what is written was counted before.
LEMMA OthersCount ==
  ASSUME RowsInv, Counted, ~overlap, [StreakNext]_<<vars, streak>>, ~\E k \in Tickers : TickSend(k)
  PROVE  /\ streak' = streak
         /\ \A t \in Tasks : attempts'[t] <= streak[t]
         /\ \A k \in Tickers : tick'[k].pc = "failed" => tick'[k] = tick[k]
<1>1. [Next]_vars
  BY DEF StreakNext
<1>2. \A k \in Tickers : tick'[k].pc \in {"sent", "failed"} => tick'[k] = tick[k]
  BY <1>1, AnswerOfOne
<1>3. streak' = streak
  <2>1. CASE UNCHANGED <<vars, streak>>
    BY <2>1
  <2>2. CASE StreakNext
    <3>1. ASSUME NEW t \in Tasks, NEW a \in {"sent", "failed"} PROVE ~Answers(t, a)
      BY <1>2, <3>1 DEF Answers
    <3>2. \A t \in Tasks : streak'[t] = streak[t]
      BY <2>2, <3>1 DEF StreakNext
    <3>3. streak' = [t \in Tasks |-> streak'[t]] /\ streak = [t \in Tasks |-> streak[t]]
      BY <2>2 DEF StreakNext, Counted
    <3> QED BY <3>2, <3>3
  <2> QED BY <2>1, <2>2
<1>4. ASSUME NEW t \in Tasks PROVE attempts'[t] <= streak[t]
  <2>1. attempts \in [Tasks -> Nat] /\ attempts[t] <= streak[t] /\ streak \in [Tasks -> Nat]
    BY DEF RowsInv, Counted
  <2>2. CASE UNCHANGED attempts
    BY <2>1, <2>2
  <2>3. CASE \E k \in Tickers : TickFailed(k)
    <3>1. PICK k \in Tickers : TickFailed(k)
      BY <2>3
    <3>2. /\ tick[k].tried \in Nat /\ tick[k].task \in Tasks
          /\ tick[k].tried < streak[tick[k].task]
      BY <3>1 DEF TickFailed, RowsInv, TickConsistent, TickRow, Chosen, Counted
    <3>3. attempts' = [attempts EXCEPT ![tick[k].task] = tick[k].tried + 1]
      BY <3>1 DEF TickFailed
    <3> QED BY <2>1, <3>2, <3>3
  <2> QED BY <1>1, <2>2, <2>3
          DEF Next, vars, queueRows, Enqueue, SetWorker, LeaseAges, TickStep, TickDies, TickScan,
              TickExpire, TickPick, TickWorker, TickSend, TickLease
<1> QED BY <1>2, <1>3, <1>4

LEMMA CountedStep ==
  ASSUME RowsInv, TurnInv, Counted, SuccessComesFirst', [StreakNext]_<<vars, streak>>
  PROVE  Counted'
<1>1. streak' \in [Tasks -> Nat]
  BY DEF Counted, StreakNext
<1>2. SUFFICES ASSUME ~overlap'
               PROVE  /\ \A t \in Tasks : attempts'[t] <= streak'[t]
                      /\ \A k \in Tickers : tick'[k].pc = "failed"
                                              => tick'[k].tried < streak'[tick'[k].task]
  BY <1>1 DEF Counted
<1>3. ~overlap
  BY <1>2 DEF StreakNext, Next, TickStep, Enqueue, SetWorker, LeaseAges, TickScan, TickExpire,
     TickPick,
              TickWorker, TickSend, TickLease, TickFailed, TickDies, vars
<1>4. CASE ~\E k \in Tickers : TickSend(k)
  BY <1>3, <1>4, OthersCount DEF Counted
<1>5. ASSUME NEW k \in Tickers, TickSend(k)
      PROVE  /\ \A t \in Tasks : attempts'[t] <= streak'[t]
             /\ \A j \in Tickers : tick'[j].pc = "failed"
                                     => tick'[j].tried < streak'[tick'[j].task]
  <2>1. StreakNext
    <3>1. DOMAIN tick = Tickers /\ \E w : tick[k] \in TickRow(w)
      BY DEF RowsInv, TickConsistent
    <3>2. tick' # tick
      BY <1>5, <3>1 DEF TickSend, TickRow
    <3> QED BY <3>2 DEF vars
  <2>2. PICK answer \in {"sent", "failed"} :
          /\ tick'[k].pc = answer
          /\ \A j \in Tickers \ {k} : tick'[j] = tick[j]
          /\ tick'[k].task = tick[k].task /\ tick'[k].tried = tick[k].tried
          /\ \A t \in Tasks :
               streak'[t] = IF t # tick[k].task THEN streak[t]
                            ELSE IF answer = "sent" THEN 0 ELSE streak[t] + 1
    BY <1>5, <2>1, AnswerCounts
  <2>3. /\ tick[k].task \in Tasks /\ tick[k].tried = attempts[tick[k].task]
        /\ \A j \in Tickers \ {k} : tick[j].pc = "idle"
        /\ UNCHANGED attempts
    BY <1>3, <1>5 DEF TickSend, Chosen, RowsInv, TickConsistent, TurnInv, TickUpToDate,
       OneAtWork, queueRows
  <2>4. /\ streak \in [Tasks -> Nat] /\ attempts \in [Tasks -> Nat]
        /\ \A t \in Tasks : attempts[t] <= streak[t]
    BY <1>3 DEF Counted, RowsInv
  <2>5. answer = "sent" => attempts[tick[k].task] = 0
    BY <2>2, <2>3 DEF SuccessComesFirst
  <2>6. \A t \in Tasks : attempts'[t] <= streak'[t]
    BY <2>2, <2>3, <2>4, <2>5
  <2>7. ASSUME NEW j \in Tickers, tick'[j].pc = "failed"
        PROVE  tick'[j].tried < streak'[tick'[j].task]
    <3>1. j = k
      BY <2>2, <2>3, <2>7
    <3> QED BY <2>2, <2>3, <2>4, <2>7, <3>1
  <2> QED BY <2>6, <2>7
<1> QED BY <1>4, <1>5

\* A task is paused only after max_retries failures in a row ("连续多次失败后才暂停",
\* docs/roadmap.md:142) as long as ticks take turns and no dispatch succeeds for a task
\* that already failed: the success that resets nothing is the only other way there.
THEOREM PausedTasksFailedInARow ==
  StreakSpec /\ [](SuccessComesFirst /\ ~overlap) => []PausedAfterConsecutive
<1>1. StreakSpec => Spec
  <2>1. StreakInit => Init
    BY DEF StreakInit
  <2>2. [StreakNext]_<<vars, streak>> => [Next]_vars
    BY DEF StreakNext
  <2> QED BY <2>1, <2>2, PTL DEF StreakSpec, Spec
<1>2. RowsInv /\ TurnInv /\ Counted /\ SuccessComesFirst' /\ [StreakNext]_<<vars, streak>> => Counted'
  BY CountedStep
<1>3. RowsInv /\ TurnInv /\ Counted /\ ~overlap => PausedAfterConsecutive
  <2> SUFFICES ASSUME RowsInv, TurnInv, Counted, ~overlap, NEW t \in Tasks, status[t] = "paused"
               PROVE  streak[t] >= MaxRetries
    BY DEF PausedAfterConsecutive
  <2>1. attempts[t] = MaxRetries /\ attempts[t] <= streak[t] /\ streak[t] \in Nat /\ MaxRetries \in Nat
    BY OrchestratorAssumption DEF TurnInv, TablesAgree, Counted
  <2> QED BY <2>1
<1> QED BY <1>1, <1>2, <1>3, CountedInit, TurnInvariance, PTL DEF StreakSpec
=============================================================================
