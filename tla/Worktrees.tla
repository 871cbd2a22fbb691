------------------------------ MODULE Worktrees ------------------------------
(***************************************************************************)
(* The git worktrees of the orchestrator.  prepare_agent_worktree looks    *)
(* for a record, makes the worktree or adopts the one it finds, and then   *)
(* records it; merge_queue reads the records, looks at each worktree and   *)
(* writes what it saw in a later transaction.  The directory and the       *)
(* branch are named after the task, the record is keyed by it.             *)
(***************************************************************************)
EXTENDS Naturals, FiniteSets

CONSTANTS
  Job,      \* tasks that get a worktree
  Agent,    \* workers that ask for one
  Base,     \* branches work starts from
  Preparer, \* concurrent prepare_agent_worktree calls
  Scanner,  \* concurrent merge_queue calls
  Nobody    \* no agent

ASSUME WorktreeParameters == Nobody \notin Agent

VARIABLES
  trees,     \* the worktree of each task, if it is there
  branches,  \* tasks whose branch hmn/agent/<task> exists
  records,   \* orchestrator_worktrees
  preparer,  \* the state of each prepare_agent_worktree
  scanner,   \* the state of each merge_queue
  granted,   \* history: the agents that were told the worktree is theirs
  disturbed  \* history: tasks whose worktree was removed or put on another branch

wtVars == <<trees, branches, records, preparer, scanner, granted, disturbed>>

NoTree == [there |-> FALSE, onBranch |-> FALSE]
NewTree == [there |-> TRUE, onBranch |-> TRUE]
Status == {"none", "prepared", "ready", "conflict", "missing"}
NoRecord == [agent |-> Nobody, status |-> "none"]
TreeRow == [agent : Agent, status : Status \ {"none"}, base : Base]
Asking == [pc : {"idle", "make", "record"}, job : Job, agent : Agent \cup {Nobody}, base : Base]
Scanning == [todo : SUBSET Job, saw : [Job -> Status]]

NotAsking == [pc |-> "idle", job |-> CHOOSE j \in Job : TRUE, agent |-> Nobody,
              base |-> CHOOSE b \in Base : TRUE]
NotScanning == [todo |-> {}, saw |-> [j \in Job |-> "none"]]

WtTypeOK ==
  /\ trees \in [Job -> [there : BOOLEAN, onBranch : BOOLEAN]]
  /\ records \in [Job -> TreeRow \cup {NoRecord}]
  /\ branches \subseteq Job /\ disturbed \subseteq Job
  /\ preparer \in [Preparer -> Asking \cup {NotAsking}]
  /\ scanner \in [Scanner -> Scanning]
  /\ granted \in [Job -> SUBSET Agent]

WtInit ==
  /\ trees = [j \in Job |-> NoTree] /\ branches = {}
  /\ records = [j \in Job |-> NoRecord]
  /\ preparer = [p \in Preparer |-> NotAsking]
  /\ scanner = [m \in Scanner |-> NotScanning]
  /\ granted = [j \in Job |-> {}] /\ disturbed = {}
------------------------------------------------------------------------------
(* prepare_agent_worktree *)

\* _validate_worktree.
Valid(j) == trees[j].there /\ trees[j].onBranch

NewRecord(a, b) == [agent |-> a, status |-> "prepared", base |-> b]
Grant(j, a) == granted' = [granted EXCEPT ![j] = @ \cup {a}]

\* A record is there: it must be for this agent and base, and the worktree valid;
\* otherwise the call raises, which changes nothing.
Reuse(p, j, a, b) ==
  /\ preparer[p].pc = "idle"
  /\ records[j] # NoRecord /\ records[j].agent = a /\ records[j].base = b /\ Valid(j)
  /\ Grant(j, a)
  /\ UNCHANGED <<trees, branches, records, preparer, scanner, disturbed>>

\* Slip: the record is written before the worktree is there.
LookUpAndRecord(p, j, a, b) ==
  /\ preparer[p].pc = "idle" /\ records[j] = NoRecord
  /\ preparer' = [preparer EXCEPT ![p] = [pc |-> "make", job |-> j, agent |-> a, base |-> b]]
  /\ records' = [records EXCEPT ![j] = NewRecord(a, b)]
  /\ UNCHANGED <<trees, branches, scanner, granted, disturbed>>

\* No record is there.
LookUp(p, j, a, b) ==
  /\ preparer[p].pc = "idle" /\ records[j] = NoRecord
  /\ preparer' = [preparer EXCEPT ![p] = [pc |-> "make", job |-> j, agent |-> a, base |-> b]]
  /\ UNCHANGED <<trees, branches, records, scanner, granted, disturbed>>

\* git worktree add -b, or the worktree that is already there is adopted.
MakeTree(p) == LET j == preparer[p].job IN
  /\ preparer[p].pc = "make"
  /\ \/ /\ ~trees[j].there /\ j \notin branches
        /\ trees' = [trees EXCEPT ![j] = NewTree] /\ branches' = branches \cup {j}
     \/ Valid(j) /\ UNCHANGED <<trees, branches>>
  /\ preparer' = [preparer EXCEPT ![p].pc = "record"]
  /\ UNCHANGED <<records, scanner, granted, disturbed>>

\* Slip: a record that is there is replaced.
RecordTreeOver(p) == LET j == preparer[p].job IN
  /\ preparer[p].pc = "record"
  /\ records' = [records EXCEPT ![j] = NewRecord(preparer[p].agent, preparer[p].base)]
  /\ Grant(j, preparer[p].agent)
  /\ preparer' = [preparer EXCEPT ![p] = NotAsking]
  /\ UNCHANGED <<trees, branches, scanner, disturbed>>

\* The INSERT; the task is the primary key.
RecordTree(p) == LET j == preparer[p].job IN
  /\ preparer[p].pc = "record" /\ records[j] = NoRecord
  /\ records' = [records EXCEPT ![j] = NewRecord(preparer[p].agent, preparer[p].base)]
  /\ Grant(j, preparer[p].agent)
  /\ preparer' = [preparer EXCEPT ![p] = NotAsking]
  /\ UNCHANGED <<trees, branches, scanner, disturbed>>

\* The call dies, or raises: git fails, the worktree is not valid, or the key is taken.
PreparerEnds(p) ==
  /\ preparer[p].pc # "idle" /\ preparer' = [preparer EXCEPT ![p] = NotAsking]
  /\ UNCHANGED <<trees, branches, records, scanner, granted, disturbed>>
------------------------------------------------------------------------------
(* merge_queue *)

Examined == {"prepared", "ready", "conflict"}

\* The SELECT for one base branch.
StartScan(m, b) ==
  /\ scanner[m] = NotScanning
  /\ LET todo == {j \in Job : records[j].status \in Examined /\ records[j].base = b} IN
       todo # {} /\ scanner' = [scanner EXCEPT ![m].todo = todo]
  /\ UNCHANGED <<trees, branches, records, preparer, granted, disturbed>>

\* One worktree; git decides whether its branch merges.
Examine(m, j) ==
  /\ j \in scanner[m].todo
  /\ \E seen \in IF Valid(j) THEN {"ready", "conflict"} ELSE {"missing"} :
       scanner' = [scanner EXCEPT ![m] = [todo |-> @.todo \ {j}, saw |-> [@.saw EXCEPT ![j] = seen]]]
  /\ UNCHANGED <<trees, branches, records, preparer, granted, disturbed>>

\* The UPDATEs, in one transaction.
WriteScan(m) == LET saw == scanner[m].saw IN
  /\ scanner[m] # NotScanning /\ scanner[m].todo = {}
  /\ records' = [j \in Job |-> IF saw[j] = "none" THEN records[j]
                               ELSE [records[j] EXCEPT !.status = saw[j]]]
  /\ scanner' = [scanner EXCEPT ![m] = NotScanning]
  /\ UNCHANGED <<trees, branches, preparer, granted, disturbed>>

ScanDies(m) ==
  /\ scanner[m] # NotScanning /\ scanner' = [scanner EXCEPT ![m] = NotScanning]
  /\ UNCHANGED <<trees, branches, records, preparer, granted, disturbed>>
------------------------------------------------------------------------------
(* Operators and agents at the worktree *)

\* git worktree remove leaves the branch.
RemoveTree(j) ==
  /\ trees[j].there /\ trees' = [trees EXCEPT ![j] = NoTree]
  /\ disturbed' = disturbed \cup {j}
  /\ UNCHANGED <<branches, records, preparer, scanner, granted>>

DeleteBranch(j) ==
  /\ ~trees[j].there /\ j \in branches /\ branches' = branches \ {j}
  /\ UNCHANGED <<trees, records, preparer, scanner, granted, disturbed>>

\* git checkout of another branch, or back.
SwitchBranch(j) ==
  /\ trees[j].there /\ trees' = [trees EXCEPT ![j].onBranch = ~@]
  /\ disturbed' = disturbed \cup {j}
  /\ UNCHANGED <<branches, records, preparer, scanner, granted>>

WtNext ==
  \/ \E p \in Preparer : \/ MakeTree(p) \/ RecordTree(p) \/ PreparerEnds(p)
                         \/ \E j \in Job, a \in Agent, b \in Base :
                              Reuse(p, j, a, b) \/ LookUp(p, j, a, b)
  \/ \E m \in Scanner : \/ WriteScan(m) \/ ScanDies(m)
                        \/ \E b \in Base : StartScan(m, b)
                        \/ \E j \in Job : Examine(m, j)
  \/ \E j \in Job : RemoveTree(j) \/ DeleteBranch(j) \/ SwitchBranch(j)

WtSpec == WtInit /\ [][WtNext]_wtVars
------------------------------------------------------------------------------
(* Properties *)

\* A worktree is handed to one agent: when two calls race for a task, or one
\* adopts what a dead one left, at most one agent is ever told that the worktree is
\* its own, and the record names that agent.
TreeHasOneAgent ==
  \A j \in Job : granted[j] \subseteq {records[j].agent}

\* merge_queue reports a worktree missing only when somebody removed it or moved it
\* to another branch: a worktree that is being prepared or adopted is never given up.
MissingMeansRemoved ==
  \A j \in Job : records[j].status = "missing" => j \in disturbed
==============================================================================
