---------------------------- MODULE TaskLifecycle ----------------------------
(***************************************************************************)
(* What the control plane promises about a worker task, with no node,      *)
(* lease, request or handler in sight: a task is submitted once, handed    *)
(* out once, its command is begun at most once and only after the          *)
(* hand-out, and it gets one verdict, which is a success only if the       *)
(* command was begun.  A task may be given up on while it runs, so its     *)
(* command may still be begun after the verdict "failed".                  *)
(***************************************************************************)
EXTENDS Naturals

CONSTANT Task

VARIABLES
  life,   \* per task: absent, pending, running, succeeded or failed
  begun   \* per task: how often its command was begun

lifeVars == <<life, begun>>

LifeInit ==
  /\ life = [t \in Task |-> "absent"]
  /\ begun = [t \in Task |-> 0]

Submit(t) ==
  /\ life[t] = "absent"
  /\ life' = [life EXCEPT ![t] = "pending"]
  /\ UNCHANGED begun

HandOut(t) ==
  /\ life[t] = "pending"
  /\ life' = [life EXCEPT ![t] = "running"]
  /\ UNCHANGED begun

Begin(t) ==
  /\ life[t] \in {"running", "failed"}
  /\ begun[t] = 0
  /\ begun' = [begun EXCEPT ![t] = 1]
  /\ UNCHANGED life

Succeed(t) ==
  /\ life[t] = "running"
  /\ begun[t] = 1
  /\ life' = [life EXCEPT ![t] = "succeeded"]
  /\ UNCHANGED begun

\* One result or one sweep of the watchdog: several tasks may fail at once.
GiveUp(S) ==
  /\ \A t \in S : life[t] = "running"
  /\ life' = [t \in Task |-> IF t \in S THEN "failed" ELSE life[t]]
  /\ UNCHANGED begun

LifeNext ==
  \/ \E t \in Task : Submit(t) \/ HandOut(t) \/ Begin(t) \/ Succeed(t)
  \/ \E S \in SUBSET Task : GiveUp(S)

LifeSpec == LifeInit /\ [][LifeNext]_lifeVars
==============================================================================
