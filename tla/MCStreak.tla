------------------------------- MODULE MCStreak ------------------------------
(* Orchestrator with a history of the failures of each task, for TLC. *)
EXTENDS MCOrchestrator

VARIABLE streak  \* history: failed dispatches of a task since its last good one

\* Some tick gets this answer to its dispatch of t.
Answers(t, answer) ==
  \E k \in Tickers : tick[k].pc = "send" /\ tick[k].task = t /\ tick'[k].pc = answer

StreakInit == Init /\ streak = [t \in Tasks |-> 0]

StreakNext ==
  /\ Next
  /\ streak' = [t \in Tasks |-> CASE Answers(t, "sent")   -> 0
                                  [] Answers(t, "failed") -> streak[t] + 1
                                  [] OTHER                -> streak[t]]

StreakSpec == StreakInit /\ [][StreakNext]_<<vars, streak>>

\* orchestrator.py:632 and docs/roadmap.md:142: a task is paused after consecutive
\* failures of its dispatch.
PausedAfterConsecutive ==
  \A t \in Tasks : status[t] = "paused" => streak[t] >= MaxRetries
==============================================================================
