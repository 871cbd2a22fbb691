-------------------------- MODULE DecisionLifecycle --------------------------
(***************************************************************************)
(* What an approval queue promises, with no handler, copy, transaction or  *)
(* file in sight: a request is asked for once and ruled on once, it is     *)
(* acted on only while its ruling is an approval, a request that may be    *)
(* acted on once is, and what the log says is the ruling.                  *)
(***************************************************************************)
EXTENDS Naturals

CONSTANTS
  Request,
  Once      \* those of them that lead to one act at most

VARIABLES
  ruling,   \* per request: absent, pending, approved or rejected
  acts,     \* per request: how often it was acted on
  log       \* the <<request, ruling>> pairs that were logged

decisionVars == <<ruling, acts, log>>

DecisionInit ==
  /\ ruling = [r \in Request |-> "absent"]
  /\ acts = [r \in Request |-> 0]
  /\ log = {}

Ask(r) ==
  /\ ruling[r] = "absent"
  /\ ruling' = [ruling EXCEPT ![r] = "pending"]
  /\ UNCHANGED <<acts, log>>

Rule(r, v) ==
  /\ ruling[r] = "pending"
  /\ ruling' = [ruling EXCEPT ![r] = v]
  /\ UNCHANGED <<acts, log>>

Log(r) ==
  /\ ruling[r] \in {"approved", "rejected"}
  /\ log' = log \cup {<<r, ruling[r]>>}
  /\ UNCHANGED <<ruling, acts>>

Act(r) ==
  /\ ruling[r] = "approved"
  /\ r \in Once => acts[r] = 0
  /\ acts' = [acts EXCEPT ![r] = @ + 1]
  /\ UNCHANGED <<ruling, log>>

\* Handlers read, races are lost, nodes turn: most steps are no business of the queue.
Elsewhere == UNCHANGED decisionVars

DecisionNext ==
  \/ Elsewhere
  \/ \E r \in Request : \/ Ask(r) \/ Log(r) \/ Act(r)
                        \/ \E v \in {"approved", "rejected"} : Rule(r, v)

DecisionSpec == DecisionInit /\ [][DecisionNext]_decisionVars
==============================================================================
