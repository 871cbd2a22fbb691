----------------------------- MODULE Components ------------------------------
(***************************************************************************)
(* The component registry: what hmn component plan/apply/verify/uninstall  *)
(* and the console's component run leave in component_runs and             *)
(* node_components.  A slot is one component on one node.                  *)
(*                                                                         *)
(* A command records its run in one transaction, reads the existing row of *)
(* the slot in another and saves the whole row in a third; a high-risk     *)
(* change records a run that waits, asks for approval in a transaction of  *)
(* its own and is carried out by dispatch_approved_component_action, which *)
(* does everything in one.  Deciding is module Approvals.                  *)
(***************************************************************************)
EXTENDS Naturals, Sequences

CONSTANTS
  Slot,      \* <<node, component>> pairs
  HostOf,    \* the node of each
  Risky,     \* slots of components with risk high or critical
  Monitored, \* slots of the monitor component
  Config,    \* component configurations
  NoConfig,  \* the empty configuration, {}
  Hand,      \* concurrent commands and console requests
  RunCap     \* bound: rows of component_runs

ASSUME ComponentParameters ==
  /\ Risky \subseteq Slot /\ Monitored \subseteq Slot
  /\ Risky \cap Monitored = {}  \* the built-in monitor manifest says low
  /\ NoConfig \notin Config /\ RunCap \in Nat

VARIABLES
  runs,     \* component_runs, in the order of created_at
  slots,    \* node_components
  asked,    \* per run, the status of its approval request
  loaded,   \* the runs whose request deciders loaded while it was pending
  allowed,  \* history: the runs whose request was ever saved as approved
  onManaged,\* the slots whose node is managed
  hand,     \* the state of each command
  ideal,    \* history: desired state and config as if writes never overlapped
  raced     \* history: slots written while a command held a copy of them

compVars == <<runs, slots, asked, loaded, allowed, onManaged, hand, ideal, raced>>

RunStatus == {"planned", "checked", "ok", "warn", "state_recorded", "pending_approval"}
Run == [slot : Slot, action : {"plan", "apply", "verify", "uninstall"},
        config : Config \cup {NoConfig}, status : RunStatus]
Wish == [desired : {"none", "enabled", "absent"}, config : Config \cup {NoConfig}]
\* desired "none" means no row; run is last_run_id, 0 for none.
SlotRow == [wish : Wish, current : {"planned", "ok", "warn", "critical"}, run : 0..RunCap]

NoWish == [desired |-> "none", config |-> NoConfig]
NoSlotRow == [wish |-> NoWish, current |-> "planned", run |-> 0]
HandState == [pc : {"idle", "ask", "look", "set"}, run : 0..RunCap, row : SlotRow]
Free == [pc |-> "idle", run |-> 0, row |-> NoSlotRow]

CompTypeOK ==
  /\ runs \in Seq(Run) /\ Len(runs) <= RunCap
  /\ slots \in [Slot -> SlotRow]
  /\ asked \in [1..RunCap -> {"none", "pending", "approved", "rejected"}]
  /\ loaded \subseteq 1..RunCap /\ allowed \subseteq 1..RunCap
  /\ onManaged \subseteq Slot
  /\ hand \in [Hand -> HandState]
  /\ ideal \in [Slot -> Wish] /\ raced \subseteq Slot

CompInit ==
  /\ runs = <<>> /\ slots = [s \in Slot |-> NoSlotRow]
  /\ asked = [i \in 1..RunCap |-> "none"] /\ onManaged = Slot
  /\ loaded = {} /\ allowed = {}
  /\ hand = [h \in Hand |-> Free]
  /\ ideal = [s \in Slot |-> NoWish] /\ raced = {}
------------------------------------------------------------------------------
HandAt(h, pc) == hand[h].pc = pc
Take(h, state) == hand' = [hand EXCEPT ![h] = state]
RunInHand(h) == runs[hand[h].run]

\* _component_action_requires_approval, for the commands.
NeedsApproval(s, action) == s \in Risky /\ action \in {"apply", "uninstall"}

\* record_component_run of a managed node's component; what follows depends on
\* the action.  verify of the monitor takes its status from the heartbeats.
Record(h, s, action, config, status, pc) ==
  /\ HandAt(h, "idle") /\ Len(runs) < RunCap
  /\ runs' = Append(runs, [slot |-> s, action |-> action, config |-> config,
                           status |-> status])
  /\ Take(h, [Free EXCEPT !.pc = pc, !.run = Len(runs) + 1])
  /\ UNCHANGED <<slots, asked, loaded, allowed, onManaged, ideal, raced>>

\* component plan, and in the console every run that changes nothing.
PlanComponent(h, s) ==
  \E action \in {"plan", "verify"} : Record(h, s, action, NoConfig, "planned", "idle")

\* A change of low risk: apply knows the whole row, uninstall looks at the old one.
ChangeComponent(h, s, action, config) ==
  /\ s \in onManaged /\ ~NeedsApproval(s, action)
  /\ Record(h, s, action, config, "state_recorded", "look")

\* A change that has to be approved: of a risky component by a command, of any
\* component on any node in the console.
RequestChange(h, s, action, config) ==
  Record(h, s, action, config, "pending_approval", "ask")

\* verify: only for the monitor does it write the slot.
VerifyComponent(h, s) ==
  /\ s \in onManaged
  /\ IF s \in Monitored
     THEN \E status \in {"ok", "warn"} : Record(h, s, "verify", NoConfig, status, "look")
     ELSE Record(h, s, "verify", NoConfig, "checked", "idle")

\* create_approval_request: a command that dies before leaves a run nobody can decide.
AskApproval(h) ==
  /\ HandAt(h, "ask")
  /\ asked' = [asked EXCEPT ![hand[h].run] = "pending"]
  /\ Take(h, Free)
  /\ UNCHANGED <<runs, slots, loaded, allowed, onManaged, ideal, raced>>

\* Slip: verify writes the desired state of a fresh row.
WishAfterForgetful(run, old) ==
  CASE run.action = "apply"     -> [desired |-> "enabled", config |-> run.config]
    [] run.action = "uninstall" -> [old EXCEPT !.desired = "absent"]
    [] OTHER                    -> [desired |-> "enabled", config |-> old.config]

\* The desired state and configuration a run leads to: uninstall keeps the
\* configuration, verify keeps both (and enables a component without a row).
WishAfter(run, old) ==
  CASE run.action = "apply"     -> [desired |-> "enabled", config |-> run.config]
    [] run.action = "uninstall" -> [old EXCEPT !.desired = "absent"]
    [] OTHER                    -> IF old.desired = "none"
                                   THEN [old EXCEPT !.desired = "enabled"] ELSE old

\* The row that run i writes over old.
Written(i, old, current) ==
  [wish |-> WishAfter(runs[i], old.wish), current |-> current, run |-> i]

\* current_state of a command's row: for the monitor what the heartbeats said, to
\* apply before its run was recorded, to verify as the status of its run.
Currents(run) ==
  CASE run.action = "verify" -> {run.status}
    [] run.action = "apply" /\ run.slot \in Monitored -> {"ok", "warn", "critical"}
    [] OTHER -> {"planned"}

\* What the same run would lead to had nobody written in between.
Intended(run, old) ==
  CASE run.action = "apply"     -> [desired |-> "enabled", config |-> run.config]
    [] run.action = "uninstall" -> [old EXCEPT !.desired = "absent"]
    [] OTHER -> [old EXCEPT !.desired = IF @ = "none" THEN "enabled" ELSE @]

\* list_node_components, and the row built from what was found.
LookAtSlot(h) ==
  /\ HandAt(h, "look")
  /\ \E current \in Currents(RunInHand(h)) :
       Take(h, [hand[h] EXCEPT !.pc = "set",
                  !.row = Written(hand[h].run, slots[RunInHand(h).slot], current)])
  /\ UNCHANGED <<runs, slots, asked, loaded, allowed, onManaged, ideal, raced>>

\* The history a write of slot s by run i leaves.
Remember(i, writer) ==
  LET s == runs[i].slot IN
  /\ ideal' = [ideal EXCEPT ![s] = Intended(runs[i], @)]
  /\ raced' = IF \E g \in Hand \ writer : /\ HandAt(g, "set") /\ RunInHand(g).slot = s
                                         /\ RunInHand(g).action # "apply"
              THEN raced \cup {s} ELSE raced

\* set_node_component: every column is written.
SetSlot(h) ==
  /\ HandAt(h, "set")
  /\ slots' = [slots EXCEPT ![RunInHand(h).slot] = hand[h].row]
  /\ Remember(hand[h].run, {h})
  /\ Take(h, Free)
  /\ UNCHANGED <<runs, asked, loaded, allowed, onManaged>>
------------------------------------------------------------------------------
\* resolve_approval_request loads the request in one transaction.  Any number of
\* deciders may have loaded it; each of them saves its verdict below, or dies.
LoadDecision(i) ==
  /\ asked[i] = "pending" /\ i \notin loaded
  /\ loaded' = loaded \cup {i}
  /\ UNCHANGED <<runs, slots, asked, allowed, onManaged, hand, ideal, raced>>

\* And saves it in another, whatever another decider has made of it since.
SaveDecision(i) ==
  /\ i \in loaded
  /\ \E v \in {"approved", "rejected"} :
       /\ asked' = [asked EXCEPT ![i] = v]
       /\ allowed' = IF v = "approved" THEN allowed \cup {i} ELSE allowed
  /\ UNCHANGED <<runs, slots, loaded, onManaged, hand, ideal, raced>>

\* Slip: the status of the approval is not read again.
DispatchRunUnchecked(i) ==
  /\ asked[i] # "none" /\ runs[i].status = "pending_approval"
  /\ slots' = [slots EXCEPT ![runs[i].slot] = Written(i, @, "planned")]
  /\ runs' = [runs EXCEPT ![i].status = "state_recorded"]
  /\ Remember(i, {})
  /\ UNCHANGED <<asked, loaded, allowed, onManaged, hand>>

\* dispatch_approved_component_action: one transaction; the node may have been
\* revoked since.
DispatchRun(i) ==
  /\ asked[i] = "approved" /\ runs[i].status = "pending_approval"
  /\ slots' = [slots EXCEPT ![runs[i].slot] = Written(i, @, "planned")]
  /\ runs' = [runs EXCEPT ![i].status = "state_recorded"]
  /\ Remember(i, {})
  /\ UNCHANGED <<asked, loaded, allowed, onManaged, hand>>

HandDies(h) ==
  /\ ~HandAt(h, "idle") /\ Take(h, Free)
  /\ UNCHANGED <<runs, slots, asked, loaded, allowed, onManaged, ideal, raced>>

RevokeNodeOf(s) ==
  /\ s \in onManaged /\ onManaged' = {u \in onManaged : HostOf[u] # HostOf[s]}
  /\ UNCHANGED <<runs, slots, asked, loaded, allowed, hand, ideal, raced>>

HandStep(h) ==
  \/ \E s \in Slot : PlanComponent(h, s) \/ VerifyComponent(h, s)
  \/ \E s \in Slot, change \in ({"apply"} \X Config) \cup {<<"uninstall", NoConfig>>} :
       \/ ChangeComponent(h, s, change[1], change[2])
       \/ RequestChange(h, s, change[1], change[2])
  \/ AskApproval(h) \/ LookAtSlot(h) \/ SetSlot(h) \/ HandDies(h)

CompNext ==
  \/ \E h \in Hand : HandStep(h)
  \/ \E i \in 1..Len(runs) : LoadDecision(i) \/ SaveDecision(i) \/ DispatchRun(i)
  \/ \E s \in Slot : RevokeNodeOf(s)

CompSpec == CompInit /\ [][CompNext]_compVars
------------------------------------------------------------------------------
(* Properties *)

\* However commands and deciders race and die, a slot's last_run_id names a run of
\* that slot that is recorded as carried out, and a run that had to be approved was
\* approved once, though a racing rejection may have been saved over it since: the run
\* is written before the slot, and a waiting run never reaches one.
SlotsAreBacked ==
  \A s \in Slot : LET i == slots[s].run IN
    i > 0 => /\ runs[i].slot = s /\ runs[i].status \in {"state_recorded", "ok", "warn"}
             /\ asked[i] # "none" \/ NeedsApproval(s, runs[i].action) => i \in allowed

\* As long as nobody writes a slot while a command holds a copy of it, its desired
\* state and configuration are what the changes made of it one after the other:
\* a verification in between neither revives nor reconfigures a component.
WishesStand == \A s \in Slot : s \notin raced => slots[s].wish = ideal[s]
==============================================================================
