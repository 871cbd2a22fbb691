------------------------------ MODULE Approvals ------------------------------
(***************************************************************************)
(* Approval requests: how a decision is taken and what an approval sets    *)
(* off.  The deciders are concurrent handlers: hmn approval approve/reject *)
(* and the API, web console and Telegram handlers, which look at the       *)
(* status once more before they call resolve_approval_request.             *)
(*                                                                         *)
(* resolve_approval_request loads the row, tests it and writes the whole   *)
(* row back in a later transaction, details included: the copy it writes   *)
(* also carries the dispatched_task_id that was there when it was loaded.  *)
(* The task and component dispatchers run in one BEGIN IMMEDIATE           *)
(* transaction each; the ACL dispatcher works on two files without a lock. *)
(***************************************************************************)
EXTENDS Naturals

CONSTANTS
  Approval,   \* approval ids
  KindOf,     \* "task", "component" or "acl"
  Decider,    \* concurrent handlers that decide approvals
  Cli,        \* the deciders that are CLI commands
  Matching,   \* component approvals whose details match their run
  Text,       \* contents of ACL files
  FirstAcl,   \* the ACL in force at the start
  OldOf,      \* the ACL text an acl approval's diff starts from (old_sha256)
  NewOf,      \* the ACL text its diff leads to (new_sha256)
  NoApproval, \* a decider at rest
  WriteCap    \* bound: how often one approval is followed writing the ACL

ASSUME ApprovalAttributes ==
  /\ KindOf \in [Approval -> {"task", "component", "acl"}]
  /\ Cli \subseteq Decider /\ Matching \subseteq Approval
  /\ FirstAcl \in Text /\ OldOf \in [Approval -> Text] /\ NewOf \in [Approval -> Text]
  /\ NoApproval \notin Approval
  /\ WriteCap \in Nat

VARIABLES
  approvals,  \* the approval_requests table
  ready,      \* the node of the tasks is managed and nothing blocks dispatch
  effects,    \* per approval: tasks created, component states recorded, ACLs written
  recorded,   \* the component runs with status state_recorded
  acl,        \* the text of the ACL file in force
  proposal,   \* per approval, the text now in its proposed file
  decider,    \* the state of each decider
  audited,    \* the <<approval, verdict>> pairs with an audit event
  everApproved, \* history: the approvals saved as approved at least once
  overwritten   \* history: the approvals whose decision a stale copy was saved over

apprVars == <<approvals, ready, effects, recorded, acl, proposal, decider, audited,
              everApproved, overwritten>>

Verdict == {"approved", "rejected"}
\* task is details.dispatched_task_id: 0 for none, else an ordinal.
ApprovalRow == [status : {"absent", "pending"} \cup Verdict, task : Nat]
DeciderPc == {"idle", "check", "load", "save", "audit", "inner", "outer", "aclwrite"}
DeciderState == [pc      : DeciderPc,
                 on      : Approval \cup {NoApproval},
                 verdict : Verdict,
                 copy    : ApprovalRow,
                 text    : Text]      \* proposed text read by the ACL dispatcher

NoApprovalRow == [status |-> "absent", task |-> 0]
AtRest == [pc |-> "idle", on |-> NoApproval, verdict |-> "rejected",
           copy |-> NoApprovalRow, text |-> FirstAcl]

ApprTypeOK ==
  /\ approvals \in [Approval -> ApprovalRow] /\ ready \in BOOLEAN
  /\ effects \in [Approval -> Nat] /\ recorded \subseteq Approval
  /\ acl \in Text /\ proposal \in [Approval -> Text]
  /\ decider \in [Decider -> DeciderState]
  /\ audited \subseteq Approval \X Verdict /\ everApproved \subseteq Approval
  /\ overwritten \subseteq Approval

ApprInit ==
  /\ approvals = [a \in Approval |-> NoApprovalRow] /\ ready = TRUE
  /\ effects = [a \in Approval |-> 0] /\ recorded = {}
  /\ acl = FirstAcl /\ proposal = NewOf
  /\ decider = [d \in Decider |-> AtRest]
  /\ audited = {} /\ everApproved = {} /\ overwritten = {}
------------------------------------------------------------------------------
Now(d, pc) == decider[d].pc = pc
Become(d, state) == decider' = [decider EXCEPT ![d] = state]
Go(d, pc) == Become(d, [decider[d] EXCEPT !.pc = pc])
Rest(d) == Become(d, AtRest)

\* create_approval_request.
CreateApproval(a) ==
  /\ approvals[a].status = "absent"
  /\ approvals' = [approvals EXCEPT ![a].status = "pending"]
  /\ UNCHANGED <<ready, effects, recorded, acl, proposal, decider, audited, everApproved, overwritten>>

\* A high-risk task, or a component action with its run in pending_approval.
RequestAction(a) == KindOf[a] # "acl" /\ CreateApproval(a)

\* network_acl_plan: both files are read and their hashes kept; no diff, no request.
PlanAcl(a) ==
  /\ KindOf[a] = "acl" /\ OldOf[a] # NewOf[a]
  /\ acl = OldOf[a] /\ proposal[a] = NewOf[a]
  /\ CreateApproval(a)

\* A decision arrives.
Decide(d, a, v) ==
  /\ Now(d, "idle") /\ approvals[a].status # "absent"
  /\ Become(d, [AtRest EXCEPT !.pc = IF d \in Cli THEN "load" ELSE "check",
                              !.on = a, !.verdict = v])
  /\ UNCHANGED <<approvals, ready, effects, recorded, acl, proposal, audited, everApproved, overwritten>>

\* _resolve_approval, _decision, handle_telegram_approval_callback: refused
\* unless the approval is still pending.
PreCheck(d) ==
  /\ Now(d, "check")
  /\ IF approvals[decider[d].on].status = "pending" THEN Go(d, "load") ELSE Rest(d)
  /\ UNCHANGED <<approvals, ready, effects, recorded, acl, proposal, audited, everApproved, overwritten>>

\* After resolve_approval_request its caller dispatches an approval, whatever
\* row was returned; a rejection is over.
AfterResolve(d) == IF decider[d].verdict = "approved" THEN Go(d, "outer") ELSE Rest(d)

\* Slip: a decided approval may be decided again.
ResolveLoadAgain(d) ==
  /\ Now(d, "load")
  /\ Become(d, [decider[d] EXCEPT !.pc = "save", !.copy = approvals[decider[d].on]])
  /\ UNCHANGED <<approvals, ready, effects, recorded, acl, proposal, audited, everApproved, overwritten>>

\* resolve_approval_request: the load and the test.
ResolveLoad(d) ==
  LET row == approvals[decider[d].on] IN
  /\ Now(d, "load")
  /\ \/ row.status = "pending" /\ Become(d, [decider[d] EXCEPT !.pc = "save", !.copy = row])
     \/ row.status # "pending" /\ AfterResolve(d)
  /\ UNCHANGED <<approvals, ready, effects, recorded, acl, proposal, audited, everApproved, overwritten>>

\* Slip: the action word of the callback is stored as the status.
ResolveSaveAction(d) ==
  LET a == decider[d].on IN
  /\ Now(d, "save") /\ Go(d, "audit")
  /\ approvals' = [approvals EXCEPT ![a] = [decider[d].copy EXCEPT !.status = "approve"]]
  /\ UNCHANGED <<ready, effects, recorded, acl, proposal, audited, everApproved, overwritten>>

\* resolve_approval_request: save_approval_request of the changed copy.
ResolveSave(d) ==
  LET a == decider[d].on
      v == decider[d].verdict IN
  /\ Now(d, "save") /\ Go(d, "audit")
  /\ approvals' = [approvals EXCEPT ![a] = [decider[d].copy EXCEPT !.status = v]]
  /\ everApproved' = IF v = "approved" THEN everApproved \cup {a} ELSE everApproved
  /\ overwritten' = IF approvals[a] # decider[d].copy THEN overwritten \cup {a} ELSE overwritten
  /\ UNCHANGED <<ready, effects, recorded, acl, proposal, audited>>

\* resolve_approval_request: record_audit, then its own dispatch of an approved
\* task or component.
ResolveAudit(d) ==
  /\ Now(d, "audit")
  /\ audited' = audited \cup {<<decider[d].on, decider[d].verdict>>}
  /\ IF decider[d].verdict = "approved" /\ KindOf[decider[d].on] # "acl"
     THEN Go(d, "inner") ELSE AfterResolve(d)
  /\ UNCHANGED <<approvals, ready, effects, recorded, acl, proposal, everApproved, overwritten>>
------------------------------------------------------------------------------
\* Slip: the status of the approval is not read again.
DispatchTaskUnchecked(a) ==
  IF approvals[a].task = 0 /\ ready
  THEN /\ effects' = [effects EXCEPT ![a] = @ + 1]
       /\ approvals' = [approvals EXCEPT ![a].task = effects[a] + 1]
  ELSE UNCHANGED <<effects, approvals>>

\* Slip: dispatched_task_id is not looked at.
DispatchTaskRepeated(a) ==
  IF approvals[a].status = "approved" /\ ready
  THEN /\ effects' = [effects EXCEPT ![a] = @ + 1]
       /\ approvals' = [approvals EXCEPT ![a].task = effects[a] + 1]
  ELSE UNCHANGED <<effects, approvals>>

\* Slip: an approval that cannot be dispatched now is offered again.
DispatchTaskReopened(a) ==
  IF approvals[a].status = "approved" /\ approvals[a].task = 0
  THEN IF ready
       THEN /\ effects' = [effects EXCEPT ![a] = @ + 1]
            /\ approvals' = [approvals EXCEPT ![a].task = effects[a] + 1]
       ELSE /\ approvals' = [approvals EXCEPT ![a].status = "pending"]
            /\ UNCHANGED effects
  ELSE UNCHANGED <<effects, approvals>>

\* dispatch_approved_task_request: one transaction.
DispatchTask(a) ==
  IF approvals[a].status = "approved" /\ approvals[a].task = 0 /\ ready
  THEN /\ effects' = [effects EXCEPT ![a] = @ + 1]
       /\ approvals' = [approvals EXCEPT ![a].task = effects[a] + 1]
  ELSE UNCHANGED <<effects, approvals>>

\* Slip: a run that is already recorded is recorded again.
DispatchComponentRepeated(a) ==
  IF approvals[a].status = "approved" /\ a \in Matching
  THEN /\ effects' = [effects EXCEPT ![a] = @ + 1]
       /\ recorded' = recorded \cup {a}
  ELSE UNCHANGED <<effects, recorded>>

\* dispatch_approved_component_action: one transaction.
DispatchComponent(a) ==
  IF approvals[a].status = "approved" /\ a \in Matching /\ a \notin recorded
  THEN /\ effects' = [effects EXCEPT ![a] = @ + 1]
       /\ recorded' = recorded \cup {a}
  ELSE UNCHANGED <<effects, recorded>>

\* The dispatch inside resolve_approval_request ("inner") and the one its caller
\* makes afterwards ("outer") are the same two transactions.
Dispatch(d) ==
  LET a == decider[d].on IN
  /\ Now(d, "inner") \/ Now(d, "outer")
  /\ \/ KindOf[a] = "task" /\ DispatchTask(a) /\ UNCHANGED recorded
     \/ KindOf[a] = "component" /\ DispatchComponent(a) /\ UNCHANGED approvals
  /\ IF Now(d, "inner") THEN Go(d, "outer") ELSE Rest(d)
  /\ UNCHANGED <<ready, acl, proposal, audited, everApproved, overwritten>>

\* Slip: the ACL in force is not compared with the one the diff was made for.
AclReadUnchecked(d) ==
  LET a == decider[d].on IN
  /\ Now(d, "outer") /\ KindOf[a] = "acl"
  /\ IF approvals[a].status = "approved"
     THEN Become(d, [decider[d] EXCEPT !.pc = "aclwrite", !.text = proposal[a]])
     ELSE Rest(d)
  /\ UNCHANGED <<approvals, ready, effects, recorded, acl, proposal, audited, everApproved, overwritten>>

\* dispatch_approved_network_acl_apply: the checks and the reading of both files.
AclRead(d) ==
  LET a == decider[d].on IN
  /\ Now(d, "outer") /\ KindOf[a] = "acl"
  /\ IF approvals[a].status = "approved" /\ acl = OldOf[a]
     THEN Become(d, [decider[d] EXCEPT !.pc = "aclwrite", !.text = proposal[a]])
     ELSE Rest(d)
  /\ UNCHANGED <<approvals, ready, effects, recorded, acl, proposal, audited, everApproved, overwritten>>

\* ... and the writing.  A failing reload or verify leaves the new file in place.
AclWrite(d) ==
  LET a == decider[d].on IN
  /\ Now(d, "aclwrite") /\ effects[a] < WriteCap
  /\ acl' = decider[d].text
  /\ effects' = [effects EXCEPT ![a] = @ + 1]
  /\ Rest(d)
  /\ UNCHANGED <<approvals, ready, recorded, proposal, audited, everApproved, overwritten>>

\* The process dies or its next statement raises.
DeciderDies(d) ==
  /\ ~Now(d, "idle")
  /\ Rest(d)
  /\ UNCHANGED <<approvals, ready, effects, recorded, acl, proposal, audited, everApproved, overwritten>>

\* Somebody saves another text in the proposed file of an ACL approval.
EditProposal(a, text) ==
  /\ KindOf[a] = "acl" /\ approvals[a].status # "absent" /\ proposal[a] # text
  /\ proposal' = [proposal EXCEPT ![a] = text]
  /\ UNCHANGED <<approvals, ready, effects, recorded, acl, decider, audited, everApproved, overwritten>>

\* The node is revoked, or its heartbeat starts or stops blocking dispatch.
NodeTurns ==
  /\ ready' = ~ready
  /\ UNCHANGED <<approvals, effects, recorded, acl, proposal, decider, audited, everApproved, overwritten>>

DeciderStep(d) ==
  \/ \E a \in Approval, v \in Verdict : Decide(d, a, v)
  \/ PreCheck(d) \/ ResolveLoad(d) \/ ResolveSave(d) \/ ResolveAudit(d)
  \/ Dispatch(d) \/ AclRead(d) \/ AclWrite(d) \/ DeciderDies(d)

ApprNext ==
  \/ \E a \in Approval : RequestAction(a) \/ PlanAcl(a)
  \/ \E a \in Approval, text \in Text : EditProposal(a, text)
  \/ \E d \in Decider : DeciderStep(d)
  \/ NodeTurns

ApprSpec == ApprInit /\ [][ApprNext]_apprVars
------------------------------------------------------------------------------
(* Properties *)

\* Nothing is dispatched without an approval: whatever deciders race or die, a
\* task, a component state or an ACL exists only for a request that was saved
\* as approved (all three dispatchers read the status again).
ApprovedFirst ==
  \A a \in Approval : effects[a] > 0 => a \in everApproved

\* An approved component action is recorded at most once however many deciders
\* approve it and however often its dispatch is repeated: the test is on the
\* run's own row, inside the transaction.
ComponentOnce ==
  \A a \in Approval : KindOf[a] = "component" => effects[a] <= 1

\* No writer of the approvals table makes a decided request pending again, so it
\* cannot be offered for decision twice.
DecidedStays ==
  [][\A a \in Approval : approvals[a].status \in Verdict =>
                           approvals'[a].status \in Verdict]_apprVars

\* One decider at a time never overwrites an ACL other than the one its approved
\* diff starts from: of two approved diffs to one ACL only the first is applied,
\* and repeating an approval does not apply it again.
AclFresh ==
  [][\A a \in Approval : KindOf[a] = "acl" /\ effects'[a] > effects[a] =>
                           acl = OldOf[a]]_apprVars

\* An approved task request leads to one task.
TaskOnce ==
  \A a \in Approval : KindOf[a] = "task" => effects[a] <= 1

\* The decision that stands is the one that was acted on and the one in the audit
\* log, however many deciders overlap, repeat each other and die: a rejected
\* request was not executed, an approved task request led to one task, no event
\* says the opposite.  The one exception are requests whose decision was saved over
\* by a second decider with a copy loaded before it: there an approval that was
\* acted on may end as rejected.
OneDecision ==
  \A a \in Approval \ overwritten :
    /\ approvals[a].status = "rejected" => effects[a] = 0
    /\ KindOf[a] = "task" => effects[a] <= 1
    /\ \A v \in Verdict : <<a, v>> \in audited => approvals[a].status = v

\* The approvals table, its effects and the audit log implement DecisionLifecycle.
ApprovalQueue == INSTANCE DecisionLifecycle
  WITH Request <- Approval,
       Once    <- {a \in Approval : KindOf[a] # "acl"},
       ruling  <- [a \in Approval |-> approvals[a].status],
       acts    <- effects,
       log     <- audited

\* Deciders that do not overlap, whatever they repeat and wherever they die, do no
\* more than an approval queue may: one ruling for each request, no act without an
\* approval or after a rejection, one task or component action, a log of the ruling.
DecisionsRefined == ApprovalQueue!DecisionSpec
------------------------------------------------------------------------------
(* What documentation says and the code does not ensure. *)

\* Only an ACL text that was shown and approved comes into force.
AclAsApproved ==
  acl \in {FirstAcl} \cup {NewOf[a] : a \in everApproved}
==============================================================================
