---------------------------- MODULE ApprovalsProofs ----------------------------
(***************************************************************************)
(* Decisions and what they set off, for any number of requests and         *)
(* deciders.  ApprInv says what a decider knows that is between its read   *)
(* and its write: whom it decides, that the copy it will store was         *)
(* pending, and that it writes an ACL only for an approved request.        *)
(***************************************************************************)
EXTENDS Approvals, TLAPS

\* A component run is recorded exactly once, or not yet.
RunRecorded(a) ==
  KindOf[a] = "component" => effects[a] = IF a \in recorded THEN 1 ELSE 0

DeciderConsistent(d) ==
  /\ decider[d].pc # "idle" => /\ decider[d].on \in Approval
                               /\ approvals[decider[d].on].status # "absent"
  /\ decider[d].pc = "aclwrite" => /\ KindOf[decider[d].on] = "acl"
                                   /\ decider[d].on \in everApproved

ApprInv ==
  /\ ApprTypeOK
  /\ ApprovedFirst
  /\ \A a \in Approval : approvals[a].status = "approved" => a \in everApproved
  /\ \A a \in Approval : RunRecorded(a)
  /\ \A d \in Decider : DeciderConsistent(d)
------------------------------------------------------------------------------
LEMMA ApprInitHolds == ApprInit => ApprInv
<1> SUFFICES ASSUME ApprInit PROVE ApprInv
  OBVIOUS
<1> USE DEF ApprInit
<1>1. ApprTypeOK
  BY ApprovalAttributes DEF ApprTypeOK, ApprovalRow, NoApprovalRow, Verdict, AtRest,
     DeciderState, DeciderPc
<1>2. ApprovedFirst
  BY DEF ApprovedFirst
<1>3. \A a \in Approval : approvals[a].status = "approved" => a \in everApproved
  BY DEF NoApprovalRow
<1>4. \A a \in Approval : RunRecorded(a)
  BY DEF RunRecorded
<1>5. \A d \in Decider : DeciderConsistent(d)
  BY DEF DeciderConsistent, AtRest
<1> QED BY <1>1, <1>2, <1>3, <1>4, <1>5 DEF ApprInv

\* A step of one decider that changes neither rows nor effects: it goes where it
\* may be, with a request it already has or that exists.
LEMMA DeciderMoves ==
  ASSUME ApprInv, NEW d \in Decider, NEW state \in DeciderState, Become(d, state),
         state.pc # "idle" => /\ state.on \in Approval
                              /\ approvals[state.on].status # "absent",
         state.pc = "aclwrite" => KindOf[state.on] = "acl" /\ state.on \in everApproved,
         audited' \subseteq Approval \X Verdict,
         UNCHANGED <<approvals, ready, effects, recorded, acl, proposal, everApproved, overwritten>>
  PROVE  ApprInv'
<1>1. decider' = [decider EXCEPT ![d] = state]
  BY DEF Become
<1>2. ApprTypeOK'
  BY <1>1 DEF ApprInv, ApprTypeOK
<1>3. ASSUME NEW e \in Decider PROVE DeciderConsistent(e)'
  BY <1>1 DEF ApprInv, ApprTypeOK, DeciderConsistent
<1>4. /\ ApprovedFirst'
      /\ \A a \in Approval : approvals'[a].status = "approved" => a \in everApproved'
      /\ \A a \in Approval : RunRecorded(a)'
  BY DEF ApprInv, ApprovedFirst, RunRecorded
<1> QED BY <1>2, <1>3, <1>4 DEF ApprInv

LEMMA RestIsAState == AtRest \in DeciderState
BY ApprovalAttributes DEF AtRest, DeciderState, DeciderPc, Verdict, ApprovalRow, NoApprovalRow

\* The moves that read and decide nothing but where to go next.
LEMMA ReadsKeep ==
  ASSUME ApprInv, NEW d \in Decider,
         \/ \E a \in Approval, v \in Verdict : Decide(d, a, v)
         \/ PreCheck(d) \/ ResolveLoad(d) \/ ResolveAudit(d) \/ AclRead(d) \/ DeciderDies(d)
  PROVE  ApprInv'
<1> DEFINE me == decider[d]
           With(pc) == [me EXCEPT !.pc = pc]
<1>1. me \in DeciderState /\ approvals \in [Approval -> ApprovalRow] /\ DeciderConsistent(d)
  BY DEF ApprInv, ApprTypeOK
<1>2. CASE Become(d, AtRest) /\ UNCHANGED <<approvals, ready, effects, recorded, acl, proposal, everApproved, overwritten>>
           /\ audited' \subseteq Approval \X Verdict
  BY <1>2, RestIsAState, DeciderMoves DEF AtRest
<1>3. ASSUME NEW pc \in DeciderPc \ {"idle", "aclwrite"}, Become(d, With(pc)), ~Now(d, "idle"),
             UNCHANGED <<approvals, ready, effects, recorded, acl, proposal, everApproved, overwritten>>,
             audited' \subseteq Approval \X Verdict
      PROVE  ApprInv'
  <2>1. With(pc) \in DeciderState
    BY <1>1 DEF DeciderState
  <2>2. With(pc).pc = pc /\ With(pc).on = me.on
    BY <1>1 DEF DeciderState
  <2>3. me.on \in Approval /\ approvals[me.on].status # "absent"
    BY <1>1, <1>3 DEF DeciderConsistent, Now
  <2> HIDE DEF With
  <2> QED BY <1>3, <2>1, <2>2, <2>3, DeciderMoves
<1>4. audited \subseteq Approval \X Verdict
  BY DEF ApprInv, ApprTypeOK
<1>5. CASE \E a \in Approval, v \in Verdict : Decide(d, a, v)
  <2>1. PICK a \in Approval, v \in Verdict : Decide(d, a, v)
    BY <1>5
  <2> DEFINE s == [AtRest EXCEPT !.pc = IF d \in Cli THEN "load" ELSE "check",
                                 !.on = a, !.verdict = v]
  <2>2. s \in DeciderState
    BY RestIsAState DEF DeciderState, DeciderPc
  <2>3. s.on = a /\ s.pc # "aclwrite"
    BY DEF AtRest
  <2>4. /\ Become(d, s) /\ approvals[a].status # "absent"
        /\ UNCHANGED <<approvals, ready, effects, recorded, acl, proposal, audited, everApproved, overwritten>>
    BY <2>1 DEF Decide
  <2> HIDE DEF s
  <2> QED BY <1>4, <2>2, <2>3, <2>4, DeciderMoves
<1>6. CASE PreCheck(d)
  <2>1. Become(d, With("load")) \/ Become(d, AtRest)
    BY <1>6 DEF PreCheck, Go, Rest
  <2>2. "load" \in DeciderPc \ {"idle", "aclwrite"}
    BY DEF DeciderPc
  <2> QED BY <1>2, <1>3, <1>4, <1>6, <2>1, <2>2 DEF PreCheck, Now
<1>7. CASE ResolveLoad(d)
  <2>1. \/ Become(d, [me EXCEPT !.pc = "save", !.copy = approvals[me.on]])
        \/ Become(d, With("outer")) \/ Become(d, AtRest)
    BY <1>7 DEF ResolveLoad, AfterResolve, Go, Rest
  <2>2. me.on \in Approval /\ approvals[me.on].status # "absent"
    BY <1>1, <1>7 DEF ResolveLoad, Now, DeciderConsistent
  <2>3. CASE Become(d, [me EXCEPT !.pc = "save", !.copy = approvals[me.on]])
    <3> DEFINE s == [me EXCEPT !.pc = "save", !.copy = approvals[me.on]]
    <3>1. s \in DeciderState
      BY <1>1, <2>2 DEF DeciderState, DeciderPc
    <3>2. s.on = me.on /\ s.pc = "save"
      BY <1>1 DEF DeciderState
    <3>3. /\ Become(d, s)
          /\ UNCHANGED <<approvals, ready, effects, recorded, acl, proposal, audited, everApproved, overwritten>>
      BY <1>7, <2>3 DEF ResolveLoad
    <3> HIDE DEF s
    <3> QED BY <1>4, <2>2, <3>1, <3>2, <3>3, DeciderMoves
  <2>4. "outer" \in DeciderPc \ {"idle", "aclwrite"}
    BY DEF DeciderPc
  <2> QED BY <1>2, <1>3, <1>4, <1>7, <2>1, <2>3, <2>4 DEF ResolveLoad, Now
<1>8. CASE ResolveAudit(d)
  <2>1. Become(d, With("inner")) \/ Become(d, With("outer")) \/ Become(d, AtRest)
    BY <1>8 DEF ResolveAudit, AfterResolve, Go, Rest
  <2>2. me.on \in Approval /\ me.verdict \in Verdict
    BY <1>1, <1>8 DEF ResolveAudit, Now, DeciderConsistent, DeciderState
  <2>3. audited' \subseteq Approval \X Verdict
    BY <1>4, <1>8, <2>2 DEF ResolveAudit
  <2>4. {"inner", "outer"} \subseteq DeciderPc \ {"idle", "aclwrite"}
    BY DEF DeciderPc
  <2> QED BY <1>2, <1>3, <1>8, <2>1, <2>3, <2>4 DEF ResolveAudit, Now
<1>9. CASE AclRead(d)
  <2>1. me.on \in Approval /\ approvals[me.on].status # "absent"
    BY <1>1, <1>9 DEF AclRead, Now, DeciderConsistent
  <2>2. CASE Become(d, AtRest)
    BY <1>2, <1>4, <1>9, <2>2 DEF AclRead
  <2>3. CASE approvals[me.on].status = "approved"
             /\ Become(d, [me EXCEPT !.pc = "aclwrite", !.text = proposal[me.on]])
    <3> DEFINE s == [me EXCEPT !.pc = "aclwrite", !.text = proposal[me.on]]
    <3>1. s \in DeciderState
      BY <1>1, <2>1 DEF DeciderState, DeciderPc, ApprInv, ApprTypeOK
    <3>2. s.on = me.on /\ s.pc = "aclwrite"
      BY <1>1 DEF DeciderState
    <3>3. me.on \in everApproved /\ KindOf[me.on] = "acl"
      BY <1>9, <2>1, <2>3 DEF ApprInv, AclRead
    <3>4. /\ Become(d, s)
          /\ UNCHANGED <<approvals, ready, effects, recorded, acl, proposal, audited, everApproved, overwritten>>
      BY <1>9, <2>3 DEF AclRead
    <3> HIDE DEF s
    <3> QED BY <1>4, <2>1, <3>1, <3>2, <3>3, <3>4, DeciderMoves
  <2> QED BY <1>9, <2>2, <2>3 DEF AclRead, Rest
<1>10. CASE DeciderDies(d)
  BY <1>2, <1>4, <1>10 DEF DeciderDies, Rest
<1> QED BY <1>5, <1>6, <1>7, <1>8, <1>9, <1>10
------------------------------------------------------------------------------
\* Requests come into being, files are edited and nodes turn: no decider moves.
LEMMA OthersKeep ==
  ASSUME ApprInv,
         \/ \E a \in Approval : RequestAction(a) \/ PlanAcl(a)
         \/ \E a \in Approval, text \in Text : EditProposal(a, text)
         \/ NodeTurns
  PROVE  ApprInv'
<1>1. CASE \E a \in Approval : CreateApproval(a)
  <2>1. PICK a \in Approval : CreateApproval(a)
    BY <1>1
  <2>2. approvals \in [Approval -> ApprovalRow]
    BY DEF ApprInv, ApprTypeOK
  <2>3. approvals' \in [Approval -> ApprovalRow]
    BY <2>1, <2>2 DEF CreateApproval, ApprovalRow
  <2>4. /\ \A b \in Approval \ {a} : approvals'[b] = approvals[b]
        /\ approvals'[a].status = "pending"
    BY <2>1, <2>2 DEF CreateApproval, ApprovalRow
  <2>5. UNCHANGED <<ready, effects, recorded, acl, proposal, decider, audited, everApproved, overwritten>>
    BY <2>1 DEF CreateApproval
  <2>6. ApprTypeOK'
    BY <2>3, <2>5 DEF ApprInv, ApprTypeOK
  <2>7. ASSUME NEW d \in Decider PROVE DeciderConsistent(d)'
    <3>1. DeciderConsistent(d)
      BY DEF ApprInv
    <3> QED BY <2>4, <2>5, <3>1 DEF DeciderConsistent
  <2>8. /\ ApprovedFirst'
        /\ \A b \in Approval : approvals'[b].status = "approved" => b \in everApproved'
        /\ \A b \in Approval : RunRecorded(b)'
    BY <2>4, <2>5 DEF ApprInv, ApprovedFirst, RunRecorded
  <2> QED BY <2>6, <2>7, <2>8 DEF ApprInv
<1>2. CASE \/ \E a \in Approval, text \in Text : EditProposal(a, text)
           \/ NodeTurns
  <2>1. /\ UNCHANGED <<approvals, effects, recorded, acl, decider, audited, everApproved, overwritten>>
        /\ ready' \in BOOLEAN /\ proposal' \in [Approval -> Text]
    BY <1>2 DEF EditProposal, NodeTurns, ApprInv, ApprTypeOK
  <2>2. ApprTypeOK'
    BY <2>1 DEF ApprInv, ApprTypeOK
  <2>3. \A d \in Decider : DeciderConsistent(d)'
    BY <2>1 DEF ApprInv, DeciderConsistent
  <2> QED BY <2>1, <2>2, <2>3 DEF ApprInv, ApprovedFirst, RunRecorded
<1> QED BY <1>1, <1>2 DEF RequestAction, PlanAcl

\* save_approval_request of a copy: whoever saves approved is remembered.
LEMMA ResolveSaveKeeps ==
  ASSUME ApprInv, NEW d \in Decider, ResolveSave(d)
  PROVE  ApprInv'
<1> DEFINE me == decider[d]
           a == me.on
           row == [me.copy EXCEPT !.status = me.verdict]
           next == [me EXCEPT !.pc = "audit"]
<1>1. /\ me \in DeciderState /\ decider \in [Decider -> DeciderState]
      /\ approvals \in [Approval -> ApprovalRow]
  BY DEF ApprInv, ApprTypeOK
<1>2. a \in Approval /\ approvals[a].status # "absent"
  BY DEF ApprInv, DeciderConsistent, ResolveSave, Now
<1>3. row \in ApprovalRow /\ row.status = me.verdict /\ me.verdict \in Verdict
  BY <1>1 DEF DeciderState, ApprovalRow
<1>4. next \in DeciderState /\ next.pc = "audit" /\ next.on = a
  BY <1>1 DEF DeciderState, DeciderPc
<1>5. /\ approvals' = [approvals EXCEPT ![a] = row]
      /\ decider' = [decider EXCEPT ![d] = next]
      /\ everApproved' = IF me.verdict = "approved" THEN everApproved \cup {a} ELSE everApproved
      /\ overwritten' \in {overwritten, overwritten \cup {a}}
      /\ UNCHANGED <<ready, effects, recorded, acl, proposal, audited>>
  BY DEF ResolveSave, Go, Become
<1> HIDE DEF row, next
<1>6. ApprTypeOK'
  BY <1>1, <1>2, <1>3, <1>4, <1>5 DEF ApprInv, ApprTypeOK
<1>7. everApproved \subseteq everApproved'
  BY <1>5
<1>8. ApprovedFirst'
  BY <1>5, <1>7 DEF ApprInv, ApprovedFirst
<1>9. \A b \in Approval : approvals'[b].status = "approved" => b \in everApproved'
  BY <1>1, <1>2, <1>3, <1>5, <1>7 DEF ApprInv
<1>10. \A b \in Approval : RunRecorded(b)'
  BY <1>5 DEF ApprInv, RunRecorded
<1>11. \A b \in Approval : approvals[b].status # "absent" => approvals'[b].status # "absent"
  BY <1>1, <1>2, <1>3, <1>5 DEF Verdict
<1>12. ASSUME NEW e \in Decider PROVE DeciderConsistent(e)'
  <2>1. DeciderConsistent(e)
    BY DEF ApprInv
  <2>2. CASE e = d
    BY <1>1, <1>2, <1>4, <1>5, <1>11, <2>2 DEF DeciderConsistent
  <2>3. CASE e # d
    BY <1>1, <1>5, <1>7, <1>11, <2>1, <2>3 DEF DeciderConsistent
  <2> QED BY <2>2, <2>3
<1> QED BY <1>6, <1>8, <1>9, <1>10, <1>12 DEF ApprInv

\* A dispatcher changes its request only when it is approved, and keeps its status.
LEMMA DispatchKeeps ==
  ASSUME ApprInv, NEW d \in Decider, Dispatch(d)
  PROVE  ApprInv'
<1> DEFINE a == decider[d].on
<1>1. /\ decider \in [Decider -> DeciderState] /\ approvals \in [Approval -> ApprovalRow]
      /\ effects \in [Approval -> Nat] /\ recorded \subseteq Approval
  BY DEF ApprInv, ApprTypeOK
<1>2. a \in Approval /\ approvals[a].status # "absent"
  BY DEF ApprInv, DeciderConsistent, Dispatch, Now
<1>3. PICK state \in DeciderState :
        /\ decider' = [decider EXCEPT ![d] = state]
        /\ state.pc \in {"idle", "outer"}
        /\ state.pc # "idle" => state.on = a
  <2>1. CASE Now(d, "inner")
    <3> DEFINE s == [decider[d] EXCEPT !.pc = "outer"]
    <3>1. s \in DeciderState /\ s.pc = "outer" /\ s.on = a
      BY <1>1 DEF DeciderState, DeciderPc
    <3>2. decider' = [decider EXCEPT ![d] = s]
      BY <2>1 DEF Dispatch, Go, Become
    <3> HIDE DEF s
    <3> QED BY <3>1, <3>2
  <2>2. CASE ~Now(d, "inner")
    <3>1. decider' = [decider EXCEPT ![d] = AtRest]
      BY <2>2 DEF Dispatch, Rest, Become
    <3> QED BY <3>1, RestIsAState DEF AtRest
  <2> QED BY <2>1, <2>2
<1>4. /\ \/ UNCHANGED <<effects, recorded, approvals>>
         \/ /\ KindOf[a] = "task" /\ approvals[a].status = "approved"
            /\ effects' = [effects EXCEPT ![a] = @ + 1]
            /\ approvals' = [approvals EXCEPT ![a].task = effects[a] + 1]
            /\ UNCHANGED recorded
         \/ /\ KindOf[a] = "component" /\ approvals[a].status = "approved" /\ a \notin recorded
            /\ effects' = [effects EXCEPT ![a] = @ + 1]
            /\ recorded' = recorded \cup {a}
            /\ UNCHANGED approvals
      /\ UNCHANGED <<ready, acl, proposal, audited, everApproved, overwritten>>
  BY DEF Dispatch, DispatchTask, DispatchComponent
<1>5. /\ effects' \in [Approval -> Nat] /\ recorded' \subseteq Approval
      /\ approvals' \in [Approval -> ApprovalRow]
      /\ \A b \in Approval : approvals'[b].status = approvals[b].status
  BY SMTT(30), <1>1, <1>2, <1>4 DEF ApprovalRow
<1> HIDE DEF a
<1>6. ApprTypeOK'
  BY <1>3, <1>4, <1>5 DEF ApprInv, ApprTypeOK
<1>7. ApprovedFirst'
  BY <1>1, <1>2, <1>4 DEF ApprInv, ApprovedFirst
<1>8. \A b \in Approval : approvals'[b].status = "approved" => b \in everApproved'
  BY <1>4, <1>5 DEF ApprInv
<1>9. ASSUME NEW b \in Approval PROVE RunRecorded(b)'
  <2>1. RunRecorded(b)
    BY DEF ApprInv
  <2> QED BY <1>1, <1>2, <1>4, <2>1 DEF RunRecorded
<1>10. ASSUME NEW e \in Decider PROVE DeciderConsistent(e)'
  <2>1. DeciderConsistent(e)
    BY DEF ApprInv
  <2>2. CASE e = d
    BY <1>1, <1>2, <1>3, <1>5, <2>2 DEF DeciderConsistent
  <2>3. CASE e # d
    BY <1>1, <1>3, <1>4, <1>5, <2>1, <2>3 DEF DeciderConsistent
  <2> QED BY <2>2, <2>3
<1> QED BY <1>6, <1>7, <1>8, <1>9, <1>10 DEF ApprInv

\* The ACL dispatcher writes for a request that was saved as approved.
LEMMA AclWriteKeeps ==
  ASSUME ApprInv, NEW d \in Decider, AclWrite(d)
  PROVE  ApprInv'
<1> DEFINE a == decider[d].on
<1>1. /\ decider \in [Decider -> DeciderState] /\ effects \in [Approval -> Nat]
  BY DEF ApprInv, ApprTypeOK
<1>2. a \in Approval /\ KindOf[a] = "acl" /\ a \in everApproved
  BY DEF ApprInv, DeciderConsistent, AclWrite, Now
<1>3. /\ decider' = [decider EXCEPT ![d] = AtRest]
      /\ effects' = [effects EXCEPT ![a] = @ + 1]
      /\ acl' \in Text
      /\ UNCHANGED <<approvals, ready, recorded, proposal, audited, everApproved, overwritten>>
  BY <1>1 DEF AclWrite, Rest, Become, DeciderState
<1> HIDE DEF a
<1>4. ApprTypeOK'
  BY <1>1, <1>2, <1>3, RestIsAState DEF ApprInv, ApprTypeOK
<1>5. ApprovedFirst'
  BY <1>1, <1>2, <1>3 DEF ApprInv, ApprovedFirst
<1>6. ASSUME NEW b \in Approval PROVE RunRecorded(b)'
  BY <1>1, <1>2, <1>3 DEF ApprInv, RunRecorded
<1>7. ASSUME NEW e \in Decider PROVE DeciderConsistent(e)'
  BY <1>1, <1>3 DEF ApprInv, DeciderConsistent, AtRest
<1> QED BY <1>3, <1>4, <1>5, <1>6, <1>7 DEF ApprInv

LEMMA ApprStutterKeeps == ApprInv /\ UNCHANGED apprVars => ApprInv'
BY DEF apprVars, ApprInv, ApprTypeOK, ApprovedFirst, RunRecorded, DeciderConsistent

LEMMA ApprStepKeeps == ApprInv /\ [ApprNext]_apprVars => ApprInv'
<1> SUFFICES ASSUME ApprInv, [ApprNext]_apprVars PROVE ApprInv'
  OBVIOUS
<1>1. CASE UNCHANGED apprVars
  BY <1>1, ApprStutterKeeps
<1>2. CASE \/ \E a \in Approval : RequestAction(a) \/ PlanAcl(a)
           \/ \E a \in Approval, text \in Text : EditProposal(a, text)
           \/ NodeTurns
  BY <1>2, OthersKeep
<1>3. CASE \E d \in Decider : DeciderStep(d)
  <2>1. PICK d \in Decider : DeciderStep(d)
    BY <1>3
  <2>2. CASE \/ \E a \in Approval, v \in Verdict : Decide(d, a, v)
             \/ PreCheck(d) \/ ResolveLoad(d) \/ ResolveAudit(d) \/ AclRead(d) \/ DeciderDies(d)
    BY <2>2, ReadsKeep
  <2>3. CASE ResolveSave(d)
    BY <2>3, ResolveSaveKeeps
  <2>4. CASE Dispatch(d)
    BY <2>4, DispatchKeeps
  <2>5. CASE AclWrite(d)
    BY <2>5, AclWriteKeeps
  <2> QED BY <2>1, <2>2, <2>3, <2>4, <2>5 DEF DeciderStep
<1> QED BY <1>1, <1>2, <1>3 DEF ApprNext
------------------------------------------------------------------------------
(* Theorems *)

\* The inductive invariant of the deciders holds, however many race and die: what was
\* recorded and executed is what the rows and the deciders' copies account for.
THEOREM ApprInvariance == ApprSpec => []ApprInv
BY ApprInitHolds, ApprStepKeeps, PTL DEF ApprSpec

\* Requests, effects and deciders keep their types: only an approval or a rejection
\* is ever stored as a decision.
THEOREM ApprTypeCorrect == ApprSpec => []ApprTypeOK
<1>1. ApprInv => ApprTypeOK
  BY DEF ApprInv
<1> QED BY <1>1, ApprInvariance, PTL

\* No dispatcher acts for a request that was never saved as approved, for any
\* number of deciders that race, repeat each other or die.
THEOREM EffectsWereApproved == ApprSpec => []ApprovedFirst
<1>1. ApprInv => ApprovedFirst
  BY DEF ApprInv
<1> QED BY <1>1, ApprInvariance, PTL

\* dispatch_approved_component_action records a run once, however many callers
\* repeat it.
THEOREM ComponentsAreRecordedOnce == ApprSpec => []ComponentOnce
<1>1. ApprInv => ComponentOnce
  <2> SUFFICES ASSUME ApprInv, NEW a \in Approval, KindOf[a] = "component"
               PROVE  effects[a] <= 1
    BY DEF ComponentOnce
  <2>1. RunRecorded(a)
    BY DEF ApprInv
  <2> QED BY <2>1 DEF RunRecorded
<1> QED BY <1>1, ApprInvariance, PTL

\* A decided request is never offered for decision again: the stale copies that
\* are written over it carry a decision too.
THEOREM DecidedStaysDecided == ApprSpec => DecidedStays
<1>1. ASSUME ApprInv, [ApprNext]_apprVars, NEW a \in Approval, approvals[a].status \in Verdict
      PROVE  approvals'[a].status \in Verdict
  <2>1. approvals \in [Approval -> ApprovalRow] /\ decider \in [Decider -> DeciderState]
    BY <1>1 DEF ApprInv, ApprTypeOK
  <2>2. CASE UNCHANGED approvals
    BY <1>1, <2>2
  <2>3. CASE \E b \in Approval : CreateApproval(b)
    BY <1>1, <2>1, <2>3 DEF CreateApproval, Verdict
  <2>4. CASE \E d \in Decider : ResolveSave(d)
    <3>1. PICK d \in Decider : ResolveSave(d)
      BY <2>4
    <3> DEFINE row == [decider[d].copy EXCEPT !.status = decider[d].verdict]
    <3>2. row.status \in Verdict
      BY <2>1 DEF DeciderState, ApprovalRow
    <3>3. approvals' = [approvals EXCEPT ![decider[d].on] = row]
      BY <3>1 DEF ResolveSave
    <3> HIDE DEF row
    <3> QED BY <1>1, <2>1, <3>2, <3>3
  <2>5. CASE \E d \in Decider : Dispatch(d)
    BY <1>1, <2>1, <2>5 DEF Dispatch, DispatchTask, DispatchComponent, ApprovalRow
  <2> QED BY <1>1, <2>2, <2>3, <2>4, <2>5
          DEF ApprNext, apprVars, RequestAction, PlanAcl, EditProposal, NodeTurns, DeciderStep,
              Decide, PreCheck, ResolveLoad, ResolveAudit, AclRead, AclWrite, DeciderDies
<1>2. ApprInv /\ [ApprNext]_apprVars
        => [\A a \in Approval : approvals[a].status \in Verdict =>
                                  approvals'[a].status \in Verdict]_apprVars
  BY <1>1
<1> QED BY <1>2, ApprInvariance, PTL DEF ApprSpec, DecidedStays
------------------------------------------------------------------------------
(***************************************************************************)
(* Decisions that are not overwritten.  resolve_approval_request loads and *)
(* saves in two transactions, and dispatch_approved_network_acl_apply      *)
(* compares and writes a file (TaskTwice.cfg and AclSwapped.cfg show what  *)
(* overlap does).  SettledInv follows the requests whose decision was not  *)
(* saved over: a copy about to be saved was pending when it was loaded, so *)
(* a save that finds it unchanged decides a pending request, and an event  *)
(* is written for the status the row has.  SavesApart is what keeps every  *)
(* request so; AclUnmoved says that the ACL has not changed since it was   *)
(* compared.                                                               *)
(***************************************************************************)

\* A request has effects only while it is approved, one of them if it is for a task,
\* and the audit log agrees with its status.
RequestSettled(a) ==
  /\ approvals[a].status # "approved" => effects[a] = 0
  /\ KindOf[a] = "task" => /\ effects[a] <= 1
                           /\ approvals[a].task = 0 <=> effects[a] = 0
  /\ \A v \in Verdict : <<a, v>> \in audited => approvals[a].status = v

DeciderUpToDate(d) ==
  /\ Now(d, "save") => decider[d].copy.status = "pending"
  /\ decider[d].on \notin overwritten =>
       /\ Now(d, "audit") => approvals[decider[d].on].status = decider[d].verdict
       /\ Now(d, "aclwrite") => approvals[decider[d].on].status = "approved"

SettledInv ==
  /\ \A a \in Approval \ overwritten : RequestSettled(a)
  /\ \A d \in Decider : DeciderUpToDate(d)

LEMMA SettledInit == ApprInit => SettledInv
BY DEF ApprInit, SettledInv, RequestSettled, DeciderUpToDate, NoApprovalRow, AtRest, Now

\* A decider goes on without writing anything: to a place where what it holds is true.
LEMMA SettledMoves ==
  ASSUME ApprInv, SettledInv, NEW d \in Decider, NEW state \in DeciderState, Become(d, state),
         state.pc = "save" => state.copy.status = "pending",
         state.pc # "audit",
         state.pc = "aclwrite" => approvals[state.on].status = "approved",
         UNCHANGED <<approvals, effects, audited, overwritten>>
  PROVE  SettledInv'
<1>1. decider \in [Decider -> DeciderState] /\ decider' = [decider EXCEPT ![d] = state]
  BY DEF Become, ApprInv, ApprTypeOK
<1>2. ASSUME NEW a \in Approval \ overwritten PROVE RequestSettled(a)'
  BY DEF SettledInv, RequestSettled
<1>3. ASSUME NEW e \in Decider PROVE DeciderUpToDate(e)'
  BY <1>1 DEF SettledInv, DeciderUpToDate, Now
<1> QED BY <1>2, <1>3 DEF SettledInv

LEMMA SettledReads ==
  ASSUME ApprInv, SettledInv, NEW d \in Decider,
         \/ \E a \in Approval, v \in Verdict : Decide(d, a, v)
         \/ PreCheck(d) \/ ResolveLoad(d) \/ AclRead(d) \/ DeciderDies(d)
  PROVE  SettledInv'
<1> DEFINE me == decider[d]
           With(pc) == [me EXCEPT !.pc = pc]
<1>1. me \in DeciderState /\ approvals \in [Approval -> ApprovalRow] /\ DeciderConsistent(d)
      /\ proposal \in [Approval -> Text]
  BY DEF ApprInv, ApprTypeOK
<1>2. UNCHANGED <<approvals, effects, audited, overwritten>>
  BY DEF Decide, PreCheck, ResolveLoad, AclRead, DeciderDies
<1>3. CASE Become(d, AtRest)
  BY <1>2, <1>3, RestIsAState, SettledMoves DEF AtRest
<1>4. ASSUME NEW pc \in {"load", "outer"}, Become(d, With(pc))
      PROVE  SettledInv'
  <2>1. With(pc) \in DeciderState /\ With(pc).pc = pc
    BY <1>1 DEF DeciderState, DeciderPc
  <2> HIDE DEF With
  <2> QED BY <1>2, <1>4, <2>1, SettledMoves
<1>5. CASE \E a \in Approval, v \in Verdict : Decide(d, a, v)
  <2>1. PICK a \in Approval, v \in Verdict : Decide(d, a, v)
    BY <1>5
  <2> DEFINE s == [AtRest EXCEPT !.pc = IF d \in Cli THEN "load" ELSE "check",
                                 !.on = a, !.verdict = v]
  <2>2. s \in DeciderState
    BY RestIsAState DEF DeciderState, DeciderPc
  <2>3. s.pc \in {"load", "check"}
    BY DEF AtRest
  <2>4. Become(d, s)
    BY <2>1 DEF Decide
  <2> HIDE DEF s
  <2> QED BY <1>2, <2>2, <2>3, <2>4, SettledMoves
<1>6. CASE PreCheck(d)
  BY <1>3, <1>4, <1>6 DEF PreCheck, Go, Rest
<1>7. CASE ResolveLoad(d)
  <2>1. me.on \in Approval
    BY <1>1, <1>7 DEF ResolveLoad, Now, DeciderConsistent
  <2>2. CASE /\ approvals[me.on].status = "pending"
             /\ Become(d, [me EXCEPT !.pc = "save", !.copy = approvals[me.on]])
    <3> DEFINE s == [me EXCEPT !.pc = "save", !.copy = approvals[me.on]]
    <3>1. s \in DeciderState
      BY <1>1, <2>1 DEF DeciderState, DeciderPc
    <3>2. s.on = me.on /\ s.pc = "save" /\ s.copy = approvals[me.on]
      BY <1>1 DEF DeciderState
    <3>3. Become(d, s)
      BY <2>2
    <3> HIDE DEF s
    <3> QED BY <1>2, <2>2, <3>1, <3>2, <3>3, SettledMoves
  <2>3. CASE Become(d, With("outer")) \/ Become(d, AtRest)
    BY <1>3, <1>4, <2>3
  <2> QED BY <1>7, <2>2, <2>3 DEF ResolveLoad, AfterResolve, Go, Rest
<1>8. CASE AclRead(d)
  <2>1. me.on \in Approval
    BY <1>1, <1>8 DEF AclRead, Now, DeciderConsistent
  <2>2. CASE /\ approvals[me.on].status = "approved"
             /\ Become(d, [me EXCEPT !.pc = "aclwrite", !.text = proposal[me.on]])
    <3> DEFINE s == [me EXCEPT !.pc = "aclwrite", !.text = proposal[me.on]]
    <3>1. s \in DeciderState
      BY <1>1, <2>1 DEF DeciderState, DeciderPc
    <3>2. s.on = me.on /\ s.pc = "aclwrite"
      BY <1>1 DEF DeciderState
    <3>3. Become(d, s)
      BY <2>2
    <3> HIDE DEF s
    <3> QED BY <1>2, <2>2, <3>1, <3>2, <3>3, SettledMoves
  <2> QED BY <1>3, <1>8, <2>2 DEF AclRead, Rest
<1>9. CASE DeciderDies(d)
  BY <1>3, <1>9 DEF DeciderDies, Rest
<1> QED BY <1>5, <1>6, <1>7, <1>8, <1>9

\* Requests come into being, files are edited and nodes turn.
LEMMA SettledOthers ==
  ASSUME ApprInv, SettledInv,
         \/ \E a \in Approval : CreateApproval(a)
         \/ UNCHANGED <<approvals, effects, decider, audited, overwritten>>
  PROVE  SettledInv'
<1>1. CASE UNCHANGED <<approvals, effects, decider, audited, overwritten>>
  BY <1>1 DEF SettledInv, RequestSettled, DeciderUpToDate, Now
<1>2. CASE \E a \in Approval : CreateApproval(a)
  <2>1. PICK a \in Approval : CreateApproval(a)
    BY <1>2
  <2>2. approvals \in [Approval -> ApprovalRow]
    BY DEF ApprInv, ApprTypeOK
  <2>3. /\ \A b \in Approval \ {a} : approvals'[b] = approvals[b]
        /\ approvals'[a].status = "pending" /\ approvals'[a].task = approvals[a].task
        /\ approvals[a].status = "absent"
    BY <2>1, <2>2 DEF CreateApproval, ApprovalRow
  <2>4. UNCHANGED <<effects, decider, audited, overwritten>>
    BY <2>1 DEF CreateApproval
  <2>5. ASSUME NEW b \in Approval \ overwritten PROVE RequestSettled(b)'
    <3>1. RequestSettled(b)
      BY DEF SettledInv
    <3> QED BY <2>3, <2>4, <3>1 DEF RequestSettled, Verdict
  <2>6. ASSUME NEW e \in Decider PROVE DeciderUpToDate(e)'
    <3>1. DeciderUpToDate(e) /\ DeciderConsistent(e)
      BY DEF SettledInv, ApprInv
    <3> QED BY <2>3, <2>4, <3>1 DEF DeciderUpToDate, DeciderConsistent, Now
  <2> QED BY <2>4, <2>5, <2>6 DEF SettledInv
<1> QED BY <1>1, <1>2

\* A save of a copy that is still the row decides a pending request; a save over another
\* decision takes the request out of the account.
LEMMA SettledSave ==
  ASSUME ApprInv, SettledInv, NEW d \in Decider, ResolveSave(d)
  PROVE  SettledInv'
<1> DEFINE me == decider[d]
           a == me.on
           row == [me.copy EXCEPT !.status = me.verdict]
           next == [me EXCEPT !.pc = "audit"]
<1>1. /\ me \in DeciderState /\ decider \in [Decider -> DeciderState]
      /\ approvals \in [Approval -> ApprovalRow]
  BY DEF ApprInv, ApprTypeOK
<1>2. a \in Approval /\ me.copy.status = "pending"
  BY DEF ApprInv, DeciderConsistent, ResolveSave, Now, SettledInv, DeciderUpToDate
<1>3. row.status = me.verdict /\ row.task = me.copy.task /\ me.verdict \in Verdict
  BY <1>1 DEF DeciderState, ApprovalRow
<1>4. next.pc = "audit" /\ next.on = a /\ next.verdict = me.verdict
  BY <1>1 DEF DeciderState
<1>5. /\ approvals' = [approvals EXCEPT ![a] = row]
      /\ Become(d, next)
      /\ overwritten \subseteq overwritten'
      /\ a \notin overwritten' => approvals[a] = me.copy
      /\ UNCHANGED <<effects, audited>>
  BY DEF ResolveSave, Go
<1>6. decider' = [decider EXCEPT ![d] = next]
  BY <1>5 DEF Become
<1> HIDE DEF row, next
<1>7. ASSUME NEW b \in Approval \ overwritten' PROVE RequestSettled(b)'
  <2>1. RequestSettled(b)
    BY <1>5 DEF SettledInv
  <2>2. CASE b = a
    <3>1. approvals'[a] = row /\ approvals[a] = me.copy
      BY <1>1, <1>2, <1>5, <2>2
    <3>2. effects[a] = 0 /\ \A v \in Verdict : <<a, v>> \notin audited
      BY <1>2, <2>1, <2>2, <3>1 DEF RequestSettled, Verdict
    <3> QED BY <1>2, <1>3, <1>5, <2>1, <2>2, <3>1, <3>2 DEF RequestSettled
  <2>3. CASE b # a
    BY <1>1, <1>5, <2>1, <2>3 DEF RequestSettled
  <2> QED BY <2>2, <2>3
<1>8. ASSUME NEW e \in Decider PROVE DeciderUpToDate(e)'
  <2>1. CASE e = d
    BY <1>1, <1>2, <1>3, <1>4, <1>5, <1>6, <2>1 DEF DeciderUpToDate, Now
  <2>2. CASE e # d
    <3>1. decider'[e] = decider[e] /\ DeciderUpToDate(e) /\ DeciderConsistent(e)
      BY <1>1, <1>6, <2>2 DEF SettledInv, ApprInv
    <3>2. CASE decider[e].on = a
      <4>1. a \notin overwritten' => approvals[a].status = "pending"
        BY <1>2, <1>5
      <4> QED BY <1>1, <1>5, <3>1, <3>2, <4>1 DEF DeciderUpToDate, Now, DeciderState, Verdict
    <3>3. CASE decider[e].on # a
      <4>1. Now(e, "idle") \/ approvals'[decider[e].on] = approvals[decider[e].on]
        BY <1>1, <1>5, <3>1, <3>3 DEF DeciderConsistent, Now
      <4> QED BY <1>5, <3>1, <4>1 DEF DeciderUpToDate, Now
    <3> QED BY <3>2, <3>3
  <2> QED BY <2>1, <2>2
<1> QED BY <1>7, <1>8 DEF SettledInv

\* The event that is written names the status of the row.
LEMMA SettledAudit ==
  ASSUME ApprInv, SettledInv, NEW d \in Decider, ResolveAudit(d)
  PROVE  SettledInv'
<1> DEFINE me == decider[d]
<1>1. decider \in [Decider -> DeciderState] /\ me \in DeciderState
  BY DEF ApprInv, ApprTypeOK
<1>2. me.on \notin overwritten => approvals[me.on].status = me.verdict
  BY DEF SettledInv, DeciderUpToDate, ResolveAudit, Now
<1>3. /\ audited' = audited \cup {<<me.on, me.verdict>>}
      /\ UNCHANGED <<approvals, effects, overwritten>>
  BY DEF ResolveAudit
<1>4. /\ decider'[d].pc \in {"inner", "outer", "idle"}
      /\ \A e \in Decider \ {d} : decider'[e] = decider[e]
  BY <1>1 DEF ResolveAudit, AfterResolve, Go, Rest, Become, AtRest, DeciderState
<1>5. ASSUME NEW b \in Approval \ overwritten PROVE RequestSettled(b)'
  <2>1. RequestSettled(b)
    BY DEF SettledInv
  <2>2. \A v \in Verdict : <<b, v>> \in audited' => approvals[b].status = v
    BY <1>2, <1>3, <2>1 DEF RequestSettled
  <2> QED BY <1>3, <2>1, <2>2 DEF RequestSettled
<1>6. ASSUME NEW e \in Decider PROVE DeciderUpToDate(e)'
  BY <1>3, <1>4 DEF SettledInv, DeciderUpToDate, Now
<1> QED BY <1>3, <1>5, <1>6 DEF SettledInv

\* A dispatch acts once: the task that is created and dispatched_task_id are one write.
LEMMA SettledDispatch ==
  ASSUME ApprInv, SettledInv, NEW d \in Decider, Dispatch(d)
  PROVE  SettledInv'
<1> DEFINE me == decider[d]
           a == me.on
<1>1. /\ decider \in [Decider -> DeciderState] /\ me \in DeciderState
      /\ approvals \in [Approval -> ApprovalRow] /\ effects \in [Approval -> Nat]
  BY DEF ApprInv, ApprTypeOK
<1>2. a \in Approval
  BY DEF ApprInv, DeciderConsistent, Dispatch, Now
<1>3. /\ decider'[d].pc \in {"outer", "idle"}
      /\ \A e \in Decider \ {d} : decider'[e] = decider[e]
  BY <1>1 DEF Dispatch, Go, Rest, Become, AtRest, DeciderState
<1>4. /\ UNCHANGED <<audited, overwritten>>
      /\ \/ UNCHANGED <<effects, approvals>>
         \/ /\ approvals[a].status = "approved"
            /\ effects' = [effects EXCEPT ![a] = @ + 1]
            /\ \/ /\ KindOf[a] = "task" /\ approvals[a].task = 0
                  /\ approvals' = [approvals EXCEPT ![a].task = effects[a] + 1]
               \/ KindOf[a] = "component" /\ UNCHANGED approvals
  BY DEF Dispatch, DispatchTask, DispatchComponent
<1>5. /\ \A b \in Approval \ {a} : effects'[b] = effects[b] /\ approvals'[b] = approvals[b]
      /\ approvals'[a].status = approvals[a].status
      /\ \/ effects'[a] = effects[a] /\ approvals'[a].task = approvals[a].task
         \/ /\ approvals[a].status = "approved" /\ effects'[a] = effects[a] + 1
            /\ \/ KindOf[a] = "component"
               \/ /\ KindOf[a] = "task"
                  /\ approvals[a].task = 0 /\ approvals'[a].task = effects[a] + 1
  BY <1>1, <1>2, <1>4 DEF ApprovalRow
<1>6. ASSUME NEW b \in Approval \ overwritten PROVE RequestSettled(b)'
  <2>1. RequestSettled(b) /\ effects[b] \in Nat
    BY <1>1 DEF SettledInv
  <2>2. CASE b = a
    <3> HIDE DEF a
    <3> QED BY <1>4, <1>5, <2>1, <2>2 DEF RequestSettled
  <2>3. CASE b # a
    BY <1>4, <1>5, <2>1, <2>3 DEF RequestSettled
  <2> QED BY <2>2, <2>3
<1>7. ASSUME NEW e \in Decider PROVE DeciderUpToDate(e)'
  <2>1. \A b \in Approval : approvals'[b].status = approvals[b].status
    BY <1>5
  <2>2. CASE e = d
    BY <1>3, <2>2 DEF DeciderUpToDate, Now
  <2>3. CASE e # d
    BY <1>3, <1>4, <2>1, <2>3 DEF SettledInv, DeciderUpToDate, ApprInv, DeciderConsistent, Now
  <2> QED BY <2>2, <2>3
<1> QED BY <1>4, <1>6, <1>7 DEF SettledInv

\* The ACL is written while the request is approved.
LEMMA SettledAclWrite ==
  ASSUME ApprInv, SettledInv, NEW d \in Decider, AclWrite(d)
  PROVE  SettledInv'
<1> DEFINE a == decider[d].on
<1>1. decider \in [Decider -> DeciderState] /\ effects \in [Approval -> Nat]
  BY DEF ApprInv, ApprTypeOK
<1>2. /\ a \in Approval /\ KindOf[a] = "acl"
      /\ a \notin overwritten => approvals[a].status = "approved"
  BY DEF ApprInv, DeciderConsistent, AclWrite, Now, SettledInv, DeciderUpToDate
<1>3. /\ Become(d, AtRest)
      /\ effects' = [effects EXCEPT ![a] = @ + 1]
      /\ UNCHANGED <<approvals, audited, overwritten>>
  BY DEF AclWrite, Rest
<1> HIDE DEF a
<1>4. ASSUME NEW b \in Approval \ overwritten PROVE RequestSettled(b)'
  <2>1. RequestSettled(b)
    BY DEF SettledInv
  <2> QED BY <1>1, <1>2, <1>3, <2>1 DEF RequestSettled
<1>5. ASSUME NEW e \in Decider PROVE DeciderUpToDate(e)'
  BY <1>1, <1>3 DEF SettledInv, DeciderUpToDate, Now, Become, AtRest
<1> QED BY <1>3, <1>4, <1>5 DEF SettledInv

LEMMA SettledStep == ApprInv /\ SettledInv /\ [ApprNext]_apprVars => SettledInv'
<1> SUFFICES ASSUME ApprInv, SettledInv, [ApprNext]_apprVars PROVE SettledInv'
  OBVIOUS
<1>1. CASE \/ \E a \in Approval : RequestAction(a) \/ PlanAcl(a)
           \/ \E a \in Approval, text \in Text : EditProposal(a, text)
           \/ NodeTurns
           \/ UNCHANGED apprVars
  BY <1>1, SettledOthers DEF RequestAction, PlanAcl, EditProposal, NodeTurns, apprVars
<1>2. CASE \E d \in Decider : DeciderStep(d)
  BY <1>2, SettledReads, SettledSave, SettledAudit, SettledDispatch, SettledAclWrite DEF DeciderStep
<1> QED BY <1>1, <1>2 DEF ApprNext

\* Requests are settled and deciders up to date, but for the decisions that were saved over:
\* the inductive invariant of resolve_approval_request, for any number of deciders.
THEOREM SettledInvariance == ApprSpec => []SettledInv
BY SettledInit, SettledStep, ApprInvariance, PTL DEF ApprSpec

\* However many deciders race on a request, repeat each other or die, what was stored is what
\* was executed and what the audit log says, unless one decision was saved over another.
THEOREM DecisionsAreUnique == ApprSpec => []OneDecision
<1>1. SettledInv => OneDecision
  <2> SUFFICES ASSUME SettledInv, NEW a \in Approval \ overwritten
               PROVE  /\ approvals[a].status = "rejected" => effects[a] = 0
                      /\ KindOf[a] = "task" => effects[a] <= 1
                      /\ \A v \in Verdict : <<a, v>> \in audited => approvals[a].status = v
    BY DEF OneDecision
  <2> QED BY DEF SettledInv, RequestSettled
<1> QED BY <1>1, SettledInvariance, PTL
------------------------------------------------------------------------------
(* When no decision is saved over another one. *)

\* No two handlers are between the load and the save of one request.
SavesApart ==
  \A d, e \in Decider :
    d # e /\ Now(d, "save") /\ Now(e, "save") => decider[d].on # decider[e].on

\* Then every copy about to be saved is the row.
CopiesFit ==
  /\ overwritten = {}
  /\ \A d \in Decider : Now(d, "save") => decider[d].copy = approvals[decider[d].on]

LEMMA CopiesFitInit == ApprInit => CopiesFit
BY DEF ApprInit, CopiesFit, AtRest, Now

\* A decider that comes to its save has just loaded the row.
LEMMA ReachesSave ==
  ASSUME ApprInv, NEW d \in Decider, DeciderStep(d), Now(d, "save")'
  PROVE  /\ UNCHANGED <<approvals, overwritten>>
         /\ decider'[d].copy = approvals[decider'[d].on]
<1>1. decider \in [Decider -> DeciderState] /\ decider[d] \in DeciderState
  BY DEF ApprInv, ApprTypeOK
<1>2. ASSUME NEW pc, pc # "save", Go(d, pc) PROVE FALSE
  BY <1>1, <1>2 DEF Go, Become, Now, DeciderState
<1>3. ~Rest(d)
  BY <1>1 DEF Rest, Become, AtRest, Now
<1>4. ASSUME NEW a \in Approval, NEW v \in Verdict, Decide(d, a, v) PROVE FALSE
  <2> DEFINE s == [AtRest EXCEPT !.pc = IF d \in Cli THEN "load" ELSE "check",
                                 !.on = a, !.verdict = v]
  <2>1. s.pc # "save" /\ Become(d, s)
    BY <1>4 DEF AtRest, Decide
  <2> HIDE DEF s
  <2> QED BY <1>1, <2>1 DEF Become, Now
<1>5. ~(PreCheck(d) \/ ResolveSave(d) \/ ResolveAudit(d) \/ Dispatch(d) \/ AclWrite(d) \/ DeciderDies(d))
  BY <1>2, <1>3 DEF PreCheck, ResolveSave, ResolveAudit, AfterResolve, Dispatch, AclWrite, DeciderDies
<1>6. ~AclRead(d)
  <2> DEFINE s == [decider[d] EXCEPT !.pc = "aclwrite", !.text = proposal[decider[d].on]]
  <2>1. s.pc = "aclwrite"
    BY <1>1 DEF DeciderState
  <2>2. AclRead(d) => Become(d, s) \/ Rest(d)
    BY DEF AclRead
  <2> HIDE DEF s
  <2> QED BY <1>1, <1>3, <2>1, <2>2 DEF Become, Now
<1>7. ResolveLoad(d)
  BY <1>4, <1>5, <1>6 DEF DeciderStep
<1> DEFINE s == [decider[d] EXCEPT !.pc = "save", !.copy = approvals[decider[d].on]]
<1>8. s.on = decider[d].on /\ s.copy = approvals[decider[d].on]
  BY <1>1 DEF DeciderState
<1>9. Become(d, s) /\ UNCHANGED <<approvals, overwritten>>
  BY <1>2, <1>3, <1>7 DEF ResolveLoad, AfterResolve
<1> HIDE DEF s
<1> QED BY <1>1, <1>8, <1>9 DEF Become

LEMMA CopiesFitStep ==
  ASSUME ApprInv, SettledInv, CopiesFit, SavesApart, [ApprNext]_apprVars
  PROVE  CopiesFit'
<1>1. /\ decider \in [Decider -> DeciderState] /\ approvals \in [Approval -> ApprovalRow]
      /\ \A e \in Decider : Now(e, "save") =>
           /\ decider[e].on \in Approval /\ approvals[decider[e].on].status = "pending"
           /\ decider[e].copy = approvals[decider[e].on]
  BY DEF ApprInv, ApprTypeOK, DeciderConsistent, SettledInv, DeciderUpToDate, CopiesFit, Now
<1>2. CASE UNCHANGED apprVars
  BY <1>2 DEF apprVars, CopiesFit, Now
<1>3. CASE \/ \E a \in Approval : RequestAction(a) \/ PlanAcl(a)
           \/ \E a \in Approval, text \in Text : EditProposal(a, text)
           \/ NodeTurns
  <2>1. UNCHANGED <<decider, overwritten>>
    BY <1>3 DEF RequestAction, PlanAcl, CreateApproval, EditProposal, NodeTurns
  <2>2. \A a \in Approval : approvals[a].status = "pending" => approvals'[a] = approvals[a]
    BY <1>1, <1>3 DEF RequestAction, PlanAcl, CreateApproval, EditProposal, NodeTurns
  <2> QED BY <1>1, <2>1, <2>2 DEF CopiesFit, Now
<1>4. ASSUME NEW d \in Decider, DeciderStep(d) PROVE CopiesFit'
  <2>1. \A e \in Decider \ {d} : decider'[e] = decider[e]
    <3>1. \E state : decider' = [decider EXCEPT ![d] = state]
      BY <1>4 DEF DeciderStep, Decide, PreCheck, ResolveLoad, AfterResolve, ResolveSave,
                  ResolveAudit, Dispatch, AclRead, AclWrite, DeciderDies, Go, Rest, Become
    <3> QED BY <1>1, <3>1
  <2>2. overwritten' = {}
    <3>1. CASE ResolveSave(d)
      <4>1. Now(d, "save") /\ decider[d].copy = approvals[decider[d].on] /\ overwritten = {}
        BY <3>1 DEF ResolveSave, CopiesFit
      <4> QED BY <3>1, <4>1 DEF ResolveSave
    <3>2. CASE ~ResolveSave(d)
      BY <1>4, <3>2 DEF CopiesFit, DeciderStep, Decide, PreCheck, ResolveLoad, ResolveAudit,
                        Dispatch, AclRead, AclWrite, DeciderDies
    <3> QED BY <3>1, <3>2
  <2>3. ASSUME NEW e \in Decider, Now(e, "save")'
        PROVE  decider'[e].copy = approvals'[decider'[e].on]
    <3>1. CASE e = d
      BY <1>4, <2>3, <3>1, ReachesSave
    <3>2. CASE e # d
      <4>1. decider'[e] = decider[e] /\ Now(e, "save")
        BY <2>1, <2>3, <3>2 DEF Now
      <4>2. approvals'[decider[e].on] = approvals[decider[e].on]
        <5>1. CASE UNCHANGED approvals
          BY <5>1
        <5>2. CASE ResolveSave(d)
          <6>1. decider[d].on # decider[e].on
            BY <3>2, <4>1, <5>2 DEF SavesApart, ResolveSave
          <6> QED BY <1>1, <4>1, <5>2, <6>1 DEF ResolveSave
        <5>3. CASE Dispatch(d)
          BY <1>1, <4>1, <5>3 DEF Dispatch, DispatchTask
        <5> QED BY <1>4, <5>1, <5>2, <5>3
                DEF DeciderStep, Decide, PreCheck, ResolveLoad, ResolveAudit, AclRead, AclWrite,
                    DeciderDies
      <4> QED BY <1>1, <4>1, <4>2
    <3> QED BY <3>1, <3>2
  <2> QED BY <2>2, <2>3 DEF CopiesFit
<1> QED BY <1>2, <1>3, <1>4 DEF ApprNext

\* While no two handlers are between the load and the save of one request, no decision
\* is saved over another one.
THEOREM CopiesFitInvariance == ApprSpec /\ []SavesApart => []CopiesFit
BY CopiesFitInit, CopiesFitStep, ApprInvariance, SettledInvariance, PTL DEF ApprSpec

\* A task request that is approved, approved again, or dispatched by two callers leads to
\* one task as long as no two handlers are between the load and the save of one request:
\* dispatched_task_id survives every row that is written back.  Without that the run
\* task_twice has a counterexample.
THEOREM TasksAreDispatchedOnce == ApprSpec /\ []SavesApart => []TaskOnce
<1>1. SettledInv /\ CopiesFit => TaskOnce
  BY DEF SettledInv, RequestSettled, CopiesFit, TaskOnce
<1> QED BY <1>1, SettledInvariance, CopiesFitInvariance, PTL

\* No two dispatches are between their check and their write of the ACL.
OneAclWriter == \A d, e \in Decider : d # e => ~Now(d, "aclwrite") \/ ~Now(e, "aclwrite")

\* The ACL that a dispatch compared is still in force when it writes.
AclUnmoved == \A d \in Decider : Now(d, "aclwrite") => acl = OldOf[decider[d].on]

LEMMA AclUnmovedInit == ApprInit => AclUnmoved
BY DEF ApprInit, AclUnmoved, AtRest, Now

\* Only AclRead leads to a write, with the text it read.
LEMMA ReachesAclWrite ==
  ASSUME ApprInv, [ApprNext]_apprVars, NEW e \in Decider, Now(e, "aclwrite")'
  PROVE  \/ decider'[e] = decider[e]
         \/ /\ Now(e, "outer") /\ UNCHANGED acl
            /\ KindOf[decider[e].on] = "acl" /\ acl = OldOf[decider[e].on]
            /\ decider'[e].on = decider[e].on
            /\ decider'[e].text = proposal[decider[e].on]
<1>1. decider \in [Decider -> DeciderState]
  BY DEF ApprInv, ApprTypeOK
<1>2. CASE UNCHANGED decider
  BY <1>2
<1>3. CASE \E d \in Decider : d # e /\ \E state : Become(d, state)
  BY <1>1, <1>3 DEF Become
<1>4. ASSUME NEW state, Become(e, state), state.pc # "aclwrite" PROVE FALSE
  BY <1>1, <1>4 DEF Become, Now
<1>5. ASSUME NEW pc, pc # "aclwrite", Go(e, pc) PROVE FALSE
  <2>1. [decider[e] EXCEPT !.pc = pc].pc = pc
    BY <1>1 DEF DeciderState
  <2> QED BY <1>4, <1>5, <2>1 DEF Go
<1>6. ~Rest(e)
  BY <1>4 DEF Rest, AtRest
<1>7. ASSUME NEW a \in Approval, NEW v \in Verdict, Decide(e, a, v) PROVE FALSE
  <2> DEFINE s == [AtRest EXCEPT !.pc = IF e \in Cli THEN "load" ELSE "check",
                                 !.on = a, !.verdict = v]
  <2>1. s.pc # "aclwrite" /\ Become(e, s)
    BY <1>7 DEF AtRest, Decide
  <2> HIDE DEF s
  <2> QED BY <1>4, <2>1
<1>8. ~ResolveLoad(e)
  <2> DEFINE s == [decider[e] EXCEPT !.pc = "save", !.copy = approvals[decider[e].on]]
  <2>1. s.pc = "save"
    BY <1>1 DEF DeciderState
  <2>2. ResolveLoad(e) => Become(e, s) \/ Go(e, "outer") \/ Rest(e)
    BY DEF ResolveLoad, AfterResolve
  <2> HIDE DEF s
  <2> QED BY <1>4, <1>5, <1>6, <2>1, <2>2
<1>9. ~(PreCheck(e) \/ ResolveSave(e) \/ ResolveAudit(e) \/ Dispatch(e) \/ AclWrite(e) \/ DeciderDies(e))
  BY <1>5, <1>6 DEF PreCheck, ResolveSave, ResolveAudit, AfterResolve, Dispatch, AclWrite, DeciderDies
<1>10. CASE AclRead(e)
  <2> DEFINE s == [decider[e] EXCEPT !.pc = "aclwrite", !.text = proposal[decider[e].on]]
  <2>1. s.on = decider[e].on /\ s.text = proposal[decider[e].on]
    BY <1>1 DEF DeciderState
  <2>2. /\ Now(e, "outer") /\ KindOf[decider[e].on] = "acl" /\ UNCHANGED acl
        /\ acl = OldOf[decider[e].on] /\ Become(e, s)
    BY <1>6, <1>10 DEF AclRead
  <2> HIDE DEF s
  <2> QED BY <1>1, <2>1, <2>2 DEF Become
<1>11. ASSUME NEW d \in Decider, DeciderStep(d) PROVE \E state : Become(d, state)
  BY <1>11 DEF DeciderStep, Decide, PreCheck, ResolveLoad, AfterResolve, ResolveSave, ResolveAudit,
               Dispatch, AclRead, AclWrite, DeciderDies, Go, Rest
<1>12. CASE DeciderStep(e)
  BY <1>7, <1>8, <1>9, <1>10, <1>12 DEF DeciderStep
<1> QED BY <1>2, <1>3, <1>11, <1>12
        DEF ApprNext, apprVars, RequestAction, PlanAcl, CreateApproval, EditProposal, NodeTurns

\* The ACL changes by AclWrite alone.
LEMMA WritesAcl ==
  ASSUME [ApprNext]_apprVars, acl' # acl
  PROVE  \E d \in Decider : AclWrite(d)
BY DEF ApprNext, apprVars, DeciderStep, RequestAction, PlanAcl, CreateApproval, EditProposal,
       NodeTurns, Decide, PreCheck, ResolveLoad, ResolveSave, ResolveAudit, Dispatch, AclRead,
       DeciderDies

\* Who has written the ACL is at rest.
LEMMA WriterRests ==
  ASSUME ApprInv, NEW d \in Decider, AclWrite(d)
  PROVE  ~Now(d, "aclwrite")'
BY DEF ApprInv, ApprTypeOK, AclWrite, Rest, Become, AtRest, Now

LEMMA AclUnmovedStep ==
  ApprInv /\ AclUnmoved /\ OneAclWriter /\ [ApprNext]_apprVars => AclUnmoved'
<1> SUFFICES ASSUME ApprInv, AclUnmoved, OneAclWriter, [ApprNext]_apprVars,
                    NEW e \in Decider, Now(e, "aclwrite")'
             PROVE  acl' = OldOf[decider'[e].on]
  BY DEF AclUnmoved
<1>1. CASE decider'[e] = decider[e] /\ acl' = acl
  BY <1>1 DEF AclUnmoved, Now
<1>2. CASE decider'[e] = decider[e] /\ acl' # acl
  <2>1. PICK d \in Decider : AclWrite(d)
    BY <1>2, WritesAcl
  <2>2. d # e
    BY <2>1, WriterRests
  <2> QED BY <1>2, <2>1, <2>2 DEF OneAclWriter, AclWrite, Now
<1> QED BY <1>1, <1>2, ReachesAclWrite

\* dispatch_approved_network_acl_apply overwrites the ACL its diff was made for and no
\* other, as long as no two dispatches are between their check and their write:
\* whatever else the deciders race about, nothing moved.
THEOREM AclsAreFresh == ApprSpec /\ []OneAclWriter => AclFresh
<1>1. ASSUME ApprInv, AclUnmoved, [ApprNext]_apprVars,
             NEW a \in Approval, KindOf[a] = "acl", effects'[a] > effects[a]
      PROVE  acl = OldOf[a]
  <2>1. effects \in [Approval -> Nat]
    BY <1>1 DEF ApprInv, ApprTypeOK
  <2>2. CASE UNCHANGED effects
    BY <1>1, <2>1, <2>2
  <2>3. CASE \E d \in Decider : Dispatch(d)
    BY <1>1, <2>1, <2>3 DEF Dispatch, DispatchTask, DispatchComponent
  <2>4. CASE \E d \in Decider : AclWrite(d)
    <3>1. PICK d \in Decider : AclWrite(d)
      BY <2>4
    <3>2. a = decider[d].on
      BY <1>1, <2>1, <3>1 DEF AclWrite
    <3> QED BY <1>1, <3>1, <3>2 DEF AclUnmoved, AclWrite, Now
  <2> QED BY <1>1, <2>2, <2>3, <2>4
          DEF ApprNext, apprVars, RequestAction, PlanAcl, CreateApproval, EditProposal, NodeTurns,
              DeciderStep, Decide, PreCheck, ResolveLoad, ResolveSave, ResolveAudit, AclRead,
              DeciderDies
<1>2. ApprInv /\ AclUnmoved /\ [ApprNext]_apprVars
        => [\A a \in Approval : KindOf[a] = "acl" /\ effects'[a] > effects[a] =>
                                  acl = OldOf[a]]_apprVars
  BY <1>1
<1>3. ApprSpec /\ []OneAclWriter => []AclUnmoved
  BY AclUnmovedInit, AclUnmovedStep, ApprInvariance, PTL DEF ApprSpec
<1> QED BY <1>2, <1>3, ApprInvariance, PTL DEF ApprSpec, AclFresh
------------------------------------------------------------------------------
(***************************************************************************)
(* Deciders whose saves do not overlap implement DecisionLifecycle.  Every *)
(* step that touches a row, an effect or the log is one step of the        *)
(* abstract queue: SettledInv and CopiesFit give its guard, the invariants *)
(* of task and run the rest.                                               *)
(***************************************************************************)

LEMMA DecisionStarts == ApprInit => ApprovalQueue!DecisionInit
BY DEF ApprInit, ApprovalQueue!DecisionInit, NoApprovalRow

\* Creating a request is asking for it.
LEMMA CreatingAsks ==
  ASSUME ApprInv, NEW a \in Approval, CreateApproval(a)
  PROVE  ApprovalQueue!Ask(a)
<1>1. approvals \in [Approval -> ApprovalRow]
  BY DEF ApprInv, ApprTypeOK
<1> QED BY <1>1 DEF CreateApproval, ApprovalQueue!Ask, ApprovalRow

\* The save of a decision is a ruling on a pending request.
LEMMA SavingRules ==
  ASSUME ApprInv, SettledInv, CopiesFit, NEW d \in Decider, ResolveSave(d)
  PROVE  \E a \in Approval, v \in {"approved", "rejected"} : ApprovalQueue!Rule(a, v)
<1> DEFINE a == decider[d].on
           v == decider[d].verdict
           row == [decider[d].copy EXCEPT !.status = v]
<1>1. decider[d] \in DeciderState /\ approvals \in [Approval -> ApprovalRow]
  BY DEF ApprInv, ApprTypeOK
<1>2. a \in Approval /\ approvals[a].status = "pending" /\ v \in {"approved", "rejected"}
  BY <1>1 DEF ApprInv, DeciderConsistent, ResolveSave, Now, SettledInv, CopiesFit, DeciderUpToDate,
              DeciderState, Verdict
<1>3. row.status = v
  BY <1>1 DEF DeciderState, ApprovalRow
<1>4. approvals' = [approvals EXCEPT ![a] = row] /\ UNCHANGED <<effects, audited>>
  BY DEF ResolveSave
<1> HIDE DEF a, v, row
<1>5. [b \in Approval |-> approvals'[b].status]
        = [[b \in Approval |-> approvals[b].status] EXCEPT ![a] = v]
  BY <1>1, <1>2, <1>3, <1>4
<1> QED BY <1>2, <1>4, <1>5 DEF ApprovalQueue!Rule

\* The audit event is the log of the ruling.
LEMMA AuditingLogs ==
  ASSUME ApprInv, SettledInv, CopiesFit, NEW d \in Decider, ResolveAudit(d)
  PROVE  \E a \in Approval : ApprovalQueue!Log(a)
<1> DEFINE a == decider[d].on
<1>1. /\ a \in Approval /\ decider[d].verdict \in Verdict
      /\ approvals[a].status = decider[d].verdict
  BY DEF ApprInv, ApprTypeOK, DeciderConsistent, ResolveAudit, Now, SettledInv, CopiesFit, DeciderUpToDate,
         DeciderState
<1>2. audited' = audited \cup {<<a, approvals[a].status>>} /\ UNCHANGED <<approvals, effects>>
  BY <1>1 DEF ResolveAudit
<1> HIDE DEF a
<1> QED BY <1>1, <1>2 DEF ApprovalQueue!Log, Verdict

\* A dispatch that does something acts on an approved request: the first and only time.
LEMMA DispatchingActs ==
  ASSUME ApprInv, SettledInv, CopiesFit, NEW d \in Decider, Dispatch(d)
  PROVE  ApprovalQueue!Elsewhere \/ \E a \in Approval : ApprovalQueue!Act(a)
<1> DEFINE a == decider[d].on
<1>1. /\ a \in Approval /\ approvals \in [Approval -> ApprovalRow]
      /\ RunRecorded(a) /\ RequestSettled(a)
  BY DEF ApprInv, ApprTypeOK, DeciderConsistent, Dispatch, Now, SettledInv, CopiesFit
<1>2. /\ UNCHANGED audited
      /\ \/ UNCHANGED <<effects, approvals>>
         \/ /\ approvals[a].status = "approved"
            /\ effects' = [effects EXCEPT ![a] = @ + 1]
            /\ \/ /\ KindOf[a] = "task" /\ approvals[a].task = 0
                  /\ approvals' = [approvals EXCEPT ![a].task = effects[a] + 1]
               \/ KindOf[a] = "component" /\ a \notin recorded /\ UNCHANGED approvals
  BY DEF Dispatch, DispatchTask, DispatchComponent
<1> HIDE DEF a
<1>3. CASE UNCHANGED <<effects, approvals>>
  BY <1>2, <1>3 DEF ApprovalQueue!Elsewhere, ApprovalQueue!decisionVars
<1>4. CASE ~UNCHANGED <<effects, approvals>>
  <2>1. effects[a] = 0
    BY <1>1, <1>2, <1>4 DEF RunRecorded, RequestSettled
  <2>2. [b \in Approval |-> approvals'[b].status] = [b \in Approval |-> approvals[b].status]
    BY <1>1, <1>2, <1>4 DEF ApprovalRow
  <2>3. /\ [b \in Approval |-> approvals[b].status][a] = "approved"
        /\ effects' = [effects EXCEPT ![a] = @ + 1] /\ UNCHANGED audited
    BY <1>1, <1>2, <1>4
  <2> QED BY <1>1, <2>1, <2>2, <2>3 DEF ApprovalQueue!Act
<1> QED BY <1>3, <1>4

\* Writing the ACL acts on a request that is approved, perhaps not for the first time.
LEMMA WritingActs ==
  ASSUME ApprInv, SettledInv, CopiesFit, NEW d \in Decider, AclWrite(d)
  PROVE  \E a \in Approval : ApprovalQueue!Act(a)
<1> DEFINE a == decider[d].on
<1>1. a \in Approval /\ KindOf[a] = "acl" /\ approvals[a].status = "approved"
  BY DEF ApprInv, DeciderConsistent, AclWrite, Now, SettledInv, CopiesFit, DeciderUpToDate
<1>2. effects' = [effects EXCEPT ![a] = @ + 1] /\ UNCHANGED <<approvals, audited>>
  BY DEF AclWrite
<1> HIDE DEF a
<1> QED BY <1>1, <1>2 DEF ApprovalQueue!Act

LEMMA DecisionStep ==
  ApprInv /\ SettledInv /\ CopiesFit /\ [ApprNext]_apprVars => [ApprovalQueue!DecisionNext]_(ApprovalQueue!decisionVars)
<1> SUFFICES ASSUME ApprInv, SettledInv, CopiesFit, [ApprNext]_apprVars PROVE ApprovalQueue!DecisionNext
  OBVIOUS
<1>1. CASE UNCHANGED <<approvals, effects, audited>>
  BY <1>1 DEF ApprovalQueue!DecisionNext, ApprovalQueue!Elsewhere, ApprovalQueue!decisionVars
<1>2. CASE \E a \in Approval : CreateApproval(a)
  BY <1>2, CreatingAsks DEF ApprovalQueue!DecisionNext
<1>3. ASSUME NEW d \in Decider, ResolveSave(d) \/ ResolveAudit(d) \/ Dispatch(d) \/ AclWrite(d)
      PROVE  ApprovalQueue!DecisionNext
  BY <1>3, SavingRules, AuditingLogs, DispatchingActs, WritingActs DEF ApprovalQueue!DecisionNext
<1> QED BY <1>1, <1>2, <1>3
        DEF ApprNext, apprVars, DeciderStep, RequestAction, PlanAcl, EditProposal, NodeTurns, Decide,
            PreCheck, ResolveLoad, AclRead, DeciderDies

\* While no two handlers are between the load and the save of one request,
\* resolve_approval_request and the three dispatchers are an approval queue as
\* DecisionLifecycle has it: one ruling for each request, no act but under an approval,
\* one task or component action, and a log of the ruling, whatever deciders repeat and
\* wherever they die.
THEOREM ImplementsDecisions == ApprSpec /\ []SavesApart => DecisionsRefined
BY DecisionStarts, DecisionStep, ApprInvariance, SettledInvariance, CopiesFitInvariance, PTL
   DEF ApprSpec, DecisionsRefined, ApprovalQueue!DecisionSpec
==============================================================================
