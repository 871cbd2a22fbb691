----------------------------- MODULE MCOperations ----------------------------
(***************************************************************************)
(* Small instances of the operations that share no row with each other.    *)
(* A behaviour follows one component, chosen at the start; the others keep *)
(* their initial state.  One run so checks each of them on its own.        *)
(***************************************************************************)
EXTENDS Approvals, Gateway, SshExecutor, Components, Rollback, DocsSync, Worktrees, TLC

CONSTANTS a1, a3, a4, x, y, z,  \* approvals and ACL texts
          p1, p2,               \* the two concurrent commands of every component
          g1, q1                \* a slug, a database path

VARIABLE focus  \* the component that is followed

\* Approvals: a1 asks for a task, a3 and a4 for an ACL that replaces x.
Kinds == [a \in Approval |-> IF a = a1 THEN "task" ELSE "acl"]
FromX == [a \in Approval |-> x]
ToYZ == [a \in Approval |-> IF a = a4 THEN z ELSE y]

\* SSH: every task runs a shell command over ssh on the only node.
AnyFingerprint == [n \in Node |-> CHOOSE f \in Fingerprint : TRUE]
AnyNode == [t \in Task |-> CHOOSE n \in Node : TRUE]
ShellCommand == [t \in Task |-> [kind |-> "shell", to |-> CHOOSE f \in Fingerprint : TRUE]]
OverSsh == [t \in Task |-> "ssh"]

\* Components: the slots are on one node.
OneHost == [s \in Slot |-> CHOOSE n \in Node : TRUE]

\* Docs: the two services have one slug.
OneSlug == <<g1, g1>>

\* Commands are interchangeable.
Symmetry == Permutations({p1, p2})

OpsInit ==
  /\ focus \in {"approvals", "gateway", "ssh", "components", "rollback", "docs",
                "worktrees"}
  /\ ApprInit /\ GwInit /\ SshInit /\ CompInit /\ RbInit /\ DocsInit /\ WtInit
  /\ focus # "rollback" => saved = {} /\ pathOf = [f \in {"new", "old"} |-> q1]

OpsNext ==
  \/ /\ focus = "approvals" /\ ApprNext
     /\ UNCHANGED <<focus, gwVars, sshVars, compVars, rbVars, docsVars, wtVars>>
  \/ /\ focus = "gateway" /\ GwNext
     /\ UNCHANGED <<focus, apprVars, sshVars, compVars, rbVars, docsVars, wtVars>>
  \/ /\ focus = "ssh" /\ SshNext
     /\ UNCHANGED <<focus, apprVars, gwVars, compVars, rbVars, docsVars, wtVars>>
  \/ /\ focus = "components" /\ CompNext
     /\ UNCHANGED <<focus, apprVars, gwVars, sshVars, rbVars, docsVars, wtVars>>
  \/ /\ focus = "rollback" /\ RbNext
     /\ UNCHANGED <<focus, apprVars, gwVars, sshVars, compVars, docsVars, wtVars>>
  \/ /\ focus = "docs" /\ DocsNext
     /\ UNCHANGED <<focus, apprVars, gwVars, sshVars, compVars, rbVars, wtVars>>
  \/ /\ focus = "worktrees" /\ WtNext
     /\ UNCHANGED <<focus, apprVars, gwVars, sshVars, compVars, rbVars, docsVars>>

OpsSpec == OpsInit /\ [][OpsNext]_<<focus, apprVars, gwVars, sshVars, compVars, rbVars,
                                    docsVars, wtVars>>

\* Every variable keeps its type: in particular no row gets a status or a field
\* that its dataclass does not know.
OperationsTypeOK ==
  /\ ApprTypeOK /\ GwTypeOK /\ SshTypeOK /\ CompTypeOK /\ RbTypeOK
  /\ DocsTypeOK /\ WtTypeOK
==============================================================================
