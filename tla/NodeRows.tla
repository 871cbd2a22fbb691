------------------------------- MODULE NodeRows -------------------------------
(***************************************************************************)
(* The nodes table and the commands that edit a row of it.  The code has   *)
(* no UPDATE of single columns: every writer loads the whole row in one    *)
(* transaction, changes the copy and writes every column back in another   *)
(* (load_node ... save_node).  Between the two other writers may commit,   *)
(* and what they wrote is then overwritten by the copy.                    *)
(*                                                                         *)
(* Of a row the model keeps the two columns the node API decides on,       *)
(* status and fingerprint.  The audit events of these commands are written *)
(* in a later transaction and read by nothing the model decides on.        *)
(***************************************************************************)
EXTENDS Integers

CONSTANTS
  Node,         \* node ids
  Fingerprint,  \* node fingerprints (the shared secret of the node API)
  FirstFp,      \* the fingerprint a node joined with
  Operator,     \* concurrently running hmn commands that edit a node
  NoEdit        \* an operator with no edit in progress

ASSUME NodeAttributes == FirstFp \in [Node -> Fingerprint]

VARIABLES
  nodes,  \* the nodes table
  edit    \* per operator, the edit between its load and its save

nodeVars == <<nodes, edit>>

NodeStatus == {"absent", "pending", "managed", "revoked"}
NodeRow == [status : NodeStatus, fingerprint : Fingerprint]

\* confirm_node, revoke_node, rotate-fingerprint (operator forced), and the two
\* commands that change network columns only: network sync and tag update.
EditOp == {"confirm", "revoke", "rotate", "sync", "tags"}
Edit == [op : EditOp, node : Node, row : NodeRow, fingerprint : Fingerprint]

ASSUME NoEditIsFresh == NoEdit \notin Edit

NodeRowsTypeOK ==
  /\ nodes \in [Node -> NodeRow]
  /\ edit \in [Operator -> Edit \cup {NoEdit}]

\* Slip: a revoked node may be confirmed.
EditAllowedRevoked(op, row) ==
  /\ row.status # "absent"
  /\ op = "tags" => row.status = "managed"

\* A command gives up unless the row it loaded satisfies this.
EditAllowed(op, row) ==
  /\ row.status # "absent"
  /\ op = "confirm" => row.status # "revoked"
  /\ op = "tags" => row.status = "managed"

\* What a command writes back: its copy of the row with its own change.
EditedRow(e) ==
  [status      |-> CASE e.op = "confirm" -> "managed"
                     [] e.op = "revoke"  -> "revoked"
                     [] OTHER            -> e.row.status,
   fingerprint |-> IF e.op = "rotate" THEN e.fingerprint ELSE e.row.fingerprint]

\* load_node and the command's early returns.
LoadForEdit(o, op, n, f) ==
  /\ edit[o] = NoEdit
  /\ EditAllowed(op, nodes[n])
  /\ edit' = [edit EXCEPT ![o] = [op |-> op, node |-> n, row |-> nodes[n],
                                  fingerprint |-> f]]
  /\ UNCHANGED nodes

\* save_node of the edited copy.
SaveEdit(o) ==
  /\ edit[o] # NoEdit
  /\ nodes' = [nodes EXCEPT ![edit[o].node] = EditedRow(edit[o])]
  /\ edit' = [edit EXCEPT ![o] = NoEdit]

\* The command dies, its provider call raises, or sync finds nothing to write.
AbandonEdit(o) ==
  /\ edit[o] # NoEdit
  /\ edit' = [edit EXCEPT ![o] = NoEdit]
  /\ UNCHANGED nodes

OperatorStep(o) ==
  \/ \E op \in EditOp \ {"rotate"}, n \in Node : LoadForEdit(o, op, n, FirstFp[n])
  \/ \E n \in Node, f \in Fingerprint : LoadForEdit(o, "rotate", n, f)
  \/ SaveEdit(o)
  \/ AbandonEdit(o)
==============================================================================
