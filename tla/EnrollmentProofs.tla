--------------------------- MODULE EnrollmentProofs ---------------------------
(***************************************************************************)
(* Tokens and node rows, for any number of tokens, joins and operators.    *)
(* NodeSpentItsToken is not inductive: a stale copy of a row could be      *)
(* written for a node that never joined.  EnrolInv says how far the join   *)
(* of each node has come, and what the copies in flight were loaded from.  *)
(***************************************************************************)
EXTENDS Enrollment, TLAPS

\* A row exists from register_pending_node on, and by then the token is spent.
JoinConsistent(n) ==
  /\ join[n] \notin {"confirm", "done"} => nodes[n].status = "absent"
  /\ join[n] \in {"register", "confirm", "done"} => Spent(TokenOf[n])
  /\ join[n] = "confirm" => n \in AutoConfirm

\* What is known of a copy: the row it was loaded from, and the command.
EditConsistent(o) ==
  LET e == edit[o] IN
  e # NoEdit => /\ nodes[e.node].status # "absent" /\ e.row.status # "absent"
                /\ e.op = "confirm" => e.node \in confirmed /\ e.row.status # "revoked"
                /\ e.row.status = "managed" => e.node \in AutoConfirm \cup confirmed

EnrolInv ==
  /\ EnrolTypeOK
  /\ \A n \in Node : JoinConsistent(n)
  /\ \A o \in Operator : EditConsistent(o)
  /\ ManagedWasConfirmed
------------------------------------------------------------------------------
LEMMA InitHolds == EnrolInit => EnrolInv
<1> SUFFICES ASSUME EnrolInit PROVE EnrolInv
  OBVIOUS
<1>1. EnrolTypeOK
  BY NodeAttributes DEF EnrolInit, EnrolTypeOK, NodeRowsTypeOK, NodeRow, NodeStatus, TokenStatus,
     SpentStatus, JoinPc, TokenCmd, NoCmd
<1>2. \A n \in Node : JoinConsistent(n)
  BY DEF EnrolInit, JoinConsistent
<1>3. \A o \in Operator : EditConsistent(o)
  BY DEF EnrolInit, EditConsistent
<1>4. ManagedWasConfirmed
  BY DEF EnrolInit, ManagedWasConfirmed
<1> QED BY <1>1, <1>2, <1>3, <1>4 DEF EnrolInv

\* The writers of token rows: create, revoke, expire and consume_token.  None of
\* them takes a token back, and none touches a node.
TokenWrite ==
  \E S \in SUBSET Token :
    \/ SetToken(S, "pending") /\ \A k \in S : tokens[k] = "absent"
    \/ \E status \in SpentStatus : SetToken(S, status)

LEMMA SpentStays ==
  ASSUME EnrolInv, TokenWrite \/ UNCHANGED tokens, NEW k \in Token, Spent(k)
  PROVE  Spent(k)'
BY DEF TokenWrite, SetToken, Spent, SpentStatus, EnrolInv, EnrolTypeOK, TokenStatus

LEMMA TokensTyped ==
  ASSUME EnrolInv, TokenWrite \/ UNCHANGED tokens
  PROVE  tokens' \in [Token -> TokenStatus]
BY DEF TokenWrite, SetToken, TokenStatus, EnrolInv, EnrolTypeOK

\* Steps of the token commands touch neither nodes nor joins.
LEMMA TokenSteps ==
  ASSUME EnrolInv, TokenWrite \/ UNCHANGED tokens, UNCHANGED <<nodes, edit, join, confirmed, late>>,
         past' \subseteq Token, cmd' \in [Operator -> TokenCmd]
  PROVE  EnrolInv'
<1>1. EnrolTypeOK'
  BY TokensTyped DEF EnrolInv, EnrolTypeOK, NodeRowsTypeOK
<1>2. ASSUME NEW n \in Node PROVE JoinConsistent(n)'
  <2>1. TokenOf[n] \in Token
    BY JoinAttributes
  <2>2. Spent(TokenOf[n]) => Spent(TokenOf[n])'
    BY <2>1, SpentStays
  <2> QED BY <2>2 DEF EnrolInv, JoinConsistent
<1>3. (\A o \in Operator : EditConsistent(o)) /\ ManagedWasConfirmed
        => (\A o \in Operator : EditConsistent(o)') /\ ManagedWasConfirmed'
  BY DEF EditConsistent, ManagedWasConfirmed
<1> QED BY <1>1, <1>2, <1>3 DEF EnrolInv

LEMMA CreateOrPassKeeps ==
  ASSUME EnrolInv, NEW k \in Token, CreateToken(k) \/ TokenPasses(k)
  PROVE  EnrolInv'
<1> USE DEF EnrolInv, EnrolTypeOK
<1>1. CASE CreateToken(k)
  <2>1. TokenWrite
    BY <1>1 DEF CreateToken, TokenWrite
  <2> QED BY <1>1, <2>1, TokenSteps DEF CreateToken
<1>2. CASE TokenPasses(k)
  BY <1>2, TokenSteps DEF TokenPasses
<1> QED BY <1>1, <1>2

LEMMA TokenCommandKeeps ==
  ASSUME EnrolInv, NEW o \in Operator,
         \/ \E k \in Token : RevokeTokenLoad(o, k)
         \/ ExpireSelect(o) \/ TokenCmdWrite(o) \/ TokenCmdDies(o)
  PROVE  EnrolInv'
<1> USE DEF EnrolInv, EnrolTypeOK
<1>1. CASE \E k \in Token : RevokeTokenLoad(o, k)
  <2>1. cmd' \in [Operator -> TokenCmd]
    BY <1>1 DEF RevokeTokenLoad, TokenCmd
  <2> QED BY <1>1, <2>1, TokenSteps DEF RevokeTokenLoad
<1>2. CASE ExpireSelect(o)
  <2>1. cmd' \in [Operator -> TokenCmd]
    BY <1>2 DEF ExpireSelect, TokenCmd
  <2> QED BY <1>2, <2>1, TokenSteps DEF ExpireSelect
<1>3. CASE TokenCmdWrite(o)
  <2>1. cmd[o].on \in SUBSET Token
    BY DEF TokenCmd
  <2>2. TokenWrite
    BY <1>3, <2>1 DEF TokenCmdWrite, TokenWrite, SpentStatus
  <2>3. cmd' \in [Operator -> TokenCmd]
    BY <1>3 DEF TokenCmdWrite, TokenCmd, NoCmd
  <2> QED BY <1>3, <2>2, <2>3, TokenSteps DEF TokenCmdWrite
<1>4. CASE TokenCmdDies(o)
  <2>1. cmd' \in [Operator -> TokenCmd]
    BY <1>4 DEF TokenCmdDies, TokenCmd, NoCmd
  <2> QED BY <1>4, <2>1, TokenSteps DEF TokenCmdDies
<1> QED BY <1>1, <1>2, <1>3, <1>4
------------------------------------------------------------------------------
\* A join moves from one place to the next; its token is spent when it must be.
LEMMA JoinMoves ==
  ASSUME EnrolInv, NEW n \in Node, NEW to \in JoinPc, join' = [join EXCEPT ![n] = to],
         TokenWrite \/ UNCHANGED tokens,
         to \in {"register", "confirm", "done"} => Spent(TokenOf[n])',
         to \notin {"confirm", "done"} => nodes[n].status = "absent",
         to = "confirm" => n \in AutoConfirm, late' \subseteq Node,
         UNCHANGED <<nodes, edit, past, cmd, confirmed>>
  PROVE  EnrolInv'
<1>1. EnrolTypeOK'
  BY TokensTyped DEF EnrolInv, EnrolTypeOK, NodeRowsTypeOK
<1>2. ASSUME NEW m \in Node PROVE JoinConsistent(m)'
  <2>1. TokenOf[m] \in Token
    BY JoinAttributes
  <2>2. Spent(TokenOf[m]) => Spent(TokenOf[m])'
    BY <2>1, SpentStays
  <2>3. CASE m = n
    BY <2>3 DEF EnrolInv, EnrolTypeOK, JoinConsistent
  <2>4. CASE m # n
    BY <2>2, <2>4 DEF EnrolInv, EnrolTypeOK, JoinConsistent
  <2> QED BY <2>3, <2>4
<1>3. (\A o \in Operator : EditConsistent(o)) /\ ManagedWasConfirmed
        => (\A o \in Operator : EditConsistent(o)') /\ ManagedWasConfirmed'
  BY DEF EditConsistent, ManagedWasConfirmed
<1> QED BY <1>1, <1>2, <1>3 DEF EnrolInv

\* The two saves of the join handler: the only steps of a join that touch a row.
LEMMA JoinSaves ==
  ASSUME EnrolInv, NEW n \in Node, NEW status \in {"pending", "managed"}, NEW to \in {"confirm", "done"},
         join' = [join EXCEPT ![n] = to], SaveJoined(n, status), Spent(TokenOf[n]),
         to = "confirm" => n \in AutoConfirm,
         status = "managed" => n \in AutoConfirm,
         UNCHANGED <<edit, tokens, past, cmd, confirmed, late>>
  PROVE  EnrolInv'
<1> USE DEF SaveJoined
<1>1. nodes \in [Node -> NodeRow] /\ join \in [Node -> JoinPc]
  BY DEF EnrolInv, EnrolTypeOK, NodeRowsTypeOK
<1>2. FirstFp[n] \in Fingerprint
  BY NodeAttributes
<1>3. EnrolTypeOK'
  <2>1. nodes' \in [Node -> NodeRow]
    BY <1>1, <1>2 DEF NodeRow, NodeStatus
  <2>2. join' \in [Node -> JoinPc]
    BY <1>1 DEF JoinPc
  <2> QED BY <2>1, <2>2 DEF EnrolInv, EnrolTypeOK, NodeRowsTypeOK
<1>4. nodes'[n].status = status
  BY <1>1
<1>5. \A m \in Node : nodes[m].status # "absent" => nodes'[m].status # "absent"
  BY <1>1, <1>4
<1>6. ASSUME NEW m \in Node PROVE JoinConsistent(m)'
  BY <1>1 DEF EnrolInv, JoinConsistent, Spent
<1>7. ASSUME NEW o \in Operator PROVE EditConsistent(o)'
  <2>1. edit[o] # NoEdit => edit[o].node \in Node
    BY DEF EnrolInv, EnrolTypeOK, NodeRowsTypeOK, Edit
  <2>2. EditConsistent(o)
    BY DEF EnrolInv
  <2> QED BY <1>5, <2>1, <2>2 DEF EditConsistent
<1>8. ManagedWasConfirmed'
  BY <1>1, <1>4 DEF EnrolInv, ManagedWasConfirmed
<1> QED BY <1>3, <1>6, <1>7, <1>8 DEF EnrolInv

LEMMA JoinStepKeeps ==
  ASSUME EnrolInv, NEW n \in Node, JoinStep(n)
  PROVE  EnrolInv'
<1>1. JoinConsistent(n) /\ TokenOf[n] \in Token
  BY JoinAttributes DEF EnrolInv
<1>2. tokens \in [Token -> TokenStatus] /\ join[n] \in JoinPc /\ late \subseteq Node
  BY DEF EnrolInv, EnrolTypeOK
<1>3. CASE JoinRequest(n) \/ JoinDuplicateCheck(n) \/ ConsumeLoad(n)
  <2>1. PICK to \in {"idle", "dup", "consume", "use", "expire"} :
          join' = [join EXCEPT ![n] = to] /\ join[n] \in {"idle", "dup", "consume"}
    BY <1>3 DEF JoinRequest, JoinDuplicateCheck, ConsumeLoad, JoinAt
  <2>2. UNCHANGED <<nodes, edit, tokens, past, cmd, confirmed>> /\ late' \subseteq Node
    BY <1>2, <1>3 DEF JoinRequest, JoinDuplicateCheck, ConsumeLoad
  <2>3. to \in JoinPc
    BY DEF JoinPc
  <2> QED BY <1>1, <2>1, <2>2, <2>3, JoinMoves DEF JoinConsistent
<1>4. CASE ConsumeUse(n)
  <2>1. TokenWrite
    BY <1>1, <1>4 DEF ConsumeUse, TokenWrite, SpentStatus
  <2>2. Spent(TokenOf[n])'
    BY <1>1, <1>4 DEF ConsumeUse, SetToken, Spent, SpentStatus
  <2>3. "register" \in JoinPc
    BY DEF JoinPc
  <2> QED BY <1>1, <1>2, <1>4, <2>1, <2>2, <2>3, JoinMoves DEF ConsumeUse, JoinAt, JoinConsistent
<1>5. CASE ConsumeExpire(n)
  <2>1. TokenWrite
    BY <1>1, <1>5 DEF ConsumeExpire, TokenWrite, SpentStatus
  <2>2. "idle" \in JoinPc
    BY DEF JoinPc
  <2> QED BY <1>1, <1>2, <1>5, <2>1, <2>2, JoinMoves DEF ConsumeExpire, JoinAt, JoinConsistent
<1>6. CASE JoinRegister(n)
  BY <1>1, <1>6, JoinSaves DEF JoinRegister, JoinAt, JoinConsistent
<1>7. CASE JoinConfirm(n)
  BY <1>1, <1>7, JoinSaves DEF JoinConfirm, JoinAt, JoinConsistent
<1>8. CASE JoinDies(n)
  <2>1. PICK to \in {"idle", "done"} :
          /\ join' = [join EXCEPT ![n] = to]
          /\ to = "done" <=> join[n] = "confirm"
    <3> WITNESS (IF join[n] = "confirm" THEN "done" ELSE "idle") \in {"idle", "done"}
    <3> QED BY <1>8 DEF JoinDies
  <2>2. to \in JoinPc /\ join[n] # "done"
    BY <1>8 DEF JoinPc, JoinDies
  <2>3. UNCHANGED <<nodes, edit, tokens, past, cmd, confirmed, late>>
    BY <1>8 DEF JoinDies
  <2>4. to = "done" => Spent(TokenOf[n])'
    BY <1>1, <2>1, <2>3 DEF JoinConsistent, Spent
  <2>5. to = "idle" => nodes[n].status = "absent"
    BY <1>1, <2>1, <2>2 DEF JoinConsistent
  <2> QED BY <1>2, <2>1, <2>2, <2>3, <2>4, <2>5, JoinMoves
<1> QED BY <1>3, <1>4, <1>5, <1>6, <1>7, <1>8 DEF JoinStep
------------------------------------------------------------------------------
\* A command's copy is consistent when it is loaded, and nobody makes a row absent.
LEMMA LoadKeeps ==
  ASSUME EnrolInv, NEW o \in Operator, NEW op \in EditOp, NEW n \in Node, NEW f \in Fingerprint,
         LoadForEdit(o, op, n, f), EditRow(o)
  PROVE  EnrolInv'
<1> DEFINE e == [op |-> op, node |-> n, row |-> nodes[n], fingerprint |-> f]
<1>1. nodes[n] \in NodeRow /\ edit \in [Operator -> Edit \cup {NoEdit}]
  BY DEF EnrolInv, EnrolTypeOK, NodeRowsTypeOK
<1>2. e \in Edit /\ e # NoEdit
  BY <1>1, NoEditIsFresh DEF Edit
<1>3. edit' = [edit EXCEPT ![o] = e] /\ UNCHANGED <<nodes, tokens, past, join, cmd, late>>
  BY DEF LoadForEdit, EditRow
<1>4. edit'[o] = e
  BY <1>1, <1>3
<1>5. confirmed' = confirmed \cup {m \in Node : op = "confirm" /\ n = m}
  BY <1>2, <1>4 DEF EditRow
<1>6. nodes[n].status # "absent" /\ (op = "confirm" => nodes[n].status # "revoked")
  BY DEF LoadForEdit, EditAllowed
<1>7. EnrolTypeOK'
  <2>1. edit' \in [Operator -> Edit \cup {NoEdit}]
    BY <1>1, <1>2, <1>3
  <2>2. confirmed' \subseteq Node
    BY <1>5 DEF EnrolInv, EnrolTypeOK
  <2> QED BY <1>3, <2>1, <2>2 DEF EnrolInv, EnrolTypeOK, NodeRowsTypeOK
<1>8. ASSUME NEW m \in Node PROVE JoinConsistent(m)'
  BY <1>3 DEF EnrolInv, JoinConsistent, Spent
<1>9. ASSUME NEW p \in Operator PROVE EditConsistent(p)'
  <2>1. CASE p = o
    <3>1. nodes[n].status = "managed" => n \in AutoConfirm \cup confirmed
      BY DEF EnrolInv, ManagedWasConfirmed
    <3> QED BY <2>1, <3>1, <1>3, <1>4, <1>5, <1>6 DEF EditConsistent
  <2>2. CASE p # o
    <3>1. edit'[p] = edit[p]
      BY <1>1, <1>3, <2>2
    <3>2. EditConsistent(p)
      BY DEF EnrolInv
    <3> QED BY <3>1, <3>2, <1>3, <1>5 DEF EditConsistent
  <2> QED BY <2>1, <2>2
<1>10. ManagedWasConfirmed'
  BY <1>3, <1>5 DEF EnrolInv, ManagedWasConfirmed
<1> QED BY <1>7, <1>8, <1>9, <1>10 DEF EnrolInv

\* An edit that ends without a write leaves rows, copies of others and joins alone.
LEMMA AbandonKeeps ==
  ASSUME EnrolInv, NEW o \in Operator, AbandonEdit(o), EditRow(o)
  PROVE  EnrolInv'
<1>1. edit \in [Operator -> Edit \cup {NoEdit}]
  BY DEF EnrolInv, EnrolTypeOK, NodeRowsTypeOK
<1>2. edit' = [edit EXCEPT ![o] = NoEdit] /\ UNCHANGED <<nodes, tokens, past, join, cmd, late>>
  BY DEF AbandonEdit, EditRow
<1>3. confirmed' = confirmed
  BY <1>1, <1>2 DEF EditRow
<1>4. EnrolTypeOK'
  BY <1>1, <1>2, <1>3 DEF EnrolInv, EnrolTypeOK, NodeRowsTypeOK
<1>5. ASSUME NEW m \in Node PROVE JoinConsistent(m)'
  BY <1>2 DEF EnrolInv, JoinConsistent, Spent
<1>6. ASSUME NEW p \in Operator PROVE EditConsistent(p)'
  <2>1. EditConsistent(p) /\ edit'[p] \in {edit[p], NoEdit}
    BY <1>1, <1>2 DEF EnrolInv
  <2> QED BY <1>2, <1>3, <2>1 DEF EditConsistent
<1>7. ManagedWasConfirmed'
  BY <1>2, <1>3 DEF EnrolInv, ManagedWasConfirmed
<1> QED BY <1>4, <1>5, <1>6, <1>7 DEF EnrolInv

\* The row a command writes: present, and managed only if it was confirmed.
LEMMA SaveKeeps ==
  ASSUME EnrolInv, NEW o \in Operator, SaveEdit(o), EditRow(o)
  PROVE  EnrolInv'
<1> DEFINE e == edit[o]
           n == edit[o].node
<1>1. edit \in [Operator -> Edit \cup {NoEdit}] /\ nodes \in [Node -> NodeRow]
  BY DEF EnrolInv, EnrolTypeOK, NodeRowsTypeOK
<1>2. e \in Edit /\ e # NoEdit
  BY <1>1 DEF SaveEdit
<1>3. EditConsistent(o)
  BY DEF EnrolInv
<1>4. /\ nodes' = [nodes EXCEPT ![n] = EditedRow(e)]
      /\ edit' = [edit EXCEPT ![o] = NoEdit]
      /\ UNCHANGED <<tokens, past, join, cmd, late>>
  BY DEF SaveEdit, EditRow
<1>5. confirmed' = confirmed
  BY <1>1, <1>4 DEF EditRow
<1>6. n \in Node /\ EditedRow(e) \in NodeRow
  BY <1>2 DEF Edit, EditedRow, NodeRow, NodeStatus
<1>7. EditedRow(e).status # "absent" /\ nodes[n].status # "absent"
  BY <1>2, <1>3 DEF EditConsistent, EditedRow
<1>8. EditedRow(e).status = "managed" => n \in AutoConfirm \cup confirmed
  BY <1>2, <1>3 DEF EditConsistent, EditedRow
<1>9. \A m \in Node : nodes'[m].status = "absent" <=> nodes[m].status = "absent"
  BY <1>1, <1>4, <1>6, <1>7
<1> HIDE DEF e, n
<1>10. EnrolTypeOK'
  BY <1>1, <1>4, <1>5, <1>6 DEF EnrolInv, EnrolTypeOK, NodeRowsTypeOK
<1>11. ASSUME NEW m \in Node PROVE JoinConsistent(m)'
  BY <1>4, <1>9 DEF EnrolInv, JoinConsistent, Spent
<1>12. ASSUME NEW p \in Operator PROVE EditConsistent(p)'
  <2>1. EditConsistent(p) /\ edit'[p] \in {edit[p], NoEdit}
    BY <1>1, <1>4 DEF EnrolInv
  <2>2. edit[p] # NoEdit => edit[p].node \in Node
    BY <1>1 DEF Edit
  <2> QED BY <1>5, <1>9, <2>1, <2>2 DEF EditConsistent
<1>13. ManagedWasConfirmed'
  BY <1>1, <1>4, <1>5, <1>8 DEF EnrolInv, ManagedWasConfirmed
<1> QED BY <1>10, <1>11, <1>12, <1>13 DEF EnrolInv

LEMMA EditRowKeeps ==
  ASSUME EnrolInv, NEW o \in Operator, EditRow(o)
  PROVE  EnrolInv'
<1>1. CASE \E op \in EditOp \ {"rotate"}, n \in Node : LoadForEdit(o, op, n, FirstFp[n])
  BY <1>1, LoadKeeps, NodeAttributes
<1>2. CASE \E n \in Node, f \in Fingerprint : LoadForEdit(o, "rotate", n, f)
  <2>1. "rotate" \in EditOp
    BY DEF EditOp
  <2> QED BY <1>2, <2>1, LoadKeeps
<1>3. CASE SaveEdit(o)
  BY <1>3, SaveKeeps
<1>4. CASE AbandonEdit(o)
  BY <1>4, AbandonKeeps
<1> QED BY <1>1, <1>2, <1>3, <1>4 DEF EditRow, OperatorStep

LEMMA StutterKeeps == EnrolInv /\ UNCHANGED enrolVars => EnrolInv'
BY DEF enrolVars, EnrolInv, EnrolTypeOK, NodeRowsTypeOK, JoinConsistent, EditConsistent,
   ManagedWasConfirmed, Spent

LEMMA StepKeeps == EnrolInv /\ [EnrolNext]_enrolVars => EnrolInv'
<1> SUFFICES ASSUME EnrolInv, [EnrolNext]_enrolVars PROVE EnrolInv'
  OBVIOUS
<1>1. CASE UNCHANGED enrolVars
  BY <1>1, StutterKeeps
<1>2. CASE \E k \in Token : CreateToken(k) \/ TokenPasses(k)
  BY <1>2, CreateOrPassKeeps
<1>3. CASE \E n \in Node : JoinStep(n)
  BY <1>3, JoinStepKeeps
<1>4. CASE \E o \in Operator, k \in Token : RevokeTokenLoad(o, k)
  BY <1>4, TokenCommandKeeps
<1>5. CASE \E o \in Operator : ExpireSelect(o) \/ TokenCmdWrite(o) \/ TokenCmdDies(o)
  BY <1>5, TokenCommandKeeps
<1>6. CASE \E o \in Operator : EditRow(o)
  BY <1>6, EditRowKeeps
<1> QED BY <1>1, <1>2, <1>3, <1>4, <1>5, <1>6 DEF EnrolNext
------------------------------------------------------------------------------
(* What the documentation promises, and when it holds.  A token admits two   *)
(* nodes only if two joins are between consume_token's load and its save; a  *)
(* revocation is lost only if two writers have a copy of one row at once.    *)

\* No two joins with one token are both past the test of the token and before its save.
UsesApart ==
  \A n, m \in Node :
    TokenOf[n] = TokenOf[m] /\ join[n] = "use" /\ join[m] = "use" => n = m

\* No command has a copy of a row that another command or a join will save, too.
Editing(o, n) == edit[o] # NoEdit /\ edit[o].node = n
WritersApart ==
  \A o \in Operator, n \in Node : Editing(o, n) =>
    /\ join[n] # "confirm"
    /\ \A p \in Operator \ {o} : ~Editing(p, n)

\* A join whose token was consumed for it.
Admitted(n) == join[n] \in {"register", "confirm", "done"}

\* Where joins use a token one after the other, the first one leaves nothing to the others.
AdmitsOne ==
  \A n, m \in Node :
    TokenOf[n] = TokenOf[m] /\ Admitted(n) /\ (Admitted(m) \/ join[m] = "use") => n = m

\* Where writers of a row take turns, each writes back the row as it is.
CopiesCurrent ==
  /\ \A o \in Operator : edit[o] # NoEdit => edit[o].row = nodes[edit[o].node]
  /\ \A n \in Node : join[n] = "confirm" => nodes[n].status = "pending"

\* Where a join may go in one step, and from where.
LEMMA JoinPaths ==
  ASSUME EnrolInv, [EnrolNext]_enrolVars, NEW n \in Node
  PROVE  /\ join'[n] = "use" /\ join[n] # "use" => tokens[TokenOf[n]] = "pending"
         /\ Admitted(n)' => Admitted(n) \/ join[n] = "use"
<1>1. join \in [Node -> JoinPc]
  BY DEF EnrolInv, EnrolTypeOK
<1>2. CASE UNCHANGED join
  BY <1>2 DEF Admitted
<1>3. ASSUME NEW m \in Node, JoinStep(m)
      PROVE  /\ join'[n] = "use" /\ join[n] # "use" => tokens[TokenOf[n]] = "pending"
             /\ Admitted(n)' => Admitted(n) \/ join[n] = "use"
  <2>1. CASE JoinRequest(m) \/ JoinDuplicateCheck(m) \/ ConsumeExpire(m) \/ JoinDies(m)
    BY <1>1, <2>1 DEF JoinRequest, JoinDuplicateCheck, ConsumeExpire, JoinDies, JoinAt, Admitted
  <2>2. CASE ConsumeLoad(m)
    BY <1>1, <2>2 DEF ConsumeLoad, JoinAt, Admitted
  <2>3. CASE ConsumeUse(m) \/ JoinRegister(m) \/ JoinConfirm(m)
    BY <1>1, <2>3 DEF ConsumeUse, JoinRegister, JoinConfirm, JoinAt, Admitted
  <2> QED BY <1>3, <2>1, <2>2, <2>3 DEF JoinStep
<1> QED BY <1>2, <1>3
        DEF EnrolNext, enrolVars, CreateToken, TokenPasses, RevokeTokenLoad, ExpireSelect,
            TokenCmdWrite, TokenCmdDies, EditRow

\* A spent token stays spent, whoever writes its row.
LEMMA SpentForGood ==
  ASSUME EnrolInv, [EnrolNext]_enrolVars, NEW k \in Token, Spent(k)
  PROVE  Spent(k)'
<1>1. CASE UNCHANGED tokens
  BY <1>1, SpentStays
<1>2. CASE \E j \in Token : CreateToken(j)
  <2>1. TokenWrite
    BY <1>2 DEF CreateToken, TokenWrite
  <2> QED BY <2>1, SpentStays
<1>3. CASE \E n \in Node : ConsumeUse(n) \/ ConsumeExpire(n)
  <2>1. TokenWrite
    BY <1>3, JoinAttributes DEF ConsumeUse, ConsumeExpire, TokenWrite, SpentStatus
  <2> QED BY <2>1, SpentStays
<1>4. CASE \E o \in Operator : TokenCmdWrite(o)
  <2>1. cmd \in [Operator -> TokenCmd]
    BY DEF EnrolInv, EnrolTypeOK
  <2>2. TokenWrite
    BY <1>4, <2>1 DEF TokenCmdWrite, TokenCmd, TokenWrite, SpentStatus
  <2> QED BY <2>2, SpentStays
<1> QED BY <1>1, <1>2, <1>3, <1>4
        DEF EnrolNext, enrolVars, TokenPasses, RevokeTokenLoad, ExpireSelect, TokenCmdDies,
            EditRow, JoinStep, JoinRequest, JoinDuplicateCheck, ConsumeLoad, JoinRegister,
            JoinConfirm, JoinDies

\* The joins that arrived late found their token spent; none of them uses it.
LateStopped ==
  \A n \in late : Spent(TokenOf[n]) /\ join[n] # "use" /\ ~Admitted(n)

LEMMA LateStoppedKeeps ==
  ASSUME EnrolInv, LateStopped, [EnrolNext]_enrolVars
  PROVE  LateStopped'
<1> SUFFICES ASSUME NEW n \in late'
             PROVE  Spent(TokenOf[n])' /\ join'[n] # "use" /\ ~Admitted(n)'
  BY DEF LateStopped
<1>1. join \in [Node -> JoinPc] /\ late \subseteq Node
  BY DEF EnrolInv, EnrolTypeOK
<1>2. CASE n \notin late
  <2>1. n \in Node /\ JoinRequest(n) /\ Spent(TokenOf[n])
    BY <1>2 DEF EnrolNext, enrolVars, CreateToken, TokenPasses, RevokeTokenLoad, ExpireSelect,
                TokenCmdWrite, TokenCmdDies, EditRow, JoinStep, JoinRequest, JoinDuplicateCheck,
                ConsumeLoad, ConsumeUse, ConsumeExpire, JoinRegister, JoinConfirm, JoinDies
  <2>2. join'[n] = "dup" /\ UNCHANGED tokens
    BY <1>1, <2>1 DEF JoinRequest, JoinAt
  <2> QED BY <2>1, <2>2 DEF Spent, Admitted
<1>3. CASE n \in late
  <2>1. /\ n \in Node /\ TokenOf[n] \in Token /\ Spent(TokenOf[n])
        /\ join[n] # "use" /\ ~Admitted(n)
    BY <1>1, <1>3, JoinAttributes DEF LateStopped
  <2>2. Spent(TokenOf[n])'
    BY <2>1, SpentForGood
  <2>3. tokens[TokenOf[n]] # "pending"
    BY <2>1 DEF Spent, SpentStatus
  <2> QED BY <2>1, <2>2, <2>3, JoinPaths
<1> QED BY <1>2, <1>3

LEMMA AdmitsOneKeeps ==
  ASSUME EnrolInv, AdmitsOne, UsesApart, [EnrolNext]_enrolVars
  PROVE  AdmitsOne'
<1> SUFFICES ASSUME NEW n \in Node, NEW m \in Node, TokenOf[n] = TokenOf[m], Admitted(n)',
                    (Admitted(m) \/ join[m] = "use")', n # m
             PROVE  FALSE
  BY DEF AdmitsOne
<1>1. Admitted(n) \/ join[n] = "use"
  BY JoinPaths
<1>2. Admitted(n) => tokens[TokenOf[n]] # "pending"
  BY DEF EnrolInv, JoinConsistent, Admitted, Spent, SpentStatus
<1>3. Admitted(n) => ~Admitted(m) /\ join[m] # "use"
  BY DEF AdmitsOne
<1>4. Admitted(n) => FALSE
  BY <1>2, <1>3, JoinPaths
<1>5. join[n] = "use" /\ ~Admitted(m) /\ join[m] # "use"
  BY <1>1, <1>4 DEF AdmitsOne, UsesApart
<1>6. join'[m] = "use" /\ join[m] # "use" /\ join'[n] # join[n]
  BY <1>5, JoinPaths DEF Admitted
<1>7. join \in [Node -> JoinPc]
  BY DEF EnrolInv, EnrolTypeOK
<1>8. \E k \in Node : JoinStep(k)
  BY <1>6 DEF EnrolNext, enrolVars, CreateToken, TokenPasses, RevokeTokenLoad, ExpireSelect,
              TokenCmdWrite, TokenCmdDies, EditRow
<1>9. \E k \in Node : \A l \in Node \ {k} : join'[l] = join[l]
  BY <1>7, <1>8 DEF JoinStep, JoinRequest, JoinDuplicateCheck, ConsumeLoad, ConsumeUse,
                    ConsumeExpire, JoinRegister, JoinConfirm, JoinDies, JoinAt
<1> QED BY <1>6, <1>9

\* Only the join handlers of a node and the save of an edit change rows.
LEMMA RowWriters ==
  ASSUME EnrolInv, [EnrolNext]_enrolVars,
         ~\E n \in Node : JoinRegister(n) \/ JoinConfirm(n),
         ~\E o \in Operator : EditRow(o)
  PROVE  /\ UNCHANGED <<nodes, edit>>
         /\ \A n \in Node : join'[n] = "confirm" => join[n] = "confirm"
<1>1. join \in [Node -> JoinPc]
  BY DEF EnrolInv, EnrolTypeOK
<1>2. CASE \E m \in Node : JoinStep(m)
  BY <1>1, <1>2 DEF JoinStep, JoinRequest, JoinDuplicateCheck, ConsumeLoad, ConsumeUse,
                    ConsumeExpire, JoinDies, JoinAt
<1>3. CASE ~\E m \in Node : JoinStep(m)
  BY <1>3 DEF EnrolNext, enrolVars, CreateToken, TokenPasses, RevokeTokenLoad, ExpireSelect,
              TokenCmdWrite, TokenCmdDies
<1> QED BY <1>2, <1>3

\* A step of a join that saves the row of its node.
LEMMA JoinSavesAlone ==
  ASSUME EnrolInv, CopiesCurrent, WritersApart, NEW n \in Node, JoinRegister(n) \/ JoinConfirm(n)
  PROVE  /\ CopiesCurrent'
         /\ nodes[n].status # "revoked"
         /\ \A m \in Node \ {n} : nodes'[m] = nodes[m]
<1>1. /\ nodes \in [Node -> NodeRow] /\ edit \in [Operator -> Edit \cup {NoEdit}]
      /\ join \in [Node -> JoinPc]
  BY DEF EnrolInv, EnrolTypeOK, NodeRowsTypeOK
<1>2. nodes[n].status # "revoked"
  BY DEF EnrolInv, JoinConsistent, CopiesCurrent, JoinRegister, JoinConfirm, JoinAt
<1>3. UNCHANGED edit /\ \A m \in Node \ {n} : nodes'[m] = nodes[m] /\ join'[m] = join[m]
  BY <1>1 DEF JoinRegister, JoinConfirm, JoinAt, SaveJoined
<1>4. join'[n] = "confirm" => nodes'[n].status = "pending"
  BY <1>1 DEF JoinRegister, JoinConfirm, JoinAt, SaveJoined
<1>5. ASSUME NEW o \in Operator, edit[o] # NoEdit PROVE edit[o].node \in Node \ {n}
  <2>1. edit[o].node \in Node /\ EditConsistent(o)
    BY <1>1, <1>5 DEF Edit, EnrolInv
  <2>2. JoinConsistent(n)
    BY DEF EnrolInv
  <2>3. CASE JoinRegister(n)
    BY <1>5, <2>1, <2>2, <2>3 DEF JoinConsistent, EditConsistent, JoinRegister, JoinAt
  <2>4. CASE JoinConfirm(n)
    BY <1>5, <2>1, <2>4 DEF WritersApart, Editing, JoinConfirm, JoinAt
  <2> QED BY <2>1, <2>3, <2>4
<1>6. CopiesCurrent'
  BY <1>3, <1>4, <1>5 DEF CopiesCurrent
<1> QED BY <1>2, <1>3, <1>6

\* A step of a command that edits a row: its copy is the row.
LEMMA EditsAlone ==
  ASSUME EnrolInv, CopiesCurrent, WritersApart, NEW o \in Operator, EditRow(o)
  PROVE  /\ CopiesCurrent'
         /\ \A n \in Node : nodes[n].status = "revoked" => nodes'[n].status = "revoked"
<1>1. /\ nodes \in [Node -> NodeRow] /\ edit \in [Operator -> Edit \cup {NoEdit}]
      /\ UNCHANGED join
  BY DEF EnrolInv, EnrolTypeOK, NodeRowsTypeOK, EditRow
<1>2. ASSUME NEW op \in EditOp, NEW n \in Node, NEW f \in Fingerprint, LoadForEdit(o, op, n, f)
      PROVE  CopiesCurrent' /\ UNCHANGED nodes
  BY <1>1, <1>2 DEF LoadForEdit, CopiesCurrent
<1>3. CASE AbandonEdit(o)
  BY <1>1, <1>3 DEF AbandonEdit, CopiesCurrent
<1>4. CASE SaveEdit(o)
  <2> DEFINE e == edit[o]
  <2>1. e \in Edit /\ e # NoEdit /\ e.row = nodes[e.node] /\ e.node \in Node
    BY <1>1, <1>4 DEF SaveEdit, CopiesCurrent, Edit
  <2>2. /\ nodes' = [nodes EXCEPT ![e.node] = EditedRow(e)]
        /\ edit' = [edit EXCEPT ![o] = NoEdit]
    BY <1>4 DEF SaveEdit
  <2>3. join[e.node] # "confirm"
        /\ \A p \in Operator \ {o} : edit[p] # NoEdit => edit[p].node # e.node
    BY <2>1 DEF WritersApart, Editing
  <2>4. nodes[e.node].status = "revoked" => EditedRow(e).status = "revoked"
    <3>1. e.op = "confirm" => e.row.status # "revoked"
      BY <2>1 DEF EnrolInv, EditConsistent
    <3> QED BY <2>1, <3>1 DEF EditedRow
  <2> HIDE DEF e
  <2>5. \A n \in Node : nodes[n].status = "revoked" => nodes'[n].status = "revoked"
    BY <1>1, <2>1, <2>2, <2>4
  <2>6. \A p \in Operator \ {o} : edit'[p] = edit[p] /\ edit'[o] = NoEdit
    BY <1>1, <2>2
  <2>7. \A p \in Operator : edit'[p] # NoEdit => edit'[p].row = nodes'[edit'[p].node]
    BY <1>1, <2>2, <2>3, <2>6 DEF CopiesCurrent
  <2>8. \A n \in Node : join'[n] = "confirm" => nodes'[n].status = "pending"
    BY <1>1, <2>2, <2>3 DEF CopiesCurrent
  <2> QED BY <2>5, <2>7, <2>8 DEF CopiesCurrent
<1>5. "rotate" \in EditOp
  BY DEF EditOp
<1> QED BY <1>2, <1>3, <1>4, <1>5, NodeAttributes DEF EditRow, OperatorStep

LEMMA TakingTurnsKeeps ==
  ASSUME EnrolInv, CopiesCurrent, WritersApart, [EnrolNext]_enrolVars
  PROVE  /\ CopiesCurrent'
         /\ \A n \in Node : nodes[n].status = "revoked" => nodes'[n].status = "revoked"
<1>1. CASE \E n \in Node : JoinRegister(n) \/ JoinConfirm(n)
  BY <1>1, JoinSavesAlone
<1>2. CASE \E o \in Operator : EditRow(o)
  BY <1>2, EditsAlone
<1>3. CASE /\ ~\E n \in Node : JoinRegister(n) \/ JoinConfirm(n)
           /\ ~\E o \in Operator : EditRow(o)
  BY <1>3, RowWriters DEF CopiesCurrent
<1> QED BY <1>1, <1>2, <1>3
------------------------------------------------------------------------------
(* Theorems *)

\* The inductive invariant of enrolment holds: tokens, rows, joins in flight and loaded
\* copies account for each other in every reachable state.
THEOREM EnrolInvariance == EnrolSpec => []EnrolInv
BY InitHolds, StepKeeps, PTL DEF EnrolSpec

\* Tokens, rows, copies and handlers keep their types: no save stores a status
\* that load_token or load_node does not know.
THEOREM EnrolTypeCorrect == EnrolSpec => []EnrolTypeOK
<1>1. EnrolInv => EnrolTypeOK
  BY DEF EnrolInv
<1> QED BY <1>1, EnrolInvariance, PTL

\* Every row of the nodes table was paid for with a token that is spent, for any
\* number of joins, token commands and crashes.
THEOREM NodesSpentTheirToken == EnrolSpec => []NodeSpentItsToken
<1>1. EnrolInv => NodeSpentItsToken
  <2> SUFFICES ASSUME EnrolInv, NEW n \in Node, nodes[n].status # "absent"
               PROVE  Spent(TokenOf[n])
    BY DEF NodeSpentItsToken
  <2> QED BY DEF EnrolInv, JoinConsistent
<1> QED BY <1>1, EnrolInvariance, PTL

\* No interleaving of whole-row saves makes a node managed that neither joined
\* with auto_confirm nor was confirmed.
THEOREM ManagedNodesWereConfirmed == EnrolSpec => []ManagedWasConfirmed
<1>1. EnrolInv => ManagedWasConfirmed
  BY DEF EnrolInv
<1> QED BY <1>1, EnrolInvariance, PTL

\* A join that arrives after its token was spent, by another join or by a life of its
\* own that died, is refused, however many writers overwrite the token's row meanwhile.
THEOREM LateJoinsAreRefused == EnrolSpec => []LateJoinsRefused
<1>1. EnrolInit => LateStopped
  BY DEF EnrolInit, LateStopped
<1>2. EnrolInv /\ LateStopped /\ [EnrolNext]_enrolVars => LateStopped'
  BY LateStoppedKeeps
<1>3. EnrolInv /\ LateStopped => LateJoinsRefused
  BY DEF EnrolInv, EnrolTypeOK, JoinConsistent, LateStopped, LateJoinsRefused, Admitted
<1> QED BY <1>1, <1>2, <1>3, EnrolInvariance, PTL DEF EnrolSpec

\* A revocation is undone only by a save whose copy was loaded before it, or by
\* the second save of a join that was under way.
THEOREM OnlyStaleCopies == EnrolSpec => OnlyStaleCopiesUnrevoke
<1>1. ASSUME EnrolInv, [EnrolNext]_enrolVars, NEW n \in Node,
             nodes[n].status = "revoked", nodes'[n].status # "revoked"
      PROVE  \/ join[n] = "confirm"
             \/ \E o \in Operator : /\ edit[o] # NoEdit /\ edit[o].node = n
                                    /\ edit[o].row.status # "revoked"
  <2>1. nodes \in [Node -> NodeRow] /\ edit \in [Operator -> Edit \cup {NoEdit}]
    BY <1>1 DEF EnrolInv, EnrolTypeOK, NodeRowsTypeOK
  <2>2. nodes' # nodes
    BY <1>1
  <2>3. CASE \E m \in Node : JoinRegister(m) \/ JoinConfirm(m)
    <3>1. PICK m \in Node : JoinRegister(m) \/ JoinConfirm(m)
      BY <2>3
    <3>2. m = n
      BY <1>1, <2>1, <3>1 DEF JoinRegister, JoinConfirm, SaveJoined
    <3>3. join[n] # "register"
      BY <1>1 DEF EnrolInv, JoinConsistent
    <3> QED BY <3>1, <3>2, <3>3 DEF JoinRegister, JoinConfirm, JoinAt
  <2>4. CASE \E o \in Operator : EditRow(o)
    <3>1. PICK o \in Operator : EditRow(o)
      BY <2>4
    <3>2. SaveEdit(o)
      BY <2>2, <3>1 DEF EditRow, OperatorStep, LoadForEdit, AbandonEdit
    <3>3. edit[o] \in Edit /\ edit[o] # NoEdit
      BY <2>1, <3>2 DEF SaveEdit
    <3>4. edit[o].node = n
      BY <1>1, <2>1, <3>2 DEF SaveEdit
    <3>5. nodes'[n] = EditedRow(edit[o])
      BY <2>1, <3>2, <3>4 DEF SaveEdit
    <3>6. edit[o].op = "confirm" => edit[o].row.status # "revoked"
      BY <1>1, <3>3 DEF EnrolInv, EditConsistent
    <3>7. edit[o].row.status # "revoked"
      BY <1>1, <3>3, <3>5, <3>6 DEF EditedRow
    <3> QED BY <3>3, <3>4, <3>7
  <2> QED BY <1>1, <2>2, <2>3, <2>4
          DEF EnrolNext, enrolVars, CreateToken, TokenPasses, RevokeTokenLoad, ExpireSelect,
              TokenCmdWrite, TokenCmdDies, JoinStep, JoinRequest, JoinDuplicateCheck,
              ConsumeLoad, ConsumeUse, ConsumeExpire, JoinDies
<1>2. EnrolInv /\ [EnrolNext]_enrolVars
        => [\A n \in Node :
              nodes[n].status = "revoked" /\ nodes'[n].status # "revoked" =>
                \/ join[n] = "confirm"
                \/ \E o \in Operator : /\ edit[o] # NoEdit /\ edit[o].node = n
                                       /\ edit[o].row.status # "revoked"]_enrolVars
  BY <1>1
<1> QED BY <1>2, EnrolInvariance, PTL DEF EnrolSpec, OnlyStaleCopiesUnrevoke

\* A join token is one-time as long as no two joins with it are between the load and the
\* save of consume_token: however often it is presented, one node gets a row.  Without
\* that the run token_twice has a counterexample.
THEOREM TokensAdmitOneNode == EnrolSpec /\ []UsesApart => []OneNodePerToken
<1>1. EnrolInit => AdmitsOne
  BY DEF EnrolInit, AdmitsOne, Admitted
<1>2. EnrolInv /\ AdmitsOne /\ UsesApart /\ [EnrolNext]_enrolVars => AdmitsOne'
  BY AdmitsOneKeeps
<1>3. EnrolInv /\ AdmitsOne => OneNodePerToken
  BY DEF EnrolInv, JoinConsistent, AdmitsOne, OneNodePerToken, Admitted
<1> QED BY <1>1, <1>2, <1>3, EnrolInvariance, PTL DEF EnrolSpec

\* A revoked node stays revoked as long as nobody saves a row between the load and the
\* save of another writer (confirm_node, revoke_node, network sync, the second save of a
\* join).  Without that the run revoked_back has a counterexample.
THEOREM RevocationsStand == EnrolSpec /\ []WritersApart => RevokedIsFinal
<1>1. EnrolInit => CopiesCurrent
  BY DEF EnrolInit, CopiesCurrent
<1>2. EnrolInv /\ CopiesCurrent /\ WritersApart /\ [EnrolNext]_enrolVars => CopiesCurrent'
  BY TakingTurnsKeeps
<1>3. EnrolInv /\ CopiesCurrent /\ WritersApart /\ [EnrolNext]_enrolVars
        => [\A n \in Node : nodes[n].status = "revoked" => nodes'[n].status = "revoked"]_enrolVars
  BY TakingTurnsKeeps
<1> QED BY <1>1, <1>2, <1>3, EnrolInvariance, PTL DEF EnrolSpec, RevokedIsFinal
==============================================================================
