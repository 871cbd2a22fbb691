------------------------------ MODULE Enrollment ------------------------------
(***************************************************************************)
(* Join tokens and the join handler of the API, next to the operators that *)
(* revoke and expire tokens and edit node rows.  Neither consume_token nor *)
(* expire_pending_tokens reads and writes in one transaction: each is a    *)
(* read step and a write step here, as are the token commands.             *)
(*                                                                         *)
(* A join request is named by the node id it would mint; its token, its    *)
(* fingerprint, its host and its auto_confirm flag are constants.  Every   *)
(* writer of a token row stores a status it decided on before the write,   *)
(* so no copy of the row has to be kept between load_token and save_token. *)
(***************************************************************************)
EXTENDS NodeRows, FiniteSets

CONSTANTS
  Token,        \* join token values
  TokenOf,      \* the token a join request presents
  AutoConfirm,  \* the requests with auto_confirm set (the default)
  SameHost      \* pairs of requests with one hostname and a common address

ASSUME JoinAttributes ==
  /\ TokenOf \in [Node -> Token]
  /\ AutoConfirm \subseteq Node
  /\ SameHost \subseteq Node \X Node

VARIABLES
  tokens,     \* the join_tokens table: a status per token
  past,       \* the tokens whose expires_at has passed
  join,       \* per join request, where its handler is
  cmd,        \* per operator, the token command between its read and its write
  confirmed,  \* history: nodes an operator's confirm was loaded for
  late        \* history: joins that arrived when their token was already spent

enrolVars == <<nodes, edit, tokens, past, join, cmd, confirmed, late>>

SpentStatus == {"used", "expired", "revoked"}
TokenStatus == {"absent", "pending"} \cup SpentStatus
JoinPc == {"idle", "dup", "consume", "use", "expire", "register", "confirm", "done"}
TokenCmd == [op : {"none", "revoke", "expire"}, on : SUBSET Token]
NoCmd == [op |-> "none", on |-> {}]

EnrolTypeOK ==
  /\ NodeRowsTypeOK
  /\ tokens \in [Token -> TokenStatus] /\ past \subseteq Token
  /\ join \in [Node -> JoinPc] /\ cmd \in [Operator -> TokenCmd]
  /\ confirmed \subseteq Node /\ late \subseteq Node

EnrolInit ==
  /\ nodes = [n \in Node |-> [status |-> "absent", fingerprint |-> FirstFp[n]]]
  /\ edit = [o \in Operator |-> NoEdit]
  /\ tokens = [k \in Token |-> "absent"]
  /\ past = {}
  /\ join = [n \in Node |-> "idle"]
  /\ cmd = [o \in Operator |-> NoCmd]
  /\ confirmed = {}
  /\ late = {}

Spent(k) == tokens[k] \in SpentStatus
SetToken(S, status) == tokens' = [k \in Token |-> IF k \in S THEN status ELSE tokens[k]]
JoinAt(n, from, to) == join[n] = from /\ join' = [join EXCEPT ![n] = to]
------------------------------------------------------------------------------
\* hmn token create, console_join_token: a fresh value is saved.
CreateToken(k) ==
  /\ tokens[k] = "absent"
  /\ SetToken({k}, "pending")
  /\ UNCHANGED <<nodes, edit, past, join, cmd, confirmed, late>>

\* expires_at of a token passes.
TokenPasses(k) ==
  /\ tokens[k] # "absent" /\ k \notin past
  /\ past' = past \cup {k}
  /\ UNCHANGED <<nodes, edit, tokens, join, cmd, confirmed, late>>

\* revoke_token: load_token.  Whatever the status, it will be overwritten.
RevokeTokenLoad(o, k) ==
  /\ cmd[o] = NoCmd /\ tokens[k] # "absent"
  /\ cmd' = [cmd EXCEPT ![o] = [op |-> "revoke", on |-> {k}]]
  /\ UNCHANGED <<nodes, edit, tokens, past, join, confirmed, late>>

\* expire_pending_tokens (token expire, list_tokens): the SELECT.
ExpireSelect(o) ==
  LET S == {k \in past : tokens[k] = "pending"} IN
  /\ cmd[o] = NoCmd /\ S # {}
  /\ cmd' = [cmd EXCEPT ![o] = [op |-> "expire", on |-> S]]
  /\ UNCHANGED <<nodes, edit, tokens, past, join, confirmed, late>>

\* save_token of revoke_token, or the UPDATE of expire_pending_tokens, which
\* does not ask for status = 'pending' again.
TokenCmdWrite(o) ==
  /\ cmd[o] # NoCmd
  /\ SetToken(cmd[o].on, IF cmd[o].op = "revoke" THEN "revoked" ELSE "expired")
  /\ cmd' = [cmd EXCEPT ![o] = NoCmd]
  /\ UNCHANGED <<nodes, edit, past, join, confirmed, late>>

TokenCmdDies(o) ==
  /\ cmd[o] # NoCmd
  /\ cmd' = [cmd EXCEPT ![o] = NoCmd]
  /\ UNCHANGED <<nodes, edit, tokens, past, join, confirmed, late>>
------------------------------------------------------------------------------
\* join: load_token finds the token, whatever its status.
JoinRequest(n) ==
  /\ JoinAt(n, "idle", "dup") /\ tokens[TokenOf[n]] # "absent"
  /\ late' = IF Spent(TokenOf[n]) THEN late \cup {n} ELSE late
  /\ UNCHANGED <<nodes, edit, tokens, past, cmd, confirmed>>

\* _find_duplicate_join_node: a row that is not revoked, with this fingerprint
\* or with this hostname and one of these addresses.
Duplicate(n) ==
  \E m \in Node : /\ nodes[m].status \notin {"absent", "revoked"}
                  /\ nodes[m].fingerprint = FirstFp[n] \/ <<n, m>> \in SameHost

JoinDuplicateCheck(n) ==
  /\ \/ ~Duplicate(n) /\ JoinAt(n, "dup", "consume")
     \/ Duplicate(n) /\ JoinAt(n, "dup", "idle")
  /\ UNCHANGED <<nodes, edit, tokens, past, cmd, confirmed, late>>

\* consume_token: load_token and the decision what to save.
ConsumeLoad(n) ==
  LET k == TokenOf[n] IN
  /\ \/ tokens[k] = "pending" /\ k \notin past /\ JoinAt(n, "consume", "use")
     \/ tokens[k] = "pending" /\ k \in past /\ JoinAt(n, "consume", "expire")
     \/ tokens[k] # "pending" /\ JoinAt(n, "consume", "idle")
  /\ UNCHANGED <<nodes, edit, tokens, past, cmd, confirmed, late>>

\* Slip: the consumed token is not saved.
ConsumeUseUnsaved(n) ==
  /\ JoinAt(n, "use", "register")
  /\ UNCHANGED <<nodes, edit, tokens, past, cmd, confirmed, late>>

\* consume_token: save_token of the used row.
ConsumeUse(n) ==
  /\ JoinAt(n, "use", "register")
  /\ SetToken({TokenOf[n]}, "used")
  /\ UNCHANGED <<nodes, edit, past, cmd, confirmed, late>>

\* consume_token: save_token of the expired row; the join is refused.
ConsumeExpire(n) ==
  /\ JoinAt(n, "expire", "idle")
  /\ SetToken({TokenOf[n]}, "expired")
  /\ UNCHANGED <<nodes, edit, past, cmd, confirmed, late>>

SaveJoined(n, status) ==
  nodes' = [nodes EXCEPT ![n] = [status |-> status, fingerprint |-> FirstFp[n]]]

\* Slip: every joining node is confirmed.
JoinRegisterConfirmed(n) ==
  /\ JoinAt(n, "register", "confirm")
  /\ SaveJoined(n, "pending")
  /\ UNCHANGED <<edit, tokens, past, cmd, confirmed, late>>

\* register_pending_node: the first save_node of the new row.
JoinRegister(n) ==
  /\ JoinAt(n, "register", IF n \in AutoConfirm THEN "confirm" ELSE "done")
  /\ SaveJoined(n, "pending")
  /\ UNCHANGED <<edit, tokens, past, cmd, confirmed, late>>

\* auto_confirm: a second save_node, of the row as it was registered.
JoinConfirm(n) ==
  /\ JoinAt(n, "confirm", "done")
  /\ SaveJoined(n, "managed")
  /\ UNCHANGED <<edit, tokens, past, cmd, confirmed, late>>

\* Slip: a join that fails gives its token back for the retry.
JoinDiesRefunded(n) ==
  /\ join[n] \notin {"idle", "done"}
  /\ join' = [join EXCEPT ![n] = IF @ = "confirm" THEN "done" ELSE "idle"]
  /\ SetToken({k \in {TokenOf[n]} : join[n] = "register"}, "pending")
  /\ UNCHANGED <<nodes, edit, past, cmd, confirmed, late>>

\* The handler dies.  The node may retry; before its row exists the retry can
\* mint the same id, afterwards it is another request.
JoinDies(n) ==
  /\ join[n] \notin {"idle", "done"}
  /\ join' = [join EXCEPT ![n] = IF @ = "confirm" THEN "done" ELSE "idle"]
  /\ UNCHANGED <<nodes, edit, tokens, past, cmd, confirmed, late>>

\* The operators' commands on node rows.
EditRow(o) ==
  /\ OperatorStep(o)
  /\ confirmed' = confirmed \cup
       {n \in Node : edit'[o] # NoEdit /\ edit'[o].op = "confirm" /\ edit'[o].node = n}
  /\ UNCHANGED <<tokens, past, join, cmd, late>>

JoinStep(n) ==
  \/ JoinRequest(n) \/ JoinDuplicateCheck(n) \/ ConsumeLoad(n) \/ ConsumeUse(n)
  \/ ConsumeExpire(n) \/ JoinRegister(n) \/ JoinConfirm(n) \/ JoinDies(n)

EnrolNext ==
  \/ \E k \in Token : CreateToken(k) \/ TokenPasses(k)
  \/ \E n \in Node : JoinStep(n)
  \/ \E o \in Operator :
       \/ \E k \in Token : RevokeTokenLoad(o, k)
       \/ ExpireSelect(o) \/ TokenCmdWrite(o) \/ TokenCmdDies(o) \/ EditRow(o)

EnrolSpec == EnrolInit /\ [][EnrolNext]_enrolVars
------------------------------------------------------------------------------
(* Properties *)

\* Only joins that overlap the use of their token can profit from it.  One that
\* arrives when the token is spent never gets a row, also when it is the retry of
\* a join that died after consume_token, and whatever revocations, expiries and
\* other joins write over the token's row before it is looked at again.
LateJoinsRefused ==
  \A n \in late : nodes[n].status = "absent"

\* A node row is there only because a token was spent for it: consume_token
\* commits before register_pending_node, and the token stays spent however
\* revocations, expiries and crashes interleave.
NodeSpentItsToken ==
  \A n \in Node : nodes[n].status # "absent" => Spent(TokenOf[n])

\* A node that joined without auto_confirm is managed only if an operator
\* confirmed it, whichever copies of its row are written back.
ManagedWasConfirmed ==
  \A n \in Node : nodes[n].status = "managed" => n \in AutoConfirm \cup confirmed

\* A revoked node is brought back only by a writer whose copy of the row is older
\* than the revocation: no command un-revokes a node it saw revoked.
OnlyStaleCopiesUnrevoke ==
  [][\A n \in Node :
       nodes[n].status = "revoked" /\ nodes'[n].status # "revoked" =>
         \/ join[n] = "confirm"
         \/ \E o \in Operator : /\ edit[o] # NoEdit /\ edit[o].node = n
                                /\ edit[o].row.status # "revoked"]_enrolVars
------------------------------------------------------------------------------
(* What documentation and tests say, and what the races above break. *)

\* A join token is one-time: it admits at most one node.
OneNodePerToken ==
  \A n, m \in Node :
    nodes[n].status # "absent" /\ nodes[m].status # "absent" /\ TokenOf[n] = TokenOf[m]
      => n = m

\* A revoked node cannot become managed again.
RevokedIsFinal ==
  [][\A n \in Node : nodes[n].status = "revoked" => nodes'[n].status = "revoked"]_enrolVars
==============================================================================
