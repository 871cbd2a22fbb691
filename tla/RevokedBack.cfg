\* Two operator commands on one node: one revokes it, one holds a copy of its row.
CONSTANTS
  n1 = n1 n2 = n2 k1 = k1 f1 = f1 f2 = f2
  Node = {n1}
  Fingerprint = {f1, f2}
  FirstFp <- OwnFp
  Operator = {op1, op2}
  NoEdit = NoEdit
  Token = {k1}
  TokenOf <- OneToken
  AutoConfirm = {}
  SameHost <- NoPairs
SPECIFICATION EnrolSpec
PROPERTY RevokedIsFinal
