\* Two machines present one token at the same time; nobody else is around.
CONSTANTS
  n1 = n1 n2 = n2 k1 = k1 f1 = f1 f2 = f2
  Node = {n1, n2}
  Fingerprint = {f1, f2}
  FirstFp <- OwnFp
  Operator = {}
  NoEdit = NoEdit
  Token = {k1}
  TokenOf <- OneToken
  AutoConfirm = {n1}
  SameHost <- NoPairs
SPECIFICATION EnrolSpec
INVARIANT OneNodePerToken
