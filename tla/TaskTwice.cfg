\* Two handlers approve one task request at the same time.
CONSTANTS
  a1 = a1 a2 = a2 a3 = a3 a4 = a4 x = x y = y z = z
  Approval = {a1}
  KindOf <- Kinds
  Decider = {d1, d2}
  Cli = {}
  Matching = {a1}
  Text = {x, y}
  FirstAcl = x
  OldOf <- FromX
  NewOf <- ToYZ
  NoApproval = NoApproval
  WriteCap = 2
SPECIFICATION ApprSpec
INVARIANT TaskOnce
