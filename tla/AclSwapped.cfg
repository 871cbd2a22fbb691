\* The proposed ACL file changes after the diff was shown.
CONSTANTS
  a1 = a1 a2 = a2 a3 = a3 a4 = a4 x = x y = y z = z
  Approval = {a3}
  KindOf <- Kinds
  Decider = {d1}
  Cli = {d1}
  Matching = {a3}
  Text = {x, y, z}
  FirstAcl = x
  OldOf <- FromX
  NewOf <- ToYZ
  NoApproval = NoApproval
  WriteCap = 2
SPECIFICATION ApprSpec
INVARIANT AclAsApproved
