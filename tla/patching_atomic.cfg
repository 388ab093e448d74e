SPECIFICATION Spec
CONSTANTS
  s1 = s1  s2 = s2  s3 = s3
  old = old  new = new  ff = ff  Nil = Nil
  Command = {c1}
  Site = {s1, s2, s3}
  Byte = {old, new, ff}
  Unmapped = {s3}
  Filler = ff
  Requests <- AllRequests
  Initial <- MCInitial
INVARIANT PlanAtomic
CHECK_DEADLOCK FALSE
