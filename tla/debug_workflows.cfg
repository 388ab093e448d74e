SPECIFICATION FairSpec
CONSTANTS
  a1 = a1  s1 = s1  s2 = s2  Nil = Nil
  Agent = {a1}
  Asks <- MCAsks
  Session = {s1, s2}
  Branch <- SomeBranches
  MaxLate = 1
  MaxCrash = 1
INVARIANTS TypeOK SessionsAccounted DefaultIsOwn VerdictFaithful BypassInverts
PROPERTIES WorkflowRestores CallEnds
