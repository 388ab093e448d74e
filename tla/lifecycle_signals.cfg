SPECIFICATION Spec
CONSTANTS
  p1 = p1  Nil = Nil  Orphan = Orphan
  Proc = {p1}
  Dir = {d1, d2}
  Body = {main1, worker1}
  Main = {main1}
  Handler = {h1}
  Finalizer = {g1}
  ProcOf <- MCProcOf
  Undeletable = {}
  Dispositions = {"raise", "die", "return"}
  MaxSignals = 1
  Crashes = FALSE
SYMMETRY DirSymmetry
INVARIANT LockDiscipline
PROPERTIES LossOnlyInWindow
\* the program may have ended, or a collector run waits for its own thread
CHECK_DEADLOCK FALSE
