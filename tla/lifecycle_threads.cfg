SPECIFICATION Spec
CONSTANTS
  p1 = p1  Nil = Nil  Orphan = Orphan
  Proc = {p1}
  Dir = {d1, d2}
  Body = {main1, worker1}
  Main = {main1}
  Handler = {}
  Finalizer = {g1}
  ProcOf <- MCProcOf
  Undeletable = {d2}
  Dispositions = {}
  MaxSignals = 0
  Crashes = TRUE
INVARIANTS TypeOK NothingLost LiveTargetKeepsDir
PROPERTIES CleanExit CleanupMeansGone
\* the program may have ended, or a collector run waits for its own thread
CHECK_DEADLOCK FALSE
