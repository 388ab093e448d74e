SPECIFICATION FairSpec
CONSTANTS
  p1 = p1  Nil = Nil  Orphan = Orphan
  Proc = {p1}
  Dir = {d1}
  Body = {main1}
  Main = {main1}
  Handler = {h1, h2}
  Finalizer = {}
  ProcOf <- MCProcOf
  Undeletable = {}
  Dispositions = {"raise"}
  MaxSignals = 2
  Crashes = FALSE
PROPERTY ShutdownEnds
\* the program may have ended
CHECK_DEADLOCK FALSE
