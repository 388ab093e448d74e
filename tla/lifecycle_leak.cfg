SPECIFICATION Spec
CONSTANTS
  p1 = p1  Nil = Nil  Orphan = Orphan
  Proc = {p1}
  Dir = {d1}
  Body = {main1}
  Main = {main1}
  Handler = {h1}
  Finalizer = {}
  ProcOf <- MCProcOf
  Undeletable = {}
  Dispositions = {"raise"}
  MaxSignals = 1
  Crashes = FALSE
PROPERTY CleanExit
CHECK_DEADLOCK FALSE
