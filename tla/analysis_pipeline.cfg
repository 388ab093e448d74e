SPECIFICATION Spec
CONSTANTS
  None = None  NoLimit = NoLimit
  UsualLimit <- MCUsualLimit
  Functions <- MCFunctions
  MaxList = 5
  MaxLimit = 3
INVARIANTS TypeOK PagesPartition FsmFollowsProgram LoopsCaught
\* a session ends when everything was read or built
CHECK_DEADLOCK FALSE
