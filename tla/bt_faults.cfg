SPECIFICATION Spec
CONSTANTS
  BackEnd = "bt"
  Callers = {c1, c2}
  RxThreads = {r1, r2}
  NoThread = NoThread
  NumChannels = 1
  Operations = {"enable", "disable"}
  OpenMayFail = TRUE
  CreateMayFail = TRUE
  Faults = {"silence", "hangup", "read", "eventFd"}
  c1 = c1
  c2 = c2
  r1 = r1
  r2 = r2
\* The join cycle is a real deadlock: vfs_join_cycle.cfg.
CHECK_DEADLOCK FALSE
INVARIANTS
  StatusNeverUnknown
PROPERTY
  DisableLeavesNothing
