SPECIFICATION Spec
CONSTANTS
  BackEnd = "vfs"
  Callers = {c1, c2}
  RxThreads = {r1, r2}
  NoThread = NoThread
  NumChannels = 2
  Operations = {"enable", "disable"}
  OpenMayFail = TRUE
  CreateMayFail = FALSE
  Faults = {"hangup"}
  c1 = c1
  c2 = c2
  r1 = r1
  r2 = r2
CHECK_DEADLOCK FALSE
INVARIANT ToldDisabledIsDisabled
