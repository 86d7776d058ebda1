SPECIFICATION Spec
CONSTANTS
  BackEnd = "vfs"
  Callers = {c1, c2}
  RxThreads = {r1, r2}
  NoThread = NoThread
  NumChannels = 2
  Operations = {"enable", "disable", "hardReset"}
  OpenMayFail = TRUE
  CreateMayFail = TRUE
  Faults = {"silence", "hangup", "read"}
  c1 = c1
  c2 = c2
  r1 = r1
  r2 = r2
\* The join cycle is a real deadlock: vfs_join_cycle.cfg.
CHECK_DEADLOCK FALSE
INVARIANTS
  TypeOK
  ChannelsOpenWhileServing
  OneServingThread
  ShutdownAgrees
  FreshKeepalive
  NoAbandonedThread
  QuiescentAgreement
PROPERTIES
  ImplementsSession
  BusyMeansTold
  LockReleased
  ResettingEnds
  CallsReturn
