SPECIFICATION Spec
CONSTANTS
  Callers = {c1, c2}
  RxThreads = {r1, r2}
  NoThread = NoThread
  Faults = {"silence", "hangup", "read", "eventFd"}
  TransportFaults = {"load", "symbol", "powerOn", "userial", "powerOff"}
  c1 = c1
  c2 = c2
  r1 = r1
  r2 = r2
\* The join cycle is a real deadlock: vfs_join_cycle.cfg.
CHECK_DEADLOCK FALSE
INVARIANTS
  PowerAccounted
  SettledStatus
PROPERTIES
  ImplementsRadio
  PowerOffAfterThread
  LockReleased
