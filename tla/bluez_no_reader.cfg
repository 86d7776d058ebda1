SPECIFICATION Spec
CONSTANTS
  Builds = {"plain"}
  Callers = {c1}
  RxThreads = {r1}
  NoThread = NoThread
  Operations = {"enable", "disable"}
  Faults = {}
  MaxRetries = 2
  c1 = c1
  c2 = c2
  r1 = r1
  r2 = r2
INVARIANT EnabledHasReader
