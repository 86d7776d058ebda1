SPECIFICATION Spec
CONSTANTS
  Builds = {"bluedroid", "plain"}
  Callers = {c1, c2}
  RxThreads = {r1}
  NoThread = NoThread
  Operations = {"disable", "send", "enable"}
  Faults = {"power", "crash", "write", "answer", "poll"}
  MaxRetries = 3
  c1 = c1
  c2 = c2
  r1 = r1
  r2 = r2
INVARIANT DisableSuccess
PROPERTY CallsReturn
