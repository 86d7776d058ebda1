SPECIFICATION Spec
CONSTANTS
  Builds = {"bluedroid", "plain"}
  Callers = {c1, c2}
  RxThreads = {r1, r2}
  NoThread = NoThread
  Operations = {"enable", "disable", "status", "send"}
  Faults = {"power", "query", "crash", "create", "socket"}
  MaxRetries = 2
  c1 = c1
  c2 = c2
  r1 = r1
  r2 = r2
INVARIANTS
  TypeOK
  ReaderOnRecord
PROPERTIES
  DisableEndsReader
  PowerKept
