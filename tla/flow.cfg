SPECIFICATION Spec
CONSTANTS
  Senders = {s1, s2}
  NoThread = NoThread
  MaxSends = 2
  s1 = s1
  s2 = s2
\* All messages sent: nothing is left to do.
CHECK_DEADLOCK FALSE
INVARIANTS
  TypeOK
  NoLostWakeup
  NoFalseTimeout
PROPERTIES
  SuccessMeansGranted
  SendsReturn
  RxReturns
