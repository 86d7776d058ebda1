SPECIFICATION Spec
CONSTANTS
  JavaThreads = {j}
  RxThreads = {r}
  Lengths <- MCLengths
  MaxDepth = 5
  j = j
  r = r
INVARIANTS
  TypeOK
  AttachedAsNeeded
  ExceptionsHandled
  SentWhole
  DeliveredWhole
