SPECIFICATION Spec
CONSTANTS
  MaxByte = 7
  BufferSize = 8
  Packets <- MCPackets
  FlowControlId = 4
  KeepaliveResp <- MCKeepaliveResp
  MaxPackets = 2
  MayReset = TRUE
  CopiesDown = FALSE
\* All packets handled: nothing is left to do.
CHECK_DEADLOCK FALSE
INVARIANT OnlyPacketsHandled
