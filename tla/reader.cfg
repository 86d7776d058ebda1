SPECIFICATION Spec
CONSTANTS
  MaxByte = 7
  BufferSize = 8
  Packets <- MCPackets
  FlowControlId = 4
  KeepaliveResp <- MCKeepaliveResp
  MaxPackets = 3
  MayReset = TRUE
  CopiesDown = TRUE
\* All packets handled: nothing is left to do.
CHECK_DEADLOCK FALSE
INVARIANTS
  TypeOK
  NoWholePacketKept
  RoomToRead
PROPERTY Implements
