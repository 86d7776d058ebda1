---------------------------- MODULE ChannelReader ---------------------------
(***************************************************************************)
(* readChannelMsg: how the receive thread cuts the byte stream of one      *)
(* character device into HCI packets.  A read returns any number of bytes, *)
(* so that several packets, or a part of one, may arrive at once; what is  *)
(* left of an incomplete packet stays in a static buffer for the next      *)
(* call.  A packet is a size byte followed by that many bytes of data (no  *)
(* driver of the repository defines an opcode, sync or checksum).          *)
(*                                                                         *)
(* The receive thread alone runs this code, one read per poll.  The radio  *)
(* may be closed and opened between two reads, whoever does it; the buffer *)
(* is static and nobody clears it.                                         *)
(*                                                                         *)
(* A definition Name_slip is Name with a mistake a maintainer could make;  *)
(* it is no part of Spec.                                                  *)
(***************************************************************************)
EXTENDS Integers, Sequences

CONSTANTS
  MaxByte,       \* largest value of a byte (255 in the code)
  BufferSize,    \* ANT_HCI_MAX_MSG_SIZE (260)
  Packets,       \* what the chip sends
  FlowControlId, \* ANT_MESG_FLOW_CONTROL
  KeepaliveResp, \* KEEPALIVE_RESP
  MaxPackets,    \* bound: packets sent
  MayReset,      \* may the device be closed and opened again?
  CopiesDown     \* may memcpy copy overlapping regions from the end?

Byte == 0 .. MaxByte

\* The buffer takes the largest packet a size byte can announce.
ASSUME SizesAssumption ==
  MaxByte \in Nat /\ BufferSize \in Nat /\ BufferSize > MaxByte

ASSUME BoundsAssumption ==
  MaxPackets \in Nat /\ MayReset \in BOOLEAN /\ CopiesDown \in BOOLEAN

\* The data of a packet is an ANT message: its length, its identifier, ...
IsPacket(p) == Len(p) >= 3 /\ Len(p) = p[1] + 1

ASSUME PacketsAssumption ==
  Packets \subseteq Seq(Byte) /\ \A p \in Packets : IsPacket(p)

\* The chip does not cut its messages: one that announces the length of the
\* answer to a keepalive has as many bytes.
ASSUME KeepaliveAssumption ==
  /\ KeepaliveResp \in Seq(Byte) \ {<<>>}
  /\ \A p \in Packets : p[2] = KeepaliveResp[1] => Len(p) > Len(KeepaliveResp)

VARIABLES
  stream,    \* bytes the driver holds
  buffer,    \* aucRxBuffer, as far as it is valid (iRxBufferLength, iRxLenRead)
  offset,    \* iCurrentHciPacketOffset
  pc,        \* "poll", or "scan" inside the loop over the packets read
  sent,      \* packets sent so far
  inTransit, \* history: packets sent and neither handled nor lost
  handled,   \* history: packets handled and where they went
  torn       \* history: has a kept part of a packet been damaged or orphaned?

vars == <<stream, buffer, offset, pc, sent, inTransit, handled, torn>>

Destination == {"callback", "flow", "keepalive"}
Entry       == [to : Destination, packet : Seq(Byte)]

TypeOK ==
  /\ stream \in Seq(Byte)
  /\ buffer \in Seq(Byte) /\ Len(buffer) <= BufferSize
  /\ offset \in 0 .. BufferSize
  /\ pc \in {"poll", "scan"}
  /\ sent \in 0 .. MaxPackets
  /\ inTransit \in Seq(Packets)
  /\ handled \in Seq(Entry)
  /\ torn \in BOOLEAN

Init ==
  /\ stream = <<>>
  /\ buffer = <<>>
  /\ offset = 0
  /\ pc = "poll"
  /\ sent = 0
  /\ inTransit = <<>>
  /\ handled = <<>>
  /\ torn = FALSE

\* The end of the packet that starts at offset o of b, and whether b has it.
End(b, o)   == o + 1 + b[o + 1]
Whole(b, o) == End(b, o) <= Len(b)

-----------------------------------------------------------------------------
ChipSends ==
  /\ sent < MaxPackets
  /\ sent' = sent + 1
  /\ \E p \in Packets : stream' = stream \o p /\ inTransit' = Append(inTransit, p)
  /\ UNCHANGED <<buffer, offset, pc, handled, torn>>

\* Asks for a buffer full, whatever is in it already.
Read_ignoresLength ==
  /\ pc = "poll"
  /\ \E n \in 1 .. Len(stream) :
        /\ n <= BufferSize
        /\ buffer' = buffer \o SubSeq(stream, 1, n)
        /\ stream' = SubSeq(stream, n + 1, Len(stream))
  /\ offset' = 0
  /\ pc' = IF Whole(buffer', 0) THEN "scan" ELSE "poll"
  /\ UNCHANGED <<sent, inTransit, handled, torn>>

\* Waits for a byte more than the packet has.
Read_waitsForMore ==
  /\ pc = "poll"
  /\ \E n \in 1 .. Len(stream) :
        /\ n <= BufferSize - Len(buffer)
        /\ buffer' = buffer \o SubSeq(stream, 1, n)
        /\ stream' = SubSeq(stream, n + 1, Len(stream))
  /\ offset' = 0
  /\ pc' = IF End(buffer', 0) < Len(buffer') THEN "scan" ELSE "poll"
  /\ UNCHANGED <<sent, inTransit, handled, torn>>

\* Appends to what is left of the last call.  Unless there is a whole packet
\* now, everything is kept and the call ends.
Read ==
  /\ pc = "poll"
  /\ \E n \in 1 .. Len(stream) :
        /\ n <= BufferSize - Len(buffer)
        /\ buffer' = buffer \o SubSeq(stream, 1, n)
        /\ stream' = SubSeq(stream, n + 1, Len(stream))
  /\ offset' = 0
  /\ pc' = IF Whole(buffer', 0) THEN "scan" ELSE "poll"
  /\ UNCHANGED <<sent, inTransit, handled, torn>>

\* The identifier and the bytes compared with KEEPALIVE_RESP are looked up
\* without regard to the size; those beyond the valid bytes may be anything.
MayMatch(i, b) == i > Len(buffer) \/ buffer[i] = b
MayDiffer(i, b) == i > Len(buffer) \/ buffer[i] # b

MayBeFlow  == MayMatch(offset + 3, FlowControlId)
MayBeOther == MayDiffer(offset + 3, FlowControlId)
MayBeKeepalive == \A k \in DOMAIN KeepaliveResp : MayMatch(offset + 1 + k, KeepaliveResp[k])
MayBeMessage   == \E k \in DOMAIN KeepaliveResp : MayDiffer(offset + 1 + k, KeepaliveResp[k])

Destinations ==
  {to \in Destination :
     \/ to = "flow" /\ MayBeFlow
     \/ to = "keepalive" /\ MayBeOther /\ MayBeKeepalive
     \/ to = "callback" /\ MayBeOther /\ MayBeMessage}

AtPacket == pc = "scan" /\ offset < Len(buffer)

\* Forgets the header when it moves on.
HandlePacket_skipsHeader ==
  /\ AtPacket /\ Whole(buffer, offset)
  /\ \E to \in Destinations :
        handled' = Append(handled,
          [to |-> to, packet |-> SubSeq(buffer, offset + 1, End(buffer, offset))])
  /\ offset' = End(buffer, offset) - 1
  /\ inTransit' = IF inTransit = <<>> THEN <<>> ELSE Tail(inTransit)
  /\ UNCHANGED <<stream, buffer, pc, sent, torn>>

\* A whole packet: to setFlowControl, to the callback, or filtered out.
HandlePacket ==
  /\ AtPacket /\ Whole(buffer, offset)
  /\ \E to \in Destinations :
        handled' = Append(handled,
          [to |-> to, packet |-> SubSeq(buffer, offset + 1, End(buffer, offset))])
  /\ offset' = End(buffer, offset)
  /\ inTransit' = IF inTransit = <<>> THEN <<>> ELSE Tail(inTransit)
  /\ UNCHANGED <<stream, buffer, pc, sent, torn>>

\* What a copy of overlapping regions may leave of s, moved d places to the
\* front: s itself or, copied from the end, its last bytes over and over, the
\* target having overwritten what was still to be copied.
Moved(s, d) ==
  {s} \cup IF CopiesDown
           THEN {[i \in 1 .. Len(s) |-> s[i + ((Len(s) - i) \div d) * d]]}
           ELSE {}

\* Keeps the rest where it is.
KeepRest_inPlace ==
  /\ AtPacket /\ ~Whole(buffer, offset)
  /\ offset' = 0
  /\ pc' = "poll"
  /\ UNCHANGED <<stream, buffer, sent, inTransit, handled, torn>>

\* The rest of the data is not a whole packet: it is kept for the next call.
KeepRest ==
  /\ AtPacket /\ ~Whole(buffer, offset)
  /\ LET rest == SubSeq(buffer, offset + 1, Len(buffer))
     IN  /\ buffer' \in Moved(rest, offset)
         /\ torn' = (torn \/ buffer' # rest)
  /\ offset' = 0
  /\ pc' = "poll"
  /\ UNCHANGED <<stream, sent, inTransit, handled>>

\* All packets handled: the buffer is empty.
ScanDone ==
  /\ pc = "scan" /\ offset >= Len(buffer)
  /\ buffer' = <<>>
  /\ offset' = 0
  /\ pc' = "poll"
  /\ UNCHANGED <<stream, sent, inTransit, handled, torn>>

\* ant_disable and ant_enable, called by doReset or the application: the
\* driver's bytes are gone, those in the buffer stay.
RadioResets ==
  /\ MayReset /\ pc = "poll"
  /\ stream' = <<>>
  /\ inTransit' = <<>>
  /\ torn' = (torn \/ buffer # <<>>)
  /\ UNCHANGED <<buffer, offset, pc, sent, handled>>

RxStep == Read \/ HandlePacket \/ KeepRest \/ ScanDone

Next == RxStep \/ ChipSends \/ RadioResets

\* poll() returns while the driver holds bytes.
Spec == Init /\ [][Next]_vars /\ WF_vars(RxStep)
-----------------------------------------------------------------------------
(* Properties.                                                             *)

Route(p) ==
  IF p[3] = FlowControlId THEN "flow"
  ELSE IF \A k \in DOMAIN KeepaliveResp : k < Len(p) /\ p[k + 1] = KeepaliveResp[k]
       THEN "keepalive"
       ELSE "callback"

Pipe == INSTANCE PacketPipe

\* However reads cut the stream, the chip's packets come out once, whole and
\* in order, and none waits for ever, as long as none is torn.
Implements == Pipe!Spec

\* A packet that has arrived whole does not wait for more bytes to come.
NoWholePacketKept == pc = "poll" /\ ~torn /\ buffer # <<>> => ~Whole(buffer, 0)

\* There is always room for another read, whatever a torn packet announces:
\* read() is never asked for nothing, whose answer looks like the end of file.
RoomToRead == pc = "poll" => Len(buffer) < BufferSize

-----------------------------------------------------------------------------
(* The inductive invariant.                                                *)

\* The loop stays inside the bytes read, and starts at a whole packet.
ScanInv ==
  pc = "scan" => /\ offset <= Len(buffer)
                 /\ offset = 0 => buffer # <<>> /\ Whole(buffer, 0)

IInv == TypeOK /\ ScanInv /\ NoWholePacketKept /\ RoomToRead

-----------------------------------------------------------------------------
(* An expectation stated beside the code that its runs do not meet.        *)

\* doReset: "Chip was reset or other error, only way to recover is to close
\* and open ANT chardev".  After that, what is handled is what the chip sends.
OnlyPacketsHandled == \A i \in DOMAIN handled : handled[i].packet \in Packets
=============================================================================
