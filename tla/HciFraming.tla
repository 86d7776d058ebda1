---------------------------- MODULE HciFraming ------------------------------
(***************************************************************************)
(* How an ANT message is wrapped on its way to the chip and unwrapped on   *)
(* its way back, byte by byte where a byte's width matters: the header the *)
(* character-device back-ends put before a message ("vfs", "bt"), and the  *)
(* vendor commands and vendor events of HCI for the two chips the BlueZ    *)
(* back-end is built for ("WL12XX", "BCM433X").                            *)
(*                                                                         *)
(* A payload is represented by its length.                                 *)
(***************************************************************************)
EXTENDS Integers, Sequences

Builds == {"vfs", "bt", "WL12XX", "BCM433X"}
Chardev == {"vfs", "bt"}

ANT_U8(n) == n % 2^8

-----------------------------------------------------------------------------
(* ant_utils.c, on a sequence of bytes and the position of the number.     *)

ANT_UTILS_LEtoHost16(num, i) == num[i + 1] * 2^8 + num[i]
ANT_UTILS_StoreLE16(value) == <<ANT_U8(value), ANT_U8(value \div 2^8)>>

-----------------------------------------------------------------------------
(* To the chip: what is written is a header, and of header and payload     *)
(* together as many bytes as "written" says.                               *)

\* ant_tx_message stores the length of the whole in a byte, txMessageLength;
\* bt puts before it whether it is data or a command.
HCI_PACKET_TYPE_SIZE(build) == IF build = "bt" THEN 1 ELSE 0

ANT_CMD_TYPE_PACKET  == 12
ANT_DATA_TYPE_PACKET == 14
PacketTypes == {ANT_CMD_TYPE_PACKET, ANT_DATA_TYPE_PACKET}

TxFrame(build, type, ucLen) ==
  [header  |-> IF build = "bt" THEN <<type, ucLen>> ELSE <<ucLen>>,
   written |-> ANT_U8(HCI_PACKET_TYPE_SIZE(build) + ucLen + 1)]

\* Constants of ant_framing.h for either chip.
ANT_COMMAND_OPCODE(build) == IF build = "WL12XX" THEN 64977 ELSE 64748
ANT_EVENT_VENDOR_CODE(build) == IF build = "WL12XX" THEN 1280 ELSE 45
HCI_COMMAND_VENDOR_HDR_SIZE(build) == IF build = "WL12XX" THEN 2 ELSE 1
HCI_EVENT_VENDOR_HDR_SIZE(build) == IF build = "WL12XX" THEN 4 ELSE 2
COMMAND_ID_PADDING == 255

HCI_COMMAND_PKT == 1
HCI_EVENT_PKT == 4
EVT_VENDOR == 255

\* Announces the message alone, without the vendor header.
create_command_header_short(build, ant_message_len) ==
  <<HCI_COMMAND_PKT>> \o ANT_UTILS_StoreLE16(ANT_COMMAND_OPCODE(build))
    \o <<ANT_U8(ant_message_len)>>
    \o IF build = "WL12XX" THEN ANT_UTILS_StoreLE16(ant_message_len)
                           ELSE <<COMMAND_ID_PADDING>>

create_command_header(build, ant_message_len) ==
  <<HCI_COMMAND_PKT>> \o ANT_UTILS_StoreLE16(ANT_COMMAND_OPCODE(build))
    \o <<ANT_U8(ant_message_len + HCI_COMMAND_VENDOR_HDR_SIZE(build))>>
    \o IF build = "WL12XX" THEN ANT_UTILS_StoreLE16(ant_message_len)
                           ELSE <<COMMAND_ID_PADDING>>

\* write_data gathers header and message with writev.
HciCommand(build, ant_message_len) ==
  LET header == create_command_header(build, ant_message_len)
  IN  [header |-> header, written |-> Len(header) + ant_message_len]

\* Only bt lets the chip see the type.
Written(build, type, ucLen) ==
  IF build \in Chardev THEN TxFrame(build, type, ucLen) ELSE HciCommand(build, ucLen)

\* External: the length of the message the chip finds, or -1 if what it gets is
\* not what the header announces.
ChipReads(build, w) ==
  LET size == IF build \in Chardev THEN w.header[Len(w.header)]
              ELSE w.header[4] - HCI_COMMAND_VENDOR_HDR_SIZE(build)
  IN  IF /\ w.written = Len(w.header) + size
         /\ build = "WL12XX" => ANT_UTILS_LEtoHost16(w.header, 5) = size
      THEN size ELSE -1

-----------------------------------------------------------------------------
(* From the chip, BlueZ: the header of an event and the length of the      *)
(* payload behind it.                                                      *)

HCI_EVENT_HEADER_OVERHEAD == 3
HCI_EVENT_TOTAL_OVERHEAD(build) ==
  HCI_EVENT_HEADER_OVERHEAD + HCI_EVENT_VENDOR_HDR_SIZE(build)

validate_hci_event_vendor(build, packet, packet_len) ==
  IF build = "WL12XX"
  THEN /\ ANT_UTILS_LEtoHost16(packet.header, 4) = ANT_EVENT_VENDOR_CODE(build)
       /\ packet_len = ANT_UTILS_LEtoHost16(packet.header, 6)
                         + HCI_EVENT_TOTAL_OVERHEAD(build)
  ELSE packet.header[4] = ANT_EVENT_VENDOR_CODE(build)

\* Leaves the vendor header to be taken for payload.
validate_hci_event_packet_long(build, packet) ==
  LET packet_len == Len(packet.header) + packet.payload
  IN  IF /\ packet_len >= HCI_EVENT_TOTAL_OVERHEAD(build)
         /\ packet.header[1] = HCI_EVENT_PKT
         /\ packet.header[2] = EVT_VENDOR
         /\ packet_len = packet.header[3] + HCI_EVENT_HEADER_OVERHEAD
         /\ validate_hci_event_vendor(build, packet, packet_len)
      THEN packet_len - HCI_EVENT_HEADER_OVERHEAD ELSE -1

\* The length of the payload, or -1.
validate_hci_event_packet(build, packet) ==
  LET packet_len == Len(packet.header) + packet.payload
  IN  IF /\ packet_len >= HCI_EVENT_TOTAL_OVERHEAD(build)
         /\ packet.header[1] = HCI_EVENT_PKT
         /\ packet.header[2] = EVT_VENDOR
         /\ packet_len = packet.header[3] + HCI_EVENT_HEADER_OVERHEAD
         /\ validate_hci_event_vendor(build, packet, packet_len)
      THEN packet_len - HCI_EVENT_TOTAL_OVERHEAD(build) ELSE -1

\* External: the event in which a chip sends a message of n bytes.
ChipEvent(build, n) ==
  LET vendor == IF build = "WL12XX"
                THEN ANT_UTILS_StoreLE16(ANT_EVENT_VENDOR_CODE(build)) \o ANT_UTILS_StoreLE16(n)
                ELSE <<ANT_EVENT_VENDOR_CODE(build), 0>>
  IN  [header  |-> <<HCI_EVENT_PKT, EVT_VENDOR, Len(vendor) + n>> \o vendor,
       payload |-> n]

\* The largest messages that fit: one byte announces the whole of the frame, in
\* bt with the packet's type, in HCI with the vendor header.
LargestTx(build) == 255 - IF build \in Chardev THEN HCI_PACKET_TYPE_SIZE(build) + 1
                          ELSE HCI_COMMAND_VENDOR_HDR_SIZE(build)
LargestRx(build) == 255 - IF build \in Chardev THEN 0 ELSE HCI_EVENT_VENDOR_HDR_SIZE(build)
=============================================================================
