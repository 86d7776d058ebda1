--------------------------- MODULE MCChannelReader --------------------------
(***************************************************************************)
(* Small instances of ChannelReader for TLC: bytes up to 7, and packets    *)
(* whose data contains what looks like sizes and identifiers.              *)
(***************************************************************************)
EXTENDS ChannelReader

MCKeepaliveResp == <<2, 3, 0, 5>>

Short     == <<2, 0, 1>>
Longest   == <<7, 5, 1, 3, 2, 0, 4, 6>>
Flow      == <<3, 1, 4, 0>>
Keepalive == <<4>> \o MCKeepaliveResp

MCPackets == {Short, Longest, Flow, Keepalive}
=============================================================================
