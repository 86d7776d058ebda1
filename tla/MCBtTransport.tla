---------------------------- MODULE MCBtTransport ---------------------------
(***************************************************************************)
(* A small instance of BtTransport for TLC: two callers, two receive       *)
(* threads, as in MCChardevRadio.                                          *)
(***************************************************************************)
EXTENDS BtTransport

CONSTANTS c1, c2, r1, r2
=============================================================================
