--------------------------- MODULE MCChardevRadio ---------------------------
(***************************************************************************)
(* Small instances of ChardevRadio for TLC.  Two callers contend for the   *)
(* lock; two identities suffice for the receive threads, because a thread  *)
(* that restarts the radio ends before its successor can.                  *)
(***************************************************************************)
EXTENDS ChardevRadio

CONSTANTS c1, c2, r1, r2
=============================================================================
