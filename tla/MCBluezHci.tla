----------------------------- MODULE MCBluezHci -----------------------------
(***************************************************************************)
(* Small instances of BluezHci for TLC.                                    *)
(***************************************************************************)
EXTENDS BluezHci

CONSTANTS c1, c2, r1, r2
=============================================================================
